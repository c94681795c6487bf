------------------------- MODULE MessageLaneTheorems -------------------------
(***************************************************************************)
(* The safety of a message lane, proved for any number of messages and     *)
(* relayers, limits of any size and light clients that keep any number of  *)
(* headers.                                                                *)
(***************************************************************************)
EXTENDS MessageLane, LaneTheorems

\* The proved source states, as a set.
SourceStates ==
  [lane : OutboundLaneData,
   messages : UNION {[D -> Payloads] : D \in SUBSET Nat}]

\* The inductive invariant.  The safety properties alone are not inductive:
\* what a delivery or a confirmation does depends on the header it is proved
\* against, so the invariant also says what the kept headers may contain.
Inv ==
  /\ TypeOK
  /\ source_headers \in Seq(SourceStates)
  /\ target_headers \in Seq(InboundLaneData)
  /\ ExactlyOnceInOrder
  /\ CountersOrdered
  /\ UnrewardedRelayersExact
  /\ StoredUntilConfirmed
  /\ HeadersProveThePast

\* A lane that was just opened satisfies the invariant.
LEMMA InitInv == Init => Inv
<1> SUFFICES ASSUME Init PROVE Inv OBVIOUS
<1> USE LaneAssumption DEF Init
<1>1. /\ inbound.relayers = << >> /\ inbound.last_confirmed_nonce = 0
      /\ last_delivered_nonce(inbound) = 0
      /\ inbound \in InboundLaneData
  BY DEF OpenedInbound, InboundLaneData, last_delivered_nonce
<1>2. /\ outbound \in OutboundLaneData /\ outbound.oldest_unpruned_nonce = 1
      /\ outbound.latest_received_nonce = 0 /\ outbound.latest_generated_nonce = 0
  BY DEF OpenedOutbound, OutboundLaneData, LaneStates
<1>3. messages \in [{} -> Payloads] /\ DOMAIN messages = {}
  OBVIOUS
<1>4. /\ SourceState \in SourceStates
      /\ SourceState.lane = outbound /\ SourceState.messages = messages
  BY <1>2, <1>3 DEF SourceState, SourceStates
<1>5. /\ source_headers \in Seq(SourceStates) /\ Len(source_headers) = 1
      /\ source_headers[1] = SourceState
      /\ target_headers \in Seq(InboundLaneData) /\ Len(target_headers) = 1
      /\ target_headers[1] = inbound
  BY <1>1, <1>4
<1>6. TypeOK
  <2>1. IsSourceState(SourceState)
    BY <1>2, <1>3, <1>4 DEF IsSourceState, SourceState
  <2>2. mode \in [Chains -> OperatingModes] OBVIOUS
  <2>3. sent \in Seq(Payloads) /\ dispatched \in Seq(DispatchedMessage) OBVIOUS
  <2> QED BY <1>1, <1>2, <1>3, <1>5, <2>1, <2>2, <2>3 DEF TypeOK
<1>7. WellFormed(inbound)
  BY <1>1 DEF WellFormed, Covers, Ordered
<1>8. UnrewardedRelayersExact
  BY <1>1, <1>7, LimitsAssumption DEF UnrewardedRelayersExact, Attributed
<1>9. ExactlyOnceInOrder BY <1>1 DEF ExactlyOnceInOrder
<1>10. CountersOrdered BY <1>1, <1>2 DEF CountersOrdered
<1>11. StoredUntilConfirmed
  BY <1>2, <1>3 DEF StoredUntilConfirmed, undelivered_messages
<1>12. HeadersProveThePast
  BY <1>1, <1>2, <1>3, <1>4, <1>5, <1>7 DEF HeadersProveThePast
<1> QED BY <1>5, <1>6, <1>8, <1>9, <1>10, <1>11, <1>12 DEF Inv

\* The counters the invariant relates are naturals.
LEMMA Typing ==
  ASSUME Inv
  PROVE  /\ outbound.oldest_unpruned_nonce \in Nat
         /\ outbound.latest_received_nonce \in Nat
         /\ outbound.latest_generated_nonce \in Nat
         /\ inbound.last_confirmed_nonce \in Nat
         /\ last_delivered_nonce(inbound) \in Nat
         /\ WellFormed(inbound)
         /\ sent \in Seq(Payloads) /\ Len(sent) \in Nat
         /\ dispatched \in Seq(DispatchedMessage) /\ Len(dispatched) \in Nat
         /\ Len(source_headers) \in Nat /\ Len(target_headers) \in Nat
<1>1. WellFormed(inbound) BY DEF Inv, UnrewardedRelayersExact
<1>2. inbound.last_confirmed_nonce \in Nat /\ last_delivered_nonce(inbound) \in Nat
  BY <1>1, WellFormedBounds
<1> QED BY <1>1, <1>2 DEF Inv, TypeOK, OutboundLaneData

\* Sending stores one more message under the next nonce.
LEMMA SendInv ==
  ASSUME Inv, NEW payload \in Payloads, SendMessage(payload)
  PROVE  Inv'
<1> DEFINE n == outbound.latest_generated_nonce + 1
<1>1. /\ outbound.oldest_unpruned_nonce \in Nat
      /\ outbound.latest_received_nonce \in Nat
      /\ outbound.latest_generated_nonce \in Nat
      /\ last_delivered_nonce(inbound) \in Nat
      /\ sent \in Seq(Payloads) /\ Len(sent) \in Nat
      /\ n \in Nat /\ outbound.latest_generated_nonce < n
  BY Typing
<1>2. /\ outbound' = [outbound EXCEPT !.latest_generated_nonce = n]
      /\ sent' = Append(sent, payload)
      /\ UNCHANGED << inbound, source_headers, target_headers, mode, is_active,
                      dispatched >>
  BY DEF SendMessage, send_message
<1>3. /\ outbound' \in OutboundLaneData
      /\ outbound'.oldest_unpruned_nonce = outbound.oldest_unpruned_nonce
      /\ outbound'.latest_received_nonce = outbound.latest_received_nonce
      /\ outbound'.latest_generated_nonce = n
  BY <1>1, <1>2 DEF Inv, TypeOK, OutboundLaneData
<1>4. messages' = [i \in DOMAIN messages \cup {n} |->
                     IF i = n THEN payload ELSE messages[i]]
  BY <1>3 DEF SendMessage, save_message
<1>5. /\ sent' \in Seq(Payloads) /\ Len(sent') = Len(sent) + 1
      /\ \A i \in 1 .. Len(sent) : sent'[i] = sent[i]
      /\ sent'[Len(sent) + 1] = payload
  BY <1>1, <1>2
<1>6. /\ outbound.latest_generated_nonce = Len(sent)
      /\ outbound.oldest_unpruned_nonce = outbound.latest_received_nonce + 1
      /\ DOMAIN messages = (outbound.latest_received_nonce + 1) .. Len(sent)
      /\ \A i \in DOMAIN messages : messages[i] = sent[i]
      /\ outbound.latest_received_nonce <= last_delivered_nonce(inbound)
      /\ last_delivered_nonce(inbound) <= outbound.latest_generated_nonce
      /\ inbound.last_confirmed_nonce <= outbound.latest_received_nonce
      /\ Len(dispatched) = last_delivered_nonce(inbound)
  BY DEF Inv, StoredUntilConfirmed, undelivered_messages, CountersOrdered,
         ExactlyOnceInOrder
<1> HIDE DEF n
<1>7. n = Len(sent) + 1 BY <1>6 DEF n
<1>8. /\ messages' \in [DOMAIN messages' -> Payloads]
      /\ DOMAIN messages' = DOMAIN messages \cup {n}
      /\ \A i \in DOMAIN messages : messages[i] \in Payloads
  BY <1>4 DEF Inv, TypeOK
<1>9. TypeOK'
  BY <1>1, <1>2, <1>3, <1>5, <1>8 DEF Inv, TypeOK, IsSourceState
<1>10. StoredUntilConfirmed'
  <2>1. DOMAIN messages' = undelivered_messages(outbound')
    BY <1>1, <1>3, <1>6, <1>7, <1>8 DEF undelivered_messages
  <2>2. \A i \in DOMAIN messages' : messages'[i] = sent'[i]
    <3> TAKE i \in DOMAIN messages'
    <3>1. CASE i = n BY <1>4, <1>5, <1>7, <1>8, <3>1
    <3>2. CASE i \in DOMAIN messages /\ i # n
      <4>1. i \in 1 .. Len(sent) BY <1>1, <1>6, <3>2
      <4> QED BY <1>4, <1>5, <1>6, <3>2, <4>1
    <3> QED BY <1>8, <3>1, <3>2
  <2> QED BY <1>3, <1>5, <1>6, <1>7, <2>1, <2>2 DEF StoredUntilConfirmed
<1>11. ExactlyOnceInOrder'
  <2>1. \A i \in 1 .. Len(dispatched) : i \in 1 .. Len(sent)
    BY <1>1, <1>6
  <2> QED BY <1>1, <1>2, <1>5, <1>6, <2>1 DEF Inv, ExactlyOnceInOrder
<1>12. CountersOrdered'
  BY <1>1, <1>2, <1>3, <1>6 DEF CountersOrdered
<1>13. HeadersProveThePast'
  <2>1. ASSUME NEW i \in 1 .. Len(source_headers)
        PROVE  /\ DOMAIN source_headers[i].messages \subseteq 1 .. (Len(sent) + 1)
               /\ \A k \in DOMAIN source_headers[i].messages :
                    source_headers[i].messages[k] = sent'[k]
    <3>1. /\ DOMAIN source_headers[i].messages \subseteq 1 .. Len(sent)
          /\ \A k \in DOMAIN source_headers[i].messages :
               source_headers[i].messages[k] = sent[k]
      BY DEF Inv, HeadersProveThePast
    <3> QED BY <1>1, <1>5, <3>1
  <2> QED BY <1>2, <1>3, <1>5, <2>1 DEF Inv, HeadersProveThePast
<1>14. UnrewardedRelayersExact' BY <1>2 DEF Inv, UnrewardedRelayersExact
<1>15. (source_headers \in Seq(SourceStates) /\ target_headers \in Seq(InboundLaneData))'
  BY <1>2 DEF Inv
<1> QED BY <1>9, <1>10, <1>11, <1>12, <1>13, <1>14, <1>15 DEF Inv

\* The ring buffer of headers keeps its bound, and holds the new header and
\* headers it held before.
LEMMA InsertHeader ==
  ASSUME NEW S, NEW headers \in Seq(S), Len(headers) \in 1 .. HeadersToKeep,
         NEW header \in S
  PROVE  LET new == insert_header(headers, header)
         IN  /\ new \in Seq(S)
             /\ Len(new) \in 1 .. HeadersToKeep
             /\ \A i \in 1 .. Len(new) :
                  \/ new[i] = header
                  \/ \E j \in 1 .. Len(headers) : new[i] = headers[j]
<1> DEFINE new == insert_header(headers, header)
<1>1. HeadersToKeep \in Nat \ {0} BY LaneAssumption
<1>2. CASE Len(headers) < HeadersToKeep
  <2>1. new = Append(headers, header) BY <1>2 DEF insert_header
  <2>2. /\ new \in Seq(S) /\ Len(new) = Len(headers) + 1
        /\ \A i \in 1 .. Len(headers) : new[i] = headers[i]
        /\ new[Len(headers) + 1] = header
    BY <2>1
  <2> HIDE DEF new
  <2> QED BY <1>1, <1>2, <2>2 DEF new
<1>3. CASE ~ (Len(headers) < HeadersToKeep)
  <2> DEFINE t == Tail(headers)
  <2>1. new = Append(t, header) BY <1>3 DEF insert_header
  <2>2. /\ t \in Seq(S) /\ Len(t) = Len(headers) - 1
        /\ \A i \in 1 .. Len(t) : t[i] = headers[i + 1]
    <3>1. headers # << >> OBVIOUS
    <3> QED BY <3>1
  <2> HIDE DEF t
  <2>3. /\ new \in Seq(S) /\ Len(new) = Len(t) + 1
        /\ \A i \in 1 .. Len(t) : new[i] = t[i]
        /\ new[Len(t) + 1] = header
    BY <2>1, <2>2
  <2> HIDE DEF new
  <2>4. Len(new) = Len(headers) BY <2>2, <2>3
  <2>5. \A i \in 1 .. Len(new) : \/ new[i] = header
                                 \/ i \in 1 .. Len(t) /\ new[i] = headers[i + 1]
    BY <2>2, <2>3
  <2>6. \A i \in 1 .. Len(t) : i + 1 \in 1 .. Len(headers) BY <2>2
  <2>7. \A i \in 1 .. Len(new) : \/ new[i] = header
                                 \/ \E j \in 1 .. Len(headers) : new[i] = headers[j]
    BY <2>5, <2>6
  <2> QED BY <2>3, <2>4, <2>7 DEF new
<1> QED BY <1>2, <1>3

\* A new source header proves the present, which stays true.
LEMMA ImportSourceInv ==
  ASSUME Inv, ImportSourceHeader
  PROVE  Inv'
<1>1. /\ source_headers' = insert_header(source_headers, SourceState)
      /\ UNCHANGED << outbound, messages, inbound, target_headers, mode,
                      is_active, sent, dispatched >>
  BY DEF ImportSourceHeader
<1>2. /\ SourceState \in SourceStates /\ IsSourceState(SourceState)
      /\ SourceState.lane = outbound /\ SourceState.messages = messages
  BY DEF Inv, TypeOK, SourceState, SourceStates, IsSourceState
<1>3. /\ source_headers' \in Seq(SourceStates)
      /\ Len(source_headers') \in 1 .. HeadersToKeep
      /\ \A i \in 1 .. Len(source_headers') :
           \/ source_headers'[i] = SourceState
           \/ \E j \in 1 .. Len(source_headers) : source_headers'[i] = source_headers[j]
  <2>1. source_headers \in Seq(SourceStates) /\ Len(source_headers) \in 1 .. HeadersToKeep
    BY DEF Inv, TypeOK
  <2>2. SourceState \in SourceStates BY <1>2
  <2> DEFINE new == insert_header(source_headers, SourceState)
  <2>3. /\ new \in Seq(SourceStates) /\ Len(new) \in 1 .. HeadersToKeep
        /\ \A i \in 1 .. Len(new) :
             \/ new[i] = SourceState
             \/ \E j \in 1 .. Len(source_headers) : new[i] = source_headers[j]
    BY <2>1, <2>2, InsertHeader
  <2>4. source_headers' = new BY <1>1
  <2> HIDE DEF new
  <2> QED BY <2>3, <2>4
<1>4. TypeOK'
  <2>1. \A i \in 1 .. Len(source_headers') : IsSourceState(source_headers'[i])
    BY <1>2, <1>3 DEF Inv, TypeOK
  <2> QED BY <1>1, <1>3, <2>1 DEF Inv, TypeOK, IsSourceState
<1>5. HeadersProveThePast'
  <2>1. /\ outbound.latest_received_nonce <= outbound.latest_received_nonce
        /\ DOMAIN messages \subseteq 1 .. Len(sent)
        /\ \A n \in DOMAIN messages : messages[n] = sent[n]
    BY Typing DEF Inv, StoredUntilConfirmed, undelivered_messages
  <2>2. \A i \in 1 .. Len(source_headers') :
          /\ source_headers'[i].lane.latest_received_nonce
               <= outbound.latest_received_nonce
          /\ DOMAIN source_headers'[i].messages \subseteq 1 .. Len(sent)
          /\ \A n \in DOMAIN source_headers'[i].messages :
               source_headers'[i].messages[n] = sent[n]
    BY <1>2, <1>3, <2>1 DEF Inv, HeadersProveThePast
  <2> QED BY <1>1, <2>2 DEF Inv, HeadersProveThePast
<1> QED
  BY <1>1, <1>3, <1>4, <1>5
  DEF Inv, ExactlyOnceInOrder, CountersOrdered, UnrewardedRelayersExact,
      StoredUntilConfirmed

\* A new target header proves the present, which stays true.
LEMMA ImportTargetInv ==
  ASSUME Inv, ImportTargetHeader
  PROVE  Inv'
<1>1. /\ target_headers' = insert_header(target_headers, inbound)
      /\ UNCHANGED << outbound, messages, inbound, source_headers, mode,
                      is_active, sent, dispatched >>
  BY DEF ImportTargetHeader
<1>2. /\ target_headers' \in Seq(InboundLaneData)
      /\ Len(target_headers') \in 1 .. HeadersToKeep
      /\ \A i \in 1 .. Len(target_headers') :
           \/ target_headers'[i] = inbound
           \/ \E j \in 1 .. Len(target_headers) : target_headers'[i] = target_headers[j]
  <2>1. /\ target_headers \in Seq(InboundLaneData) /\ inbound \in InboundLaneData
        /\ Len(target_headers) \in 1 .. HeadersToKeep
    BY DEF Inv, TypeOK
  <2> DEFINE new == insert_header(target_headers, inbound)
  <2>2. /\ new \in Seq(InboundLaneData) /\ Len(new) \in 1 .. HeadersToKeep
        /\ \A i \in 1 .. Len(new) :
             \/ new[i] = inbound
             \/ \E j \in 1 .. Len(target_headers) : new[i] = target_headers[j]
    BY <2>1, InsertHeader
  <2>3. target_headers' = new BY <1>1
  <2> HIDE DEF new
  <2> QED BY <2>2, <2>3
<1>3. TypeOK'
  <2>1. \A i \in 1 .. Len(target_headers') : target_headers'[i] \in InboundLaneData
    BY <1>2
  <2> QED BY <1>1, <1>2, <2>1 DEF Inv, TypeOK, IsSourceState
<1>4. HeadersProveThePast'
  <2>1. /\ WellFormed(inbound)
        /\ inbound.last_confirmed_nonce <= outbound.latest_received_nonce
        /\ last_delivered_nonce(inbound) <= last_delivered_nonce(inbound)
    BY Typing DEF Inv, CountersOrdered
  <2>2. \A i \in 1 .. Len(target_headers') :
          /\ WellFormed(target_headers'[i])
          /\ target_headers'[i].last_confirmed_nonce <= outbound.latest_received_nonce
          /\ last_delivered_nonce(target_headers'[i]) <= last_delivered_nonce(inbound)
    BY <1>2, <2>1 DEF Inv, HeadersProveThePast
  <2> QED BY <1>1, <2>2 DEF Inv, HeadersProveThePast
<1> QED
  BY <1>1, <1>2, <1>3, <1>4
  DEF Inv, ExactlyOnceInOrder, CountersOrdered, UnrewardedRelayersExact,
      StoredUntilConfirmed

\* A confirmation removes exactly the messages it confirms, all of which the
\* target has delivered.
LEMMA ConfirmInv ==
  ASSUME Inv, NEW k \in 1 .. Len(target_headers),
         ReceiveMessagesDeliveryProof(target_headers[k])
  PROVE  Inv'
<1> DEFINE h == target_headers[k]
<1> DEFINE end == last_delivered_nonce(h)
<1>1. /\ outbound.latest_received_nonce \in Nat
      /\ outbound.latest_generated_nonce \in Nat
      /\ inbound.last_confirmed_nonce \in Nat
      /\ last_delivered_nonce(inbound) \in Nat
      /\ Len(sent) \in Nat
  BY Typing
<1>2. /\ WellFormed(h)
      /\ end \in Nat
      /\ end <= last_delivered_nonce(inbound)
  <2>1. WellFormed(h) /\ end <= last_delivered_nonce(inbound)
    BY DEF Inv, HeadersProveThePast
  <2> QED BY <2>1, WellFormedBounds
<1>3. /\ messages' = remove_messages(messages, confirmed_messages(outbound, end))
      /\ outbound' = confirm_delivery(outbound, end)
      /\ UNCHANGED << inbound, source_headers, target_headers, mode, is_active,
                      sent, dispatched >>
  BY DEF ReceiveMessagesDeliveryProof
<1>4. outbound.latest_received_nonce < end /\ end <= outbound.latest_generated_nonce
  <2>1. confirm_delivery_result(outbound, total_unrewarded_messages(h), end, h.relayers)
          = "Confirmed"
    BY DEF ReceiveMessagesDeliveryProof, confirmation_result
  <2> HIDE DEF h, end
  <2> QED BY <1>1, <1>2, <2>1 DEF confirm_delivery_result
<1> HIDE DEF h, end
<1>5. /\ outbound' \in OutboundLaneData
      /\ outbound'.latest_received_nonce = end
      /\ outbound'.oldest_unpruned_nonce = end + 1
      /\ outbound'.latest_generated_nonce = outbound.latest_generated_nonce
  <2>1. outbound \in OutboundLaneData BY DEF Inv, TypeOK
  <2>2. outbound' = [outbound EXCEPT !.latest_received_nonce = end,
                                    !.oldest_unpruned_nonce = end + 1]
    BY <1>3 DEF confirm_delivery
  <2>3. end \in Nat /\ end + 1 \in Nat BY <1>2
  <2> QED BY <2>1, <2>2, <2>3 DEF OutboundLaneData
<1>6. /\ DOMAIN messages = (outbound.latest_received_nonce + 1) .. outbound.latest_generated_nonce
      /\ outbound.latest_generated_nonce = Len(sent)
      /\ \A n \in DOMAIN messages : messages[n] = sent[n] /\ messages[n] \in Payloads
  BY DEF Inv, TypeOK, StoredUntilConfirmed, undelivered_messages
<1>7. /\ DOMAIN messages' = (end + 1) .. outbound.latest_generated_nonce
      /\ \A n \in DOMAIN messages' : n \in DOMAIN messages /\ messages'[n] = messages[n]
      /\ messages' = [n \in DOMAIN messages' |-> messages'[n]]
  <2>1. DOMAIN messages \ confirmed_messages(outbound, end)
          = (end + 1) .. outbound.latest_generated_nonce
    BY <1>1, <1>2, <1>4, <1>6 DEF confirmed_messages
  <2> QED BY <1>3, <2>1 DEF remove_messages
<1>8. messages' \in [DOMAIN messages' -> Payloads] /\ DOMAIN messages' \subseteq Nat
  BY <1>1, <1>2, <1>6, <1>7
<1>9. TypeOK'
  BY <1>3, <1>5, <1>8 DEF Inv, TypeOK, IsSourceState
<1>10. StoredUntilConfirmed'
  BY <1>3, <1>5, <1>6, <1>7 DEF StoredUntilConfirmed, undelivered_messages
<1>11. CountersOrdered'
  BY <1>1, <1>2, <1>3, <1>4, <1>5 DEF Inv, CountersOrdered
<1>12. HeadersProveThePast'
  <2>1. \A i \in 1 .. Len(source_headers) :
           source_headers[i].lane.latest_received_nonce <= end
    <3> TAKE i \in 1 .. Len(source_headers)
    <3>1. source_headers[i].lane.latest_received_nonce \in Nat
      BY DEF Inv, TypeOK, IsSourceState, OutboundLaneData
    <3>2. source_headers[i].lane.latest_received_nonce <= outbound.latest_received_nonce
      BY DEF Inv, HeadersProveThePast
    <3> QED BY <1>1, <1>2, <1>4, <3>1, <3>2
  <2>2. \A i \in 1 .. Len(target_headers) :
           target_headers[i].last_confirmed_nonce <= end
    <3> TAKE i \in 1 .. Len(target_headers)
    <3>1. target_headers[i].last_confirmed_nonce \in Nat
      BY DEF Inv, TypeOK, InboundLaneData
    <3>2. target_headers[i].last_confirmed_nonce <= outbound.latest_received_nonce
      BY DEF Inv, HeadersProveThePast
    <3> QED BY <1>1, <1>2, <1>4, <3>1, <3>2
  <2> QED BY <1>3, <1>5, <2>1, <2>2 DEF Inv, HeadersProveThePast
<1> QED
  BY <1>3, <1>9, <1>10, <1>11, <1>12
  DEF Inv, ExactlyOnceInOrder, UnrewardedRelayersExact

\* A delivery dispatches a run of messages right after the last delivered one,
\* with the payloads that were sent, and records the relayer for them.
LEMMA DeliverInv ==
  ASSUME Inv, NEW relayer \in Relayers, NEW k \in 1 .. Len(source_headers),
         NEW first \in Nat, NEW last \in Nat, NEW with_state \in BOOLEAN,
         ReceiveMessagesProof(relayer, source_headers[k], first, last, with_state)
  PROVE  Inv'
<1> DEFINE h == source_headers[k]
<1> DEFINE r == h.lane.latest_received_nonce
<1> DEFINE updated == IF with_state THEN receive_state_update(inbound, r) ELSE inbound
<1> DEFINE start == last_delivered_nonce(updated)
<1> DEFINE end == last_accepted(updated, relayer, first, last)
<1> DEFINE run == [i \in 1 .. (end - start) |->
                     [nonce |-> start + i, relayer |-> relayer,
                      payload |-> h.messages[start + i]]]
<1>1. /\ outbound.latest_received_nonce \in Nat
      /\ outbound.latest_generated_nonce \in Nat
      /\ inbound.last_confirmed_nonce \in Nat
      /\ last_delivered_nonce(inbound) \in Nat
      /\ WellFormed(inbound)
      /\ Len(sent) \in Nat
      /\ dispatched \in Seq(DispatchedMessage) /\ Len(dispatched) \in Nat
      /\ MaxUnconfirmed \in Nat /\ MaxUnrewardedRelayers \in Nat
  BY Typing, LimitsAssumption
<1>2. /\ r \in Nat
      /\ r <= outbound.latest_received_nonce
      /\ DOMAIN h.messages \subseteq 1 .. Len(sent)
      /\ \A n \in DOMAIN h.messages : h.messages[n] = sent[n] /\ h.messages[n] \in Payloads
  <2>1. IsSourceState(h) BY DEF Inv, TypeOK
  <2>2. r \in Nat /\ h.messages \in [DOMAIN h.messages -> Payloads]
    BY <2>1 DEF IsSourceState, OutboundLaneData
  <2> QED BY <2>2 DEF Inv, HeadersProveThePast
<1>3. /\ first .. last \subseteq DOMAIN h.messages
      /\ inbound' = receive_messages(updated, relayer, first, last)
      /\ dispatched' = dispatched \o run
      /\ UNCHANGED << outbound, messages, source_headers, target_headers, mode,
                      is_active, sent >>
  BY DEF ReceiveMessagesProof, verify_messages_proof
<1>4. /\ Attributed(inbound.relayers, dispatched)
      /\ Len(inbound.relayers) <= MaxUnrewardedRelayers
      /\ last_delivered_nonce(inbound) - inbound.last_confirmed_nonce <= MaxUnconfirmed
      /\ inbound.last_confirmed_nonce <= outbound.latest_received_nonce
      /\ outbound.latest_received_nonce <= last_delivered_nonce(inbound)
      /\ last_delivered_nonce(inbound) <= outbound.latest_generated_nonce
      /\ outbound.latest_generated_nonce = Len(sent)
      /\ Len(dispatched) = last_delivered_nonce(inbound)
      /\ \A n \in 1 .. Len(dispatched) :
           dispatched[n].nonce = n /\ dispatched[n].payload = sent[n]
  BY DEF Inv, UnrewardedRelayersExact, CountersOrdered, StoredUntilConfirmed,
         ExactlyOnceInOrder
<1> HIDE DEF run, h, r
\* The state update.
<1>5. /\ WellFormed(updated)
      /\ start = last_delivered_nonce(inbound)
      /\ updated.state = inbound.state
      /\ inbound.last_confirmed_nonce <= updated.last_confirmed_nonce
      /\ updated.last_confirmed_nonce <= outbound.latest_received_nonce
      /\ Attributed(updated.relayers, dispatched)
      /\ Len(updated.relayers) <= Len(inbound.relayers)
  <2>1. CASE with_state
    <3> DEFINE u == receive_state_update(inbound, r)
    <3>1. /\ WellFormed(u)
          /\ last_delivered_nonce(u) = last_delivered_nonce(inbound)
          /\ u.state = inbound.state
          /\ inbound.last_confirmed_nonce <= u.last_confirmed_nonce
          /\ \/ u.last_confirmed_nonce = inbound.last_confirmed_nonce
             \/ u.last_confirmed_nonce = r
          /\ \E j \in Nat : IsTrimOf(u.relayers, inbound.relayers, j)
      BY <1>1, <1>2, ReceiveStateUpdate
    <3>2. updated = u BY <2>1
    <3> HIDE DEF u
    <3>3. u.last_confirmed_nonce <= outbound.latest_received_nonce
      BY <1>2, <1>4, <3>1
    <3>4. /\ u.relayers \in Seq(UnrewardedRelayer(Relayers))
          /\ inbound.relayers \in Seq(UnrewardedRelayer(Relayers))
      BY <1>1, <3>1, WellFormedBounds
    <3>5. PICK j \in Nat : IsTrimOf(u.relayers, inbound.relayers, j) BY <3>1
    <3>6. Attributed(u.relayers, dispatched) /\ Len(u.relayers) <= Len(inbound.relayers)
      BY <1>4, <3>4, <3>5, TrimAttribution
    <3> HIDE DEF updated
    <3> QED BY <3>1, <3>2, <3>3, <3>6
  <2>2. CASE ~ with_state
    <3>1. updated = inbound BY <2>2
    <3>2. Len(inbound.relayers) \in Nat BY <1>1, WellFormedBounds
    <3> HIDE DEF updated
    <3> QED BY <1>1, <1>4, <3>1, <3>2
  <2> QED BY <2>1, <2>2
<1> HIDE DEF updated
<1>6. /\ start \in Nat /\ updated.last_confirmed_nonce \in Nat
      /\ Len(updated.relayers) \in Nat /\ Len(inbound.relayers) \in Nat
  BY <1>1, <1>5, WellFormedBounds
\* The messages.
<1>7. /\ WellFormed(inbound')
      /\ last_delivered_nonce(inbound') = end
      /\ inbound'.last_confirmed_nonce = updated.last_confirmed_nonce
      /\ end \in Nat
      /\ start <= end
      /\ end = start => inbound' = updated
      /\ end # start =>
           /\ first <= start + 1
           /\ end <= last
           /\ end <= updated.last_confirmed_nonce + MaxUnconfirmed
           /\ Len(updated.relayers) < MaxUnrewardedRelayers
           /\ IsGrowthOf(inbound'.relayers, updated.relayers, relayer, start, end)
  <2> DEFINE new == receive_messages(updated, relayer, first, last)
  <2>1. WellFormed(updated) BY <1>5
  <2>2. /\ WellFormed(new)
        /\ last_delivered_nonce(new) = end
        /\ new.last_confirmed_nonce = updated.last_confirmed_nonce
        /\ end \in Nat
        /\ start <= end
        /\ end = start => new = updated
        /\ end # start =>
             /\ first <= start + 1
             /\ end <= last
             /\ end <= updated.last_confirmed_nonce + MaxUnconfirmed
             /\ Len(updated.relayers) < MaxUnrewardedRelayers
             /\ IsGrowthOf(new.relayers, updated.relayers, relayer, start, end)
    BY <2>1, ReceiveMessages
  <2>3. inbound' = new BY <1>3
  <2> HIDE DEF new, start, end
  <2> QED BY <2>2, <2>3
<1> HIDE DEF start, end
<1>8. \A i \in 1 .. (end - start) : start + i \in DOMAIN h.messages
  <2> TAKE i \in 1 .. (end - start)
  <2>1. end # start /\ start + i \in Nat /\ start + 1 <= start + i /\ start + i <= end
    BY <1>6, <1>7
  <2>2. start + i \in first .. last BY <1>6, <1>7, <2>1
  <2> QED BY <1>3, <2>2
<1>9. /\ run \in Seq(DispatchedMessage) /\ Len(run) = end - start
      /\ \A i \in 1 .. (end - start) :
           run[i] = [nonce |-> start + i, relayer |-> relayer,
                     payload |-> h.messages[start + i]]
  <2>1. end - start \in Nat BY <1>6, <1>7
  <2>2. \A i \in 1 .. (end - start) :
          [nonce |-> start + i, relayer |-> relayer, payload |-> h.messages[start + i]]
            \in DispatchedMessage
    <3> TAKE i \in 1 .. (end - start)
    <3>1. start + i \in Nat /\ h.messages[start + i] \in Payloads BY <1>2, <1>6, <1>8
    <3> QED BY <3>1 DEF DispatchedMessage
  <2> QED BY <2>1, <2>2 DEF run
<1>10. /\ dispatched' \in Seq(DispatchedMessage)
       /\ Len(dispatched') = end
       /\ \A n \in 1 .. start : dispatched'[n] = dispatched[n]
       /\ \A n \in (start + 1) .. end :
            dispatched'[n] = [nonce |-> n, relayer |-> relayer, payload |-> h.messages[n]]
  <2>1. /\ dispatched' \in Seq(DispatchedMessage)
        /\ Len(dispatched') = Len(dispatched) + Len(run)
        /\ \A n \in 1 .. Len(dispatched) : dispatched'[n] = dispatched[n]
        /\ \A n \in (Len(dispatched) + 1) .. (Len(dispatched) + Len(run)) :
             dispatched'[n] = run[n - Len(dispatched)]
    <3> DEFINE new == dispatched \o run
    <3>1. /\ new \in Seq(DispatchedMessage)
          /\ Len(new) = Len(dispatched) + Len(run)
          /\ \A n \in 1 .. Len(dispatched) : new[n] = dispatched[n]
          /\ \A n \in (Len(dispatched) + 1) .. (Len(dispatched) + Len(run)) :
               new[n] = run[n - Len(dispatched)]
      <4>1. dispatched \in Seq(DispatchedMessage) /\ run \in Seq(DispatchedMessage)
        BY <1>1, <1>9
      <4> QED BY <4>1, ConcatSeq
    <3>2. dispatched' = new BY <1>3
    <3> HIDE DEF new
    <3> QED BY <3>1, <3>2
  <2>2. Len(dispatched) = start BY <1>4, <1>5
  <2>3. start + (end - start) = end BY <1>6, <1>7
  <2>4. \A n \in (start + 1) .. end :
          n - start \in 1 .. (end - start) /\ start + (n - start) = n
    BY <1>6, <1>7
  <2> QED BY <1>9, <2>1, <2>2, <2>3, <2>4
<1>11. \A n \in (start + 1) .. end :
         /\ n \in DOMAIN h.messages
         /\ dispatched'[n].nonce = n /\ dispatched'[n].relayer = relayer
         /\ dispatched'[n].payload = h.messages[n]
  <2> TAKE n \in (start + 1) .. end
  <2>1. n \in DOMAIN h.messages BY <1>3, <1>6, <1>7
  <2>2. dispatched'[n] = [nonce |-> n, relayer |-> relayer, payload |-> h.messages[n]]
    BY <1>10
  <2> QED BY <2>1, <2>2
<1>12. end <= Len(sent)
  <2>1. CASE end = start BY <1>4, <1>5, <2>1
  <2>2. CASE end # start
    <3>1. end \in (start + 1) .. end BY <1>6, <1>7, <2>2
    <3>2. end \in 1 .. Len(sent) BY <1>2, <1>11, <3>1
    <3> QED BY <1>1, <3>2
  <2> QED BY <2>1, <2>2
<1>13. ExactlyOnceInOrder'
  <2>1. ASSUME NEW n \in 1 .. end
        PROVE  dispatched'[n].nonce = n /\ dispatched'[n].payload = sent[n]
    <3>1. CASE n <= start
      <4>1. n \in 1 .. start BY <1>6, <1>7, <3>1
      <4>2. start = Len(dispatched) BY <1>4, <1>5
      <4> QED BY <1>4, <1>10, <4>1, <4>2
    <3>2. CASE ~ (n <= start)
      <4>1. n \in (start + 1) .. end BY <1>6, <1>7, <3>2
      <4> QED BY <1>2, <1>11, <4>1
    <3> QED BY <3>1, <3>2
  <2> QED BY <1>3, <1>7, <1>10, <1>12, <2>1 DEF ExactlyOnceInOrder
<1>14. CountersOrdered'
  BY <1>1, <1>3, <1>4, <1>5, <1>6, <1>7, <1>12 DEF CountersOrdered
<1>15. UnrewardedRelayersExact'
  <2>1. CASE end = start
    <3>1. \A n \in 1 .. start : dispatched'[n] = dispatched[n] BY <1>10
    <3>2. dispatched' = dispatched
      <4>1. Len(run) = 0 BY <1>6, <1>9, <2>1
      <4>2. run = << >> BY <1>9, <4>1
      <4>3. dispatched' = dispatched \o run BY <1>3
      <4>4. dispatched \in Seq(DispatchedMessage) BY <1>1
      <4>5. dispatched \o << >> = dispatched BY <4>4
      <4> QED BY <4>2, <4>3, <4>5
    <3>3. last_delivered_nonce(inbound') - inbound'.last_confirmed_nonce <= MaxUnconfirmed
      BY <1>1, <1>4, <1>5, <1>6, <1>7, <2>1
    <3>4. Len(inbound'.relayers) <= MaxUnrewardedRelayers
      BY <1>1, <1>4, <1>5, <1>6, <1>7, <2>1
    <3> QED BY <1>5, <1>7, <2>1, <3>2, <3>3, <3>4 DEF UnrewardedRelayersExact
  <2>2. CASE end # start
    <3>1. \A n \in (start + 1) .. end : dispatched'[n].relayer = relayer BY <1>11
    <3>2. inbound'.relayers \in Seq(UnrewardedRelayer(Relayers))
      BY <1>7, WellFormedBounds
    <3>3. /\ Attributed(inbound'.relayers, dispatched')
          /\ Len(inbound'.relayers) <= Len(updated.relayers) + 1
      <4> DEFINE queue == inbound'.relayers
      <4> DEFINE after == dispatched'
      <4>1. /\ WellFormed(updated) /\ queue \in Seq(UnrewardedRelayer(Relayers))
            /\ end \in Nat
            /\ IsGrowthOf(queue, updated.relayers, relayer,
                          last_delivered_nonce(updated), end)
            /\ Attributed(updated.relayers, dispatched)
            /\ \A n \in 1 .. last_delivered_nonce(updated) : after[n] = dispatched[n]
            /\ \A n \in (last_delivered_nonce(updated) + 1) .. end :
                 after[n].relayer = relayer
        BY <1>5, <1>7, <1>10, <2>2, <3>1, <3>2 DEF start
      <4> HIDE DEF queue, after
      <4>2. Attributed(queue, after) /\ Len(queue) <= Len(updated.relayers) + 1
        BY <4>1, GrowthAttribution
      <4> QED BY <4>2 DEF queue, after
    <3>4. Len(inbound'.relayers) \in Nat BY <3>2
    <3>5. Len(inbound'.relayers) <= MaxUnrewardedRelayers
      BY <1>1, <1>6, <1>7, <2>2, <3>3, <3>4
    <3>6. last_delivered_nonce(inbound') - inbound'.last_confirmed_nonce <= MaxUnconfirmed
      BY <1>1, <1>6, <1>7, <2>2
    <3> QED BY <1>7, <3>3, <3>5, <3>6 DEF UnrewardedRelayersExact
  <2> QED BY <2>1, <2>2
<1>16. HeadersProveThePast'
  <2>1. \A i \in 1 .. Len(target_headers) : last_delivered_nonce(target_headers[i]) <= end
    <3> TAKE i \in 1 .. Len(target_headers)
    <3>1. /\ WellFormed(target_headers[i])
          /\ last_delivered_nonce(target_headers[i]) <= last_delivered_nonce(inbound)
      BY DEF Inv, HeadersProveThePast
    <3>2. last_delivered_nonce(target_headers[i]) \in Nat BY <3>1, WellFormedBounds
    <3> QED BY <1>1, <1>5, <1>7, <3>1, <3>2
  <2> QED BY <1>3, <1>7, <2>1 DEF Inv, HeadersProveThePast
<1>17. TypeOK'
  <2>1. inbound' \in InboundLaneData BY <1>7 DEF WellFormed
  <2> QED BY <1>3, <1>10, <2>1 DEF Inv, TypeOK, IsSourceState
<1>18. StoredUntilConfirmed' BY <1>3 DEF Inv, StoredUntilConfirmed
<1>19. (source_headers \in Seq(SourceStates) /\ target_headers \in Seq(InboundLaneData))'
  BY <1>3 DEF Inv
<1> QED BY <1>13, <1>14, <1>15, <1>16, <1>17, <1>18, <1>19 DEF Inv

\* Every step of either pallet preserves the invariant.
LEMMA NextInv == Inv /\ [Next]_vars => Inv'
<1> SUFFICES ASSUME Inv, [Next]_vars PROVE Inv' OBVIOUS
<1>1. ASSUME NEW payload \in Payloads, SendMessage(payload) PROVE Inv'
  BY <1>1, SendInv
<1>2. CASE ImportSourceHeader BY <1>2, ImportSourceInv
<1>3. CASE ImportTargetHeader BY <1>3, ImportTargetInv
<1>4. CASE Deliver
  <2>1. PICK relayer \in Relayers, header \in ToSet(source_headers),
             first \in 1 .. MaxGenerated, with_state \in BOOLEAN :
               \E last \in (first - 1) .. MaxGenerated :
                 ReceiveMessagesProof(relayer, header, first, last, with_state)
    BY <1>4 DEF Deliver
  <2>2. PICK last \in (first - 1) .. MaxGenerated :
               ReceiveMessagesProof(relayer, header, first, last, with_state)
    BY <2>1
  <2>3. PICK k \in 1 .. Len(source_headers) : header = source_headers[k]
    BY DEF ToSet
  <2>4. first \in Nat /\ last \in Nat BY LaneAssumption
  <2> QED BY <2>2, <2>3, <2>4, DeliverInv
<1>5. CASE Confirm
  <2>1. PICK k \in 1 .. Len(target_headers) :
               ReceiveMessagesDeliveryProof(target_headers[k])
    BY <1>5 DEF Confirm, ToSet
  <2> QED BY <2>1, ConfirmInv
<1>6. ASSUME UNCHANGED << outbound, messages, inbound, source_headers,
                          target_headers, sent, dispatched >>,
             (mode \in [Chains -> OperatingModes] /\ is_active \in BOOLEAN)'
      PROVE  Inv'
  BY <1>6
  DEF Inv, TypeOK, IsSourceState, ExactlyOnceInOrder, CountersOrdered,
      UnrewardedRelayersExact, StoredUntilConfirmed, HeadersProveThePast
<1>7. ASSUME NEW chain \in Chains, NEW new_mode \in OperatingModes,
             SetOperatingMode(chain, new_mode)
      PROVE  Inv'
  <2>1. mode \in [Chains -> OperatingModes] /\ is_active \in BOOLEAN
    BY DEF Inv, TypeOK
  <2> QED BY <1>6, <1>7, <2>1 DEF SetOperatingMode
<1>8. CASE SwitchDispatcher
  <2>1. mode \in [Chains -> OperatingModes] /\ is_active \in BOOLEAN
    BY DEF Inv, TypeOK
  <2> QED BY <1>6, <1>8, <2>1 DEF SwitchDispatcher
<1>9. CASE UNCHANGED vars
  <2>1. mode \in [Chains -> OperatingModes] /\ is_active \in BOOLEAN
    BY DEF Inv, TypeOK
  <2> QED BY <1>6, <1>9, <2>1 DEF vars
<1> QED BY <1>1, <1>2, <1>3, <1>4, <1>5, <1>7, <1>8, <1>9 DEF Next

\* The invariant holds always.
THEOREM LaneInvariant == Spec => []Inv
<1>1. Init => Inv BY InitInv
<1>2. Inv /\ [Next]_vars => Inv' BY NextInv
<1> QED BY <1>1, <1>2, PTL DEF Spec

\* The storage items of both pallets keep their types.
THEOREM TypeCorrect == Spec => []TypeOK
<1>1. Inv => TypeOK BY DEF Inv
<1> QED BY <1>1, LaneInvariant, PTL

\* Every message is dispatched at most once, in order, as it was sent.
THEOREM ExactlyOnce == Spec => []ExactlyOnceInOrder
<1>1. Inv => ExactlyOnceInOrder BY DEF Inv
<1> QED BY <1>1, LaneInvariant, PTL

\* The relayers queue records exactly the unconfirmed deliveries.
THEOREM RelayersExact == Spec => []UnrewardedRelayersExact
<1>1. Inv => UnrewardedRelayersExact BY DEF Inv
<1> QED BY <1>1, LaneInvariant, PTL

\* A message leaves the source storage only when it was delivered.
THEOREM StorageExact == Spec => [](StoredUntilConfirmed /\ CountersOrdered)
<1>1. Inv => StoredUntilConfirmed /\ CountersOrdered BY DEF Inv
<1> QED BY <1>1, LaneInvariant, PTL

\* No honest confirmation is ever refused by confirm_delivery with an error.
THEOREM NoConfirmationErrors == Spec => []ConfirmationNeverFails
<1>1. Inv => ConfirmationNeverFails
  <2> SUFFICES ASSUME Inv, NEW k \in 1 .. Len(target_headers)
               PROVE  confirmation_result(target_headers[k]) \in {"Nothing", "Confirmed"}
    BY DEF ConfirmationNeverFails, ToSet
  <2> DEFINE h == target_headers[k]
  <2> DEFINE end == last_delivered_nonce(h)
  <2>1. /\ outbound.latest_received_nonce \in Nat
        /\ outbound.latest_generated_nonce \in Nat
        /\ last_delivered_nonce(inbound) \in Nat
    BY Typing
  <2>2. /\ WellFormed(h)
        /\ h.last_confirmed_nonce <= outbound.latest_received_nonce
        /\ end <= last_delivered_nonce(inbound)
        /\ last_delivered_nonce(inbound) <= outbound.latest_generated_nonce
    BY DEF Inv, HeadersProveThePast, CountersOrdered
  <2>3. /\ end \in Nat /\ h.last_confirmed_nonce \in Nat
        /\ total_unrewarded_messages(h) = end - h.last_confirmed_nonce
        /\ \A i \in 1 .. Len(h.relayers) :
             /\ h.relayers[i].begin <= h.relayers[i].end
             /\ h.relayers[i].end <= end
    BY <2>2, WellFormedBounds
  <2>4. \A i \in 1 .. Len(h.relayers) :
          i > 1 => h.relayers[i].begin = h.relayers[i - 1].end + 1
    BY <2>2 DEF WellFormed, Covers
  <2> HIDE DEF h, end
  <2>5. ensure_unrewarded_relayers_are_correct(end, h.relayers)
    BY <2>3, <2>4 DEF ensure_unrewarded_relayers_are_correct
  <2>6. end <= outbound.latest_generated_nonce BY <2>1, <2>2, <2>3
  <2>7. ~ (end - outbound.latest_received_nonce > total_unrewarded_messages(h))
    BY <2>1, <2>2, <2>3
  <2>8. confirm_delivery_result(outbound, total_unrewarded_messages(h), end, h.relayers)
          \in {"Nothing", "Confirmed"}
    <3>1. ~ (end > outbound.latest_generated_nonce) BY <2>1, <2>3, <2>6
    <3> QED BY <2>5, <2>7, <3>1 DEF confirm_delivery_result
  <2> QED BY <2>8 DEF confirmation_result, h, end
<1> QED BY <1>1, LaneInvariant, PTL

\* The state a delivery carries is never from the future of the inbound lane.
THEOREM NoStateFromFuture == Spec => []StateUpdateNeverFromFuture
<1>1. Inv => StateUpdateNeverFromFuture
  <2> SUFFICES ASSUME Inv, NEW k \in 1 .. Len(source_headers)
               PROVE  source_headers[k].lane.latest_received_nonce
                        <= last_delivered_nonce(inbound)
    BY DEF StateUpdateNeverFromFuture, ToSet
  <2>1. source_headers[k].lane.latest_received_nonce \in Nat
    BY DEF Inv, TypeOK, IsSourceState, OutboundLaneData
  <2>2. /\ source_headers[k].lane.latest_received_nonce <= outbound.latest_received_nonce
        /\ outbound.latest_received_nonce <= last_delivered_nonce(inbound)
    BY DEF Inv, HeadersProveThePast, CountersOrdered
  <2> QED BY <2>1, <2>2, Typing
<1> QED BY <1>1, LaneInvariant, PTL

\* What a step does to the counters, action by action.
LEMMA StepCounters ==
  ASSUME Inv, [Next]_vars
  PROVE  \/ /\ \E payload \in Payloads : sent' = Append(sent, payload)
            /\ outbound'.latest_received_nonce = outbound.latest_received_nonce
            /\ outbound'.oldest_unpruned_nonce = outbound.oldest_unpruned_nonce
            /\ outbound'.latest_generated_nonce = outbound.latest_generated_nonce + 1
            /\ UNCHANGED << inbound, dispatched >>
         \/ /\ last_delivered_nonce(inbound) <= last_delivered_nonce(inbound')
            /\ inbound.last_confirmed_nonce <= inbound'.last_confirmed_nonce
            /\ UNCHANGED << outbound, sent >>
         \/ /\ outbound.latest_received_nonce < outbound'.latest_received_nonce
            /\ outbound'.latest_generated_nonce = outbound.latest_generated_nonce
            /\ UNCHANGED << inbound, dispatched, sent >>
         \/ UNCHANGED << outbound, inbound, dispatched, sent >>
<1>1. ASSUME NEW payload \in Payloads, SendMessage(payload)
      PROVE  /\ sent' = Append(sent, payload)
             /\ outbound'.latest_received_nonce = outbound.latest_received_nonce
             /\ outbound'.oldest_unpruned_nonce = outbound.oldest_unpruned_nonce
             /\ outbound'.latest_generated_nonce = outbound.latest_generated_nonce + 1
             /\ UNCHANGED << inbound, dispatched >>
  <2>1. outbound \in OutboundLaneData BY DEF Inv, TypeOK
  <2>2. outbound' = [outbound EXCEPT !.latest_generated_nonce
                                        = outbound.latest_generated_nonce + 1]
    BY <1>1 DEF SendMessage, send_message
  <2> QED BY <1>1, <2>1, <2>2 DEF SendMessage, OutboundLaneData
<1>2. CASE Deliver
  <2>1. PICK relayer \in Relayers, header \in ToSet(source_headers),
             first \in 1 .. MaxGenerated, with_state \in BOOLEAN :
               \E last \in (first - 1) .. MaxGenerated :
                 ReceiveMessagesProof(relayer, header, first, last, with_state)
    BY <1>2 DEF Deliver
  <2>2. PICK last \in (first - 1) .. MaxGenerated :
               ReceiveMessagesProof(relayer, header, first, last, with_state)
    BY <2>1
  <2>3. PICK k \in 1 .. Len(source_headers) : header = source_headers[k]
    BY DEF ToSet
  <2>4. first \in Nat /\ last \in Nat BY LaneAssumption
  <2> DEFINE r == header.lane.latest_received_nonce
  <2> DEFINE updated == IF with_state THEN receive_state_update(inbound, r) ELSE inbound
  <2>5. /\ inbound' = receive_messages(updated, relayer, first, last)
        /\ UNCHANGED << outbound, sent >>
    BY <2>2 DEF ReceiveMessagesProof
  <2>6. r \in Nat BY <2>3 DEF Inv, TypeOK, IsSourceState, OutboundLaneData
  <2>7. WellFormed(inbound) /\ inbound.last_confirmed_nonce \in Nat BY Typing
  <2> HIDE DEF r
  <2>8. /\ WellFormed(updated)
        /\ last_delivered_nonce(updated) = last_delivered_nonce(inbound)
        /\ inbound.last_confirmed_nonce <= updated.last_confirmed_nonce
    <3>1. CASE with_state BY <2>6, <2>7, <3>1, ReceiveStateUpdate
    <3>2. CASE ~ with_state BY <2>7, <3>2
    <3> QED BY <3>1, <3>2
  <2> HIDE DEF updated
  <2>9. /\ last_delivered_nonce(inbound')
             = last_accepted(updated, relayer, first, last)
        /\ last_delivered_nonce(updated)
             <= last_accepted(updated, relayer, first, last)
        /\ inbound'.last_confirmed_nonce = updated.last_confirmed_nonce
    BY <2>4, <2>5, <2>8, ReceiveMessages
  <2> QED BY <2>5, <2>8, <2>9
<1>3. CASE Confirm
  <2>1. PICK k \in 1 .. Len(target_headers) :
               ReceiveMessagesDeliveryProof(target_headers[k])
    BY <1>3 DEF Confirm, ToSet
  <2> DEFINE h == target_headers[k]
  <2> DEFINE end == last_delivered_nonce(h)
  <2>2. confirm_delivery_result(outbound, total_unrewarded_messages(h), end, h.relayers)
          = "Confirmed"
    BY <2>1 DEF ReceiveMessagesDeliveryProof, confirmation_result
  <2>3. /\ outbound' = confirm_delivery(outbound, end)
        /\ UNCHANGED << inbound, dispatched, sent >>
    BY <2>1 DEF ReceiveMessagesDeliveryProof
  <2>4. WellFormed(h) BY DEF Inv, HeadersProveThePast
  <2>5. end \in Nat /\ outbound.latest_received_nonce \in Nat
    BY <2>4, Typing, WellFormedBounds
  <2> HIDE DEF h, end
  <2>6. outbound.latest_received_nonce < end BY <2>2, <2>5 DEF confirm_delivery_result
  <2>7. outbound \in OutboundLaneData BY DEF Inv, TypeOK
  <2>8. outbound'.latest_received_nonce = end
        /\ outbound'.latest_generated_nonce = outbound.latest_generated_nonce
    BY <2>3, <2>7 DEF confirm_delivery, OutboundLaneData
  <2> QED BY <2>3, <2>6, <2>8
<1>4. CASE ImportSourceHeader BY <1>4 DEF ImportSourceHeader
<1>5. CASE ImportTargetHeader BY <1>5 DEF ImportTargetHeader
<1>6. ASSUME NEW chain \in Chains, NEW new_mode \in OperatingModes,
             SetOperatingMode(chain, new_mode)
      PROVE  UNCHANGED << outbound, inbound, dispatched, sent >>
  BY <1>6 DEF SetOperatingMode
<1>7. CASE SwitchDispatcher BY <1>7 DEF SwitchDispatcher
<1>8. CASE UNCHANGED vars BY <1>8 DEF vars
<1> QED BY <1>1, <1>2, <1>3, <1>4, <1>5, <1>6, <1>7, <1>8 DEF Next

\* No step moves a counter of the lane backwards.
THEOREM Monotone == Spec => CountersNeverDecrease
<1> DEFINE Grows ==
      /\ outbound.latest_generated_nonce <= outbound'.latest_generated_nonce
      /\ outbound.latest_received_nonce <= outbound'.latest_received_nonce
      /\ outbound.oldest_unpruned_nonce <= outbound'.oldest_unpruned_nonce
      /\ inbound.last_confirmed_nonce <= inbound'.last_confirmed_nonce
      /\ last_delivered_nonce(inbound) <= last_delivered_nonce(inbound)'
<1>1. Inv /\ Inv' /\ [Next]_vars => [Grows]_vars
  <2> SUFFICES ASSUME Inv, Inv', [Next]_vars PROVE Grows OBVIOUS
  <2>1. /\ outbound.latest_received_nonce \in Nat
        /\ outbound.latest_generated_nonce \in Nat
        /\ outbound.oldest_unpruned_nonce = outbound.latest_received_nonce + 1
        /\ inbound.last_confirmed_nonce \in Nat
        /\ last_delivered_nonce(inbound) \in Nat
    BY Typing DEF Inv, StoredUntilConfirmed
  <2>2. /\ outbound'.oldest_unpruned_nonce = outbound'.latest_received_nonce + 1
        /\ outbound'.latest_received_nonce \in Nat
    BY DEF Inv, StoredUntilConfirmed, TypeOK, OutboundLaneData
  <2> QED BY <2>1, <2>2, StepCounters
<1>2. Inv /\ [Next]_vars => Inv' BY NextInv
<1>3. Init => Inv BY InitInv
<1> QED BY <1>1, <1>2, <1>3, PTL DEF Spec, CountersNeverDecrease

\* The lane implements the exactly-once channel: the payloads dispatched at the
\* target are the received ones, the source's latest_received_nonce the confirmed.
THEOREM Refinement == Spec => ImplementsChannel
<1> DEFINE received == [n \in 1 .. Len(dispatched) |-> dispatched[n].payload]
<1>1. Init => Channel!Init
  BY DEF Init, Channel!Init, OpenedOutbound
<1>2. Inv /\ Inv' /\ [Next]_vars => [Channel!Next]_(Channel!vars)
  <2> SUFFICES ASSUME Inv, Inv', [Next]_vars
               PROVE  Channel!Next \/ UNCHANGED Channel!vars
    OBVIOUS
  <2>1. /\ received = [n \in 1 .. Len(dispatched) |-> sent[n]]
        /\ received' = [n \in 1 .. Len(dispatched') |-> sent'[n]]
        /\ Len(dispatched) = last_delivered_nonce(inbound)
        /\ Len(dispatched') = last_delivered_nonce(inbound')
        /\ Len(dispatched) \in Nat /\ Len(dispatched') \in Nat
        /\ Len(dispatched') <= Len(sent')
    BY DEF Inv, ExactlyOnceInOrder, TypeOK
  <2>2. Len(received) = Len(dispatched) /\ Len(received') = Len(dispatched')
    BY <2>1
  <2>3. CASE /\ \E payload \in Payloads : sent' = Append(sent, payload)
             /\ outbound'.latest_received_nonce = outbound.latest_received_nonce
             /\ UNCHANGED << inbound, dispatched >>
    BY <2>3 DEF Channel!Next, Channel!Send
  <2>4. CASE /\ last_delivered_nonce(inbound) <= last_delivered_nonce(inbound')
             /\ UNCHANGED << outbound, sent >>
    <3>1. CASE Len(dispatched) = Len(dispatched')
      <4>1. received' = received BY <2>1, <2>4, <3>1
      <4> HIDE DEF received
      <4> QED BY <2>4, <4>1 DEF Channel!vars, received
    <3>2. CASE Len(dispatched) # Len(dispatched')
      <4> DEFINE m == Len(dispatched')
      <4>1. m \in (Len(received) + 1) .. Len(sent)
        <5> HIDE DEF received
        <5>1. Len(sent) \in Nat /\ sent' = sent BY <2>4, Typing
        <5> QED BY <2>1, <2>2, <2>4, <3>2, <5>1
      <4>2. m <= outbound.latest_received_nonce + MaxUnconfirmed
        <5>1. /\ last_delivered_nonce(inbound') - inbound'.last_confirmed_nonce
                   <= MaxUnconfirmed
              /\ inbound'.last_confirmed_nonce <= outbound'.latest_received_nonce
              /\ inbound'.last_confirmed_nonce \in Nat
          BY DEF Inv, UnrewardedRelayersExact, CountersOrdered, TypeOK, InboundLaneData
        <5>2. outbound' = outbound BY <2>4
        <5> QED BY <2>1, <5>1, <5>2, Typing, LimitsAssumption
      <4>3. received' = [n \in 1 .. m |-> sent[n]] BY <2>1, <2>4
      <4> HIDE DEF received, m
      <4> QED BY <2>4, <4>1, <4>2, <4>3 DEF Channel!Next, Channel!Receive, received
    <3> QED BY <3>1, <3>2
  <2>5. CASE /\ outbound.latest_received_nonce < outbound'.latest_received_nonce
             /\ UNCHANGED << inbound, dispatched, sent >>
    <3>1. /\ outbound'.latest_received_nonce <= last_delivered_nonce(inbound')
          /\ outbound'.latest_received_nonce \in Nat
      BY DEF Inv, CountersOrdered, TypeOK, OutboundLaneData
    <3>2. outbound'.latest_received_nonce
            \in (outbound.latest_received_nonce + 1) .. Len(received)
      <4> HIDE DEF received
      <4> QED BY <2>1, <2>2, <2>5, <3>1, Typing
    <3> QED BY <2>5, <3>2 DEF Channel!Next, Channel!Confirm
  <2>6. CASE UNCHANGED << outbound, inbound, dispatched, sent >>
    BY <2>6 DEF Channel!vars
  <2> HIDE DEF received
  <2> QED BY <2>3, <2>4, <2>5, <2>6, StepCounters
<1>3. Inv /\ [Next]_vars => Inv' BY NextInv
<1>4. Init => Inv BY InitInv
<1> QED BY <1>1, <1>2, <1>3, <1>4, PTL DEF Spec, ImplementsChannel, Channel!Spec
=============================================================================
