----------------------------- MODULE MessageLane -----------------------------
(***************************************************************************)
(* One opened lane of the bridge messages pallet, end to end: the pallet   *)
(* at the source chain (bridges/modules/messages/src/lib.rs with its       *)
(* outbound lane), the pallet at the target chain (the same code with its  *)
(* inbound lane), the finalized headers each chain knows of the other, and *)
(* any number of relayers that submit proofs.                              *)
(*                                                                         *)
(* A relayer transaction is an argument of an action, not state: it may be *)
(* lost, repeated, built from any header the receiving chain still keeps   *)
(* and so stale by any number of blocks, and raced by other relayers.  A   *)
(* call that fails is reverted as a whole and is therefore no step.        *)
(***************************************************************************)
EXTENDS Naturals, Sequences, OutboundLane, InboundLane

CONSTANTS
  Payloads,        \* message payloads
  HeadersToKeep,   \* headers the light client of each chain keeps
  OperatingModes,  \* modes the pallet owner may choose
  MaxGenerated     \* bound on the number of messages sent

Chains == {"source", "target"}

ASSUME LaneAssumption ==
  /\ HeadersToKeep \in Nat \ {0}
  /\ MaxGenerated \in Nat
  /\ OperatingModes \subseteq {"Normal", "Halted", "RejectingOutboundMessages"}
  /\ "Normal" \in OperatingModes

VARIABLES
  outbound,       \* source: OutboundLanes[lane]
  messages,       \* source: OutboundMessages, by nonce
  inbound,        \* target: InboundLanes[lane]
  source_headers, \* target: proved source states, oldest first
  target_headers, \* source: proved target states, oldest first
  mode,           \* PalletOperatingMode of each chain
  is_active,      \* target: MessageDispatch::is_active(lane)
  sent,           \* history: payloads in the order they were sent
  dispatched      \* history: what the target dispatched, in order

vars == << outbound, messages, inbound, source_headers, target_headers, mode,
           is_active, sent, dispatched >>

\* What a proof against a source header can show: the lane and its messages.
SourceState == [lane |-> outbound, messages |-> messages]

ToSet(s) == {s[i] : i \in 1 .. Len(s)}

Init ==
  /\ outbound = OpenedOutbound
  /\ messages = << >>
  /\ inbound = OpenedInbound
  /\ source_headers = << SourceState >>
  /\ target_headers = << inbound >>
  /\ mode = [c \in Chains |-> "Normal"]
  /\ is_active = TRUE
  /\ sent = << >>
  /\ dispatched = << >>

\* The pallet's operating mode: Basic(Halted) stops the relayer calls,
\* everything but Basic(Normal) stops new messages.
ensure_not_halted(chain) == mode[chain] # "Halted"

ensure_normal_operating_mode(chain) == mode[chain] = "Normal"

\* validate_message followed by send_message, called in one extrinsic.
SendMessage(payload) ==
  /\ ensure_normal_operating_mode("source")
  /\ outbound.state = "Opened"
  /\ outbound.latest_generated_nonce < MaxGenerated
  /\ outbound' = send_message(outbound)
  /\ messages' = save_message(messages, outbound'.latest_generated_nonce, payload)
  /\ sent' = Append(sent, payload)
  /\ UNCHANGED << inbound, source_headers, target_headers, mode, is_active,
                  dispatched >>

\* insert_header of the light client: a ring buffer of HeadersToKeep headers.
insert_header(headers, header) ==
  IF Len(headers) < HeadersToKeep THEN Append(headers, header)
  ELSE Append(Tail(headers), header)

\* A finalized header of the source chain is imported by the target chain.
ImportSourceHeader ==
  /\ source_headers' = insert_header(source_headers, SourceState)
  /\ UNCHANGED << outbound, messages, inbound, target_headers, mode, is_active,
                  sent, dispatched >>

\* A finalized header of the target chain is imported by the source chain.
ImportTargetHeader ==
  /\ target_headers' = insert_header(target_headers, inbound)
  /\ UNCHANGED << outbound, messages, inbound, source_headers, mode, is_active,
                  sent, dispatched >>

\* verify_messages_proof against one header: every claimed message is stored
\* in it; the lane state is optional, but the proof is not empty.
verify_messages_proof(header, first, last, with_state) ==
  /\ first .. last \subseteq DOMAIN header.messages
  /\ with_state \/ first <= last

\* receive_messages_proof at the target chain.
ReceiveMessagesProof(relayer, header, first, last, with_state) ==
  /\ ensure_not_halted("target")
  /\ last < first + MaxUnconfirmed
  /\ verify_messages_proof(header, first, last, with_state)
  /\ inbound.state = "Opened"
  /\ is_active
  /\ LET updated == IF with_state
                    THEN receive_state_update(inbound,
                           header.lane.latest_received_nonce)
                    ELSE inbound
         start   == last_delivered_nonce(updated)
         end     == last_accepted(updated, relayer, first, last)
     IN  /\ inbound' = receive_messages(updated, relayer, first, last)
         /\ dispatched' = dispatched \o
              [i \in 1 .. (end - start) |->
                 [nonce |-> start + i, relayer |-> relayer,
                  payload |-> header.messages[start + i]]]
  /\ UNCHANGED << outbound, messages, source_headers, target_headers, mode,
                  is_active, sent >>

\* The result of confirm_delivery for a proof of the given inbound lane.
confirmation_result(header) ==
  confirm_delivery_result(outbound, total_unrewarded_messages(header),
                          last_delivered_nonce(header), header.relayers)

\* receive_messages_delivery_proof at the source chain, when it confirms
\* something.  The other successful outcome changes nothing.
ReceiveMessagesDeliveryProof(header) ==
  /\ ensure_not_halted("source")
  /\ confirmation_result(header) = "Confirmed"
  /\ LET end == last_delivered_nonce(header)
     IN  /\ messages' = remove_messages(messages, confirmed_messages(outbound, end))
         /\ outbound' = confirm_delivery(outbound, end)
  /\ UNCHANGED << inbound, source_headers, target_headers, mode, is_active,
                  sent, dispatched >>

\* set_operating_mode by root or the pallet owner.
SetOperatingMode(chain, new_mode) ==
  /\ mode' = [mode EXCEPT ![chain] = new_mode]
  /\ UNCHANGED << outbound, messages, inbound, source_headers, target_headers,
                  is_active, sent, dispatched >>

\* The dispatcher reports that its queue is congested, or no longer is.
SwitchDispatcher ==
  /\ is_active' = ~ is_active
  /\ UNCHANGED << outbound, messages, inbound, source_headers, target_headers,
                  mode, sent, dispatched >>

\* A delivery transaction: the claimed nonces are contiguous, possibly none.
Deliver ==
  \E relayer \in Relayers, header \in ToSet(source_headers),
     first \in 1 .. MaxGenerated, with_state \in BOOLEAN :
       \E last \in (first - 1) .. MaxGenerated :
         ReceiveMessagesProof(relayer, header, first, last, with_state)

Confirm ==
  \E header \in ToSet(target_headers) : ReceiveMessagesDeliveryProof(header)

Next ==
  \/ \E payload \in Payloads : SendMessage(payload)
  \/ ImportSourceHeader
  \/ ImportTargetHeader
  \/ Deliver
  \/ Confirm
  \/ \E chain \in Chains, new_mode \in OperatingModes :
       SetOperatingMode(chain, new_mode)
  \/ SwitchDispatcher

Spec == Init /\ [][Next]_vars

-----------------------------------------------------------------------------
DispatchedMessage == [nonce : Nat, relayer : Relayers, payload : Payloads]

\* A proved source state and a proved target state.
IsSourceState(header) ==
  /\ header = [lane |-> header.lane, messages |-> header.messages]
  /\ header.lane \in OutboundLaneData
  /\ header.messages \in [DOMAIN header.messages -> Payloads]
  /\ DOMAIN header.messages \subseteq Nat

\* The type invariant: storage items of both pallets and the histories.
TypeOK ==
  /\ outbound \in OutboundLaneData
  /\ messages \in [DOMAIN messages -> Payloads]
  /\ DOMAIN messages \subseteq Nat
  /\ inbound \in InboundLaneData
  /\ Len(source_headers) \in 1 .. HeadersToKeep
  /\ \A i \in 1 .. Len(source_headers) : IsSourceState(source_headers[i])
  /\ Len(target_headers) \in 1 .. HeadersToKeep
  /\ \A i \in 1 .. Len(target_headers) : target_headers[i] \in InboundLaneData
  /\ mode \in [Chains -> OperatingModes]
  /\ is_active \in BOOLEAN
  /\ sent \in Seq(Payloads)
  /\ dispatched \in Seq(DispatchedMessage)

\* Every message is dispatched at most once, in the order of sending and with
\* the payload that was sent, although relayers repeat and reorder delivery
\* transactions built from stale headers (receive_messages_proof).
ExactlyOnceInOrder ==
  /\ Len(dispatched) = last_delivered_nonce(inbound)
  /\ Len(dispatched) <= Len(sent)
  /\ \A n \in 1 .. Len(dispatched) :
       /\ dispatched[n].nonce = n
       /\ dispatched[n].payload = sent[n]

\* The counters of the two chains never overtake each other: the target
\* believes confirmed only what the source has confirmed, and the source
\* only what the target has delivered.
CountersOrdered ==
  /\ inbound.last_confirmed_nonce <= outbound.latest_received_nonce
  /\ outbound.latest_received_nonce <= last_delivered_nonce(inbound)
  /\ last_delivered_nonce(inbound) <= outbound.latest_generated_nonce

\* The unrewarded relayers of the inbound lane cover exactly the messages in
\* (last_confirmed_nonce, last_delivered_nonce], attribute each to the relayer
\* that delivered it, give no relayer two neighbouring entries, and respect
\* both limits of receive_message.
UnrewardedRelayersExact ==
  /\ WellFormed(inbound)
  /\ Attributed(inbound.relayers, dispatched)
  /\ Len(inbound.relayers) <= MaxUnrewardedRelayers
  /\ last_delivered_nonce(inbound) - inbound.last_confirmed_nonce <= MaxUnconfirmed

\* The source stores exactly the messages it has not seen confirmed, as they
\* were sent: nothing is pruned before it was dispatched (confirm_delivery),
\* and nothing is left behind below oldest_unpruned_nonce (do_try_state).
StoredUntilConfirmed ==
  /\ outbound.oldest_unpruned_nonce = outbound.latest_received_nonce + 1
  /\ outbound.latest_generated_nonce = Len(sent)
  /\ DOMAIN messages = undelivered_messages(outbound)
  /\ \A n \in DOMAIN messages : messages[n] = sent[n]

\* A header the light client keeps, however old, proves nothing that is not
\* true now: counters only grew since, and a payload never changed.
HeadersProveThePast ==
  /\ \A i \in 1 .. Len(source_headers) :
       LET header == source_headers[i]
       IN  /\ header.lane.latest_received_nonce <= outbound.latest_received_nonce
           /\ DOMAIN header.messages \subseteq 1 .. Len(sent)
           /\ \A n \in DOMAIN header.messages : header.messages[n] = sent[n]
  /\ \A i \in 1 .. Len(target_headers) :
       LET header == target_headers[i]
       IN  /\ WellFormed(header)
           /\ header.last_confirmed_nonce <= outbound.latest_received_nonce
           /\ last_delivered_nonce(header) <= last_delivered_nonce(inbound)

\* No proof of a state the target really had, however old, makes
\* confirm_delivery return an error: its errors are reserved for a corrupted
\* bridged chain, as its comments say.
ConfirmationNeverFails ==
  \A header \in ToSet(target_headers) :
     confirmation_result(header) \in {"Nothing", "Confirmed"}

\* The outbound lane state of a header is never from the future of the inbound
\* lane ("should never happen if proofs are correct", receive_state_update).
StateUpdateNeverFromFuture ==
  \A header \in ToSet(source_headers) :
     header.lane.latest_received_nonce <= last_delivered_nonce(inbound)

\* Receiving a batch in one transaction is receiving its messages one by one:
\* last_accepted and receive_messages agree with repeated receive_message, at
\* every reachable lane, for every batch a transaction may carry.
BatchIsRepeatedReceiveMessage ==
  \A relayer \in Relayers, first \in 1 .. MaxGenerated, last \in 1 .. MaxGenerated :
     last < first + MaxUnconfirmed =>
       LET step[n \in (first - 1) .. last] ==
             IF n = first - 1 THEN inbound
             ELSE receive_message(step[n - 1], relayer, n)
       IN  first <= last =>
             /\ receive_messages(inbound, relayer, first, last) = step[last]
             /\ last_accepted(inbound, relayer, first, last)
                  = last_delivered_nonce(step[last])

\* The lane implements the exactly-once channel.
Channel == INSTANCE ExactlyOnceChannel
  WITH Window <- MaxUnconfirmed,
       received <- [n \in 1 .. Len(dispatched) |-> dispatched[n].payload],
       confirmed <- outbound.latest_received_nonce

\* A lane of the pallet is such a channel: whatever the relayers submit, each
\* delivery extends what was received by the next messages, within the window,
\* and each confirmation is of messages received before.
ImplementsChannel == Channel!Spec

\* No step moves a counter of a lane backwards: neither end forgets what it
\* has generated, delivered or seen confirmed.
CountersNeverDecrease ==
  [][/\ outbound.latest_generated_nonce <= outbound'.latest_generated_nonce
     /\ outbound.latest_received_nonce <= outbound'.latest_received_nonce
     /\ outbound.oldest_unpruned_nonce <= outbound'.oldest_unpruned_nonce
     /\ inbound.last_confirmed_nonce <= inbound'.last_confirmed_nonce
     /\ last_delivered_nonce(inbound) <= last_delivered_nonce(inbound)']_vars
=============================================================================
