----------------------------- MODULE RelayedLane -----------------------------
(***************************************************************************)
(* A message lane as the runtimes deploy it: every relayer transaction     *)
(* passes the transaction extension of the relayers pallet                 *)
(* (bridges/modules/relayers/src/extension), which rejects obsolete calls  *)
(* (check_obsolete_call of the messages pallet), refunds successful ones   *)
(* and slashes the registered relayer of a failed delivery; and delivery   *)
(* confirmations register the rewards of the relayers that delivered.      *)
(*                                                                         *)
(* A delivery transaction of an honest relayer waits in the transaction    *)
(* pool between the block it was built and validated against and the block *)
(* that includes it, where validate runs again.  The other relayers submit *)
(* anything, and because the filter runs at inclusion their transactions   *)
(* need no pool.                                                           *)
(***************************************************************************)
EXTENDS MessageLane
LOCAL INSTANCE FiniteSetsExt

CONSTANTS
  Honest,          \* relayers that build a transaction only if it succeeds
  DeliveryReward,  \* reward for every confirmed message
  Refund           \* what a refunded transaction costs

ASSUME RelayedAssumption ==
  /\ Honest \subseteq Relayers
  /\ DeliveryReward \in Nat
  /\ Refund \in Nat

VARIABLES
  pool,        \* the pending delivery of each honest relayer, if any
  registered,  \* target: RegisteredRelayers
  refunds,     \* target: RelayerRewards, paid by ThisChain
  rewards      \* source: RelayerRewards, paid by BridgedChain

relayed_vars == << vars, pool, registered, refunds, rewards >>

\* The messages and, optionally, the lane state that a header proves.
Tx(header) ==
  {tx \in [header : {header}, first : 1 .. MaxGenerated,
           last : 0 .. MaxGenerated, with_state : BOOLEAN] :
     tx.first <= tx.last + 1}

RelayedInit ==
  /\ Init
  /\ pool = [r \in Honest |-> {}]
  /\ registered = Honest
  /\ refunds = [r \in Relayers |-> 0]
  /\ rewards = [r \in Relayers |-> 0]

-----------------------------------------------------------------------------
\* unrewarded_relayers_occupation: both subtractions saturate.
free_relayer_slots(lane) ==
  IF Len(lane.relayers) > MaxUnrewardedRelayers THEN 0
  ELSE MaxUnrewardedRelayers - Len(lane.relayers)

\* Fault: only the newest entry counts.
free_message_slots_of_back(lane) ==
  IF lane.relayers = << >> THEN MaxUnconfirmed
  ELSE MaxUnconfirmed - Cardinality(EntryNonces(lane.relayers[Len(lane.relayers)]))

free_message_slots(lane) ==
  LET unconfirmed == last_delivered_nonce(lane) - lane.last_confirmed_nonce
  IN  IF unconfirmed > MaxUnconfirmed THEN 0 ELSE MaxUnconfirmed - unconfirmed

\* The bundled range continues the stored one.
appends_to_stored_nonce(start, best_stored_nonce) == start = best_stored_nonce + 1

\* Fault: nothing is delivered to a full lane, not even what unblocks it.
delivery_is_obsolete_when_full(tx) ==
  \/ ~ is_active
  \/ tx.first > tx.last
  \/ free_relayer_slots(inbound) = 0 \/ free_message_slots(inbound) = 0
  \/ ~ appends_to_stored_nonce(tx.first, last_delivered_nonce(inbound))

\* Fault: the state of the dispatcher is left to the call.
delivery_is_obsolete_unless_new(tx) ==
  IF tx.first > tx.last
  THEN free_relayer_slots(inbound) # 0 /\ free_message_slots(inbound) # 0
  ELSE ~ appends_to_stored_nonce(tx.first, last_delivered_nonce(inbound))

\* ReceiveMessagesProofInfo::is_obsolete.
delivery_is_obsolete(tx) ==
  \/ ~ is_active
  \/ IF tx.first > tx.last
     THEN free_relayer_slots(inbound) # 0 /\ free_message_slots(inbound) # 0
     ELSE ~ appends_to_stored_nonce(tx.first, last_delivered_nonce(inbound))

\* ReceiveMessagesDeliveryProofInfo::is_obsolete.  The bundled range starts
\* after the stored nonce by construction, so only its emptiness counts.
confirmation_is_obsolete(header) ==
  outbound.latest_received_nonce + 1 > last_delivered_nonce(header)

\* check_obsolete_call.
check_delivery(tx) == ensure_not_halted("target") /\ ~ delivery_is_obsolete(tx)

check_confirmation(header) ==
  ensure_not_halted("source") /\ ~ confirmation_is_obsolete(header)

-----------------------------------------------------------------------------
\* receive_messages_proof returns no error.
delivery_is_valid(tx) ==
  /\ ensure_not_halted("target")
  /\ is_active
  /\ tx.header \in ToSet(source_headers)
  /\ tx.last < tx.first + MaxUnconfirmed
  /\ verify_messages_proof(tx.header, tx.first, tx.last, tx.with_state)

\* The inbound lane after a valid delivery.
delivered_lane(relayer, tx) ==
  receive_messages(IF tx.with_state
                   THEN receive_state_update(inbound,
                          tx.header.lane.latest_received_nonce)
                   ELSE inbound,
                   relayer, tx.first, tx.last)

\* Fault: a call without messages is always a success.
was_successful_if_empty(tx, post) ==
  tx.first <= tx.last => last_delivered_nonce(post) = tx.last

\* CallHelper::was_successful of a delivery that left the lane in state post.
was_successful(tx, post) ==
  IF tx.first > tx.last
  THEN free_message_slots(post) > free_message_slots(inbound)
  ELSE last_delivered_nonce(post) = tx.last

\* The delivery would be dispatched and refunded if it were included now.
Succeeds(relayer, tx) ==
  /\ delivery_is_valid(tx)
  /\ was_successful(tx, delivered_lane(relayer, tx))

\* bundled_messages_for_priority_boost: only these are boosted or slashed.
may_slash_relayer(tx) == tx.last < tx.first + MaxUnconfirmed

\* analyze_call_result and post_dispatch_details of a delivery.
PostDispatchDelivery(relayer, tx) ==
  IF Succeeds(relayer, tx)
  THEN /\ refunds' = [refunds EXCEPT ![relayer] = @ + Refund]
       /\ UNCHANGED registered
  ELSE /\ registered' = IF may_slash_relayer(tx) THEN registered \ {relayer}
                        ELSE registered
       /\ UNCHANGED refunds

\* A delivery that passes the filter is included in a block.  If its call
\* fails it is reverted, but the extension still acts on the relayer.
IncludeDelivery(relayer, tx) ==
  /\ check_delivery(tx)
  /\ IF delivery_is_valid(tx)
     THEN ReceiveMessagesProof(relayer, tx.header, tx.first, tx.last, tx.with_state)
     ELSE UNCHANGED vars
  /\ PostDispatchDelivery(relayer, tx)
  /\ UNCHANGED rewards

\* An honest relayer validates and submits a delivery that succeeds now.
validate(relayer, tx) == check_delivery(tx) /\ Succeeds(relayer, tx)

Submit(relayer) ==
  /\ pool[relayer] = {}
  /\ \E header \in ToSet(source_headers) : \E tx \in Tx(header) :
       /\ validate(relayer, tx)
       /\ pool' = [pool EXCEPT ![relayer] = {tx}]
  /\ UNCHANGED << vars, registered, refunds, rewards >>

\* The pending delivery is validated again and included, or dropped.
Include(relayer) ==
  /\ \E tx \in pool[relayer] : IncludeDelivery(relayer, tx)
  /\ pool' = [pool EXCEPT ![relayer] = {}]

Drop(relayer) ==
  /\ \E tx \in pool[relayer] : ~ check_delivery(tx)
  /\ pool' = [pool EXCEPT ![relayer] = {}]
  /\ UNCHANGED << vars, registered, refunds, rewards >>

\* Any other relayer gets any delivery included that passes the filter.
IncludeAny(relayer) ==
  /\ \E header \in ToSet(source_headers) : \E tx \in Tx(header) :
       IncludeDelivery(relayer, tx)
  /\ UNCHANGED pool

\* Fault: the whole entry is rewarded, whatever was confirmed before.
calc_relayers_rewards_whole(relayers, received, relayer) ==
  MapThenSumSet(LAMBDA i : relayers[i].end - relayers[i].begin + 1,
                {i \in DOMAIN relayers : relayers[i].relayer = relayer})

\* calc_relayers_rewards: the messages of the received range each entry covers.
calc_relayers_rewards(relayers, received, relayer) ==
  MapThenSumSet(LAMBDA i : Cardinality(EntryNonces(relayers[i]) \cap received),
                {i \in DOMAIN relayers : relayers[i].relayer = relayer})

\* A delivery confirmation that passes the filter: pay_reward registers the
\* rewards of the confirmed messages, post_dispatch_details the refund.
IncludeConfirmation(confirmer) ==
  /\ \E header \in ToSet(target_headers) :
       /\ check_confirmation(header)
       /\ ReceiveMessagesDeliveryProof(header)
       /\ rewards' = [r \in Relayers |->
            rewards[r]
            + DeliveryReward *
                calc_relayers_rewards(header.relayers,
                  confirmed_messages(outbound, last_delivered_nonce(header)), r)
            + IF r = confirmer THEN Refund ELSE 0]
  /\ UNCHANGED << pool, registered, refunds >>

\* Steps of the chains and of the pallet owners.
ChainStep ==
  /\ \/ \E payload \in Payloads : SendMessage(payload)
     \/ ImportSourceHeader
     \/ ImportTargetHeader
     \/ \E chain \in Chains, new_mode \in OperatingModes :
          SetOperatingMode(chain, new_mode)
     \/ SwitchDispatcher
  /\ UNCHANGED << pool, registered, refunds, rewards >>

RelayedNext ==
  \/ ChainStep
  \/ \E relayer \in Honest : Submit(relayer) \/ Include(relayer) \/ Drop(relayer)
  \/ \E relayer \in Relayers \ Honest : IncludeAny(relayer)
  \/ \E relayer \in Relayers : IncludeConfirmation(relayer)

RelayedSpec == RelayedInit /\ [][RelayedNext]_relayed_vars

Reactivate == ~ is_active /\ SwitchDispatcher

\* Finality never stops for good, a congested dispatcher recovers, and some
\* honest relayer keeps submitting and confirming.  The dispatcher may
\* stop again and again, so both halves of a delivery need strong fairness.
RelayedFairSpec ==
  /\ RelayedSpec
  /\ WF_relayed_vars(ImportSourceHeader /\ ChainStep)
  /\ WF_relayed_vars(ImportTargetHeader /\ ChainStep)
  /\ WF_relayed_vars(Reactivate /\ ChainStep)
  /\ \A relayer \in Honest :
       /\ SF_relayed_vars(Submit(relayer))
       /\ SF_relayed_vars(Include(relayer))
       /\ WF_relayed_vars(Drop(relayer))
       /\ WF_relayed_vars(IncludeConfirmation(relayer))

-----------------------------------------------------------------------------
\* The type invariant of the extension's state.
RelayedTypeOK ==
  /\ DOMAIN pool = Honest
  /\ \A r \in Honest :
       /\ Cardinality(pool[r]) <= 1
       /\ \A tx \in pool[r] : IsSourceState(tx.header) /\ tx \in Tx(tx.header)
  /\ registered \subseteq Relayers
  /\ refunds \in [Relayers -> Nat]
  /\ rewards \in [Relayers -> Nat]

\* What a relayer may claim at the source is exact: the reward of every
\* confirmed message goes to the relayer that delivered it, once, however the
\* confirmations overlap and whoever brings them (pay_reward); beyond that it
\* has refunds, for no more confirmations than there are confirmed messages.
RewardsExact ==
  /\ RelayedTypeOK
  /\ \A r \in Relayers :
       LET delivered == {n \in 1 .. outbound.latest_received_nonce :
                           dispatched[n].relayer = r}
       IN  \E confirmations \in 0 .. outbound.latest_received_nonce :
             rewards[r] = DeliveryReward * Cardinality(delivered)
                          + Refund * confirmations

\* An honest relayer is slashed for a delivery of which S holds, although the
\* light client still keeps the header of its proof.
HonestSlashedFor(S(_)) ==
  \E r \in Honest \cap registered :
     /\ r \notin registered'
     /\ \E tx \in pool[r] : S(tx) /\ tx.header \in ToSet(source_headers)

\* A message bundle of an honest relayer is slashed only if the light client
\* has pruned the header of its proof: whatever other relayers got included
\* between its validation and its inclusion, the filter drops the bundle or
\* the lane accepts all of it (check_obsolete_call, analyze_call_result).
HonestBundleNeverSlashed ==
  [][~ HonestSlashedFor(LAMBDA tx : tx.first <= tx.last)]_relayed_vars

\* The same of every delivery of an honest relayer, with those that bring only
\* the lane state to unblock the lane: docs/polkadot-kusama-bridge-overview.md
\* promises that the extension keeps obsolete deliveries out of blocks so that
\* an "honest, but unlucky relayer" loses nothing, and docs/running-relayer.md
\* that only invalid or non-minimal deliveries are slashed.
HonestNeverSlashed == [][~ HonestSlashedFor(LAMBDA tx : TRUE)]_relayed_vars

\* "If your transaction has claimed to deliver messages [42, 43, 44], but has
\* actually delivered messages [42, 43], the transaction will be free"
\* (docs/polkadot-kusama-bridge-overview.md): a delivery that delivered some
\* messages is refunded.
PartialDeliveryRefunded ==
  [][last_delivered_nonce(inbound)' > last_delivered_nonce(inbound)
       => refunds' # refunds]_relayed_vars

\* A delivery is refunded only if it delivered messages or freed message slots
\* of the inbound lane, so that no relayer is refunded for repeating what was
\* done (was_successful).
RefundedOnlyForProgress ==
  [][refunds' # refunds =>
       \/ last_delivered_nonce(inbound)' > last_delivered_nonce(inbound)
       \/ free_message_slots(inbound)' > free_message_slots(inbound)]_relayed_vars

\* "If relayer slots are released, then message slots are also released": the
\* comment in was_successful that lets it ignore the relayer slots of a
\* delivery without messages.
SlotsReleasedTogether ==
  [][/\ last_delivered_nonce(inbound)' = last_delivered_nonce(inbound)
     /\ free_relayer_slots(inbound)' > free_relayer_slots(inbound)
     => free_message_slots(inbound)' > free_message_slots(inbound)]_relayed_vars

\* The filter of confirmations is exact: it rejects the proofs whose
\* confirmation would change nothing, and no other.
ConfirmationFilterExact ==
  \A header \in ToSet(target_headers) :
     confirmation_is_obsolete(header) <=> confirmation_result(header) = "Nothing"

\* Every message that is sent is confirmed at the source in the end: although
\* both limits of the inbound lane block deliveries until the target has learned
\* of confirmations from the outbound lane state (receive_state_update), and the
\* filter lets deliveries without messages through only when the lane is full
\* (is_obsolete).
EventuallyConfirmed ==
  \A n \in 1 .. MaxGenerated :
     outbound.latest_generated_nonce >= n ~> outbound.latest_received_nonce >= n
=============================================================================
