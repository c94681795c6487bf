# Bridges, queues and the state database: a verification development

TLA+ models of the bridge between two chains (`bridges/`), of the queues that
messages pass on a chain and between parachains (`substrate/frame/message-queue`,
`cumulus/pallets/xcmp-queue`), and of the pruning state database of a node
(`substrate/client/state-db`); the TLC configurations that check them on small
instances; and proofs checked by TLAPS.
`PROJECT.json` lists the components, runs, mutants, findings, hazards and
theorems, and maps every definition to the lines it models.

## 1. The system and its parts

The repository is a Polkadot SDK: chain framework (`substrate/`), relay chain
(`polkadot/`), parachain support (`cumulus/`) and bridges (`bridges/`). This
development takes the parts where a unit test sees least of what can happen: the
bridges, where two chains that trust no common scheduler exchange messages through
relayers that may stop, race and lie; the queues below them, whose limits, weights
and signals interact across blocks and chains; and the database, which has to
survive a crash between any two of its steps.

| Part | State | Operations | What makes it hard |
|---|---|---|---|
| messages pallet, `bridges/modules/messages` | `OutboundLanes`, `OutboundMessages`, `InboundLanes` with a queue of unrewarded relayers, operating mode | send, `receive_messages_proof`, `receive_messages_delivery_proof`, mode changes | two chains, stale proofs, repeated and raced transactions, two limits that block the lane until it has learned of confirmations |
| transaction extension, `bridges/modules/relayers/src/extension`, and the filters `call_ext.rs` | none of its own | validate, prepare, post-dispatch: filter, refund, slash | a transaction is valid when it is submitted and judged when it is included |
| relayers pallet, `bridges/modules/relayers` | `RegisteredRelayers`, `RelayerRewards`, named reserves | register, deregister, slash, reward, claim | stake requirements that change, an account shared by slashes and rewards, leases |
| xcm bridge hub pallet, `bridges/modules/xcm-bridge-hub` | `Bridges`, `LaneToBridge`, deposits, the lanes | open, export, suspend and resume, confirm, close by partial pruning | signals that fail, confirmations between the calls that close a bridge |
| GRANDPA light client, `bridges/modules/grandpa` | best header, ring buffer, authority set, free budget | initialize, submit, force, halt, block hooks | the order of set changes, the reuse of slots, a decision taken twice |
| parachains and BEEFY light clients, hub router | heads per parachain; MMR commitments; fee factor | submit; report congestion | planned, section 8 |
| relay processes, `bridges/relays` | race state in memory | race, finality, parachains and equivocation loops | planned; here they appear as the fairness of the runs |
| message queue, `substrate/frame/message-queue` | `BookStateFor`, `Pages`, `ServiceHead` | enqueue, the two passes of a block, `execute_overweight`, `reap_page`, `sweep_queue`, pausing | a pass may run out of weight at every step, and the messages it runs enqueue others |
| XCMP queue, `cumulus/pallets/xcmp-queue` | `OutboundXcmpStatus`, pages, `SignalMessages`, `InboundXcmpSuspended` | send, `take_outbound_messages`, `handle_xcmp_messages`, `on_queue_changed` | two chains keep two views of one channel, connected by signals that wait for room in a full channel |
| state database, `substrate/client/state-db` and its use in `substrate/client/db` | overlay of forks, pruning window, pins, journals on disk | insert, canonicalize, prune, revert, remove, pin, unpin, write, crash, open | memory runs ahead of the disk, readers hold what pruning wants to drop |
| Snowbridge, the rest of cumulus, polkadot, substrate and FRAME | | | not started; `PROJECT.json` names the parts |

How they interact: a light client keeps finalized headers of the other chain. A
relayer proves messages against one of them to the inbound lane, and the inbound
lane back to the outbound lane. The extension decides which of these transactions
enter a block and what they cost; the confirmation pays those that delivered. The
hub pallet opens lanes, feeds them, watches them fill, and closes them. Inbound
XCMP pages go into the message queue of their sender; the message queue reports the
number of its ready pages after every enqueue and every pass that did something
(`OnQueueChanged`), and the XCMP queue turns this into suspend and resume signals.
`NeverUnderstated` is what the XCMP queue relies on there.

## 2. The modules

```
UnrewardedRelayers <- OutboundLane, InboundLane <- MessageLane <- RelayedLane
                      OutboundLane <- BridgeHub
ExactlyOnceChannel, implemented by MessageLane
HeaderWindow, implemented by GrandpaLightClient
RelayersPallet; MessageQueue; XcmpQueue; StateDb
LaneTheorems <- MessageLaneTheorems
MessageLaneTheorems, RelayedLane <- RelayedLaneTheorems
RelayersPalletTheorems; GrandpaLightClientTheorems; BridgeHubTheorems;
MessageQueueTheorems
MC*: instances, symmetry sets and the constraint for TLC
```

* **UnrewardedRelayers**: the entries of the relayers queue (`UnrewardedRelayer`,
  `DeliveredMessages`): who delivered which contiguous nonces.
* **OutboundLane**, **InboundLane**: the two lane types as operators on records with
  the fields of the source: `send_message`, `confirm_delivery` and its errors;
  `receive_state_update`, `receive_message`. `receive_messages` is the delivery of a
  whole bundle in closed form: the lane accepts the messages up to `last_accepted`
  and appends them to one entry of the queue. `BatchIsRepeatedReceiveMessage`
  checks it against the loop of the code.
* **MessageLane**: one opened lane end to end, with one action per call of the
  pallet at either chain, the imports of both light clients, the dispatcher's
  `is_active` and the operating modes. A relayer transaction is an argument of an
  action, not state, so it may be lost, repeated, reordered and built from any
  kept header. A call that fails is reverted by FRAME as a whole and is no step:
  this includes `InsufficientDispatchWeight`, which stops a bundle in the middle.
  A proof is the state it proves. A header is taken from the chain when it is
  imported; an import that lags is the same as an import that is not used yet.
  `sent` and `dispatched` are histories.
* **ExactlyOnceChannel**: what a lane promises, a first-in first-out channel with a
  window: messages are received once, in order, and confirmed after that, and no
  more than `Window` messages are received and not confirmed.
* **RelayedLane**: the lane behind the transaction extension. Deliveries of an
  *honest* relayer, one that submits only what would succeed now, wait in a pool;
  at inclusion the filter runs again, and the extension refunds or slashes. The
  other relayers include whatever passes the filter. Confirmations register the
  rewards (`pay_reward`). An honest relayer that is slashed goes on unregistered.
* **RelayersPallet**: registration, lease, reserve, slash, rewards and claims. The
  balances are those of FRAME as the pallet uses them: a named reserve, accounts
  that die when emptied, and a repatriation that fails if the beneficiary is dead.
  `boosted` is a history of the priority boosts.
* **BridgeHub**: the life of several bridges at one hub, on the operators of
  `OutboundLane`. The other hub is represented by how far it has delivered.
* **GrandpaLightClient**: the pallet and the filter of its submissions. The
  bridged chain has one finalized chain of headers with numbers from 1;
  `best = 0` is the pallet before its initialization. A justification is the
  authority set that signed it; the votes in it are not modelled. The owner
  forces states that the bridged chain really had, also old ones; `rewound`
  remembers whether one was not above the best header.
* **HeaderWindow**: what a light client promises to the pallets that verify proofs:
  the last `Size` imported headers. `MessageLane` uses its light clients in this
  form.
* **MessageQueue**: books, pages and the ready ring. A pass is not one action: a step
  is one iteration of one of the three nested loops of `service_queues_impl`,
  `service_queue` and `service_page`, so that a property can speak of the middle of a
  pass, and nothing but the message that runs interleaves with it. A message has a
  weight and the result its processor gives it; one that succeeds may enqueue another,
  to its own queue too. The weights of the four steps of a pass are 1 each. All
  messages have one length, so `remaining_size` and `size` move with the counters
  that are modelled. `executed`, `reaped` and `told` are histories.
* **XcmpQueue**: several chains with the same code, connected by HRMP channels, which
  are bounded first-in first-out queues (external: how the relay chain keeps them is
  seen only through `get_channel_status`). A block of a chain is what lies between two
  `TakeOutbound`. The inbound message queue is its number of ready pages, with what
  `MessageQueue` guarantees of `OnQueueChanged`.
* **StateDb**: overlay, window and pins as in `noncanonical.rs`, `pruning.rs` and
  `lib.rs`, and the transactions of the backend. An operation changes the memory at
  once and adds to the transaction; `Commit` writes it in one go, a failing write
  resets the overlay (`StateDb::reset`), and a crash loses all but the disk. The block
  tree and the state of every block are given; a block's journal record is its hash.
  `counting` chooses whether the database counts references itself or the window does.
  A transaction imports at most one block, after the blocks it finalizes, and none whose
  header is known (`client.rs:572-577`). Readers may come and go at any moment, hold a
  leaf that is removed or reverted, and go on after a reset; a block may be imported on a
  discarded parent that a pin keeps in memory. `exposed` is auxiliary: the held blocks
  whose handles no longer protect them (section 7).

Definitions marked `Fault:` are not used by the specifications. Each is a
plausible mistake in the definition that follows it, and shows that a property
would notice it.

## 3. What the runs check

| Run | States | Question | Result |
|---|---|---|---|
| `lane_safety` | 166,528 | Is every message dispatched once, in order, as sent, and are both ends' books exact, whatever the relayers repeat, reorder and delay? Does the lane implement the channel? | holds |
| `relayed_incentives` | 65,120 | Is each delivered message rewarded once and to its deliverer, and is only progress refunded? | holds |
| `relayed_honest` | 723,200 | Is a bundle that was valid when submitted safe from slashing, unless its header was pruned? | holds |
| `relayed_liveness` | 17,926 | Is every message confirmed in the end, through the filter, the limits and a dispatcher that stops? | holds |
| `relayers_stakes` | 113,224 | Is every stake reserved, and can a boosted delivery be punished? | holds |
| `hub_lifecycle` | 71,376 | Are storage, lanes, signals and deposits consistent through opening, closing and opening again? Is a suspended bridge resumed or closed, and a closing one gone in the end? | holds |
| `grandpa_sync` | 39,144 | Does the pallet follow the sets and headers of the bridged chain, within its storage and budget? | holds |
| `queue_service` | 187,038 | Is the ring one cycle through every ready queue, is no message lost or run twice or out of order, are the counters exact, can what piles up be reaped, and does no queue starve? | holds |
| `xcmp_backpressure` | 137,789 | Do both ends of a channel agree on its suspension, are messages dropped only after the recipient had decided to suspend the sender, and does every channel keep moving? | holds |
| `state_db` | 129,570 | After a crash or a failed write at any point, do the journals rebuild the memory, and is every block readable that is in the tree, in the window or under a handle that counts? | holds |
| `relayed_honest_slashed` | | Is an honest relayer never slashed? | no, finding 1 |
| `xcmp_signal_lost` | | Is every signal dispatched? | no, finding 2 |

The properties that take most to violate:

* `ExactlyOnceInOrder`, `ImplementsChannel`: several deliveries from headers of
  different age, by two relayers, around a confirmation.
* `UnrewardedRelayersExact`: the queue covers exactly the delivered and unconfirmed
  messages and names their deliverers, also after a confirmation that ended inside
  an entry, and keeps both limits.
* `ConfirmationNeverFails`: the error paths of `confirm_delivery` that the comments
  reserve for broken proofs are not reached by honest ones, however stale.
  (`StateUpdateNeverFromFuture`, the same for the early return of
  `receive_state_update`, is proved.)
* `HonestBundleNeverSlashed`: a delivery validated in one state and judged in
  another, with the other relayer, the owners and the dispatcher in between.
* `SlotsReleasedTogether`: the comment that lets `was_successful` look at message
  slots only.
* `BoostedStaysSlashable`: two comparisons of the lease in two calls fit together.
* `NoTraces`, `StateMatchesLanes`, `SuspensionAgreed`, `DepositsHeld`: confirmations
  and failed signals between the calls that close a bridge.
* `AuthoritiesTrackBest`, `FreeMeansFree`: the set changes with headers skipped in
  between, and the free execution decided by the filter and again by the call.
* `RingIsSound`: a queue knitted into the ring by a message of another queue, or of
  its own, while the pass holds the queue that is about to be unknitted.
* `Conserved`, `TakenInOrder`: an overweight message is skipped by a pass, its page
  becomes stale, and it is executed by hand, reaped or swept while later pages are
  serviced; it is never executed twice and never lost without a reap.
* `NoStarvation`: whatever the other queues hold, a message that nothing holds back is
  taken in the end. This rests on the head moving with every pass and on
  `OverweightLimit` being what a pass has left for its first message.
* `SignalsAgree`, `ToldAsNeeded`: a queue crosses the thresholds in both directions
  while an earlier signal is still pending or under way in a full channel.
* `LostOnlyWhenTold`: a message is dropped only when the recipient had recorded the
  suspension, with its Suspend pending, under way or obeyed, before the page came. It
  needs a gap between the two thresholds that takes a page (the default gap is 16 pages;
  `QueueConfigData::validate` asks for none): with `DropThreshold = SuspendThreshold` one
  page of two messages crosses both, and what it loses is lost before the sender could
  have been told.
* `CrowdedIsReapable`: stale pages left by several passes, while an `execute_overweight`
  removes a page that is still ready. Such a page leaves `count` and stays in
  `end - begin`, and so hides one stale page from `do_reap_page`; the property counts with
  it.
* `Recovers`, `DataExact`: the transaction of a canonicalization, with the pruning it
  triggers, is written, fails or is lost; the node that opens the database finds the
  same tree and window, and no node is leaked or missing.
* `StateReadable`: a fork is discarded under a reader, and the block it forked from is
  canonicalized and pruned, while pins come late, are forgotten by a reset or do not
  count. What it says of a handle is what the code gives: the pin was taken on a block of
  the tree or the window, the database still counts it, the block was not removed, and
  the window has not left the block where its fork began. Blocks of the tree and of the
  window are readable without any handle, but for the gap described in section 7.

## 4. Bounds

All bounds are constants named in the modules.

* `lane_safety`: 4 messages of 2 payloads, 2 relayers, 2 unrewarded entries, 3
  unconfirmed messages, 2 headers, and owners that halt either pallet. Both limits
  block; a bundle can open the last entry and be cut in the middle; a stale header is
  kept next to the new one; the window closes before the last message is sent.
  Relayers and payloads are symmetric. The constraint `NeighboursDiffer` explores only
  sequences of sent messages whose neighbours differ: the pallet never looks at a
  payload, and with these a swapped, repeated or skipped message shows.
* `relayed_*`: 3 messages and limits of 2, so that the lane fills, is unblocked and
  fills again. `DeliveryReward = 7` and `Refund = 1` keep rewards and refunds apart
  in the sum. In `relayed_honest` both are 0: only the registration matters, and
  the halted mode is included. `relayed_liveness` keeps one header, the least
  favourable case, since a pending delivery outlives its header at every import.
* `relayers_stakes`: 5 blocks with a lease of 1, stakes of 1 and 2 and an endowment
  of 1, so that leases end, renewals go up and down, and a claim empties the account.
* `hub_lifecycle`: 2 bridges, 2 lanes, 3 messages, thresholds 2 and 1, deposits 1
  and 2 of a balance of 2, so that a second deposit fails.
* `grandpa_sync`: 7 headers with changes at 2, 3 (consecutive) and 5 and an
  unsupported one at 6, 3 kept headers, so that the ring wraps around, one free
  submission per block and two forced states.
* `queue_service`: 2 queues, one with messages too heavy for every pass, one with
  messages that yield; 3 messages, 2 in a page, so that a queue has full, partly
  processed and stale pages; passes of weight 5 and 6, of which 4 is overhead, so that
  the meter runs out at every step; `MaxStale = 1`, which is reached. A stale page that
  is hidden by a missing one needs 4 messages: the invariants were checked with these too
  (2,809,700 states), and `CrowdedIsReapable` is proved from `CountsExact` (section 6).
* `xcmp_backpressure`: a hub that sends to two chains over channels of one page with two
  messages, one channel per block, thresholds 1, 2 and 3, and 4 messages under way to one
  chain, so that it is suspended, drops and is resumed while the other one has messages;
  the other chain has messages too heavy for a pass. `xcmp_signal_lost`: two chains that
  send to each other over channels of two pages.
* `state_db`: 6 blocks, two branches of which one forks again, a window of one block, 2
  blocks in a level, 2 open handles, 2 blocks canonicalized and not yet synced; nodes that
  leave the state and come back, that two siblings insert, and that a fork deletes.
  Readers open three of the blocks (`Read`): one of either branch and the child of one.
  The node starts at genesis or at a synced block, and there with and without counting
  (`Starts`). That is enough for every behaviour listed in section 7 to happen, with and
  without the block that it harms.

The runs check for deadlock. `MaxGenerated`, `MaxBlock`, `MaxNumber`, `MaxForced`,
`MaxReward`, `MaxBatch`, `MaxMessages`, `MaxOutstanding`, `MaxHeld`, `MaxUnsynced` and
`Read` bound the exploration; the other constants are the code's own limits.

## 5. Fairness

Safety needs no fairness. The liveness properties assume:

* `relayed_liveness`: imports of headers, the recovery of the dispatcher, the dropping
  of a transaction that became invalid and confirmations are weakly fair; submission
  and inclusion of an honest relayer's deliveries strongly fair, since the dispatcher
  may stop again and again. The relay loops of `bridges/relays` submit again as long as
  nonces are missing, and a block author includes a valid pending transaction in the
  end. Senders, other relayers and the stopping of the dispatcher are not fair.
* `hub_lifecycle`: the other hub delivers, relayers confirm the latest delivery, and
  whoever closes a bridge calls again until it is gone. After a signal that
  fails the resume is tried again only at the next confirmation, so
  `SuspensionEnds` speaks of the behaviours in which signals succeed; which signals may
  fail is chosen initially (`signal_results`).
* `grandpa_sync`: blocks are produced, the owner initializes the pallet and stops
  halting it some day, and the relay is strongly fair, since halts disable it.
* `queue_service`: blocks are produced and a pass runs to its end (it is one call of
  the runtime). Nobody has to enqueue, execute, reap, sweep or unpause. `NoStarvation`
  asks in addition that the head is not moved by hand for ever and that, from some
  point on, passes begin with the weight the overweight limit was computed from.
* `xcmp_backpressure`: every chain produces blocks: it takes in what its channels hold,
  gives its outbound pages to the relay chain, and its message queue makes progress on
  the channels with messages (`NoStarvation`). Sending is not fair.

## 6. What is proved

TLAPS proves the following for every value of the constants that the named
assumptions admit (limits and sizes are natural numbers, some positive; the sets of
relayers, payloads and headers are arbitrary).

**The lane** (`LaneTheorems`, `MessageLaneTheorems`): the inductive invariant `Inv`
consists of the type invariant with the types of the header sequences,
`ExactlyOnceInOrder`, `CountersOrdered`, `UnrewardedRelayersExact`,
`StoredUntilConfirmed` and `HeadersProveThePast`. None is inductive alone. What a
delivery does depends on the header it is proved against: without the claim that
kept headers prove only the past, it could dispatch a wrong payload or take
unconfirmed messages for confirmed. Without the exact queue `last_delivered_nonce`, which
is read from its last entry, has no meaning. `LaneTheorems` has one lemma for each
operation on a queue: trimming by a confirmation keeps it contiguous
(`TrimRelayers`, `ReceiveStateUpdate`), a bundle extends it by what was accepted
(`NoteDispatched`, `ReceiveMessages`), and both keep the attribution (`TrimAttribution`,
`GrowthAttribution`). Facts about all entries are shown with a least counterexample
(`NatMin`) in place of induction. From `Inv` follow the invariants (`ExactlyOnce`,
`RelayersExact`, `StorageExact`, `TypeCorrect`), the absence of errors for honest
proofs (`NoConfirmationErrors`, `NoStateFromFuture`), the action property `Monotone`,
and `Refinement`: every step of the lane is a step of the channel or changes none of
its variables.

**The relayed lane** (`RelayedLaneTheorems`): `ExtensionKeepsLane` shows that the lane
behind the transaction extension implements the lane of `MessageLane`, so everything
proved of the lane holds with the filter, the refunds and the slashes in place. The
inductive invariant adds `PoolInv` to that of the lane: a pending bundle that was valid
and fitted into the lane when it was submitted can still be taken by it, unless its
first message was delivered meanwhile or its header was pruned. It survives because
whatever else happens to the lane before that first message only applies state updates,
which trim the front of the relayers queue (`UpdateTwice`, `UpdateAfterUpdate`,
`LaterUpdateTakes`): room is gained and never lost. From it follow that such a bundle is
never slashed (`HonestBundles`), that only progress is refunded (`RefundsForProgress`),
that entries and message slots are released together (`SlotsTogether`), and that the
filter lets exactly the confirmations through that confirm something
(`ConfirmationFilter`).

**The relayers pallet** (`RelayersPalletTheorems`): `Inv` is the type invariant,
`StakeIsReserved`, and the link that `BoostedStaysSlashable` needs: the lease of a
boosted relayer outlives the required lease from the boost on.

**The GRANDPA light client** (`GrandpaLightClientTheorems`): `Inv` is the type
invariant, `AuthoritiesTrackBest`, `NoOrphans` and an exact account of the budget of
the current block. `SetAfterStep` is the lemma on the number of set changes between two
headers: a header justified by the current set has no change between the best header
and itself. `BestAccessible` also needs that, until a rewind, the best header is the
highest in the ring, so that the slot a new header reuses cannot hold it.

**The bridge hub** (`BridgeHubTheorems`): `Inv` is the type invariant, `TryState`,
`StateMatchesLanes`, `SuspensionAgreed`, `NoTraces` and `CursorsOrdered`. The last one
is what makes it inductive: `close_bridge` moves `oldest_unpruned_nonce` ahead of the
confirmations and a later confirmation moves it back, so the messages that a lane
stores are no longer an interval between two cursors. That the cursors keep their order
(`Confirming`, `Pruning`) is enough to show that a lane which reports no queued
messages stores none, so that nothing is left of a bridge when its lanes are purged.
`CongestedIsSuspendedHolds`: a bridge above its congestion limit is suspended, provided
that signals succeed and the limit for resuming is not above the one for suspending.

**The message queue** (`MessageQueueTheorems`): `CrowdedReapable` derives
`CrowdedIsReapable` from `CountsExact`, which is model-checked, for every `MaxStale` and any
number of pages. `StaleAsCounted` shows that `count - (end - begin)` is the number of stale
pages less that of the missing ones, `BacklogShrinks` that an overflow of `MaxStale` brings
the watermark down to a depth of `MaxStale`; of more than `MaxStale` stale pages one lies
below it.

Some definitions are proved and no longer part of a run: the type invariants of the
lane, the relayers pallet, the hub and the light client, `TryState`, `NoOrphans`,
`RefundsBounded`, `CountersOrdered`, `HeadersProveThePast`, `CountersNeverDecrease`,
`StateUpdateNeverFromFuture`, `ConfirmationFilterExact` and `CongestedIsSuspended`.

Only model-checked: the liveness properties (fairness and `ENABLED` are outside of the
prover's reach), `BatchIsRepeatedReceiveMessage` (a fact about a recursive function,
which needs induction over data), `RewardsExact` and `DepositsHeld` (sums over sets), the
refinement of `HeaderWindow`, `FreeMeansFree`, the other properties of `MessageQueue`
(counters that are folds over the pages), `XcmpQueue` (some of its properties hold only of
channels with the stated parameters) and `StateDb`, which prunes with a `RECURSIVE`
operator and is thereby out of the prover's reach.

## 7. Where code and documentation disagree

Shown by a run, and quoted under `findings` in `PROJECT.json`:

1. `relayed_honest_slashed`: a delivery without messages, valid and minimal when it was
   submitted, is slashed if another relayer unblocks and fills the lane before it.
2. `xcmp_signal_lost`: `resume_channel` removes an entry without outbound pages although
   a signal is pending in it. A Suspend lost in this way leaves a sender that was never
   told; a lost Resume leaves one that waits for good.

Expressed in the modules, without a run of their own. The constants that are not named
are those of the run in brackets, and TLC finds the violation within seconds:

* `PartialDeliveryRefunded` (`relayed_incentives`): a delivery that the lane accepts in part
  is not refunded (`messages/src/call_ext.rs:60`), where
  `docs/polkadot-kusama-bridge-overview.md:58-61` promises it.
* `ReserveIsStake` (`relayers_stakes`): a slash after a claim has emptied the rewards
  account removes the registration and leaves the stake in the reserve
  (`relayers/src/lib.rs:379`, against `registration.rs:104`).
* `BestIsImported` (`grandpa_sync`): a forced header that is
  still in the ring, or the headers imported again after it, put a hash into the ring
  twice, and reusing the first slot removes a header that the second one names, possibly
  the best (`grandpa/src/lib.rs:718`).
* `RingIsSound` (`queue_service`, with `Reentrant = TRUE`): `do_execute_overweight_inner`
  reads the book at `message-queue/src/lib.rs:1087` and the page at 1090 and writes both
  back at 1132-1135. A message that enqueues to its own queue while it is executed by
  hand loses what it enqueued, and the links of the ring are overwritten. The module's
  documentation (62-66) allows a message processor to enqueue; a pass reads both again
  after every message, and holds.
* `ReadyPagesExist` (`queue_service`): `do_try_state` says that "There cannot be more ready
  than total pages". A message executed by hand can be the last one of a page that is
  still ready; the page is removed and `begin` stays. A pass steps over the gap.
* `SuspensionsRecorded` (`xcmp_backpressure`, three chains of which two send to the third,
  `Open <- InwardAndBack`, `Talk <- Inward`, `Heavy = {}`, `MaxOutstanding <-
  InwardOutstanding`): with `InboundXcmpSuspended` full, `on_queue_changed` sends the
  Suspend (`xcmp-queue/src/lib.rs:899-905`) and forgets the sender, which is never
  resumed. `Config::MaxInboundSuspended` (134-138) says that the suspension fails.
* `PinPreventsPruning` (`state_db`): `pin` "Prevents pruning of specified block and its
  descendants." (`state-db/src/lib.rs:603`); a pinned fork needs nodes of the block it
  forked from, which the window prunes all the same, and a pin may also come late or be
  forgotten (see below). `StateReadable` is the part that holds.
* `RevertFindsBest` (`state_db`): `revert_one` reverts the blocks "with the best block
  number" (`state-db/src/lib.rs:637-639`); a canonicalization that discards a longer fork
  leaves an empty last level, and reverting takes that one.
* `ToldAsNeeded` and `KeepsMoving` (`xcmp_backpressure`, with the channel from the hub to `x`
  in `Heavy`): `message-queue/src/lib.rs:1263` reports a queue only if a pass processed
  something, so a pass that sets overweight messages aside can empty the ready pages
  without a report, and a sender that was suspended for them is not released. `Heavy` is
  therefore disjoint from the answered channels of the run.

Behaviours of the state database that are part of the model and that its properties have
to allow for. With any of these allowances left out the property fails in the run:

* *late pin*: a block that has left the tree or the window is still in memory until the
  write and the sync, and `pin` grants a pin on it that was not counted when the block was
  discarded. Neither this handle nor, once it is closed, the others on the same fork keep
  anything (`exposed` in `pin`).
* *removed under a reader*: `revert_one` and `remove` take a leaf whatever its pins
  (`exposed` in `Dropped`).
* *reset*: a failed write rebuilds the memory and forgets the pins of readers that go on
  (`refs[h] = held[h]` in `Held`).
* *early release*: a canonicalized block that is not on disk yet is kept in memory by an
  insertion count, and closing a handle on a descendant releases it. Until the write, no
  state that needs its nodes can be read (`Limbo` in `StateReadable`).
* *fork point*: a pin on a fork does not keep the window from leaving the block it forked
  from (`Held`).
* *late child*: a block can be imported on a discarded parent that a pin keeps in
  `parents`, since the client asks only for the state of the parent (`client.rs:820`) and
  the overlay only for the parent in memory (`noncanonical.rs:284`). It gets a level and a
  record, but does not belong to the tree; a restart may not find it, and its record may
  outlive it (`Tree` in `Recovers`).

Seen while modelling, and not expressed by a property:

* `docs/polkadot-kusama-bridge-overview.md:123-124` says that a delivery is not rejected if
  at least one of its messages is new; `call_info.rs:123` rejects every bundle that does
  not start right after the last delivered nonce.
* `primitives/messages/src/lib.rs:465-466` calls `oldest_unpruned_nonce` the oldest message
  not yet pruned; a confirmation after a partial `close_bridge` moves it back to messages
  that are gone (`outbound_lane.rs:173`). `NoTraces` and `ClosingEnds` hold all the same.
* With `FreeHeadersInterval = None` the filter (`grandpa/src/call_ext.rs:100`) lets a
  non-mandatory header through that expects free execution and is then paid for
  (`grandpa/src/lib.rs:595`). `FreeMeansFree` is checked with an interval configured.
* `message-queue/src/lib.rs:927-928` expects every queue to be reached because the head
  moves with every pass. With two passes in a block, of which the one in `on_idle` is too
  small for a message, and an even number of ready queues, the larger pass may meet the
  same queues again and again. `Disturbance` excludes this from `NoStarvation`.
* `xcmp-queue/src/lib.rs:638-639` also promises that a signal is dispatched in its block: it
  waits while the channel is full, and a newer signal overwrites it. `SignalsAgree` holds
  all the same. The notification of the opaque format, which line 1163 wants sent once in
  the life of a channel, is sent again after the entry was removed.

## 8. What is not modelled, and the plan

Left out of the modelled parts: weights, fees and events; storage proofs and their
encoding; the variants of the extension that batch header submissions with a delivery,
and the size of the priority boost; `set_owner`; the dispatch of inbound blobs and the
computation of locations and lane ids at the hub; two hubs opening their ends of a
lane at different times, which the pallet leaves to the chains; the votes inside a
justification; the sizes of messages and pages in bytes, the delivery fees and the calls
that change thresholds or suspend execution of the XCMP queue; the archive modes of the
state database, the import of a block that is known already (`import_existing`), and a
failed write of `finalize_block` (`client/db/src/lib.rs:2374`), `revert` or
`remove_leaf_block`, which leaves the memory ahead of the disk.

Most of the repository is not modelled. Its parts are largely independent, and each of
the larger ones (node subsystems, consensus clients, the parachain runtime, XCM, more
than a hundred pallets) is a system of its own; the share of lines that these modules
cover is small and says how much there is, not that the rest is out of reach.

Order of work:

1. done: lane and its channel, with proofs; extension and incentives, relayers pallet
   (both with proofs); bridge hub with proofs; GRANDPA light client with proofs; message
   queue; XCMP queue; state database.
2. next: the message relay loop (race strategies, lost connections, the view of
   finalized state), which would replace the fairness of `RelayedLane` by its code; the
   parachains light client on top of GRANDPA, with its own ring buffer.
3. then: HRMP channels and the parachain system pallet, below the XCMP queue; dispute
   import; the hub router and its fee factor; BEEFY.
4. proofs to add: the refinement of `HeaderWindow` and the ring of `MessageQueue`.
