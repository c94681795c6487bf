--------------------------- MODULE RelayersPallet ---------------------------
(***************************************************************************)
(* The relayers pallet (bridges/modules/relayers/src/lib.rs): relayers     *)
(* stake to have their deliveries boosted, are slashed when a delivery     *)
(* fails, and claim rewards.  A reward is paid from the rewards account of *)
(* the lane, and the same account receives the slashed stakes.             *)
(*                                                                         *)
(* The balances are those of substrate/frame/balances as the pallet uses   *)
(* them: a named reserve per relayer, an account that dies when its last   *)
(* unit leaves it, and a transfer of reserved funds that fails if its      *)
(* beneficiary is dead.                                                    *)
(***************************************************************************)
EXTENDS Integers

CONSTANTS
  Relayers,
  RequiredRegistrationLease,
  RequiredStakes,  \* stakes that runtime upgrades may require
  Balance,         \* free balance of each relayer at the start
  Endowment,       \* balance of the rewards account at the start
  MaxReward,       \* bound on the unclaimed reward of a relayer
  MaxBlock         \* bound on the block number

ASSUME RelayersAssumption ==
  /\ RequiredRegistrationLease \in Nat
  /\ RequiredStakes \subseteq Nat
  /\ Balance \in Nat
  /\ Endowment \in Nat \ {0}
  /\ MaxReward \in Nat
  /\ MaxBlock \in Nat

VARIABLES
  block,           \* the current block number
  required_stake,  \* StakeAndSlash::RequiredStake
  registered,      \* relayers with an entry in RegisteredRelayers
  valid_till,      \* of that entry
  stake,           \* of that entry
  free,            \* free balance of each relayer
  reserved,        \* named reserve of each relayer
  rewards,         \* RelayerRewards; 0 means no entry
  pot,             \* balance of the rewards account
  boosted          \* history: the last block that boosted a delivery of the
                   \* relayer since it was last slashed, or 0

vars == << block, required_stake, registered, valid_till, stake, free, reserved,
           rewards, pot, boosted >>

Init ==
  /\ block = 1
  /\ required_stake \in RequiredStakes
  /\ registered = {}
  /\ valid_till = [r \in Relayers |-> 0]
  /\ stake = [r \in Relayers |-> 0]
  /\ free = [r \in Relayers |-> Balance]
  /\ reserved = [r \in Relayers |-> 0]
  /\ rewards = [r \in Relayers |-> 0]
  /\ pot = Endowment
  /\ boosted = [r \in Relayers |-> 0]

\* The registration is renewed for till, and the reserve adjusted to the
\* required stake: the surplus is unreserved, or what is missing reserved.
register(relayer, till) ==
  /\ till > block + RequiredRegistrationLease
  /\ relayer \in registered => till >= valid_till[relayer]
  /\ \/ /\ stake[relayer] >= required_stake
        /\ LET surplus == stake[relayer] - required_stake
           IN  /\ surplus <= reserved[relayer]
               /\ reserved' = [reserved EXCEPT ![relayer] = @ - surplus]
               /\ free' = [free EXCEPT ![relayer] = @ + surplus]
     \/ /\ stake[relayer] < required_stake
        /\ LET missing == required_stake - stake[relayer]
           IN  /\ missing <= free[relayer]
               /\ reserved' = [reserved EXCEPT ![relayer] = @ + missing]
               /\ free' = [free EXCEPT ![relayer] = @ - missing]
  /\ registered' = registered \cup {relayer}
  /\ valid_till' = [valid_till EXCEPT ![relayer] = till]
  /\ stake' = [stake EXCEPT ![relayer] = required_stake]
  /\ UNCHANGED << block, required_stake, rewards, pot, boosted >>

\* The entry of the relayer is taken out of RegisteredRelayers.
take(relayer) ==
  /\ relayer \in registered
  /\ registered' = registered \ {relayer}
  /\ valid_till' = [valid_till EXCEPT ![relayer] = 0]
  /\ stake' = [stake EXCEPT ![relayer] = 0]

\* Not before block valid_till + 1; the whole stake must be unreserved.
deregister(relayer) ==
  /\ valid_till[relayer] < block
  /\ stake[relayer] <= reserved[relayer]
  /\ take(relayer)
  /\ reserved' = [reserved EXCEPT ![relayer] = @ - stake[relayer]]
  /\ free' = [free EXCEPT ![relayer] = @ + stake[relayer]]
  /\ UNCHANGED << block, required_stake, rewards, pot, boosted >>

\* repatriate_reserved moves what it can of the stake to the rewards account,
\* and fails without effect if that account is dead.
Repatriated(relayer) ==
  IF pot = 0 THEN 0
  ELSE IF stake[relayer] <= reserved[relayer] THEN stake[relayer]
  ELSE reserved[relayer]

\* Fault: the slashed relayer stays registered.
slash_only(relayer) ==
  /\ relayer \in registered
  /\ reserved' = [reserved EXCEPT ![relayer] = @ - Repatriated(relayer)]
  /\ pot' = pot + Repatriated(relayer)
  /\ boosted' = [boosted EXCEPT ![relayer] = 0]
  /\ UNCHANGED << block, required_stake, registered, valid_till, stake, free,
                  rewards >>

\* The registration goes even if its stake cannot be slashed: the error of
\* repatriate_reserved is only logged.
slash_and_deregister(relayer) ==
  /\ take(relayer)
  /\ reserved' = [reserved EXCEPT ![relayer] = @ - Repatriated(relayer)]
  /\ pot' = pot + Repatriated(relayer)
  /\ boosted' = [boosted EXCEPT ![relayer] = 0]
  /\ UNCHANGED << block, required_stake, free, rewards >>

\* Fault: the remaining lease is not checked.
is_registration_active_until_end(relayer) ==
  relayer \in registered /\ stake[relayer] >= required_stake

is_registration_active(relayer) ==
  /\ relayer \in registered
  /\ stake[relayer] >= required_stake
  /\ valid_till[relayer] > block + RequiredRegistrationLease

\* The extension validates a delivery of the relayer and boosts its priority.
Boost(relayer) ==
  /\ is_registration_active(relayer)
  /\ boosted' = [boosted EXCEPT ![relayer] = block]
  /\ UNCHANGED << block, required_stake, registered, valid_till, stake, free,
                  reserved, rewards, pot >>

\* Callers are the extension and the payment adapter; a zero reward is ignored.
register_relayer_reward(relayer, reward) ==
  /\ reward > 0
  /\ rewards[relayer] + reward <= MaxReward
  /\ rewards' = [rewards EXCEPT ![relayer] = @ + reward]
  /\ UNCHANGED << block, required_stake, registered, valid_till, stake, free,
                  reserved, pot, boosted >>

\* claim_rewards: the whole entry is paid and removed, or the call fails.
do_claim_rewards(relayer) ==
  /\ rewards[relayer] > 0
  /\ rewards[relayer] <= pot
  /\ rewards' = [rewards EXCEPT ![relayer] = 0]
  /\ pot' = pot - rewards[relayer]
  /\ free' = [free EXCEPT ![relayer] = @ + rewards[relayer]]
  /\ UNCHANGED << block, required_stake, registered, valid_till, stake, reserved,
                  boosted >>

NextBlock ==
  /\ block < MaxBlock
  /\ block' = block + 1
  /\ UNCHANGED << required_stake, registered, valid_till, stake, free, reserved,
                  rewards, pot, boosted >>

\* A runtime upgrade changes the required stake.
Upgrade ==
  /\ required_stake' \in RequiredStakes
  /\ UNCHANGED << block, registered, valid_till, stake, free, reserved, rewards,
                  pot, boosted >>

Next ==
  \/ \E r \in Relayers :
       \/ \E till \in 1 .. MaxBlock : register(r, till)
       \/ deregister(r)
       \/ slash_and_deregister(r)
       \/ Boost(r)
       \/ \E reward \in 1 .. MaxReward : register_relayer_reward(r, reward)
       \/ do_claim_rewards(r)
  \/ NextBlock
  \/ Upgrade

Spec == Init /\ [][Next]_vars

-----------------------------------------------------------------------------
\* The type invariant: storage of the pallet and the balances it manages.
TypeOK ==
  /\ block \in Nat
  /\ required_stake \in RequiredStakes
  /\ registered \subseteq Relayers
  /\ valid_till \in [Relayers -> Nat]
  /\ stake \in [Relayers -> Nat]
  /\ free \in [Relayers -> Nat]
  /\ reserved \in [Relayers -> Nat]
  /\ rewards \in [Relayers -> Nat]
  /\ pot \in Nat
  /\ boosted \in [Relayers -> Nat]

\* The stake of a registration is always covered by the reserve, whatever
\* upgrades, renewals, failed slashes and new registrations came before: so
\* unreserving never fails half-way and no relayer is slashed partially.
StakeIsReserved ==
  \A r \in Relayers :
     /\ stake[r] <= reserved[r]
     /\ r \notin registered => stake[r] = 0

\* A delivery that was boosted when it entered the pool can be punished when
\* it is included within the required lease: until then its relayer cannot
\* deregister, even if an upgrade changes the stake (is_registration_active
\* against deregister).
BoostedStaysSlashable ==
  \A r \in Relayers :
     boosted[r] > 0 /\ block <= boosted[r] + RequiredRegistrationLease
       => r \in registered

\* "Active relayer stake, which is mapped to the relayer reserved balance"
\* (Registration::stake): a relayer without a registration has nothing left in
\* the reserve, and no more than its stake with one.
ReserveIsStake == \A r \in Relayers : reserved[r] = stake[r]
=============================================================================
