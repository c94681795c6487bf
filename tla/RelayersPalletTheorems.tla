----------------------- MODULE RelayersPalletTheorems -----------------------
(***************************************************************************)
(* Proofs of the invariants of the relayers pallet, for any number of      *)
(* relayers, any lease and any sequence of required stakes.                *)
(***************************************************************************)
EXTENDS RelayersPallet, TLAPS

\* A boosted delivery stays slashable because the lease that its relayer had
\* left is longer than the required one, and no step shortens it: a relayer
\* still registered is registered beyond the lease of its last boost, and one
\* that is no longer registered has outlived it.
LeaseOutlivesBoost ==
  \A r \in Relayers :
     boosted[r] > 0 =>
       IF r \in registered
       THEN valid_till[r] > boosted[r] + RequiredRegistrationLease
       ELSE block > boosted[r] + RequiredRegistrationLease

Inv == TypeOK /\ StakeIsReserved /\ LeaseOutlivesBoost

\* The empty pallet satisfies the invariant.
LEMMA InitInv == Init => Inv
BY RelayersAssumption DEF Init, Inv, TypeOK, StakeIsReserved, LeaseOutlivesBoost

\* A registration reserves its stake and never shortens a lease (register).
LEMMA RegisterInv ==
  ASSUME Inv, NEW r \in Relayers, NEW till \in 1 .. MaxBlock, register(r, till)
  PROVE  Inv'
<1>1. till \in Nat /\ RequiredRegistrationLease \in Nat /\ required_stake \in Nat
  BY RelayersAssumption DEF Inv, TypeOK
<1>2. TypeOK'
  <2>1. free' \in [Relayers -> Nat] /\ reserved' \in [Relayers -> Nat]
    BY <1>1 DEF register, Inv, TypeOK
  <2> QED BY <1>1, <2>1 DEF register, Inv, TypeOK
<1>3. StakeIsReserved'
  BY <1>1 DEF register, Inv, TypeOK, StakeIsReserved
<1>4. LeaseOutlivesBoost'
  BY <1>1 DEF register, Inv, TypeOK, LeaseOutlivesBoost
<1> QED BY <1>2, <1>3, <1>4 DEF Inv

\* A relayer deregisters only when the lease of its last boost is over.
LEMMA DeregisterInv ==
  ASSUME Inv, NEW r \in Relayers, deregister(r)
  PROVE  Inv'
<1>1. RequiredRegistrationLease \in Nat
  BY RelayersAssumption
<1>2. TypeOK'
  BY DEF deregister, take, Inv, TypeOK
<1>3. StakeIsReserved'
  BY DEF deregister, take, Inv, TypeOK, StakeIsReserved
<1>4. LeaseOutlivesBoost'
  BY <1>1 DEF deregister, take, Inv, TypeOK, LeaseOutlivesBoost
<1> QED BY <1>2, <1>3, <1>4 DEF Inv

\* A slash, complete or failed, takes no more than the stake.
LEMMA SlashInv ==
  ASSUME Inv, NEW r \in Relayers, slash_and_deregister(r)
  PROVE  Inv'
<1>1. Repatriated(r) \in Nat /\ Repatriated(r) <= reserved[r]
  BY DEF Repatriated, Inv, TypeOK
<1>2. TypeOK'
  BY <1>1 DEF slash_and_deregister, take, Inv, TypeOK
<1>3. StakeIsReserved'
  BY <1>1 DEF slash_and_deregister, take, Inv, TypeOK, StakeIsReserved, Repatriated
<1>4. LeaseOutlivesBoost'
  BY DEF slash_and_deregister, take, Inv, TypeOK, LeaseOutlivesBoost
<1> QED BY <1>2, <1>3, <1>4 DEF Inv

\* Every step of the pallet preserves the invariant.
LEMMA NextInv == Inv /\ [Next]_vars => Inv'
<1> SUFFICES ASSUME Inv, [Next]_vars PROVE Inv'
  OBVIOUS
<1> USE RelayersAssumption
<1>1. ASSUME NEW r \in Relayers, NEW till \in 1 .. MaxBlock, register(r, till)
      PROVE  Inv'
  BY <1>1, RegisterInv
<1>2. ASSUME NEW r \in Relayers, deregister(r) PROVE Inv'
  BY <1>2, DeregisterInv
<1>3. ASSUME NEW r \in Relayers, slash_and_deregister(r) PROVE Inv'
  BY <1>3, SlashInv
<1>4. ASSUME NEW r \in Relayers, Boost(r) PROVE Inv'
  BY <1>4 DEF Boost, is_registration_active, Inv, TypeOK, StakeIsReserved,
              LeaseOutlivesBoost
<1>5. ASSUME NEW r \in Relayers, NEW reward \in 1 .. MaxReward,
             register_relayer_reward(r, reward)
      PROVE  Inv'
  BY <1>5 DEF register_relayer_reward, Inv, TypeOK, StakeIsReserved,
              LeaseOutlivesBoost
<1>6. ASSUME NEW r \in Relayers, do_claim_rewards(r) PROVE Inv'
  BY <1>6 DEF do_claim_rewards, Inv, TypeOK, StakeIsReserved, LeaseOutlivesBoost
<1>7. CASE NextBlock
  BY <1>7 DEF NextBlock, Inv, TypeOK, StakeIsReserved, LeaseOutlivesBoost
<1>8. CASE Upgrade
  BY <1>8 DEF Upgrade, Inv, TypeOK, StakeIsReserved, LeaseOutlivesBoost
<1>9. CASE UNCHANGED vars
  BY <1>9 DEF vars, Inv, TypeOK, StakeIsReserved, LeaseOutlivesBoost
<1> QED
  BY <1>1, <1>2, <1>3, <1>4, <1>5, <1>6, <1>7, <1>8, <1>9 DEF Next

\* The inductive invariant holds in every reachable state of the pallet.
THEOREM PalletInvariant == Spec => []Inv
BY InitInv, NextInv, PTL DEF Spec

\* Stakes are always covered by reserves: no failed slash, renewal or change of
\* the required stake lets an unreserve or a slash fall short.
THEOREM StakesReserved == Spec => []StakeIsReserved
<1>1. Inv => StakeIsReserved
  BY DEF Inv
<1> QED BY <1>1, PalletInvariant, PTL

\* A boosted delivery that is included within the required lease finds its
\* relayer registered, so that the extension can slash it.
THEOREM BoostSlashable == Spec => []BoostedStaysSlashable
<1>1. Inv => BoostedStaysSlashable
  BY RelayersAssumption DEF Inv, TypeOK, LeaseOutlivesBoost, BoostedStaysSlashable
<1> QED BY <1>1, PalletInvariant, PTL
=============================================================================
