--------------------- MODULE GrandpaLightClientTheorems ---------------------
(***************************************************************************)
(* Proofs about the GRANDPA light client, for every chain of headers with  *)
(* any changes of the authority set and any configuration of the pallet.   *)
(***************************************************************************)
EXTENDS GrandpaLightClient, FiniteSetTheorems, TLAPS

\* The headers that end an authority set.
SetChanges == Changes \cup Unsupported

\* The changes up to a header are finitely many, so SetAfter counts them.
LEMMA SetAfterType == ASSUME NEW n \in Int PROVE SetAfter(n) \in Nat
<1>1. IsFiniteSet(SetChanges)
  BY GrandpaAssumption, FS_Union DEF SetChanges
<1>2. {c \in SetChanges : c <= n} \subseteq SetChanges
  OBVIOUS
<1>3. IsFiniteSet({c \in SetChanges : c <= n})
  BY <1>1, <1>2, FS_Subset
<1> QED BY <1>3, FS_CardinalityType DEF SetAfter, SetChanges

\* The authority set advances by one at a change and at no other header.
LEMMA SetAfterStep ==
  ASSUME NEW n \in Nat \ {0}
  PROVE  SetAfter(n) = SetAfter(n - 1) + (IF n \in Changes \cup Unsupported THEN 1 ELSE 0)
<1> DEFINE Upto(k) == {c \in SetChanges : c <= k}
<1>1. IsFiniteSet(SetChanges) /\ SetChanges \subseteq Nat
  BY GrandpaAssumption, FS_Union DEF SetChanges
<1>2. IsFiniteSet(Upto(n - 1))
  <2>1. Upto(n - 1) \subseteq SetChanges OBVIOUS
  <2> QED BY <1>1, <2>1, FS_Subset
<1>3. SetAfter(n) = Cardinality(Upto(n)) /\ SetAfter(n - 1) = Cardinality(Upto(n - 1))
  BY DEF SetAfter, SetChanges
<1>6. \A c \in SetChanges : c <= n <=> c <= n - 1 \/ c = n
  BY <1>1
<1>4. CASE n \in SetChanges
  <2>1. Upto(n) = Upto(n - 1) \cup {n} BY <1>6, <1>4
  <2>2. n \notin Upto(n - 1) OBVIOUS
  <2>3. Cardinality(Upto(n)) = Cardinality(Upto(n - 1)) + 1
    BY <1>2, <2>1, <2>2, FS_AddElement
  <2> QED BY <1>3, <1>4, <2>3 DEF SetChanges
<1>5. CASE n \notin SetChanges
  <2>1. Upto(n) = Upto(n - 1) BY <1>6, <1>5
  <2>2. Cardinality(Upto(n - 1)) \in Nat BY <1>2, FS_CardinalityType
  <2> QED BY <1>3, <1>5, <2>1, <2>2 DEF SetChanges
<1> QED BY <1>4, <1>5

-----------------------------------------------------------------------------
\* The refunds of a block and what is left of its budget make up the budget.
BudgetExact ==
  /\ refunded <= MaxFreeHeadersPerBlock
  /\ \A count \in free_headers_remaining : refunded + count = MaxFreeHeadersPerBlock

\* The inductive invariant.
Inv == TypeOK /\ AuthoritiesTrackBest /\ NoOrphans /\ BudgetExact

\* The invariant holds before the pallet is initialized.
LEMMA InitInv == Init => Inv
<1> SUFFICES ASSUME Init PROVE Inv OBVIOUS
<1>1. DOMAIN imported_hashes = {} /\ imported_hashes \in [{} -> Nat]
  BY DEF Init
<1>2. imported_hashes_pointer \in 0 .. HeadersToKeep - 1
  BY GrandpaAssumption DEF Init
<1>3. TypeOK
  BY <1>1, <1>2 DEF Init, TypeOK, Modes
<1> QED BY <1>3, GrandpaAssumption DEF Init, Inv, AuthoritiesTrackBest, NoOrphans, BudgetExact

\* insert_header keeps the types of the ring buffer and orphans no header.
LEMMA InsertHeader ==
  ASSUME TypeOK, NoOrphans, NEW n \in Nat, insert_header(n)
  PROVE  /\ best' = n
         /\ imported_headers' \subseteq Nat
         /\ imported_hashes_pointer' \in 0 .. HeadersToKeep - 1
         /\ DOMAIN imported_hashes' \subseteq 0 .. HeadersToKeep - 1
         /\ imported_hashes' \in [DOMAIN imported_hashes' -> Nat]
         /\ NoOrphans'
<1> DEFINE p == imported_hashes_pointer
<1>1. p \in 0 .. HeadersToKeep - 1 /\ HeadersToKeep \in Nat \ {0}
  BY GrandpaAssumption DEF TypeOK
<1>2. (p + 1) % HeadersToKeep \in 0 .. HeadersToKeep - 1
  BY <1>1
<1>3. imported_hashes' = [i \in DOMAIN imported_hashes \cup {p} |->
                            IF i = p THEN n ELSE imported_hashes[i]]
  BY DEF insert_header
<1>4. DOMAIN imported_hashes' = DOMAIN imported_hashes \cup {p}
  BY <1>3
<1>5. \A i \in DOMAIN imported_hashes : imported_hashes[i] \in Nat
  BY DEF TypeOK
<1>6. imported_hashes' \in [DOMAIN imported_hashes' -> Nat]
  BY <1>3, <1>4, <1>5
<1>7. NoOrphans'
  <2> SUFFICES ASSUME NEW h \in imported_headers'
               PROVE  \E i \in DOMAIN imported_hashes' : h = imported_hashes'[i]
    BY DEF NoOrphans
  <2>1. h \in imported_headers \/ h = n
    BY DEF insert_header
  <2>2. CASE h = n
    BY <1>3, <1>4, <2>2
  <2>3. CASE h \in imported_headers /\ h # n
    <3>1. PICK i \in DOMAIN imported_hashes : h = imported_hashes[i]
      BY <2>3 DEF NoOrphans
    <3>2. i # p
      BY <3>1 DEF insert_header
    <3> QED BY <1>3, <1>4, <3>1, <3>2
  <2> QED BY <2>1, <2>2, <2>3
<1>8. best' = n /\ imported_headers' \subseteq Nat
  BY DEF insert_header, TypeOK
<1> QED BY <1>1, <1>2, <1>4, <1>6, <1>7, <1>8 DEF insert_header, TypeOK

\* A submission follows the authority sets of the bridged chain.
LEMMA SubmitFollows ==
  ASSUME Inv, NEW n \in 1 .. MaxNumber, NEW s \in Nat, NEW fits \in BOOLEAN,
         submit_finality_proof_ex(n, s, fits)
  PROVE  Inv'
<1>1. n \in Nat \ {0} /\ MaxNumber \in Nat /\ MaxFreeHeadersPerBlock \in Nat
  BY GrandpaAssumption
<1>2. insert_header(n) /\ UNCHANGED << finalized, mode, forced, rewound >>
  BY DEF submit_finality_proof_ex
<1>3. /\ best' = n
      /\ imported_headers' \subseteq Nat
      /\ imported_hashes_pointer' \in 0 .. HeadersToKeep - 1
      /\ DOMAIN imported_hashes' \subseteq 0 .. HeadersToKeep - 1
      /\ imported_hashes' \in [DOMAIN imported_hashes' -> Nat]
      /\ NoOrphans'
  BY <1>1, <1>2, InsertHeader DEF Inv
<1>4. set_id' \in Nat /\ set_id' = SetAfter(n)
  <2>1. set_id = SetAfter(n - 1) /\ n \notin Unsupported /\ set_id' = next_set_id(n)
    BY DEF submit_finality_proof_ex, verify_justification, JustifiedBy
  <2>2. set_id \in Nat BY DEF Inv, TypeOK
  <2> QED BY <1>1, <2>1, <2>2, SetAfterStep DEF next_set_id
<1>5. /\ refunded' \in Nat
      /\ \/ free_headers_remaining' = {}
         \/ \E count \in 0 .. MaxFreeHeadersPerBlock : free_headers_remaining' = {count}
      /\ BudgetExact'
  <2>1. CASE may_refund_call_fee(n, fits)
    <3>1. on_free_header_imported
      BY <2>1 DEF submit_finality_proof_ex
    <3>2. PICK count \in 0 .. MaxFreeHeadersPerBlock : free_headers_remaining = {count}
      BY <2>1 DEF Inv, TypeOK, may_refund_call_fee
    <3>3. count > 0 /\ refunded + count = MaxFreeHeadersPerBlock
      BY <1>1, <2>1, <3>2 DEF Inv, BudgetExact, may_refund_call_fee
    <3>4. free_headers_remaining' = {count - 1} /\ refunded' = refunded + 1
      BY <3>1, <3>2, <3>3 DEF on_free_header_imported
    <3>5. refunded \in Nat /\ count - 1 \in 0 .. MaxFreeHeadersPerBlock
      BY <1>1, <3>3 DEF Inv, TypeOK
    <3> QED BY <1>1, <3>3, <3>4, <3>5 DEF BudgetExact
  <2>2. CASE ~ may_refund_call_fee(n, fits)
    <3>1. UNCHANGED << free_headers_remaining, refunded >>
      BY <2>2 DEF submit_finality_proof_ex
    <3> QED BY <3>1 DEF Inv, TypeOK, BudgetExact
  <2> QED BY <2>1, <2>2
<1>6. TypeOK'
  BY <1>1, <1>2, <1>3, <1>4, <1>5 DEF Inv, TypeOK
<1> QED BY <1>3, <1>4, <1>5, <1>6 DEF Inv, AuthoritiesTrackBest

\* So do the calls of the owner that set the state of the pallet.
LEMMA OwnerSets ==
  ASSUME Inv, NEW n \in 1 .. MaxNumber, insert_header(n), set_id' = SetAfter(n),
         mode' \in Modes, forced' \in Nat, rewound' \in BOOLEAN,
         UNCHANGED << finalized, free_headers_remaining, refunded >>
  PROVE  Inv'
<1>1. n \in Nat /\ n \in Int /\ MaxNumber \in Nat
  BY GrandpaAssumption
<1>2. /\ best' = n
      /\ imported_headers' \subseteq Nat
      /\ imported_hashes_pointer' \in 0 .. HeadersToKeep - 1
      /\ DOMAIN imported_hashes' \subseteq 0 .. HeadersToKeep - 1
      /\ imported_hashes' \in [DOMAIN imported_hashes' -> Nat]
      /\ NoOrphans'
  BY <1>1, InsertHeader DEF Inv
<1>3. SetAfter(n) \in Nat
  BY <1>1, SetAfterType
<1>4. TypeOK'
  BY <1>1, <1>2, <1>3 DEF Inv, TypeOK
<1> QED BY <1>2, <1>4 DEF Inv, AuthoritiesTrackBest, BudgetExact

\* Every step preserves the invariant.
LEMMA NextInv == Inv /\ [Next]_vars => Inv'
<1> SUFFICES ASSUME Inv, [Next]_vars PROVE Inv' OBVIOUS
<1> USE GrandpaAssumption
<1>1. CASE Submit
  <2>1. PICK n \in 1 .. MaxNumber, s \in 0 .. MaxNumber, fits \in BOOLEAN :
          submit_finality_proof_ex(n, s, fits)
    BY <1>1 DEF Submit
  <2>2. s \in Nat OBVIOUS
  <2> QED BY <2>1, <2>2, SubmitFollows
<1>2. CASE \E n \in 1 .. MaxNumber, m \in Modes : initialize(n, m)
  BY <1>2, OwnerSets DEF initialize, Inv, TypeOK
<1>3. CASE \E n \in 1 .. MaxNumber : force_set_pallet_state(n)
  <2>1. PICK n \in 1 .. MaxNumber : force_set_pallet_state(n)
    BY <1>3
  <2>2. mode' \in Modes /\ forced' \in Nat /\ rewound' \in BOOLEAN
    BY <2>1 DEF force_set_pallet_state, Inv, TypeOK
  <2> QED BY <2>1, <2>2, OwnerSets DEF force_set_pallet_state
<1>4. CASE \E m \in Modes : set_operating_mode(m)
  BY <1>4 DEF set_operating_mode, ring, Inv, TypeOK, AuthoritiesTrackBest,
              NoOrphans, BudgetExact
<1>5. CASE on_initialize
  BY <1>5 DEF on_initialize, ring, Inv, TypeOK, AuthoritiesTrackBest,
              NoOrphans, BudgetExact
<1>6. CASE on_finalize
  BY <1>6 DEF on_finalize, ring, Inv, TypeOK, AuthoritiesTrackBest,
              NoOrphans, BudgetExact
<1>7. CASE Finalize
  BY <1>7 DEF Finalize, ring, Inv, TypeOK, AuthoritiesTrackBest,
              NoOrphans, BudgetExact
<1>8. CASE UNCHANGED vars
  BY <1>8 DEF vars, ring, Inv, TypeOK, AuthoritiesTrackBest, NoOrphans, BudgetExact
<1> QED BY <1>1, <1>2, <1>3, <1>4, <1>5, <1>6, <1>7, <1>8 DEF Next

\* The invariant holds in every reachable state of the pallet.
THEOREM GrandpaInvariant == Spec => []Inv
BY InitInv, NextInv, PTL DEF Spec

\* The pallet always holds the authority set in charge of the next header of
\* the bridged chain, wherever the changes are and whatever was skipped.
THEOREM AuthoritiesTracked == Spec => []AuthoritiesTrackBest
<1>1. Inv => AuthoritiesTrackBest BY DEF Inv
<1> QED BY <1>1, GrandpaInvariant, PTL

\* The storage of headers is bounded by the ring buffer, also after the owner
\* has set the pallet back to headers that it has already imported.
THEOREM StorageBounded == Spec => []NoOrphans
<1>1. Inv => NoOrphans BY DEF Inv
<1> QED BY <1>1, GrandpaInvariant, PTL

\* No block refunds more submissions than its budget.
THEOREM BudgetKept == Spec => []RefundsBounded
<1>1. Inv => RefundsBounded BY DEF Inv, BudgetExact, RefundsBounded
<1> QED BY <1>1, GrandpaInvariant, PTL

-----------------------------------------------------------------------------
\* The ring buffer names no header above the best one.
BestIsHighest ==
  \A i \in DOMAIN imported_hashes : imported_hashes[i] <= best

\* A header above all named ones is imported for good.
LEMMA InsertHighest ==
  ASSUME TypeOK, BestIsHighest, NEW n \in Nat, n > best, insert_header(n)
  PROVE  BestIsHighest' /\ BestIsImported'
<1>1. imported_hashes' = [i \in DOMAIN imported_hashes \cup {imported_hashes_pointer} |->
                            IF i = imported_hashes_pointer THEN n ELSE imported_hashes[i]]
  BY DEF insert_header
<1>2. best' = n /\ best \in Nat
  BY DEF insert_header, TypeOK
<1>3. \A i \in DOMAIN imported_hashes : imported_hashes[i] \in Nat /\ imported_hashes[i] < n
  BY <1>2 DEF BestIsHighest, TypeOK
<1>4. BestIsHighest'
  BY <1>1, <1>2, <1>3 DEF BestIsHighest
<1>5. n \notin {imported_hashes[i] : i \in DOMAIN imported_hashes \cap {imported_hashes_pointer}}
  BY <1>3
<1>6. n \in imported_headers'
  BY <1>5 DEF insert_header
<1> QED BY <1>2, <1>4, <1>6 DEF BestIsImported

\* As long as the owner has not set the pallet back, proofs can be verified
\* against the best header.
THEOREM BestAccessible == Spec => []BestIsImportedUnlessRewound
<1> DEFINE J == rewound \/ (BestIsHighest /\ BestIsImported)
<1>1. Init => J
  BY DEF Init, BestIsHighest, BestIsImported
<1>2. Inv /\ J /\ [Next]_vars => J'
  <2> SUFFICES ASSUME Inv, J, [Next]_vars, ~ rewound' PROVE J' OBVIOUS
  <2>1. TypeOK /\ best \in Nat /\ MaxNumber \in Nat
    BY GrandpaAssumption DEF Inv, TypeOK
  <2>2. ~ rewound
    BY DEF Next, vars, Submit, submit_finality_proof_ex, initialize,
           force_set_pallet_state, set_operating_mode, on_initialize,
           on_finalize, Finalize
  <2>3. CASE \E n \in 1 .. MaxNumber : n > best /\ insert_header(n)
    BY <2>1, <2>2, <2>3, InsertHighest
  <2>4. CASE UNCHANGED ring
    BY <2>2, <2>4 DEF ring, BestIsHighest, BestIsImported
  <2>5. Submit => \E n \in 1 .. MaxNumber : n > best /\ insert_header(n)
    BY DEF Submit, submit_finality_proof_ex, check_obsolete
  <2>6. (\E n \in 1 .. MaxNumber, m \in Modes : initialize(n, m))
          => \E n \in 1 .. MaxNumber : n > best /\ insert_header(n)
    BY <2>1 DEF initialize
  <2>7. (\E n \in 1 .. MaxNumber : force_set_pallet_state(n))
          => \E n \in 1 .. MaxNumber : n > best /\ insert_header(n)
    <3> SUFFICES ASSUME NEW n \in 1 .. MaxNumber, force_set_pallet_state(n)
                 PROVE  n > best /\ insert_header(n)
      OBVIOUS
    <3>1. ~ (n <= best) /\ insert_header(n)
      BY Zenon DEF force_set_pallet_state
    <3> QED BY <2>1, <3>1
  <2> QED
    BY <2>3, <2>4, <2>5, <2>6, <2>7
       DEF Next, vars, set_operating_mode, on_initialize, on_finalize, Finalize
<1>3. J => BestIsImportedUnlessRewound
  BY DEF BestIsImportedUnlessRewound
<1> QED BY <1>1, <1>2, <1>3, GrandpaInvariant, PTL DEF Spec
=============================================================================
