------------------------- MODULE GrandpaLightClient -------------------------
(***************************************************************************)
(* The GRANDPA light client pallet, bridges/modules/grandpa/src: it keeps  *)
(* the current authority set of the bridged chain and a ring buffer of     *)
(* finalized headers, imports headers justified by that set, and refunds   *)
(* a limited number of submissions per block.                              *)
(*                                                                         *)
(* The bridged chain has one finalized chain of headers, named by their    *)
(* numbers.  Its GRANDPA authorities are honest: a header is justified     *)
(* only by the authority set in charge of it, and a header that changes    *)
(* the set is the last one of the old set.                                 *)
(***************************************************************************)
EXTENDS Integers, FiniteSets

CONSTANTS
  Changes,                 \* headers with a scheduled change without delay
  Unsupported,             \* headers with a forced or delayed change, or one
                           \* to more authorities than the pallet can store
  HeadersToKeep,
  MaxFreeHeadersPerBlock,
  FreeHeadersInterval,     \* {} is None, {i} is Some(i)
  MaxForced,               \* bound on the calls of force_set_pallet_state
  MaxNumber                \* bound on the headers of the bridged chain

ASSUME GrandpaAssumption ==
  /\ Changes \subseteq Nat \ {0} /\ IsFiniteSet(Changes)
  /\ Unsupported \subseteq Nat \ {0} /\ IsFiniteSet(Unsupported)
  /\ Changes \cap Unsupported = {}
  /\ HeadersToKeep \in Nat \ {0}
  /\ MaxFreeHeadersPerBlock \in Nat
  /\ FreeHeadersInterval \subseteq Nat
  /\ MaxForced \in Nat
  /\ MaxNumber \in Nat

VARIABLES
  finalized,               \* the bridged chain: its newest finalized header
  best,                    \* BestFinalized; 0 before the initialization
  imported_headers,        \* keys of ImportedHeaders
  imported_hashes,         \* ImportedHashes, by slot
  imported_hashes_pointer, \* ImportedHashesPointer
  set_id,                  \* CurrentAuthoritySet
  mode,                    \* PalletOperatingMode
  free_headers_remaining,  \* FreeHeadersRemaining: {} outside of a block
  refunded,                \* history: refunded submissions in this block
  forced,                  \* history: calls of force_set_pallet_state
  rewound                  \* history: has one set the pallet back?

ring == << best, imported_headers, imported_hashes, imported_hashes_pointer >>

vars == << finalized, ring, set_id, mode, free_headers_remaining, refunded,
           forced, rewound >>

\* The authority set after header n was finalized, and the one that justifies
\* header n: the bridged chain moves to the next set at every change.
SetAfter(n) == Cardinality({c \in Changes \cup Unsupported : c <= n})

JustifiedBy(n) == SetAfter(n - 1)

Init ==
  /\ finalized = 1
  /\ best = 0
  /\ imported_headers = {}
  /\ imported_hashes = << >>
  /\ imported_hashes_pointer = 0
  /\ set_id = 0
  /\ mode = "Halted"
  /\ free_headers_remaining = {}
  /\ refunded = 0
  /\ forced = 0
  /\ rewound = FALSE

\* Fault: the buffer wraps around one slot late.
insert_header_late(n) ==
  LET pruning == {imported_hashes[i] :
                    i \in DOMAIN imported_hashes \cap {imported_hashes_pointer}}
  IN  /\ best' = n
      /\ imported_headers' = (imported_headers \cup {n}) \ pruning
      /\ imported_hashes' =
           [i \in DOMAIN imported_hashes \cup {imported_hashes_pointer} |->
              IF i = imported_hashes_pointer THEN n ELSE imported_hashes[i]]
      /\ imported_hashes_pointer' =
           (imported_hashes_pointer + 1) % (HeadersToKeep + 1)

\* insert_header: the header in the reused slot is removed last, even if it is
\* the one that was just inserted.
insert_header(n) ==
  LET pruning == {imported_hashes[i] :
                    i \in DOMAIN imported_hashes \cap {imported_hashes_pointer}}
  IN  /\ best' = n
      /\ imported_headers' = (imported_headers \cup {n}) \ pruning
      /\ imported_hashes' =
           [i \in DOMAIN imported_hashes \cup {imported_hashes_pointer} |->
              IF i = imported_hashes_pointer THEN n ELSE imported_hashes[i]]
      /\ imported_hashes_pointer' = (imported_hashes_pointer + 1) % HeadersToKeep

\* Fault: the best header may be submitted again.
check_obsolete_again(n, current_set_id) ==
  /\ best # 0
  /\ n >= best
  /\ current_set_id = set_id

\* check_obsolete: the header improves the best one, and the submitter names
\* the current authority set.
check_obsolete(n, current_set_id) ==
  /\ best # 0
  /\ n > best
  /\ current_set_id = set_id

\* Fault: any authority set the pallet has known may justify a header.
verify_justification_any(n) == JustifiedBy(n) >= set_id

\* verify_justification against the current authority set.
verify_justification(n) == JustifiedBy(n) = set_id

\* Fault: the set of a mandatory header is not enacted.
next_set_id_unchanged(n) == set_id

\* try_enact_authority_change of a supported header.
next_set_id(n) == IF n \in Changes THEN set_id + 1 ELSE set_id

\* may_refund_call_fee; improved_by is n - best.
may_refund_call_fee(n, fits_limits) ==
  /\ free_headers_remaining # {} /\ free_headers_remaining # {0}
  /\ fits_limits
  /\ \/ n \in Changes
     \/ \E interval \in FreeHeadersInterval : n - best >= interval

\* on_free_header_imported, which keeps the counter at zero.
on_free_header_imported ==
  /\ free_headers_remaining' =
       {IF count = 0 THEN 0 ELSE count - 1 : count \in free_headers_remaining}
  /\ refunded' = refunded + 1

\* submit_finality_proof_ex, and submit_finality_proof, which names the
\* current set by itself.
submit_finality_proof_ex(n, current_set_id, fits_limits) ==
  /\ mode = "Normal"
  /\ free_headers_remaining # {}
  /\ n <= finalized
  /\ check_obsolete(n, current_set_id)
  /\ verify_justification(n)
  /\ n \notin Unsupported
  /\ set_id' = next_set_id(n)
  /\ IF may_refund_call_fee(n, fits_limits) THEN on_free_header_imported
     ELSE UNCHANGED << free_headers_remaining, refunded >>
  /\ insert_header(n)
  /\ UNCHANGED << finalized, mode, forced, rewound >>

\* initialize, by root or the owner, with the state of the bridged chain.
initialize(n, operating_mode) ==
  /\ best = 0
  /\ n <= finalized
  /\ insert_header(n)
  /\ set_id' = SetAfter(n)
  /\ mode' = operating_mode
  /\ UNCHANGED << finalized, free_headers_remaining, refunded, forced, rewound >>

\* force_set_pallet_state, by root or the owner, with a header of the bridged
\* chain, also an old one, and the authority set after it.
force_set_pallet_state(n) ==
  /\ forced < MaxForced
  /\ n <= finalized
  /\ set_id' = SetAfter(n)
  /\ insert_header(n)
  /\ forced' = forced + 1
  /\ rewound' = (rewound \/ n <= best)
  /\ UNCHANGED << finalized, mode, free_headers_remaining, refunded >>

set_operating_mode(operating_mode) ==
  /\ mode' = operating_mode
  /\ UNCHANGED << finalized, ring, set_id, free_headers_remaining, refunded,
                  forced, rewound >>

on_initialize ==
  /\ free_headers_remaining = {}
  /\ free_headers_remaining' = {MaxFreeHeadersPerBlock}
  /\ refunded' = 0
  /\ UNCHANGED << finalized, ring, set_id, mode, forced, rewound >>

on_finalize ==
  /\ free_headers_remaining # {}
  /\ free_headers_remaining' = {}
  /\ UNCHANGED << finalized, ring, set_id, mode, refunded, forced, rewound >>

\* The bridged chain finalizes its next header.
Finalize ==
  /\ finalized < MaxNumber
  /\ finalized' = finalized + 1
  /\ UNCHANGED << ring, set_id, mode, free_headers_remaining, refunded, forced,
                  rewound >>

Submit ==
  \E n \in 1 .. MaxNumber, current_set_id \in 0 .. MaxNumber, fits_limits \in BOOLEAN :
     submit_finality_proof_ex(n, current_set_id, fits_limits)

Modes == {"Normal", "Halted"}

Next ==
  \/ Submit
  \/ \E n \in 1 .. MaxNumber, m \in Modes : initialize(n, m)
  \/ \E n \in 1 .. MaxNumber : force_set_pallet_state(n)
  \/ \E m \in Modes : set_operating_mode(m)
  \/ on_initialize
  \/ on_finalize
  \/ Finalize

Spec == Init /\ [][Next]_vars

-----------------------------------------------------------------------------
\* Fault: free execution is not checked against the interval.
check_obsolete_from_extension_paid(n, current_set_id, free_expected, fits_limits) ==
  /\ mode = "Normal"
  /\ check_obsolete(n, current_set_id)
  /\ free_expected => free_headers_remaining # {0} /\ fits_limits

\* check_obsolete_submit_finality_proof, the filter of the transaction
\* extension.  Outside of a block the free slots count as unlimited.
check_obsolete_from_extension(n, current_set_id, free_expected, fits_limits) ==
  /\ mode = "Normal"
  /\ check_obsolete(n, current_set_id)
  /\ free_expected =>
       /\ free_headers_remaining # {0}
       /\ n \notin Changes =>
            \A interval \in FreeHeadersInterval : n - best >= interval
       /\ fits_limits

\* What the finality relay submits: any header it can get through the filter.
Relay ==
  \E n \in 1 .. MaxNumber, free_expected \in BOOLEAN, fits_limits \in BOOLEAN :
     /\ check_obsolete_from_extension(n, set_id, free_expected, fits_limits)
     /\ submit_finality_proof_ex(n, set_id, fits_limits)

\* Blocks are produced, the owner initializes the pallet and stops halting it
\* some day, and the relay retries until a submission is included.
Fairness ==
  /\ WF_vars(on_initialize)
  /\ WF_vars(on_finalize)
  /\ WF_vars(\E n \in 1 .. MaxNumber : initialize(n, "Normal"))
  /\ <>[](mode = "Normal")
  /\ SF_vars(Relay)

FairSpec == Spec /\ Fairness

-----------------------------------------------------------------------------
\* The type invariant of the pallet's storage.
TypeOK ==
  /\ finalized \in Nat
  /\ best \in Nat
  /\ imported_headers \subseteq Nat
  /\ imported_hashes_pointer \in 0 .. HeadersToKeep - 1
  /\ DOMAIN imported_hashes \subseteq 0 .. HeadersToKeep - 1
  /\ imported_hashes \in [DOMAIN imported_hashes -> Nat]
  /\ set_id \in Nat
  /\ mode \in Modes
  /\ \/ free_headers_remaining = {}
     \/ \E count \in 0 .. MaxFreeHeadersPerBlock : free_headers_remaining = {count}
  /\ refunded \in Nat
  /\ forced \in Nat
  /\ rewound \in BOOLEAN

\* The stored authority set is the one that justifies the next header of the
\* bridged chain: no justification makes the pallet skip a change of the set,
\* also if headers between the mandatory ones are skipped, and a header with
\* an unsupported change stops it (submit_finality_proof_ex).
AuthoritiesTrackBest == best # 0 => set_id = SetAfter(best)

\* Every stored header is named by a slot of the ring buffer, so that it is
\* removed when the slot is reused: the storage never grows beyond
\* HeadersToKeep headers, whatever the owner forces (insert_header).
NoOrphans ==
  imported_headers \subseteq
    {imported_hashes[i] : i \in DOMAIN imported_hashes}

\* The ring buffer read from its oldest slot.
Window ==
  IF imported_hashes_pointer \in DOMAIN imported_hashes
  THEN [i \in 1 .. HeadersToKeep |->
          imported_hashes[(imported_hashes_pointer + i - 1) % HeadersToKeep]]
  ELSE [i \in 1 .. imported_hashes_pointer |-> imported_hashes[i - 1]]

HeaderWindow == INSTANCE HeaderWindow
  WITH Headers <- 1 .. MaxNumber, Size <- HeadersToKeep, window <- Window,
       provable <- imported_headers

\* Until the owner first forces a header that is not above the best one, the
\* ring buffer keeps exactly the last HeadersToKeep imported headers, and proofs
\* are verified against those and no others (insert_header,
\* finalized_header_state_root).
ImplementsHeaderWindow ==
  /\ HeaderWindow!Init
  /\ [][rewound' \/ HeaderWindow!Next]_<< Window, imported_headers, best >>

\* A forced header older than the best one "changes nothing", and "previously
\* imported headers stay in the storage and are still accessible after the
\* call" (force_set_pallet_state): at least the best header is accessible.
BestIsImported == best # 0 => best \in imported_headers

\* It is until the owner first sets the pallet back: no sequence of submissions
\* and forced newer headers makes insert_header prune the best header.
BestIsImportedUnlessRewound == rewound \/ BestIsImported

\* No more than MaxFreeHeadersPerBlock submissions are refunded in a block,
\* mandatory ones included (may_refund_call_fee, on_free_header_imported).
RefundsBounded == refunded <= MaxFreeHeadersPerBlock

\* "If this parameter is true, the transaction will be treated as invalid, if
\* the call won't be executed for free" (submit_finality_proof_ex): a
\* submission that expects free execution and passes the filter in a block is
\* refunded if it is imported.
FreeMeansFree ==
  \A n \in 1 .. MaxNumber, fits_limits \in BOOLEAN :
     /\ free_headers_remaining # {}
     /\ n <= finalized
     /\ check_obsolete_from_extension(n, set_id, TRUE, fits_limits)
     /\ verify_justification(n) /\ n \notin Unsupported
     => may_refund_call_fee(n, fits_limits)

\* The pallet follows the bridged chain: every finalized header is reached or
\* passed in the end, through all changes of the authority set up to the first
\* unsupported one, also if the owner halts it for a time and sets it back.
FollowsFinality ==
  \A n \in 1 .. MaxNumber :
     (\A c \in Unsupported : n < c) => (finalized >= n ~> best >= n)
=============================================================================
