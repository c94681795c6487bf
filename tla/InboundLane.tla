----------------------------- MODULE InboundLane -----------------------------
(***************************************************************************)
(* The inbound end of a message lane, kept by the chain that receives.     *)
(* bridges/modules/messages/src/inbound_lane.rs, with InboundLaneData of   *)
(* bridges/primitives/messages/src/lib.rs.                                 *)
(***************************************************************************)
EXTENDS Naturals, Sequences, UnrewardedRelayers

CONSTANTS
  Relayers,               \* relayer accounts at the source chain
  MaxUnrewardedRelayers,  \* MAX_UNREWARDED_RELAYERS_IN_CONFIRMATION_TX
  MaxUnconfirmed          \* MAX_UNCONFIRMED_MESSAGES_IN_CONFIRMATION_TX

ASSUME LimitsAssumption ==
  /\ MaxUnrewardedRelayers \in Nat \ {0}
  /\ MaxUnconfirmed \in Nat \ {0}

InboundLaneData ==
  [relayers : Seq(UnrewardedRelayer(Relayers)),
   last_confirmed_nonce : Nat, state : {"Opened", "Closed"}]

\* InboundLaneData::opened: the data of a lane that was just created.
OpenedInbound ==
  [relayers |-> << >>, last_confirmed_nonce |-> 0, state |-> "Opened"]

\* Fault: the front entry of the queue taken for the back one.
last_delivered_nonce_of_front(data) ==
  IF data.relayers = << >> THEN data.last_confirmed_nonce
  ELSE data.relayers[1].end

\* InboundLaneData::last_delivered_nonce.
last_delivered_nonce(data) ==
  IF data.relayers = << >> THEN data.last_confirmed_nonce
  ELSE data.relayers[Len(data.relayers)].end

\* Fault: the length of the range without its last nonce.
total_unrewarded_messages_short(data) ==
  IF data.relayers = << >> THEN 0
  ELSE data.relayers[Len(data.relayers)].end - data.relayers[1].begin

\* InboundLaneData::total_unrewarded_messages (a saturating length).
total_unrewarded_messages(data) ==
  IF data.relayers = << >> THEN 0
  ELSE LET front == data.relayers[1].begin
           back  == data.relayers[Len(data.relayers)].end
       IN  IF front > back THEN 0 ELSE (back - front) + 1

\* The number of entries the loop of receive_state_update pops: the longest
\* prefix of entries that end at or below the confirmed nonce.
popped_entries(relayers, confirmed) ==
  CHOOSE k \in 0 .. Len(relayers) :
     /\ \A i \in 1 .. k : relayers[i].end <= confirmed
     /\ k < Len(relayers) => relayers[k + 1].end > confirmed

\* The entries after the loop, the first one cut to what is not confirmed.
trim_relayers(relayers, confirmed) ==
  LET popped == popped_entries(relayers, confirmed)
  IN  [i \in 1 .. (Len(relayers) - popped) |->
         LET entry == relayers[popped + i]
         IN  IF i = 1 /\ entry.begin <= confirmed
             THEN [entry EXCEPT !.begin = confirmed + 1]
             ELSE entry]

\* InboundLane::receive_state_update: a state from the future or one that
\* confirms nothing new is ignored.
receive_state_update(data, latest_received) ==
  IF \/ latest_received > last_delivered_nonce(data)
     \/ latest_received <= data.last_confirmed_nonce
  THEN data
  ELSE [data EXCEPT !.last_confirmed_nonce = latest_received,
                    !.relayers = trim_relayers(@, latest_received)]

\* Fault: the owner of the back entry is not looked at.
extends_any_back_entry(data, relayer) == data.relayers # << >>

\* The back entry of the queue belongs to this relayer.
extends_back_entry(data, relayer) ==
  /\ data.relayers # << >>
  /\ data.relayers[Len(data.relayers)].relayer = relayer

\* The entry of the queue that records the messages up to nonce last.
note_dispatched(data, relayer, last) ==
  IF extends_back_entry(data, relayer)
  THEN [data EXCEPT !.relayers[Len(data.relayers)].end = last]
  ELSE [data EXCEPT !.relayers =
          Append(@, [relayer |-> relayer,
                     begin |-> last_delivered_nonce(data) + 1, end |-> last])]

\* InboundLane::receive_message: the data after one message.  It is dispatched
\* exactly when the data changes.
receive_message(data, relayer, nonce) ==
  IF \/ nonce # last_delivered_nonce(data) + 1
     \/ Len(data.relayers) >= MaxUnrewardedRelayers
     \/ nonce - data.last_confirmed_nonce > MaxUnconfirmed
  THEN data
  ELSE note_dispatched(data, relayer, nonce)

\* Fault: the limit on unconfirmed messages is not tested.
last_accepted_unlimited(data, relayer, first, last) ==
  LET next == last_delivered_nonce(data) + 1
  IN  IF \/ next < first \/ next > last
         \/ Len(data.relayers) >= MaxUnrewardedRelayers
      THEN last_delivered_nonce(data)
      ELSE last

\* Fault: a batch is accepted as a whole once its first message is.
last_accepted_whole(data, relayer, first, last) ==
  LET next == last_delivered_nonce(data) + 1
      room == data.last_confirmed_nonce + MaxUnconfirmed
  IN  IF \/ next < first \/ next > last
         \/ Len(data.relayers) >= MaxUnrewardedRelayers
         \/ next > room
      THEN last_delivered_nonce(data)
      ELSE IF last < room THEN last ELSE room

\* The last nonce the loop of receive_messages_proof delivers out of the
\* messages first..last, all submitted by one relayer.  A relayer that has to
\* open the last free entry delivers a single message: the queue is full
\* when the next one is examined, whoever owns its back entry.
last_accepted(data, relayer, first, last) ==
  LET delivered == last_delivered_nonce(data)
      next      == delivered + 1
      room      == data.last_confirmed_nonce + MaxUnconfirmed
  IN  IF \/ next < first \/ next > last
         \/ Len(data.relayers) >= MaxUnrewardedRelayers
         \/ next > room
      THEN delivered
      ELSE IF \/ extends_back_entry(data, relayer)
              \/ Len(data.relayers) + 1 < MaxUnrewardedRelayers
      THEN IF last < room THEN last ELSE room
      ELSE next

\* The data after that loop: what receiving the messages one by one leaves.
receive_messages(data, relayer, first, last) ==
  LET accepted == last_accepted(data, relayer, first, last)
  IN  IF accepted = last_delivered_nonce(data) THEN data
      ELSE note_dispatched(data, relayer, accepted)

\* Inbound lane data as these operations leave it: the queue covers exactly
\* the messages in (last_confirmed_nonce, last_delivered_nonce].
WellFormed(data) ==
  /\ data \in InboundLaneData
  /\ Covers(data.relayers, data.last_confirmed_nonce, last_delivered_nonce(data))
  /\ Ordered(data.relayers)
=============================================================================
