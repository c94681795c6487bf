------------------------- MODULE RelayedLaneTheorems -------------------------
(***************************************************************************)
(* What the transaction extension promises to relayers, proved for any     *)
(* number of relayers, messages and pending transactions, and limits of    *)
(* any size.                                                               *)
(***************************************************************************)
EXTENDS RelayedLane, MessageLaneTheorems

\* The nonce receive_state_update leaves as the confirmed one.
LEMMA UpdatedNonce ==
  ASSUME NEW data, WellFormed(data), NEW latest_received \in Nat
  PROVE  receive_state_update(data, latest_received).last_confirmed_nonce =
           IF \/ latest_received > last_delivered_nonce(data)
              \/ latest_received <= data.last_confirmed_nonce
           THEN data.last_confirmed_nonce
           ELSE latest_received
<1>1. data \in InboundLaneData BY DEF WellFormed
<1> QED BY <1>1 DEF receive_state_update, InboundLaneData

\* The lane data as a delivery updates it before it delivers messages.
state_updated(data, tx) ==
  IF tx.with_state
  THEN receive_state_update(data, tx.header.lane.latest_received_nonce)
  ELSE data

\* Lane data that is an update of other data: nothing was delivered between
\* them, and the queue lost entries at its front only.
IsUpdateOf(new, old) ==
  /\ WellFormed(new)
  /\ last_delivered_nonce(new) = last_delivered_nonce(old)
  /\ old.last_confirmed_nonce <= new.last_confirmed_nonce
  /\ \E k \in Nat : IsTrimOf(new.relayers, old.relayers, k)

\* The update of a delivery is one.
LEMMA StateUpdated ==
  ASSUME NEW data, WellFormed(data), NEW tx,
         tx.header.lane.latest_received_nonce \in Nat
  PROVE  /\ IsUpdateOf(state_updated(data, tx), data)
         /\ state_updated(data, tx).state = data.state
<1>1. CASE tx.with_state
  BY <1>1, ReceiveStateUpdate DEF state_updated, IsUpdateOf
<1>2. CASE ~ tx.with_state
  <2>1. /\ Len(data.relayers) \in Nat /\ data.last_confirmed_nonce \in Nat
        /\ \A i \in 1 .. Len(data.relayers) : data.relayers[i].begin \in Nat
    BY WellFormedBounds
  <2>2. IsTrimOf(data.relayers, data.relayers, 0) BY <2>1 DEF IsTrimOf
  <2>3. \E k \in Nat : IsTrimOf(data.relayers, data.relayers, k) BY <2>2
  <2>4. data.last_confirmed_nonce <= data.last_confirmed_nonce BY <2>1
  <2> QED BY <1>2, <2>3, <2>4 DEF state_updated, IsUpdateOf
<1> QED BY <1>1, <1>2

\* Updating updated data is an update of the data before.
LEMMA UpdateTwice ==
  ASSUME NEW a, NEW b, NEW c, WellFormed(a), IsUpdateOf(b, a), IsUpdateOf(c, b)
  PROVE  IsUpdateOf(c, a)
<1>1. PICK k \in Nat : IsTrimOf(b.relayers, a.relayers, k) BY DEF IsUpdateOf
<1>2. PICK j \in Nat : IsTrimOf(c.relayers, b.relayers, j) BY DEF IsUpdateOf
<1>3. WellFormed(b) /\ WellFormed(c) BY DEF IsUpdateOf
<1>4. /\ Len(a.relayers) \in Nat /\ Len(b.relayers) \in Nat /\ Len(c.relayers) \in Nat
      /\ a.last_confirmed_nonce \in Nat /\ b.last_confirmed_nonce \in Nat
      /\ c.last_confirmed_nonce \in Nat
      /\ \A i \in 1 .. Len(a.relayers) : a.relayers[i].begin \in Nat
      /\ \A i \in 1 .. Len(b.relayers) : b.relayers[i].begin \in Nat
      /\ \A i \in 1 .. Len(c.relayers) : c.relayers[i].begin \in Nat
  BY <1>3, WellFormedBounds
<1>5. /\ k <= Len(a.relayers) /\ Len(b.relayers) = Len(a.relayers) - k
      /\ j <= Len(b.relayers) /\ Len(c.relayers) = Len(b.relayers) - j
      /\ k + j \in 0 .. Len(a.relayers)
      /\ Len(c.relayers) = Len(a.relayers) - (k + j)
  BY <1>1, <1>2, <1>4 DEF IsTrimOf
<1>6. ASSUME NEW i \in 1 .. Len(c.relayers)
      PROVE  /\ c.relayers[i].relayer = a.relayers[(k + j) + i].relayer
             /\ c.relayers[i].end = a.relayers[(k + j) + i].end
             /\ c.relayers[i].begin >= a.relayers[(k + j) + i].begin
  <2>1. /\ j + i \in 1 .. Len(b.relayers)
        /\ k + (j + i) \in 1 .. Len(a.relayers)
        /\ k + (j + i) = (k + j) + i
    <3> DEFINE la == Len(a.relayers)
    <3> DEFINE lb == Len(b.relayers)
    <3> DEFINE lc == Len(c.relayers)
    <3>1. /\ la \in Nat /\ lb \in Nat /\ lc \in Nat /\ i \in 1 .. lc
          /\ lb = la - k /\ lc = lb - j
      BY <1>4, <1>5
    <3> HIDE DEF la, lb, lc
    <3>2. j + i \in 1 .. lb /\ k + (j + i) \in 1 .. la /\ k + (j + i) = (k + j) + i
      BY <3>1
    <3> QED BY <3>2 DEF la, lb
  <2>2. /\ c.relayers[i].relayer = b.relayers[j + i].relayer
        /\ c.relayers[i].end = b.relayers[j + i].end
        /\ c.relayers[i].begin >= b.relayers[j + i].begin
    BY <1>2 DEF IsTrimOf
  <2>3. /\ b.relayers[j + i].relayer = a.relayers[k + (j + i)].relayer
        /\ b.relayers[j + i].end = a.relayers[k + (j + i)].end
        /\ b.relayers[j + i].begin >= a.relayers[k + (j + i)].begin
    BY <1>1, <2>1 DEF IsTrimOf
  <2>4. /\ c.relayers[i].begin \in Nat /\ b.relayers[j + i].begin \in Nat
        /\ a.relayers[k + (j + i)].begin \in Nat
    BY <1>4, <2>1
  <2> DEFINE n == k + (j + i)
  <2>5. n = (k + j) + i BY <2>1
  <2>6. c.relayers[i].begin >= a.relayers[n].begin BY <2>2, <2>3, <2>4
  <2>7. /\ c.relayers[i].relayer = a.relayers[n].relayer
        /\ c.relayers[i].end = a.relayers[n].end
    BY <2>2, <2>3
  <2> HIDE DEF n
  <2> QED BY <2>5, <2>6, <2>7
<1>7. IsTrimOf(c.relayers, a.relayers, k + j) BY <1>5, <1>6 DEF IsTrimOf
<1>8. \E m \in Nat : IsTrimOf(c.relayers, a.relayers, m) BY <1>7
<1>9. a.last_confirmed_nonce <= c.last_confirmed_nonce BY <1>4 DEF IsUpdateOf
<1> QED BY <1>8, <1>9 DEF IsUpdateOf

\* The entries that an update popped end at or below its confirmed nonce.
LEMMA PoppedAreConfirmed ==
  ASSUME NEW old, NEW new, WellFormed(old), IsUpdateOf(new, old),
         NEW k \in Nat, IsTrimOf(new.relayers, old.relayers, k),
         NEW i \in 1 .. k
  PROVE  old.relayers[i].end <= new.last_confirmed_nonce
<1>1. WellFormed(new) /\ last_delivered_nonce(new) = last_delivered_nonce(old)
  BY DEF IsUpdateOf
<1>2. /\ Len(old.relayers) \in Nat /\ Len(new.relayers) \in Nat
      /\ new.last_confirmed_nonce \in Nat /\ last_delivered_nonce(old) \in Nat
      /\ \A n \in 1 .. Len(old.relayers) :
           /\ old.relayers[n].begin \in Nat /\ old.relayers[n].end \in Nat
           /\ old.relayers[n].end <= last_delivered_nonce(old)
      /\ \A n \in 1 .. Len(new.relayers) : new.relayers[n].begin \in Nat
      /\ new.relayers \in Seq(UnrewardedRelayer(Relayers))
  BY <1>1, WellFormedBounds
<1>3. k <= Len(old.relayers) /\ Len(new.relayers) = Len(old.relayers) - k
      /\ i \in 1 .. Len(old.relayers)
  BY <1>2 DEF IsTrimOf
<1>4. CASE Len(new.relayers) = 0
  <2>1. new.relayers = << >> BY <1>2, <1>4
  <2>2. last_delivered_nonce(new) = new.last_confirmed_nonce
    BY <2>1 DEF last_delivered_nonce
  <2> QED BY <1>1, <1>2, <1>3, <2>2
<1>5. CASE Len(new.relayers) # 0
  <2>1. 1 \in 1 .. Len(new.relayers) /\ k + 1 \in 1 .. Len(old.relayers) /\ i < k + 1
    BY <1>2, <1>3, <1>5
  <2>2. new.relayers[1].begin = new.last_confirmed_nonce + 1
    BY <1>1, <2>1 DEF WellFormed, Covers
  <2>3. new.relayers[1].begin >= old.relayers[k + 1].begin
    BY <2>1 DEF IsTrimOf
  <2>4. old.relayers[i].end < old.relayers[k + 1].begin
    BY <1>3, <2>1 DEF WellFormed, Ordered
  <2>5. /\ new.relayers[1].begin \in Nat /\ old.relayers[k + 1].begin \in Nat
        /\ old.relayers[i].end \in Nat
    BY <1>2, <1>3, <2>1
  <2> DEFINE first == new.relayers[1].begin
             cut == old.relayers[k + 1].begin
             end == old.relayers[i].end
             confirmed == new.last_confirmed_nonce
  <2>6. /\ first \in Nat /\ cut \in Nat /\ end \in Nat /\ confirmed \in Nat
        /\ first = confirmed + 1 /\ first >= cut /\ end < cut
    BY <1>2, <2>2, <2>3, <2>4, <2>5, Zenon
  <2>7. end <= confirmed
    <3> HIDE DEF first, cut, end, confirmed
    <3> QED BY <2>6
  <2> QED BY <2>7
<1> QED BY <1>4, <1>5

\* Lane data that accepts every message after the delivered ones up to last.
can_take(data, relayer, last) ==
  /\ Len(data.relayers) < MaxUnrewardedRelayers
  /\ last <= data.last_confirmed_nonce + MaxUnconfirmed
  /\ \/ extends_back_entry(data, relayer)
     \/ Len(data.relayers) + 1 < MaxUnrewardedRelayers
     \/ last = last_delivered_nonce(data) + 1

\* That is what it takes for a bundle to be accepted to its last message.
LEMMA AcceptsWhole ==
  ASSUME NEW data, WellFormed(data), NEW relayer, NEW last \in Nat,
         last_delivered_nonce(data) < last
  PROVE  can_take(data, relayer, last) <=>
           last_accepted(data, relayer, last_delivered_nonce(data) + 1, last) = last
<1>1. /\ Len(data.relayers) \in Nat /\ last_delivered_nonce(data) \in Nat
      /\ data.last_confirmed_nonce \in Nat
  BY WellFormedBounds
<1>2. MaxUnrewardedRelayers \in Nat /\ MaxUnconfirmed \in Nat BY LimitsAssumption
<1> DEFINE delivered == last_delivered_nonce(data)
<1> DEFINE room == data.last_confirmed_nonce + MaxUnconfirmed
<1> DEFINE extends == extends_back_entry(data, relayer)
<1> DEFINE size == Len(data.relayers)
<1>3. last_accepted(data, relayer, delivered + 1, last) =
        IF \/ delivered + 1 < delivered + 1 \/ delivered + 1 > last
           \/ size >= MaxUnrewardedRelayers
           \/ delivered + 1 > room
        THEN delivered
        ELSE IF extends \/ size + 1 < MaxUnrewardedRelayers
        THEN IF last < room THEN last ELSE room
        ELSE delivered + 1
  BY DEF last_accepted
<1>4. can_take(data, relayer, last) <=>
        /\ size < MaxUnrewardedRelayers
        /\ last <= room
        /\ extends \/ size + 1 < MaxUnrewardedRelayers \/ last = delivered + 1
  BY DEF can_take
<1>5. delivered \in Nat /\ room \in Nat /\ size \in Nat /\ delivered < last
  BY <1>1, <1>2
<1> HIDE DEF delivered, room, extends, size
<1>6. CASE extends
  BY <1>2, <1>3, <1>4, <1>5, <1>6 DEF delivered
<1>7. CASE ~ extends
  BY <1>2, <1>3, <1>4, <1>5, <1>7 DEF delivered
<1> QED BY <1>6, <1>7

\* Data that can take a bundle can take it after any later update: confirmed
\* messages make room, and if the update pops the relayer's own entry at the
\* back of the queue, it pops the whole queue.
LEMMA LaterUpdateTakes ==
  ASSUME NEW d, WellFormed(d), NEW a, NEW b, IsUpdateOf(a, d), IsUpdateOf(b, d),
         a.last_confirmed_nonce <= b.last_confirmed_nonce,
         NEW relayer, NEW last \in Nat, can_take(a, relayer, last)
  PROVE  can_take(b, relayer, last)
<1>1. PICK k \in Nat : IsTrimOf(a.relayers, d.relayers, k) BY DEF IsUpdateOf
<1>2. PICK j \in Nat : IsTrimOf(b.relayers, d.relayers, j) BY DEF IsUpdateOf
<1>3. /\ WellFormed(a) /\ WellFormed(b)
      /\ last_delivered_nonce(a) = last_delivered_nonce(b)
  BY DEF IsUpdateOf
<1>4. /\ Len(d.relayers) \in Nat /\ Len(a.relayers) \in Nat /\ Len(b.relayers) \in Nat
      /\ a.last_confirmed_nonce \in Nat /\ b.last_confirmed_nonce \in Nat
      /\ a.relayers \in Seq(UnrewardedRelayer(Relayers))
      /\ b.relayers \in Seq(UnrewardedRelayer(Relayers))
      /\ \A i \in 1 .. Len(b.relayers) :
           /\ b.relayers[i].begin \in Nat /\ b.relayers[i].end \in Nat
           /\ b.last_confirmed_nonce < b.relayers[i].begin
           /\ b.relayers[i].begin <= b.relayers[i].end
  BY <1>3, WellFormedBounds
<1>5. /\ Len(a.relayers) = Len(d.relayers) - k /\ Len(b.relayers) = Len(d.relayers) - j
      /\ k <= Len(d.relayers) /\ j <= Len(d.relayers)
  BY <1>1, <1>2, <1>4 DEF IsTrimOf
<1>6. k <= j
  <2> SUFFICES ASSUME j < k PROVE FALSE BY <1>4
  <2>1. 1 \in 1 .. Len(b.relayers) /\ j + 1 \in 1 .. k BY <1>4, <1>5
  <2>2. d.relayers[j + 1].end <= a.last_confirmed_nonce
    BY <1>1, <2>1, PoppedAreConfirmed
  <2>3. b.relayers[1].end = d.relayers[j + 1].end BY <1>2, <2>1 DEF IsTrimOf
  <2>4. /\ b.relayers[1].begin \in Nat /\ b.relayers[1].end \in Nat
        /\ b.last_confirmed_nonce < b.relayers[1].begin
        /\ b.relayers[1].begin <= b.relayers[1].end
    BY <1>4, <2>1
  <2>5. b.relayers[1].end <= a.last_confirmed_nonce BY <2>2, <2>3
  <2> QED BY <1>4, <2>4, <2>5
<1>7. Len(b.relayers) <= Len(a.relayers) BY <1>4, <1>5, <1>6
<1>8. MaxUnrewardedRelayers \in Nat /\ MaxUnconfirmed \in Nat BY LimitsAssumption
<1>9. ASSUME b.relayers # << >>, a.relayers # << >>
      PROVE  b.relayers[Len(b.relayers)].relayer = a.relayers[Len(a.relayers)].relayer
  <2>1. /\ Len(b.relayers) \in 1 .. Len(b.relayers) /\ Len(a.relayers) \in 1 .. Len(a.relayers)
        /\ j + Len(b.relayers) = Len(d.relayers) /\ k + Len(a.relayers) = Len(d.relayers)
    BY <1>4, <1>5, <1>9
  <2>2. b.relayers[Len(b.relayers)].relayer = d.relayers[j + Len(b.relayers)].relayer
    BY <1>2, <2>1 DEF IsTrimOf
  <2>3. a.relayers[Len(a.relayers)].relayer = d.relayers[k + Len(a.relayers)].relayer
    BY <1>1, <2>1 DEF IsTrimOf
  <2> QED BY <2>1, <2>2, <2>3
<1>10. Len(b.relayers) < MaxUnrewardedRelayers
  BY <1>4, <1>7, <1>8 DEF can_take
<1>11. last <= b.last_confirmed_nonce + MaxUnconfirmed
  BY <1>4, <1>8 DEF can_take
<1>12. CASE extends_back_entry(a, relayer)
  <2>1. CASE b.relayers # << >>
    <3>1. extends_back_entry(b, relayer) BY <1>9, <1>12, <2>1 DEF extends_back_entry
    <3> QED BY <1>10, <1>11, <3>1 DEF can_take
  <2>2. CASE b.relayers = << >>
    <3>1. Len(b.relayers) = 0 BY <2>2
    <3>2. Len(a.relayers) # 0 BY <1>4, <1>12 DEF extends_back_entry
    <3>3. Len(a.relayers) < MaxUnrewardedRelayers BY DEF can_take
    <3>4. Len(b.relayers) + 1 < MaxUnrewardedRelayers BY <1>4, <1>8, <3>1, <3>2, <3>3
    <3> QED BY <1>10, <1>11, <3>4 DEF can_take
  <2> QED BY <2>1, <2>2
<1>13. CASE Len(a.relayers) + 1 < MaxUnrewardedRelayers
  <2>1. Len(b.relayers) + 1 < MaxUnrewardedRelayers BY <1>4, <1>7, <1>8, <1>13
  <2> QED BY <1>10, <1>11, <2>1 DEF can_take
<1>14. CASE last = last_delivered_nonce(a) + 1
  BY <1>3, <1>10, <1>11, <1>14 DEF can_take
<1> QED BY <1>12, <1>13, <1>14 DEF can_take

\* A delivery's update confirms no less when another's came before it.
LEMMA UpdateAfterUpdate ==
  ASSUME NEW data, WellFormed(data), NEW tx, NEW other,
         tx.header.lane.latest_received_nonce \in Nat,
         other.header.lane.latest_received_nonce \in Nat
  PROVE  LET between == state_updated(data, other)
             after   == state_updated(between, tx)
         IN  /\ IsUpdateOf(between, data)
             /\ IsUpdateOf(after, data)
             /\ state_updated(data, tx).last_confirmed_nonce
                  <= after.last_confirmed_nonce
<1> DEFINE between == state_updated(data, other)
<1> DEFINE after == state_updated(between, tx)
<1>1. IsUpdateOf(between, data) /\ WellFormed(between) BY StateUpdated DEF IsUpdateOf
<1> HIDE DEF between
<1>2. IsUpdateOf(after, between) BY <1>1, StateUpdated
<1>3. IsUpdateOf(after, data) BY <1>1, <1>2, UpdateTwice
<1>4. /\ data.last_confirmed_nonce \in Nat /\ last_delivered_nonce(data) \in Nat
      /\ between.last_confirmed_nonce \in Nat
    BY <1>1, WellFormedBounds
<1>5. /\ data.last_confirmed_nonce <= between.last_confirmed_nonce
      /\ last_delivered_nonce(between) = last_delivered_nonce(data)
  BY <1>1 DEF IsUpdateOf
<1>6. state_updated(data, tx).last_confirmed_nonce <= after.last_confirmed_nonce
  <2>1. CASE tx.with_state
    <3> DEFINE r == tx.header.lane.latest_received_nonce
    <3>1. state_updated(data, tx).last_confirmed_nonce =
            IF r > last_delivered_nonce(data) \/ r <= data.last_confirmed_nonce
            THEN data.last_confirmed_nonce ELSE r
      BY <2>1, UpdatedNonce DEF state_updated
    <3>2. after.last_confirmed_nonce =
            IF r > last_delivered_nonce(data) \/ r <= between.last_confirmed_nonce
            THEN between.last_confirmed_nonce ELSE r
      BY <1>1, <1>5, <2>1, UpdatedNonce DEF state_updated
    <3> HIDE DEF r, after
    <3> QED BY <1>4, <1>5, <3>1, <3>2 DEF r
  <2>2. CASE ~ tx.with_state BY <1>5, <2>2 DEF state_updated
  <2> QED BY <2>1, <2>2
<1> QED BY <1>1, <1>3, <1>6 DEF between

-----------------------------------------------------------------------------
\* A delivery transaction and what is known of its parts.
IsTx(tx) ==
  /\ tx.header.lane.latest_received_nonce \in Nat
  /\ tx.first \in 1 .. MaxGenerated
  /\ tx.last \in 0 .. MaxGenerated
  /\ tx.first <= tx.last + 1
  /\ tx.with_state \in BOOLEAN

\* A pending bundle of an honest relayer is well-formed and proved, and until
\* someone else delivers its first message the lane can take all of it.
PendingOK(relayer, tx) ==
  /\ IsTx(tx)
  /\ tx.first <= tx.last =>
       /\ tx.last < tx.first + MaxUnconfirmed
       /\ verify_messages_proof(tx.header, tx.first, tx.last, tx.with_state)
       /\ tx.first <= last_delivered_nonce(inbound) + 1
       /\ tx.first = last_delivered_nonce(inbound) + 1 =>
            can_take(state_updated(inbound, tx), relayer, tx.last)

\* The inductive invariant: that of the lane, and the pending deliveries.
PoolInv ==
  /\ pool = [r \in Honest |-> pool[r]]
  /\ \A r \in Honest : \A tx, other \in pool[r] : tx = other
  /\ \A r \in Honest : \A tx \in pool[r] : PendingOK(r, tx)

RelayedInv == Inv /\ PoolInv

\* A delivery built from a header the light client keeps.
LEMMA KeptHeader ==
  ASSUME Inv, NEW header \in ToSet(source_headers), NEW tx \in Tx(header)
  PROVE  IsTx(tx) /\ tx.header = header
<1>1. PICK k \in 1 .. Len(source_headers) : header = source_headers[k] BY DEF ToSet
<1>2. header.lane.latest_received_nonce \in Nat
  BY <1>1 DEF Inv, TypeOK, IsSourceState, OutboundLaneData
<1> QED BY <1>2 DEF Tx, IsTx

\* What including a delivery does to the lane.
LEMMA Included ==
  ASSUME Inv, NEW relayer \in Relayers, NEW tx, IsTx(tx), IncludeDelivery(relayer, tx)
  PROVE  /\ [Next]_vars
         /\ \/ inbound' = inbound
            \/ last_delivered_nonce(inbound) < last_delivered_nonce(inbound')
            \/ inbound' = state_updated(inbound, tx)
         /\ delivery_is_valid(tx) => inbound' = delivered_lane(relayer, tx)
<1>1. CASE ~ delivery_is_valid(tx)
  BY <1>1 DEF IncludeDelivery, vars
<1>2. CASE delivery_is_valid(tx)
  <2>1. ReceiveMessagesProof(relayer, tx.header, tx.first, tx.last, tx.with_state)
    BY <1>2 DEF IncludeDelivery
  <2>2. tx.header \in ToSet(source_headers) BY <1>2 DEF delivery_is_valid
  <2>3. /\ tx.first \in 1 .. MaxGenerated /\ tx.with_state \in BOOLEAN
        /\ tx.last \in (tx.first - 1) .. MaxGenerated
        /\ tx.first \in Nat /\ tx.last \in Nat
    BY LaneAssumption DEF IsTx
  <2>4. Deliver BY <2>1, <2>2, <2>3 DEF Deliver
  <2> DEFINE updated == state_updated(inbound, tx)
  <2>5. inbound' = receive_messages(updated, relayer, tx.first, tx.last)
        /\ inbound' = delivered_lane(relayer, tx)
    BY <2>1 DEF ReceiveMessagesProof, delivered_lane, state_updated
  <2>6. WellFormed(inbound) /\ last_delivered_nonce(inbound) \in Nat BY Typing
  <2>7. WellFormed(updated) /\ last_delivered_nonce(updated) = last_delivered_nonce(inbound)
    BY <2>6, StateUpdated DEF IsTx, IsUpdateOf
  <2> HIDE DEF updated
  <2> DEFINE accepted == last_accepted(updated, relayer, tx.first, tx.last)
  <2> DEFINE new == receive_messages(updated, relayer, tx.first, tx.last)
  <2>8. /\ last_delivered_nonce(new) = accepted /\ accepted \in Nat
        /\ last_delivered_nonce(updated) <= accepted
        /\ accepted = last_delivered_nonce(updated) => new = updated
    BY <2>3, <2>7, ReceiveMessages
  <2> HIDE DEF new
  <2> HIDE DEF accepted
  <2>9. \/ last_delivered_nonce(inbound) < last_delivered_nonce(new)
        \/ new = updated
    BY <2>6, <2>7, <2>8
  <2>10. inbound' = new BY <2>5 DEF new
  <2> QED BY <2>4, <2>5, <2>9, <2>10 DEF Next, updated
<1> QED BY <1>1, <1>2

\* No step of anyone spoils a pending bundle.
LEMMA PendingKept ==
  ASSUME Inv, Inv', NEW relayer, NEW tx, PendingOK(relayer, tx), NEW other, IsTx(other),
         \/ inbound' = inbound
         \/ last_delivered_nonce(inbound) < last_delivered_nonce(inbound')
         \/ inbound' = state_updated(inbound, other)
  PROVE  PendingOK(relayer, tx)'
<1>1. CASE inbound' = inbound BY <1>1 DEF PendingOK, state_updated
<1>2. CASE last_delivered_nonce(inbound) < last_delivered_nonce(inbound')
  <2>1. /\ last_delivered_nonce(inbound) \in Nat
        /\ last_delivered_nonce(inbound') \in Nat
    BY Typing, WellFormedBounds DEF Inv, UnrewardedRelayersExact
  <2>2. tx.first \in Nat BY LaneAssumption DEF PendingOK, IsTx
  <2>3. tx.first <= tx.last => /\ tx.first <= last_delivered_nonce(inbound') + 1
                               /\ tx.first # last_delivered_nonce(inbound') + 1
    BY <1>2, <2>1, <2>2 DEF PendingOK
  <2> QED BY <2>3 DEF PendingOK
<1>3. CASE inbound' = state_updated(inbound, other)
  <2>1. WellFormed(inbound) BY Typing
  <2> DEFINE between == state_updated(inbound, other)
  <2> DEFINE after == state_updated(between, tx)
  <2>2. /\ IsUpdateOf(between, inbound) /\ IsUpdateOf(after, inbound)
        /\ IsUpdateOf(state_updated(inbound, tx), inbound)
        /\ state_updated(inbound, tx).last_confirmed_nonce <= after.last_confirmed_nonce
    BY <2>1, StateUpdated, UpdateAfterUpdate DEF PendingOK, IsTx
  <2>3. last_delivered_nonce(between) = last_delivered_nonce(inbound)
    BY <2>2 DEF IsUpdateOf
  <2>4. tx.last \in Nat BY LaneAssumption DEF PendingOK, IsTx
  <2>5. can_take(state_updated(inbound, tx), relayer, tx.last)
          => can_take(after, relayer, tx.last)
    BY <2>1, <2>2, <2>4, LaterUpdateTakes
  <2> HIDE DEF after, between
  <2>6. inbound' = between BY <1>3 DEF between
  <2>7. after = state_updated(inbound', tx) BY <2>6 DEF after
  <2> QED BY <2>3, <2>5, <2>6, <2>7 DEF PendingOK
<1> QED BY <1>1, <1>2, <1>3

\* What the lane accepts of a bundle that passes the filter.
LEMMA BundleDelivered ==
  ASSUME Inv, NEW relayer \in Relayers, NEW tx, IsTx(tx), tx.first <= tx.last,
         check_delivery(tx)
  PROVE  /\ tx.first = last_delivered_nonce(inbound) + 1
         /\ was_successful(tx, delivered_lane(relayer, tx)) <=>
              can_take(state_updated(inbound, tx), relayer, tx.last)
         /\ was_successful(tx, delivered_lane(relayer, tx)) <=>
              last_delivered_nonce(delivered_lane(relayer, tx)) = tx.last
<1> DEFINE updated == state_updated(inbound, tx)
<1> DEFINE new == receive_messages(updated, relayer, tx.first, tx.last)
<1>1. tx.first \in Nat /\ tx.last \in Nat /\ ~ (tx.first > tx.last)
  BY LaneAssumption DEF IsTx
<1>2. tx.first = last_delivered_nonce(inbound) + 1
  BY <1>1 DEF check_delivery, delivery_is_obsolete, appends_to_stored_nonce
<1>3. WellFormed(inbound) /\ last_delivered_nonce(inbound) \in Nat BY Typing
<1>4. WellFormed(updated) /\ last_delivered_nonce(updated) = last_delivered_nonce(inbound)
  BY <1>3, StateUpdated DEF IsTx, IsUpdateOf
<1>5. delivered_lane(relayer, tx) = new BY DEF delivered_lane, state_updated
<1> HIDE DEF updated
<1>6. last_delivered_nonce(new) = last_accepted(updated, relayer, tx.first, tx.last)
  BY <1>1, <1>4, ReceiveMessages
<1>7. last_delivered_nonce(updated) < tx.last BY <1>1, <1>2, <1>3, <1>4
<1>8. can_take(updated, relayer, tx.last) <=>
        last_accepted(updated, relayer, last_delivered_nonce(updated) + 1, tx.last) = tx.last
  BY <1>1, <1>4, <1>7, AcceptsWhole
<1>9. was_successful(tx, new) <=> last_delivered_nonce(new) = tx.last
  BY <1>1 DEF was_successful
<1> HIDE DEF new
<1> QED BY <1>2, <1>4, <1>5, <1>6, <1>8, <1>9 DEF updated

\* Initially nothing is pending.
LEMMA RelayedInitInv == RelayedInit => RelayedInv
BY InitInv DEF RelayedInit, RelayedInv, PoolInv

\* A step that adds nothing to the pool keeps the invariant.
LEMMA PoolShrinks ==
  ASSUME RelayedInv, [Next]_vars,
         pool' = [r \in Honest |-> pool'[r]],
         \A r \in Honest : pool'[r] \subseteq pool[r],
         \/ inbound' = inbound
         \/ last_delivered_nonce(inbound) < last_delivered_nonce(inbound')
         \/ \E other : IsTx(other) /\ inbound' = state_updated(inbound, other)
  PROVE  RelayedInv'
<1>1. Inv /\ Inv' BY NextInv DEF RelayedInv
<1>2. ASSUME NEW r \in Honest, NEW tx \in pool'[r] PROVE PendingOK(r, tx)'
  <2>1. PendingOK(r, tx) BY <1>2 DEF RelayedInv, PoolInv
  <2>2. CASE inbound' = inbound BY <2>1, <2>2 DEF PendingOK, state_updated
  <2>3. CASE last_delivered_nonce(inbound) < last_delivered_nonce(inbound')
    <3>1. IsTx(tx) BY <2>1 DEF PendingOK
    <3> QED BY <1>1, <2>1, <2>3, <3>1, PendingKept
  <2>4. CASE \E other : IsTx(other) /\ inbound' = state_updated(inbound, other)
    <3>1. PICK other : IsTx(other) /\ inbound' = state_updated(inbound, other) BY <2>4
    <3> QED BY <1>1, <2>1, <3>1, PendingKept
  <2> QED BY <2>2, <2>3, <2>4
<1>3. \A r \in Honest : \A tx, other \in pool'[r] : tx = other
  BY DEF RelayedInv, PoolInv
<1> QED BY <1>1, <1>2, <1>3 DEF RelayedInv, PoolInv

\* An honest relayer submits only what the lane can take.
LEMMA SubmitInv ==
  ASSUME RelayedInv, NEW relayer \in Honest, Submit(relayer)
  PROVE  RelayedInv'
<1>1. Inv /\ relayer \in Relayers BY RelayedAssumption DEF RelayedInv
<1>header. PICK header \in ToSet(source_headers) : \E tx \in Tx(header) :
             /\ validate(relayer, tx)
             /\ pool' = [pool EXCEPT ![relayer] = {tx}]
  BY DEF Submit
<1>2. PICK tx \in Tx(header) : /\ validate(relayer, tx)
                               /\ pool' = [pool EXCEPT ![relayer] = {tx}]
  BY <1>header
<1>3. UNCHANGED vars BY DEF Submit
<1>4. Inv' BY <1>1, <1>3, NextInv
<1>5. inbound' = inbound BY <1>3 DEF vars
<1>6. IsTx(tx) BY <1>1, KeptHeader
<1>7. PendingOK(relayer, tx)
  <2> SUFFICES ASSUME tx.first <= tx.last
               PROVE  /\ tx.last < tx.first + MaxUnconfirmed
                      /\ verify_messages_proof(tx.header, tx.first, tx.last, tx.with_state)
                      /\ tx.first <= last_delivered_nonce(inbound) + 1
                      /\ can_take(state_updated(inbound, tx), relayer, tx.last)
    BY <1>6 DEF PendingOK
  <2>1. check_delivery(tx) /\ delivery_is_valid(tx)
        /\ was_successful(tx, delivered_lane(relayer, tx))
    BY <1>2 DEF validate, Succeeds
  <2>2. /\ tx.first = last_delivered_nonce(inbound) + 1
        /\ can_take(state_updated(inbound, tx), relayer, tx.last)
    BY <1>1, <1>6, <2>1, BundleDelivered
  <2>3. tx.first <= last_delivered_nonce(inbound) + 1
    BY <2>2, LaneAssumption, <1>6 DEF IsTx
  <2> QED BY <2>1, <2>2, <2>3 DEF delivery_is_valid
<1>8. pool = [r \in Honest |-> pool[r]] BY DEF RelayedInv, PoolInv
<1>9. pool' = [r \in Honest |-> IF r = relayer THEN {tx} ELSE pool[r]]
  BY <1>2, <1>8
<1>10. ASSUME NEW r \in Honest, NEW t \in pool'[r] PROVE PendingOK(r, t)'
  <2>1. PendingOK(r, t) BY <1>7, <1>9, <1>10 DEF RelayedInv, PoolInv
  <2> QED BY <1>5, <2>1 DEF PendingOK, state_updated
<1>11. \A r \in Honest : \A t, other \in pool'[r] : t = other
  BY <1>9 DEF RelayedInv, PoolInv
<1>12. pool' = [r \in Honest |-> pool'[r]] BY <1>9
<1> QED BY <1>4, <1>10, <1>11, <1>12 DEF RelayedInv, PoolInv

\* What a step of the extension does: the lane takes one of its steps, and a
\* delivery is included only by its relayer.
LEMMA IncludeAnyTx ==
  ASSUME Inv, NEW relayer, IncludeAny(relayer)
  PROVE  \E tx : IsTx(tx) /\ IncludeDelivery(relayer, tx)
<1>1. PICK header \in ToSet(source_headers) : \E tx \in Tx(header) :
             IncludeDelivery(relayer, tx)
  BY DEF IncludeAny
<1>2. PICK tx \in Tx(header) : IncludeDelivery(relayer, tx) BY <1>1
<1> QED BY <1>2, KeptHeader

\* Every step keeps the invariant.
LEMMA RelayedNextInv == RelayedInv /\ [RelayedNext]_relayed_vars => RelayedInv'
<1> SUFFICES ASSUME RelayedInv, [RelayedNext]_relayed_vars PROVE RelayedInv' OBVIOUS
<1>1. /\ Inv /\ Honest \subseteq Relayers
      /\ pool = [r \in Honest |-> pool[r]]
      /\ \A r \in Honest : \A tx \in pool[r] : IsTx(tx)
  BY RelayedAssumption DEF RelayedInv, PoolInv, PendingOK
<1>2. ASSUME [Next]_vars, inbound' = inbound, pool' = pool PROVE RelayedInv'
  BY <1>1, <1>2, PoolShrinks
<1>3. CASE ChainStep
  <2>1. [Next]_vars BY <1>3 DEF ChainStep, Next
  <2>2. inbound' = inbound /\ pool' = pool
    BY <1>3 DEF ChainStep, SendMessage, ImportSourceHeader, ImportTargetHeader,
                SetOperatingMode, SwitchDispatcher
  <2> QED BY <1>2, <2>1, <2>2
<1>4. ASSUME NEW relayer \in Honest, Include(relayer) PROVE RelayedInv'
  <2>1. PICK tx \in pool[relayer] : IncludeDelivery(relayer, tx)
    BY <1>4 DEF Include
  <2>2. pool' = [pool EXCEPT ![relayer] = {}] BY <1>4 DEF Include
  <2>3. pool' = [r \in Honest |-> IF r = relayer THEN {} ELSE pool[r]]
    BY <1>1, <2>2
  <2>4. IsTx(tx) BY <1>1
  <2>5. /\ [Next]_vars
        /\ \/ inbound' = inbound
           \/ last_delivered_nonce(inbound) < last_delivered_nonce(inbound')
           \/ inbound' = state_updated(inbound, tx)
    BY <1>1, <2>1, <2>4, Included
  <2>6. pool' = [r \in Honest |-> pool'[r]] /\ \A r \in Honest : pool'[r] \subseteq pool[r]
    BY <2>3
  <2> QED BY <2>4, <2>5, <2>6, PoolShrinks
<1>5. ASSUME NEW relayer \in Honest, Drop(relayer) PROVE RelayedInv'
  <2>1. pool' = [pool EXCEPT ![relayer] = {}] /\ UNCHANGED vars BY <1>5 DEF Drop
  <2>2. pool' = [r \in Honest |-> IF r = relayer THEN {} ELSE pool[r]]
    BY <1>1, <2>1
  <2>3. pool' = [r \in Honest |-> pool'[r]] /\ \A r \in Honest : pool'[r] \subseteq pool[r]
    BY <2>2
  <2>4. inbound' = inbound /\ [Next]_vars BY <2>1 DEF vars
  <2> QED BY <2>3, <2>4, PoolShrinks
<1>6. ASSUME NEW relayer \in Relayers \ Honest, IncludeAny(relayer) PROVE RelayedInv'
  <2>1. PICK tx : IsTx(tx) /\ IncludeDelivery(relayer, tx)
    BY <1>1, <1>6, IncludeAnyTx
  <2>2. /\ [Next]_vars
        /\ \/ inbound' = inbound
           \/ last_delivered_nonce(inbound) < last_delivered_nonce(inbound')
           \/ inbound' = state_updated(inbound, tx)
    BY <1>1, <2>1, Included
  <2>3. pool' = pool BY <1>6 DEF IncludeAny
  <2> QED BY <1>1, <2>1, <2>2, <2>3, PoolShrinks
<1>7. ASSUME NEW relayer \in Relayers, IncludeConfirmation(relayer) PROVE RelayedInv'
  <2>1. Confirm /\ pool' = pool /\ inbound' = inbound
    BY <1>7 DEF IncludeConfirmation, Confirm, ReceiveMessagesDeliveryProof
  <2> QED BY <1>2, <2>1 DEF Next
<1>8. CASE UNCHANGED relayed_vars
  BY <1>2, <1>8 DEF relayed_vars, vars
<1> QED BY <1>3, <1>4, <1>5, <1>6, <1>7, <1>8, SubmitInv DEF RelayedNext

\* The invariant holds always.
THEOREM RelayedInvariant == RelayedSpec => []RelayedInv
BY RelayedInitInv, RelayedNextInv, PTL DEF RelayedSpec

\* The lane behind the transaction extension is still the lane of MessageLane:
\* the extension only chooses among its steps, so everything proved of the
\* messages pallet holds of the deployed one.
THEOREM ExtensionKeepsLane == RelayedSpec => Spec
<1>1. RelayedInit => Init BY DEF RelayedInit
<1>2. RelayedInv /\ [RelayedNext]_relayed_vars => [Next]_vars
  <2> SUFFICES ASSUME RelayedInv, [RelayedNext]_relayed_vars PROVE [Next]_vars OBVIOUS
  <2>1. /\ Inv /\ Honest \subseteq Relayers
        /\ \A r \in Honest : \A tx \in pool[r] : IsTx(tx)
    BY RelayedAssumption DEF RelayedInv, PoolInv, PendingOK
  <2>2. CASE ChainStep BY <2>2 DEF ChainStep, Next
  <2>3. ASSUME NEW relayer \in Honest, Include(relayer) PROVE [Next]_vars
    <3>1. PICK tx \in pool[relayer] : IncludeDelivery(relayer, tx)
      BY <2>3 DEF Include
    <3> QED BY <2>1, <3>1, Included
  <2>4. ASSUME NEW relayer \in Honest, Submit(relayer) \/ Drop(relayer) PROVE [Next]_vars
    BY <2>4 DEF Submit, Drop
  <2>5. ASSUME NEW relayer \in Relayers \ Honest, IncludeAny(relayer) PROVE [Next]_vars
    <3>1. PICK tx : IsTx(tx) /\ IncludeDelivery(relayer, tx)
      BY <2>1, <2>5, IncludeAnyTx
    <3> QED BY <2>1, <3>1, Included
  <2>6. ASSUME NEW relayer \in Relayers, IncludeConfirmation(relayer) PROVE [Next]_vars
    BY <2>6 DEF IncludeConfirmation, Next, Confirm
  <2>7. CASE UNCHANGED relayed_vars BY <2>7 DEF relayed_vars
  <2> QED BY <2>2, <2>3, <2>4, <2>5, <2>6, <2>7 DEF RelayedNext
<1> QED BY <1>1, <1>2, RelayedInvariant, PTL DEF RelayedSpec, Spec

\* Only the inclusion of a delivery touches the inbound lane, the refunds and
\* the registrations; an honest relayer's delivery comes from the pool.
LEMMA StepKind ==
  ASSUME RelayedInv, [RelayedNext]_relayed_vars
  PROVE  \/ UNCHANGED << inbound, registered, refunds >>
         \/ \E relayer \in Relayers : \E tx :
              /\ IsTx(tx)
              /\ IncludeDelivery(relayer, tx)
              /\ relayer \in Honest => tx \in pool[relayer]
<1>1. /\ Inv /\ Honest \subseteq Relayers
      /\ \A r \in Honest : \A tx \in pool[r] : IsTx(tx)
  BY RelayedAssumption DEF RelayedInv, PoolInv, PendingOK
<1>2. CASE ChainStep
  BY <1>2 DEF ChainStep, SendMessage, ImportSourceHeader, ImportTargetHeader,
              SetOperatingMode, SwitchDispatcher
<1>3. ASSUME NEW relayer \in Honest, Include(relayer)
      PROVE  \E tx : IsTx(tx) /\ IncludeDelivery(relayer, tx) /\ tx \in pool[relayer]
  BY <1>1, <1>3 DEF Include
<1>4. ASSUME NEW relayer \in Honest, Submit(relayer) \/ Drop(relayer)
      PROVE  UNCHANGED << inbound, registered, refunds >>
  BY <1>4 DEF Submit, Drop, vars
<1>5. ASSUME NEW relayer \in Relayers \ Honest, IncludeAny(relayer)
      PROVE  \E tx : IsTx(tx) /\ IncludeDelivery(relayer, tx)
  BY <1>1, <1>5, IncludeAnyTx
<1>6. ASSUME NEW relayer \in Relayers, IncludeConfirmation(relayer)
      PROVE  UNCHANGED << inbound, registered, refunds >>
  BY <1>6 DEF IncludeConfirmation, ReceiveMessagesDeliveryProof
<1>7. CASE UNCHANGED relayed_vars BY <1>7 DEF relayed_vars, vars
<1>8. CASE \E relayer \in Honest : Include(relayer) BY <1>1, <1>3, <1>8
<1>9. CASE \E relayer \in Honest : Submit(relayer) \/ Drop(relayer) BY <1>4, <1>9
<1>10. CASE \E relayer \in Relayers \ Honest : IncludeAny(relayer) BY <1>5, <1>10
<1>11. CASE \E relayer \in Relayers : IncludeConfirmation(relayer) BY <1>6, <1>11
<1> QED BY <1>2, <1>7, <1>8, <1>9, <1>10, <1>11 DEF RelayedNext

\* A bundle of an honest relayer is never slashed while the light client keeps
\* the header of its proof: whatever was included between its validation and
\* its inclusion, the filter drops it or the lane accepts all of it.
THEOREM HonestBundles == RelayedSpec => HonestBundleNeverSlashed
<1> DEFINE Slashed == HonestSlashedFor(LAMBDA tx : tx.first <= tx.last)
<1>1. RelayedInv /\ [RelayedNext]_relayed_vars => [~ Slashed]_relayed_vars
  <2> SUFFICES ASSUME RelayedInv, [RelayedNext]_relayed_vars,
                      NEW r \in Honest \cap registered, r \notin registered',
                      NEW t \in pool[r], t.first <= t.last,
                      t.header \in ToSet(source_headers)
               PROVE  FALSE
    BY DEF HonestSlashedFor
  <2>1. PICK relayer \in Relayers : \E tx :
               /\ IsTx(tx)
               /\ IncludeDelivery(relayer, tx)
               /\ relayer \in Honest => tx \in pool[relayer]
    BY StepKind
  <2>2. PICK tx : /\ IsTx(tx)
                  /\ IncludeDelivery(relayer, tx)
                  /\ relayer \in Honest => tx \in pool[relayer]
    BY <2>1
  <2>3. relayer = r /\ ~ Succeeds(relayer, tx)
    BY <2>2 DEF IncludeDelivery, PostDispatchDelivery
  <2>4. tx = t BY <2>2, <2>3 DEF RelayedInv, PoolInv
  <2>5. Inv /\ PendingOK(r, t) BY DEF RelayedInv, PoolInv
  <2>6. check_delivery(t) BY <2>2, <2>4 DEF IncludeDelivery
  <2>7. /\ t.first = last_delivered_nonce(inbound) + 1
        /\ was_successful(t, delivered_lane(r, t)) <=>
             can_take(state_updated(inbound, t), r, t.last)
    BY <2>2, <2>3, <2>4, <2>5, <2>6, BundleDelivered
  <2>8. was_successful(t, delivered_lane(r, t)) BY <2>5, <2>7 DEF PendingOK
  <2>9. ensure_not_halted("target") /\ is_active
    BY <2>6 DEF check_delivery, delivery_is_obsolete
  <2>10. delivery_is_valid(t) BY <2>5, <2>9 DEF delivery_is_valid, PendingOK
  <2> QED BY <2>3, <2>4, <2>8, <2>10 DEF Succeeds
<1> QED BY <1>1, RelayedInvariant, PTL DEF RelayedSpec, HonestBundleNeverSlashed

\* A delivery is refunded only if it delivered messages or freed message slots.
THEOREM RefundsForProgress == RelayedSpec => RefundedOnlyForProgress
<1> DEFINE Progress ==
      refunds' # refunds =>
        \/ last_delivered_nonce(inbound)' > last_delivered_nonce(inbound)
        \/ free_message_slots(inbound)' > free_message_slots(inbound)
<1>1. RelayedInv /\ [RelayedNext]_relayed_vars => [Progress]_relayed_vars
  <2> SUFFICES ASSUME RelayedInv, [RelayedNext]_relayed_vars, refunds' # refunds
               PROVE  \/ last_delivered_nonce(inbound)' > last_delivered_nonce(inbound)
                      \/ free_message_slots(inbound)' > free_message_slots(inbound)
    OBVIOUS
  <2>1. PICK relayer \in Relayers : \E tx : IsTx(tx) /\ IncludeDelivery(relayer, tx)
    BY StepKind
  <2>2. PICK tx : IsTx(tx) /\ IncludeDelivery(relayer, tx) BY <2>1
  <2>3. Inv BY DEF RelayedInv
  <2>4. Succeeds(relayer, tx) /\ check_delivery(tx)
    BY <2>2 DEF IncludeDelivery, PostDispatchDelivery
  <2>5. /\ delivery_is_valid(tx)
        /\ was_successful(tx, delivered_lane(relayer, tx))
    BY <2>4 DEF Succeeds
  <2>6. inbound' = delivered_lane(relayer, tx) BY <2>2, <2>3, <2>5, Included
  <2>7. tx.first \in Nat /\ tx.last \in Nat BY <2>2, LaneAssumption DEF IsTx
  <2>8. last_delivered_nonce(inbound) \in Nat BY <2>3, Typing
  <2>9. CASE tx.first <= tx.last
    <3>1. /\ tx.first = last_delivered_nonce(inbound) + 1
          /\ last_delivered_nonce(delivered_lane(relayer, tx)) = tx.last
      BY <2>2, <2>3, <2>4, <2>5, <2>9, BundleDelivered
    <3>2. last_delivered_nonce(inbound') = tx.last BY <2>6, <3>1
    <3> QED BY <2>7, <2>8, <2>9, <3>1, <3>2
  <2>10. CASE tx.first > tx.last
    <3>1. free_message_slots(delivered_lane(relayer, tx)) > free_message_slots(inbound)
      BY <2>5, <2>10 DEF was_successful
    <3>2. free_message_slots(inbound') > free_message_slots(inbound) BY <2>6, <3>1
    <3> QED BY <3>2
  <2> QED BY <2>7, <2>9, <2>10
<1> QED BY <1>1, RelayedInvariant, PTL DEF RelayedSpec, RefundedOnlyForProgress

\* Relayer slots are released only together with message slots, as the comment
\* in was_successful says.
THEOREM SlotsTogether == RelayedSpec => SlotsReleasedTogether
<1> DEFINE Together ==
      /\ last_delivered_nonce(inbound)' = last_delivered_nonce(inbound)
      /\ free_relayer_slots(inbound)' > free_relayer_slots(inbound)
      => free_message_slots(inbound)' > free_message_slots(inbound)
<1>1. RelayedInv /\ RelayedInv' /\ [RelayedNext]_relayed_vars => [Together]_relayed_vars
  <2> SUFFICES ASSUME RelayedInv, RelayedInv', [RelayedNext]_relayed_vars,
                      last_delivered_nonce(inbound') = last_delivered_nonce(inbound),
                      free_relayer_slots(inbound') > free_relayer_slots(inbound)
               PROVE  free_message_slots(inbound') > free_message_slots(inbound)
    OBVIOUS
  <2>1. Inv /\ Inv' BY DEF RelayedInv
  <2>2. /\ WellFormed(inbound) /\ WellFormed(inbound')
        /\ Len(inbound.relayers) <= MaxUnrewardedRelayers
        /\ Len(inbound'.relayers) <= MaxUnrewardedRelayers
        /\ last_delivered_nonce(inbound) - inbound.last_confirmed_nonce <= MaxUnconfirmed
        /\ last_delivered_nonce(inbound') - inbound'.last_confirmed_nonce
             <= MaxUnconfirmed
    BY <2>1 DEF Inv, UnrewardedRelayersExact
  <2>3. /\ Len(inbound.relayers) \in Nat /\ Len(inbound'.relayers) \in Nat
        /\ inbound.last_confirmed_nonce \in Nat /\ inbound'.last_confirmed_nonce \in Nat
        /\ last_delivered_nonce(inbound) \in Nat
        /\ last_delivered_nonce(inbound') \in Nat
        /\ \A i \in 1 .. Len(inbound.relayers) :
             /\ inbound.relayers[i].begin \in Nat /\ inbound.relayers[i].end \in Nat
             /\ inbound.last_confirmed_nonce < inbound.relayers[i].begin
             /\ inbound.relayers[i].begin <= inbound.relayers[i].end
    BY <2>2, WellFormedBounds
  <2>4. MaxUnrewardedRelayers \in Nat /\ MaxUnconfirmed \in Nat BY LimitsAssumption
  <2>5. Len(inbound'.relayers) < Len(inbound.relayers)
    BY <2>2, <2>3, <2>4 DEF free_relayer_slots
  <2>6. inbound' # inbound BY <2>3, <2>5
  <2>7. PICK relayer \in Relayers : \E tx : IsTx(tx) /\ IncludeDelivery(relayer, tx)
    BY <2>6, StepKind
  <2>8. PICK tx : IsTx(tx) /\ IncludeDelivery(relayer, tx) BY <2>7
  <2>9. inbound' = state_updated(inbound, tx)
    BY <2>1, <2>3, <2>6, <2>8, Included
  <2>10. IsUpdateOf(inbound', inbound)
    BY <2>2, <2>8, <2>9, StateUpdated DEF IsTx
  <2>11. PICK k \in Nat : IsTrimOf(inbound'.relayers, inbound.relayers, k)
    BY <2>10 DEF IsUpdateOf
  <2>12. 1 \in 1 .. k /\ 1 \in 1 .. Len(inbound.relayers)
    BY <2>3, <2>5, <2>11 DEF IsTrimOf
  <2>13. inbound.relayers[1].end <= inbound'.last_confirmed_nonce
    BY <2>2, <2>10, <2>11, <2>12, PoppedAreConfirmed
  <2>14. inbound.last_confirmed_nonce < inbound'.last_confirmed_nonce
    <3> DEFINE before == inbound.last_confirmed_nonce
               after == inbound'.last_confirmed_nonce
               begin == inbound.relayers[1].begin
               end == inbound.relayers[1].end
    <3>1. /\ before \in Nat /\ after \in Nat /\ begin \in Nat /\ end \in Nat
          /\ before < begin /\ begin <= end /\ end <= after
      BY <2>3, <2>12, <2>13, Zenon
    <3>2. before < after
      <4> HIDE DEF before, after, begin, end
      <4> QED BY <3>1
    <3> QED BY <3>2
  <2> QED BY <2>2, <2>3, <2>4, <2>14 DEF free_message_slots
<1> QED BY <1>1, RelayedInvariant, PTL DEF RelayedSpec, SlotsReleasedTogether

\* The filter of confirmations rejects exactly what would confirm nothing.
THEOREM ConfirmationFilter == RelayedSpec => []ConfirmationFilterExact
<1>1. RelayedInv => ConfirmationFilterExact
  <2> SUFFICES ASSUME RelayedInv, NEW header \in ToSet(target_headers)
               PROVE  confirmation_is_obsolete(header)
                        <=> confirmation_result(header) = "Nothing"
    BY DEF ConfirmationFilterExact
  <2>1. PICK i \in 1 .. Len(target_headers) : header = target_headers[i] BY DEF ToSet
  <2>2. Inv /\ WellFormed(header) BY <2>1 DEF RelayedInv, Inv, HeadersProveThePast
  <2>3. /\ last_delivered_nonce(header) \in Nat
        /\ outbound.latest_received_nonce \in Nat
    BY <2>2, Typing, WellFormedBounds
  <2> QED
    BY <2>3 DEF confirmation_is_obsolete, confirmation_result, confirm_delivery_result
<1> QED BY <1>1, RelayedInvariant, PTL
==============================================================================
