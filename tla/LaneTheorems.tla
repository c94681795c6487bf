---------------------------- MODULE LaneTheorems ----------------------------
(***************************************************************************)
(* What the operations on lane data preserve, for lanes of any length and  *)
(* limits of any size.  MessageLaneTheorems rests on these lemmas.         *)
(***************************************************************************)
EXTENDS OutboundLane, InboundLane, TLAPS, WellFoundedInduction

\* A non-empty set of naturals has a least element.
LEMMA NatMin ==
  ASSUME NEW T \in SUBSET Nat, T # {}
  PROVE  \E x \in T : \A y \in T : x <= y
<1> DEFINE R == {ss \in Nat \X Nat : ss[1] < ss[2]}
<1>1. IsWellFoundedOn(R, Nat)
  BY NatLessThanWellFounded, Zenon DEF OpToRel
<1>2. PICK x \in T : \A y \in T : << y, x >> \notin R
  <2> HIDE DEF R
  <2> QED BY <1>1, WFMin
<1>3. \A y \in T : x <= y
  <2> TAKE y \in T
  <2>1. x \in Nat /\ y \in Nat OBVIOUS
  <2>2. << y, x >> \notin R BY <1>2
  <2>3. ~ (y < x) BY <2>1, <2>2, Zenon
  <2> QED BY <2>1, <2>3
<1> QED BY <1>3

\* What appending an element and joining two sequences give.
LEMMA AppendSeq ==
  ASSUME NEW S, NEW s \in Seq(S), NEW e \in S
  PROVE  /\ Append(s, e) \in Seq(S) /\ Append(s, e) # << >>
         /\ Len(Append(s, e)) = Len(s) + 1
         /\ \A i \in 1 .. Len(s) : Append(s, e)[i] = s[i]
         /\ Append(s, e)[Len(s) + 1] = e
OBVIOUS

LEMMA ConcatSeq ==
  ASSUME NEW S, NEW s \in Seq(S), NEW t \in Seq(S)
  PROVE  /\ s \o t \in Seq(S)
         /\ Len(s \o t) = Len(s) + Len(t)
         /\ \A i \in 1 .. Len(s) : (s \o t)[i] = s[i]
         /\ \A i \in (Len(s) + 1) .. (Len(s) + Len(t)) : (s \o t)[i] = t[i - Len(s)]
OBVIOUS

\* The loop of receive_state_update that pops confirmed entries stops at the
\* first entry that is not confirmed.
LEMMA PoppedEntries ==
  ASSUME NEW relayers \in Seq(UnrewardedRelayer(Relayers)), NEW confirmed \in Nat
  PROVE  LET k == popped_entries(relayers, confirmed)
         IN  /\ k \in 0 .. Len(relayers)
             /\ \A i \in 1 .. k : relayers[i].end <= confirmed
             /\ k < Len(relayers) => relayers[k + 1].end > confirmed
<1> DEFINE T == {k \in 0 .. Len(relayers) :
                   k < Len(relayers) => relayers[k + 1].end > confirmed}
<1>1. Len(relayers) \in T /\ T \in SUBSET Nat OBVIOUS
<1>2. PICK k \in T : \A y \in T : k <= y
  <2> HIDE DEF T
  <2> QED BY <1>1, NatMin
<1>3. k \in 0 .. Len(relayers) /\ (k < Len(relayers) => relayers[k + 1].end > confirmed)
  OBVIOUS
<1>4. \A i \in 1 .. k : relayers[i].end <= confirmed
  <2> TAKE i \in 1 .. k
  <2>1. i - 1 \notin T
    <3> HIDE DEF T
    <3>1. i \in Nat /\ k \in Nat /\ i <= k BY <1>3
    <3>2. i - 1 \in T => k <= i - 1 BY <1>2
    <3> QED BY <3>1, <3>2
  <2>2. i \in 1 .. Len(relayers) /\ relayers[i] \in UnrewardedRelayer(Relayers)
    BY <1>3
  <2>3. relayers[i].end \in Nat BY <2>2 DEF UnrewardedRelayer
  <2>4. (i - 1) + 1 = i BY <2>2
  <2> QED BY <2>1, <2>2, <2>3, <2>4
<1> QED
  BY <1>3, <1>4 DEF popped_entries

\* The bounds of the nonces of a well-formed lane.
LEMMA WellFormedBounds ==
  ASSUME NEW data, WellFormed(data)
  PROVE  /\ data.relayers \in Seq(UnrewardedRelayer(Relayers))
         /\ Len(data.relayers) \in Nat
         /\ data.last_confirmed_nonce \in Nat
         /\ last_delivered_nonce(data) \in Nat
         /\ data.last_confirmed_nonce <= last_delivered_nonce(data)
         /\ data.relayers # << >> => data.last_confirmed_nonce < last_delivered_nonce(data)
         /\ \A i \in 1 .. Len(data.relayers) :
              /\ data.relayers[i] \in UnrewardedRelayer(Relayers)
              /\ data.relayers[i].relayer \in Relayers
              /\ data.relayers[i].begin \in Nat
              /\ data.relayers[i].end \in Nat
              /\ data.last_confirmed_nonce < data.relayers[i].begin
              /\ data.relayers[i].begin <= data.relayers[i].end
              /\ data.relayers[i].end <= last_delivered_nonce(data)
         /\ total_unrewarded_messages(data)
              = last_delivered_nonce(data) - data.last_confirmed_nonce
<1> DEFINE q == data.relayers
<1> DEFINE low == data.last_confirmed_nonce
<1> DEFINE high == last_delivered_nonce(data)
<1>1. q \in Seq(UnrewardedRelayer(Relayers)) /\ low \in Nat /\ Len(q) \in Nat
  BY DEF WellFormed, InboundLaneData
<1>2. \A i \in 1 .. Len(q) : /\ q[i] \in UnrewardedRelayer(Relayers)
                             /\ q[i].relayer \in Relayers
                             /\ q[i].begin \in Nat /\ q[i].end \in Nat
                             /\ q[i].begin <= q[i].end
  <2>1. \A i \in 1 .. Len(q) : q[i] \in UnrewardedRelayer(Relayers) BY <1>1
  <2>2. \A i \in 1 .. Len(q) : q[i].begin <= q[i].end
    BY DEF WellFormed, Covers
  <2> QED BY <2>1, <2>2 DEF UnrewardedRelayer
<1>3. CASE q = << >>
  BY <1>1, <1>2, <1>3 DEF last_delivered_nonce, total_unrewarded_messages
<1>4. CASE q # << >>
  <2>1. Len(q) \in 1 .. Len(q) /\ 1 \in 1 .. Len(q) BY <1>1, <1>4
  <2>2. high = q[Len(q)].end BY <1>4 DEF last_delivered_nonce
  <2>3. q[1].begin = low + 1 BY <2>1 DEF WellFormed, Covers
  <2>4. \A i \in 1 .. Len(q) : low < q[i].begin
    <3> TAKE i \in 1 .. Len(q)
    <3>1. CASE i = 1 BY <1>1, <2>3, <3>1
    <3>2. CASE 1 < i
      <4>1. q[1].end < q[i].begin BY <2>1, <3>2 DEF WellFormed, Ordered
      <4> QED BY <1>1, <1>2, <2>1, <2>3, <4>1
    <3> QED BY <3>1, <3>2
  <2>5. \A i \in 1 .. Len(q) : q[i].end <= high
    <3> TAKE i \in 1 .. Len(q)
    <3>1. CASE i = Len(q) BY <1>2, <2>2, <3>1
    <3>2. CASE i < Len(q)
      <4>1. q[i].end < q[Len(q)].begin BY <2>1, <3>2 DEF WellFormed, Ordered
      <4>2. q[Len(q)].begin \in Nat /\ q[Len(q)].begin <= high /\ high \in Nat
        BY <1>2, <2>1, <2>2
      <4>3. q[i].end \in Nat BY <1>2
      <4> HIDE DEF high
      <4> QED BY <4>1, <4>2, <4>3
    <3> QED BY <1>1, <3>1, <3>2
  <2>6. total_unrewarded_messages(data) = high - low
    <3> HIDE DEF high
    <3>1. q[1].begin <= q[Len(q)].end BY <1>2, <2>1, <2>2, <2>3, <2>4, <2>5
    <3> QED BY <1>1, <1>2, <1>4, <2>1, <2>2, <2>3, <3>1 DEF total_unrewarded_messages
  <2> HIDE DEF high
  <2> QED BY <1>1, <1>2, <2>1, <2>2, <2>4, <2>5, <2>6 DEF high
<1> QED BY <1>3, <1>4

\* What receive_state_update leaves of the queue: the entries from some point
\* on, with their relayers and ends, the first of them cut from below.
IsTrimOf(new, old, k) ==
  /\ k \in 0 .. Len(old)
  /\ Len(new) = Len(old) - k
  /\ \A i \in 1 .. Len(new) :
       /\ new[i].relayer = old[k + i].relayer
       /\ new[i].end = old[k + i].end
       /\ new[i].begin >= old[k + i].begin

\* Trimming the queue at a nonce between the confirmed and the last delivered
\* one gives the queue that covers what is left.
LEMMA TrimRelayers ==
  ASSUME NEW data, WellFormed(data), NEW confirmed \in Nat,
         data.last_confirmed_nonce < confirmed,
         confirmed <= last_delivered_nonce(data)
  PROVE  LET q == data.relayers
             t == trim_relayers(q, confirmed)
         IN  /\ t \in Seq(UnrewardedRelayer(Relayers))
             /\ Covers(t, confirmed, last_delivered_nonce(data))
             /\ Ordered(t)
             /\ IsTrimOf(t, q, popped_entries(q, confirmed))
<1> DEFINE q == data.relayers
<1> DEFINE t == trim_relayers(q, confirmed)
<1> DEFINE k == popped_entries(q, confirmed)
<1> DEFINE high == last_delivered_nonce(data)
<1>1. /\ q \in Seq(UnrewardedRelayer(Relayers)) /\ Len(q) \in Nat
      /\ high \in Nat /\ data.last_confirmed_nonce \in Nat
      /\ \A i \in 1 .. Len(q) :
           /\ q[i] \in UnrewardedRelayer(Relayers)
           /\ q[i].begin \in Nat /\ q[i].end \in Nat
           /\ q[i].begin <= q[i].end
  BY WellFormedBounds
<1>2. /\ k \in 0 .. Len(q)
      /\ \A i \in 1 .. k : q[i].end <= confirmed
      /\ k < Len(q) => q[k + 1].end > confirmed
  BY <1>1, PoppedEntries
<1>3. q # << >> => high = q[Len(q)].end
  BY DEF last_delivered_nonce
<1>4. q # << >>
  BY <1>1 DEF last_delivered_nonce
<1>5. \A i \in 1 .. Len(q) :
        q[i].begin = IF i = 1 THEN data.last_confirmed_nonce + 1 ELSE q[i - 1].end + 1
  BY DEF WellFormed, Covers
<1>6. \A i, j \in 1 .. Len(q) : i < j => q[i].end < q[j].begin
  BY DEF WellFormed, Ordered
<1>7. k < Len(q) => q[k + 1].begin <= confirmed + 1
  <2> HAVE k < Len(q)
  <2>1. k + 1 \in 1 .. Len(q) BY <1>1, <1>2
  <2>2. CASE k = 0 BY <1>1, <1>5, <2>1, <2>2
  <2>3. CASE k > 0
    <3>1. q[k + 1].begin = q[(k + 1) - 1].end + 1 BY <1>2, <1>5, <2>1, <2>3
    <3>2. (k + 1) - 1 = k /\ k \in 1 .. k /\ k \in 1 .. Len(q) BY <1>1, <1>2, <2>3
    <3> QED BY <1>1, <1>2, <3>1, <3>2
  <2> QED BY <1>2, <2>2, <2>3
<1>8. t = [i \in 1 .. (Len(q) - k) |->
             IF i = 1 /\ q[k + i].begin <= confirmed
             THEN [q[k + i] EXCEPT !.begin = confirmed + 1]
             ELSE q[k + i]]
  BY DEF trim_relayers
<1> HIDE DEF k, t, high, q
<1>9. Len(q) - k \in Nat BY <1>1, <1>2
<1>10. \A i \in 1 .. (Len(q) - k) :
          /\ k + i \in 1 .. Len(q)
          /\ t[i] \in UnrewardedRelayer(Relayers)
          /\ t[i].relayer = q[k + i].relayer
          /\ t[i].end = q[k + i].end
          /\ t[i].begin = IF i = 1 THEN confirmed + 1 ELSE q[k + i].begin
          /\ t[i].begin >= q[k + i].begin
          /\ t[i].begin <= t[i].end
  <2> TAKE i \in 1 .. (Len(q) - k)
  <2>1. k + i \in 1 .. Len(q) BY <1>1, <1>2
  <2>2. q[k + i] \in [relayer : Relayers, begin : Nat, end : Nat]
    BY <1>1, <2>1 DEF UnrewardedRelayer
  <2>3. CASE i = 1
    <3>1. k < Len(q) /\ q[k + 1].end > confirmed /\ q[k + 1].begin <= confirmed + 1
      BY <1>1, <1>2, <1>7, <2>3
    <3>2. CASE q[k + 1].begin <= confirmed
      <4>1. t[i] = [q[k + 1] EXCEPT !.begin = confirmed + 1]
        BY <1>8, <2>3, <3>2
      <4> QED BY <2>1, <2>2, <2>3, <3>1, <3>2, <4>1 DEF UnrewardedRelayer
    <3>3. CASE ~ (q[k + 1].begin <= confirmed)
      <4>1. t[i] = q[k + 1] BY <1>8, <2>3, <3>3
      <4> QED BY <2>1, <2>2, <2>3, <3>1, <3>3, <4>1 DEF UnrewardedRelayer
    <3> QED BY <3>2, <3>3
  <2>4. CASE i # 1
    <3>1. t[i] = q[k + i] BY <1>8, <2>4
    <3> QED BY <1>1, <2>1, <2>2, <2>4, <3>1 DEF UnrewardedRelayer
  <2> QED BY <2>3, <2>4
<1>11. /\ t \in Seq(UnrewardedRelayer(Relayers))
       /\ Len(t) = Len(q) - k
  <2>1. t \in [1 .. (Len(q) - k) -> UnrewardedRelayer(Relayers)]
    BY <1>8, <1>10
  <2> QED BY <1>9, <2>1
<1>12. IsTrimOf(t, q, k)
  BY <1>2, <1>10, <1>11 DEF IsTrimOf
<1>13. Ordered(t)
  <2> SUFFICES ASSUME NEW i \in 1 .. Len(t), NEW j \in 1 .. Len(t), i < j
               PROVE  t[i].end < t[j].begin
    BY DEF Ordered
  <2>1. j # 1 /\ k + i < k + j /\ k + i \in 1 .. Len(q) /\ k + j \in 1 .. Len(q)
    BY <1>2, <1>9, <1>10, <1>11
  <2> QED BY <1>6, <1>10, <1>11, <2>1
<1>14. Covers(t, confirmed, high)
  <2>1. \A i \in 1 .. Len(t) :
          /\ t[i].begin <= t[i].end
          /\ t[i].begin = IF i = 1 THEN confirmed + 1 ELSE t[i - 1].end + 1
    <3> TAKE i \in 1 .. Len(t)
    <3>1. CASE i = 1 BY <1>10, <1>11, <3>1
    <3>2. CASE i # 1
      <4>1. /\ i - 1 \in 1 .. (Len(q) - k) /\ i \in 1 .. (Len(q) - k)
            /\ k + i \in 1 .. Len(q) /\ k + i # 1 /\ (k + i) - 1 = k + (i - 1)
        BY <1>2, <1>9, <1>11, <3>2
      <4>2. t[i - 1].end = q[k + (i - 1)].end BY <1>10, <4>1
      <4>3. t[i].begin = q[k + i].begin BY <1>10, <3>2, <4>1
      <4>4. q[k + i].begin = q[(k + i) - 1].end + 1 BY <1>5, <4>1
      <4> QED BY <1>10, <3>2, <4>1, <4>2, <4>3, <4>4
    <3> QED BY <3>1, <3>2
  <2>2. high = IF t = << >> THEN confirmed ELSE t[Len(t)].end
    <3>1. CASE t = << >>
      <4>1. Len(t) = 0 BY <3>1
      <4>2. k = Len(q) /\ k \in 1 .. k BY <1>1, <1>2, <1>4, <1>11, <4>1
      <4>3. q[k].end <= confirmed /\ high = q[k].end BY <1>2, <1>3, <1>4, <4>2
      <4> QED BY <1>1, <3>1, <4>3 DEF high
    <3>2. CASE t # << >>
      <4>1. Len(t) \in 1 .. (Len(q) - k) /\ k + Len(t) = Len(q)
        BY <1>2, <1>9, <1>11, <3>2
      <4> QED BY <1>3, <1>4, <1>10, <3>2, <4>1
    <3> QED BY <3>1, <3>2
  <2> QED BY <2>1, <2>2 DEF Covers
<1> QED BY <1>11, <1>12, <1>13, <1>14 DEF t, q, k, high

\* receive_state_update keeps the lane well-formed and what was delivered, and
\* moves the confirmed nonce only forward and only to the reported one.
LEMMA ReceiveStateUpdate ==
  ASSUME NEW data, WellFormed(data), NEW latest_received \in Nat
  PROVE  LET new == receive_state_update(data, latest_received)
         IN  /\ WellFormed(new)
             /\ last_delivered_nonce(new) = last_delivered_nonce(data)
             /\ new.state = data.state
             /\ data.last_confirmed_nonce <= new.last_confirmed_nonce
             /\ \/ new.last_confirmed_nonce = data.last_confirmed_nonce
                \/ new.last_confirmed_nonce = latest_received
             /\ \E k \in Nat : IsTrimOf(new.relayers, data.relayers, k)
<1> DEFINE new == receive_state_update(data, latest_received)
<1>1. /\ data.relayers \in Seq(UnrewardedRelayer(Relayers))
      /\ Len(data.relayers) \in Nat
      /\ data.last_confirmed_nonce \in Nat
      /\ last_delivered_nonce(data) \in Nat
      /\ \A i \in 1 .. Len(data.relayers) : data.relayers[i].begin \in Nat
  BY WellFormedBounds
<1>2. CASE \/ latest_received > last_delivered_nonce(data)
           \/ latest_received <= data.last_confirmed_nonce
  <2>1. new = data BY <1>2 DEF receive_state_update
  <2>2. IsTrimOf(data.relayers, data.relayers, 0) BY <1>1 DEF IsTrimOf
  <2> HIDE DEF new
  <2>3. \E k \in Nat : IsTrimOf(data.relayers, data.relayers, k)
    BY <2>2
  <2>4. data.last_confirmed_nonce <= data.last_confirmed_nonce BY <1>1
  <2> QED BY <2>1, <2>3, <2>4 DEF new
<1>3. CASE /\ latest_received <= last_delivered_nonce(data)
           /\ data.last_confirmed_nonce < latest_received
  <2> DEFINE t == trim_relayers(data.relayers, latest_received)
  <2>1. new = [data EXCEPT !.last_confirmed_nonce = latest_received, !.relayers = t]
    BY <1>1, <1>3 DEF receive_state_update
  <2>2. /\ t \in Seq(UnrewardedRelayer(Relayers))
        /\ Covers(t, latest_received, last_delivered_nonce(data))
        /\ Ordered(t)
        /\ IsTrimOf(t, data.relayers, popped_entries(data.relayers, latest_received))
    BY <1>3, TrimRelayers
  <2> HIDE DEF t, new
  <2>3. popped_entries(data.relayers, latest_received) \in Nat
    BY <1>1, <2>2 DEF IsTrimOf
  <2>4. data \in InboundLaneData BY DEF WellFormed
  <2>5. /\ new.relayers = t /\ new.last_confirmed_nonce = latest_received
        /\ new.state = data.state /\ new \in InboundLaneData
    BY <2>1, <2>2, <2>4 DEF InboundLaneData
  <2>6. last_delivered_nonce(new) = last_delivered_nonce(data)
    BY <2>2, <2>5 DEF last_delivered_nonce, Covers
  <2>7. WellFormed(new) BY <2>2, <2>5, <2>6 DEF WellFormed
  <2>8. \E k \in Nat : IsTrimOf(t, data.relayers, k) BY <2>2, <2>3
  <2>9. data.last_confirmed_nonce <= latest_received BY <1>1, <1>3
  <2> QED BY <2>5, <2>6, <2>7, <2>8, <2>9 DEF new
<1> QED BY <1>1, <1>2, <1>3

\* What note_dispatched makes of the queue: its last entry grows, or an entry
\* is added at its end; either way it belongs to the relayer.
IsGrowthOf(new, old, relayer, delivered, last) ==
  \/ /\ old # << >>
     /\ old[Len(old)].relayer = relayer
     /\ Len(new) = Len(old)
     /\ \A i \in 1 .. (Len(old) - 1) : new[i] = old[i]
     /\ new[Len(old)].relayer = relayer
     /\ new[Len(old)].begin = old[Len(old)].begin
     /\ new[Len(old)].end = last
  \/ /\ old # << >> => old[Len(old)].relayer # relayer
     /\ Len(new) = Len(old) + 1
     /\ \A i \in 1 .. Len(old) : new[i] = old[i]
     /\ new[Len(old) + 1] = [relayer |-> relayer, begin |-> delivered + 1, end |-> last]

\* Recording a non-empty run of delivered messages keeps the lane well-formed.
LEMMA NoteDispatched ==
  ASSUME NEW data, WellFormed(data), NEW relayer \in Relayers, NEW last \in Nat,
         last_delivered_nonce(data) < last
  PROVE  LET new == note_dispatched(data, relayer, last)
         IN  /\ WellFormed(new)
             /\ last_delivered_nonce(new) = last
             /\ new.state = data.state
             /\ new.last_confirmed_nonce = data.last_confirmed_nonce
             /\ IsGrowthOf(new.relayers, data.relayers, relayer,
                           last_delivered_nonce(data), last)
<1> DEFINE new == note_dispatched(data, relayer, last)
<1> DEFINE q == data.relayers
<1> DEFINE low == data.last_confirmed_nonce
<1> DEFINE high == last_delivered_nonce(data)
<1>1. /\ q \in Seq(UnrewardedRelayer(Relayers)) /\ Len(q) \in Nat
      /\ low \in Nat /\ high \in Nat /\ low <= high
      /\ \A i \in 1 .. Len(q) :
           /\ q[i] \in UnrewardedRelayer(Relayers)
           /\ q[i].begin \in Nat /\ q[i].end \in Nat
           /\ q[i].begin <= q[i].end
           /\ q[i].end <= high
  BY WellFormedBounds
<1>2. /\ data \in InboundLaneData
      /\ \A i \in 1 .. Len(q) :
           q[i].begin = IF i = 1 THEN low + 1 ELSE q[i - 1].end + 1
      /\ high = IF q = << >> THEN low ELSE q[Len(q)].end
      /\ \A i, j \in 1 .. Len(q) : i < j => q[i].end < q[j].begin
  BY DEF WellFormed, Covers, Ordered
<1>3. CASE extends_back_entry(data, relayer)
  <2> DEFINE n == Len(q)
  <2> DEFINE e == [q[n] EXCEPT !.end = last]
  <2> DEFINE nq == [q EXCEPT ![n] = e]
  <2>1. q # << >> /\ q[n].relayer = relayer /\ n \in 1 .. n
    BY <1>1, <1>3 DEF extends_back_entry
  <2>2. new = [data EXCEPT !.relayers = nq]
    BY <1>2, <1>3 DEF note_dispatched, InboundLaneData
  <2>3. q[n] \in [relayer : Relayers, begin : Nat, end : Nat]
    BY <1>1, <2>1 DEF UnrewardedRelayer
  <2>4. /\ e \in UnrewardedRelayer(Relayers)
        /\ e.relayer = relayer /\ e.begin = q[n].begin /\ e.end = last
    BY <2>1, <2>3 DEF UnrewardedRelayer
  <2> HIDE DEF e
  <2>5. /\ nq \in Seq(UnrewardedRelayer(Relayers)) /\ Len(nq) = n
        /\ \A i \in 1 .. n : nq[i] = IF i = n THEN e ELSE q[i]
    BY <1>1, <2>1, <2>4
  <2> HIDE DEF nq, new, high, low, q, n
  <2>6. /\ new \in InboundLaneData /\ new.relayers = nq
        /\ new.state = data.state /\ new.last_confirmed_nonce = low
    BY <1>2, <2>2, <2>5 DEF InboundLaneData, q, low
  <2>7. n \in Nat /\ n = Len(q) BY <1>1 DEF n
  <2>8. last_delivered_nonce(new) = last
    BY <2>1, <2>4, <2>5, <2>6, <2>7 DEF last_delivered_nonce
  <2>9. Ordered(nq)
    BY <1>1, <1>2, <2>4, <2>5, <2>7 DEF Ordered
  <2>10. Covers(nq, low, last)
    <3>1. \A i \in 1 .. n : /\ nq[i].begin <= nq[i].end
                            /\ nq[i].begin = IF i = 1 THEN low + 1 ELSE nq[i - 1].end + 1
      <4> TAKE i \in 1 .. n
      <4>1. nq[i].begin = q[i].begin BY <2>4, <2>5
      <4>2. nq[i].begin <= nq[i].end
        <5>1. i \in 1 .. Len(q) BY <2>7
        <5>2. nq[i].end = (IF i = n THEN last ELSE q[i].end) BY <2>4, <2>5
        <5>3. q[i].begin \in Nat /\ q[i].end \in Nat /\ high \in Nat
              /\ q[i].begin <= q[i].end /\ q[i].end <= high
          BY <1>1, <5>1
        <5>4. high < last BY DEF high
        <5> QED BY <4>1, <5>2, <5>3, <5>4
      <4>3. i # 1 => nq[i - 1].end = q[i - 1].end BY <2>5, <2>7
      <4> QED BY <1>2, <2>7, <4>1, <4>2, <4>3
    <3>2. nq # << >> /\ nq[Len(nq)].end = last BY <2>1, <2>4, <2>5, <2>7
    <3> QED BY <2>5, <3>1, <3>2 DEF Covers
  <2>11. IsGrowthOf(nq, q, relayer, high, last)
    <3>1. \A i \in 1 .. (Len(q) - 1) : nq[i] = q[i] BY <2>5, <2>7
    <3> QED BY <2>1, <2>4, <2>5, <2>7, <3>1 DEF IsGrowthOf
  <2>12. WellFormed(new) BY <2>6, <2>8, <2>9, <2>10 DEF WellFormed
  <2> QED BY <2>6, <2>8, <2>11, <2>12 DEF new, q, high, low
<1>4. CASE ~ extends_back_entry(data, relayer)
  <2> DEFINE n == Len(q)
  <2> DEFINE e == [relayer |-> relayer, begin |-> high + 1, end |-> last]
  <2> DEFINE nq == Append(q, e)
  <2>1. q # << >> => q[n].relayer # relayer
    BY <1>4 DEF extends_back_entry
  <2>2. new = [data EXCEPT !.relayers = nq]
    BY <1>2, <1>4 DEF note_dispatched, InboundLaneData
  <2>3. e \in UnrewardedRelayer(Relayers) /\ e.begin = high + 1 /\ e.end = last
    BY <1>1 DEF UnrewardedRelayer
  <2> HIDE DEF e
  <2>4. /\ nq \in Seq(UnrewardedRelayer(Relayers)) /\ Len(nq) = n + 1
        /\ \A i \in 1 .. n : nq[i] = q[i]
        /\ nq[n + 1] = e
        /\ nq # << >>
    <3>1. q \in Seq(UnrewardedRelayer(Relayers)) /\ e \in UnrewardedRelayer(Relayers)
      BY <1>1, <2>3
    <3> HIDE DEF q
    <3> QED BY <3>1, AppendSeq
  <2> HIDE DEF nq, new, high, low, q, n
  <2>5. /\ new \in InboundLaneData /\ new.relayers = nq
        /\ new.state = data.state /\ new.last_confirmed_nonce = low
    BY <1>2, <2>2, <2>4 DEF InboundLaneData, q, low
  <2>6. n \in Nat /\ n = Len(q) BY <1>1 DEF n
  <2>7. last_delivered_nonce(new) = last
    BY <2>3, <2>4, <2>5, <2>6 DEF last_delivered_nonce
  <2>8. Ordered(nq)
    <3> SUFFICES ASSUME NEW i \in 1 .. (n + 1), NEW j \in 1 .. (n + 1), i < j
                 PROVE  nq[i].end < nq[j].begin
      BY <2>4 DEF Ordered
    <3>1. i \in 1 .. n /\ nq[i] = q[i] BY <2>4, <2>6
    <3>2. CASE j = n + 1 BY <1>1, <2>3, <2>4, <2>6, <3>1, <3>2
    <3>3. CASE j \in 1 .. n BY <1>2, <2>4, <2>6, <3>1, <3>3
    <3> QED BY <2>6, <3>2, <3>3
  <2>9. Covers(nq, low, last)
    <3>1. \A i \in 1 .. (n + 1) :
            /\ nq[i].begin <= nq[i].end
            /\ nq[i].begin = IF i = 1 THEN low + 1 ELSE nq[i - 1].end + 1
      <4> TAKE i \in 1 .. (n + 1)
      <4>1. CASE i \in 1 .. n
        <5>1. nq[i] = q[i] /\ (i # 1 => nq[i - 1] = q[i - 1]) BY <2>4, <2>6, <4>1
        <5> QED BY <1>1, <1>2, <2>6, <4>1, <5>1
      <4>2. CASE i = n + 1
        <5>1. nq[i].begin = high + 1 /\ nq[i].end = last BY <2>3, <2>4, <4>2
        <5>2. CASE n = 0
          <6>1. q = << >>
            <7>1. q \in Seq(UnrewardedRelayer(Relayers)) /\ Len(q) = 0 BY <1>1, <2>6, <5>2
            <7> QED BY <7>1
          <6> QED BY <1>1, <1>2, <4>2, <5>1, <5>2, <6>1 DEF high
        <5>3. CASE n # 0
          <6>1. n \in 1 .. n /\ i - 1 = n /\ i # 1 BY <2>6, <4>2, <5>3
          <6>2. q # << >> BY <2>6, <5>3
          <6>3. nq[i - 1].end = high BY <1>2, <2>4, <2>6, <6>1, <6>2
          <6> QED BY <1>1, <5>1, <6>1, <6>3 DEF high
        <5> QED BY <5>2, <5>3
      <4> QED BY <2>6, <4>1, <4>2
    <3>2. nq[Len(nq)].end = last BY <2>3, <2>4
    <3> QED BY <2>4, <3>1, <3>2 DEF Covers
  <2>10. IsGrowthOf(nq, q, relayer, high, last)
    BY <2>1, <2>4, <2>6 DEF IsGrowthOf, e
  <2>11. WellFormed(new) BY <2>5, <2>7, <2>8, <2>9 DEF WellFormed
  <2> QED BY <2>5, <2>7, <2>10, <2>11 DEF new, q, high, low
<1> QED BY <1>3, <1>4

\* Receiving the messages first..last delivers a possibly empty run of them
\* that starts right after the last delivered nonce, and respects both limits.
LEMMA ReceiveMessages ==
  ASSUME NEW data, WellFormed(data), NEW relayer \in Relayers,
         NEW first \in Nat, NEW last \in Nat
  PROVE  LET new       == receive_messages(data, relayer, first, last)
             accepted  == last_accepted(data, relayer, first, last)
             delivered == last_delivered_nonce(data)
         IN  /\ WellFormed(new)
             /\ last_delivered_nonce(new) = accepted
             /\ new.state = data.state
             /\ new.last_confirmed_nonce = data.last_confirmed_nonce
             /\ accepted \in Nat
             /\ delivered <= accepted
             /\ accepted = delivered => new = data
             /\ accepted # delivered =>
                  /\ first <= delivered + 1
                  /\ accepted <= last
                  /\ accepted <= data.last_confirmed_nonce + MaxUnconfirmed
                  /\ Len(data.relayers) < MaxUnrewardedRelayers
                  /\ IsGrowthOf(new.relayers, data.relayers, relayer, delivered, accepted)
<1> DEFINE new == receive_messages(data, relayer, first, last)
<1> DEFINE accepted == last_accepted(data, relayer, first, last)
<1> DEFINE delivered == last_delivered_nonce(data)
<1>1. /\ Len(data.relayers) \in Nat
      /\ data.last_confirmed_nonce \in Nat
      /\ delivered \in Nat
  BY WellFormedBounds
<1>2. MaxUnrewardedRelayers \in Nat /\ MaxUnconfirmed \in Nat BY LimitsAssumption
<1>3. /\ accepted \in Nat
      /\ delivered <= accepted
      /\ accepted # delivered =>
           /\ first <= delivered + 1
           /\ accepted <= last
           /\ accepted <= data.last_confirmed_nonce + MaxUnconfirmed
           /\ Len(data.relayers) < MaxUnrewardedRelayers
  <2> HIDE DEF delivered
  <2>1. accepted =
          IF \/ delivered + 1 < first \/ delivered + 1 > last
             \/ Len(data.relayers) >= MaxUnrewardedRelayers
             \/ delivered + 1 > data.last_confirmed_nonce + MaxUnconfirmed
          THEN delivered
          ELSE IF \/ extends_back_entry(data, relayer)
                  \/ Len(data.relayers) + 1 < MaxUnrewardedRelayers
          THEN IF last < data.last_confirmed_nonce + MaxUnconfirmed THEN last
               ELSE data.last_confirmed_nonce + MaxUnconfirmed
          ELSE delivered + 1
    BY DEF last_accepted, delivered
  <2> HIDE DEF accepted
  <2> QED BY <1>1, <1>2, <2>1
<1>4. CASE accepted = delivered
  <2>1. new = data BY <1>4 DEF receive_messages
  <2> QED BY <1>1, <1>3, <1>4, <2>1
<1>5. CASE accepted # delivered
  <2>1. new = note_dispatched(data, relayer, accepted)
    BY <1>5 DEF receive_messages
  <2>2. delivered < accepted
    <3> HIDE DEF delivered, accepted
    <3> QED BY <1>1, <1>3, <1>5
  <2> HIDE DEF accepted
  <2>3. /\ WellFormed(new)
        /\ last_delivered_nonce(new) = accepted
        /\ new.state = data.state
        /\ new.last_confirmed_nonce = data.last_confirmed_nonce
        /\ IsGrowthOf(new.relayers, data.relayers, relayer, delivered, accepted)
    BY <1>3, <2>1, <2>2, NoteDispatched
  <2> QED BY <1>3, <1>5, <2>3 DEF accepted
<1> QED BY <1>4, <1>5

\* A trimmed queue is shorter, and attributes what is left as before.
LEMMA TrimAttribution ==
  ASSUME NEW old \in Seq(UnrewardedRelayer(Relayers)),
         NEW new \in Seq(UnrewardedRelayer(Relayers)),
         NEW k \in Nat, IsTrimOf(new, old, k),
         NEW dispatched, Attributed(old, dispatched)
  PROVE  Attributed(new, dispatched) /\ Len(new) <= Len(old)
<1>1. /\ k \in 0 .. Len(old) /\ Len(old) \in Nat /\ Len(new) \in Nat
      /\ Len(new) = Len(old) - k
  BY DEF IsTrimOf
<1>2. \A i \in 1 .. Len(new) : /\ k + i \in 1 .. Len(old)
                               /\ new[i].relayer = old[k + i].relayer
                               /\ new[i].end = old[k + i].end
                               /\ new[i].begin >= old[k + i].begin
  BY <1>1 DEF IsTrimOf
<1>3. /\ \A i \in 1 .. Len(new) : new[i].begin \in Nat /\ new[i].end \in Nat
      /\ \A i \in 1 .. Len(old) : old[i].begin \in Nat /\ old[i].end \in Nat
  <2>1. \A i \in 1 .. Len(new) : new[i] \in UnrewardedRelayer(Relayers) OBVIOUS
  <2>2. \A i \in 1 .. Len(old) : old[i] \in UnrewardedRelayer(Relayers) OBVIOUS
  <2> QED BY <2>1, <2>2 DEF UnrewardedRelayer
<1>4. ASSUME NEW i \in 1 .. Len(new), NEW n \in EntryNonces(new[i])
      PROVE  dispatched[n].relayer = new[i].relayer
  <2>1. n \in EntryNonces(old[k + i])
    BY <1>2, <1>3 DEF EntryNonces
  <2> QED BY <1>2, <2>1 DEF Attributed
<1>5. ASSUME NEW i \in 2 .. Len(new)
      PROVE  new[i].relayer # new[i - 1].relayer
  <2>1. i \in 1 .. Len(new) /\ i - 1 \in 1 .. Len(new) BY <1>1
  <2>2. k + i \in 2 .. Len(old) /\ k + (i - 1) = (k + i) - 1 BY <1>1
  <2> QED BY <1>2, <2>1, <2>2 DEF Attributed
<1> QED BY <1>1, <1>4, <1>5 DEF Attributed

\* A queue grown by one delivery attributes the new messages to their relayer.
LEMMA GrowthAttribution ==
  ASSUME NEW data, WellFormed(data),
         NEW new \in Seq(UnrewardedRelayer(Relayers)),
         NEW relayer \in Relayers, NEW last \in Nat,
         IsGrowthOf(new, data.relayers, relayer, last_delivered_nonce(data), last),
         NEW before, Attributed(data.relayers, before), NEW after,
         \A n \in 1 .. last_delivered_nonce(data) : after[n] = before[n],
         \A n \in (last_delivered_nonce(data) + 1) .. last : after[n].relayer = relayer
  PROVE  Attributed(new, after) /\ Len(new) <= Len(data.relayers) + 1
<1> DEFINE old == data.relayers
<1> DEFINE high == last_delivered_nonce(data)
<1>1. /\ Len(old) \in Nat /\ Len(new) \in Nat /\ high \in Nat
      /\ data.last_confirmed_nonce \in Nat
      /\ \A i \in 1 .. Len(old) : /\ old[i].begin \in Nat /\ old[i].end \in Nat
                                  /\ data.last_confirmed_nonce < old[i].begin
                                  /\ old[i].end <= high
  BY WellFormedBounds
<1>2. old # << >> => high = old[Len(old)].end BY DEF last_delivered_nonce
<1>3. \A i \in 1 .. Len(old) : \A n \in EntryNonces(old[i]) :
         after[n].relayer = old[i].relayer
  <2> TAKE i \in 1 .. Len(old)
  <2> TAKE n \in EntryNonces(old[i])
  <2>1. n \in 1 .. high BY <1>1 DEF EntryNonces
  <2>2. after[n] = before[n] BY <2>1
  <2> QED BY <2>2 DEF Attributed
<1>4. \A i \in 2 .. Len(old) : old[i].relayer # old[i - 1].relayer
  BY DEF Attributed
<1>5. old # << >> => Len(old) \in 1 .. Len(old)
  <2>1. old \in Seq(UnrewardedRelayer(Relayers)) BY WellFormedBounds
  <2> QED BY <2>1
<1>6. \A n \in (high + 1) .. last : after[n].relayer = relayer OBVIOUS
<1> HIDE DEF old, high
<1>7. CASE /\ old # << >>
           /\ old[Len(old)].relayer = relayer
           /\ Len(new) = Len(old)
           /\ \A i \in 1 .. (Len(old) - 1) : new[i] = old[i]
           /\ new[Len(old)].relayer = relayer
           /\ new[Len(old)].begin = old[Len(old)].begin
           /\ new[Len(old)].end = last
  <2>1. ASSUME NEW i \in 1 .. Len(new), NEW n \in EntryNonces(new[i])
        PROVE  after[n].relayer = new[i].relayer
    <3>1. CASE i # Len(old)
      <4>1. i \in 1 .. (Len(old) - 1) /\ i \in 1 .. Len(old) BY <1>1, <1>7, <3>1
      <4> QED BY <1>3, <1>7, <4>1
    <3>2. CASE i = Len(old)
      <4>1. n \in old[Len(old)].begin .. last BY <1>7, <3>2 DEF EntryNonces
      <4>2. old[Len(old)].begin \in Nat BY <1>1, <1>5, <1>7
      <4>3. n \in (high + 1) .. last \/ n \in EntryNonces(old[Len(old)])
        BY <1>1, <1>2, <1>7, <4>1, <4>2 DEF EntryNonces
      <4>4. after[n].relayer = relayer BY <1>3, <1>5, <1>6, <1>7, <4>3
      <4> QED BY <1>7, <3>2, <4>4
    <3> QED BY <3>1, <3>2
  <2>2. ASSUME NEW i \in 2 .. Len(new)
        PROVE  new[i].relayer # new[i - 1].relayer
    <3>1. i - 1 \in 1 .. (Len(old) - 1) /\ i \in 2 .. Len(old) BY <1>1, <1>7
    <3>2. new[i].relayer = old[i].relayer
      <4>1. CASE i = Len(old) BY <1>7, <4>1
      <4>2. CASE i # Len(old)
        <5>1. i \in 1 .. (Len(old) - 1) BY <1>1, <3>1, <4>2
        <5> QED BY <1>7, <5>1
      <4> QED BY <4>1, <4>2
    <3> QED BY <1>4, <1>7, <3>1, <3>2
  <2>3. Attributed(new, after) BY <2>1, <2>2 DEF Attributed
  <2>4. Len(new) <= Len(old) + 1 BY <1>1, <1>7
  <2> QED BY <2>3, <2>4 DEF old
<1>8. CASE /\ old # << >> => old[Len(old)].relayer # relayer
           /\ Len(new) = Len(old) + 1
           /\ \A i \in 1 .. Len(old) : new[i] = old[i]
           /\ new[Len(old) + 1] = [relayer |-> relayer, begin |-> high + 1, end |-> last]
  <2>1. ASSUME NEW i \in 1 .. Len(new), NEW n \in EntryNonces(new[i])
        PROVE  after[n].relayer = new[i].relayer
    <3>1. CASE i \in 1 .. Len(old) BY <1>3, <1>8, <3>1
    <3>2. CASE i = Len(old) + 1
      <4>1. n \in (high + 1) .. last BY <1>8, <3>2 DEF EntryNonces
      <4>2. after[n].relayer = relayer BY <1>6, <4>1
      <4> QED BY <1>8, <3>2, <4>2
    <3> QED BY <1>1, <1>8, <3>1, <3>2
  <2>2. ASSUME NEW i \in 2 .. Len(new)
        PROVE  new[i].relayer # new[i - 1].relayer
    <3>1. CASE i \in 2 .. Len(old)
      <4>1. i \in 1 .. Len(old) /\ i - 1 \in 1 .. Len(old) BY <1>1, <3>1
      <4> QED BY <1>4, <1>8, <3>1, <4>1
    <3>2. CASE i = Len(old) + 1
      <4>1. i - 1 = Len(old) /\ Len(old) \in 1 .. Len(old) BY <1>1, <3>2
      <4>2. old # << >> BY <1>1, <4>1
      <4>3. new[i].relayer = relayer BY <1>8, <3>2
      <4>4. new[i - 1].relayer # relayer BY <1>8, <4>1, <4>2
      <4> QED BY <4>3, <4>4
    <3> QED BY <1>1, <1>8, <3>1, <3>2
  <2>3. Attributed(new, after) BY <2>1, <2>2 DEF Attributed
  <2>4. Len(new) <= Len(old) + 1 BY <1>1, <1>8
  <2> QED BY <2>3, <2>4 DEF old
<1>9. IsGrowthOf(new, old, relayer, high, last) BY DEF old, high
<1> QED BY <1>7, <1>8, <1>9 DEF IsGrowthOf
=============================================================================
