------------------------------ MODULE XcmpQueue ------------------------------
(***************************************************************************)
(* Parachains that talk over HRMP channels with the XCMP queue pallet      *)
(* (cumulus/pallets/xcmp-queue/src/lib.rs): the outbound pages and their   *)
(* aggregation, the inbound queues and their thresholds, and the Suspend   *)
(* and Resume signals by which a recipient with a full inbound queue holds *)
(* its sender back.  All chains run the same code, and every channel is a  *)
(* lossless FIFO of bounded capacity (the relay chain's HRMP queue).       *)
(*                                                                         *)
(* A block of a chain is some servicing, the inherent (Receive, one page   *)
(* a step), some sending, more servicing and TakeOutbound at its end.  An  *)
(* execution may send at any point before the end, so the blocks are what  *)
(* lies between two TakeOutbounds and need no further bookkeeping.         *)
(*                                                                         *)
(* A message is a unit: an outbound page holds up to PageFragments of      *)
(* them, a page of the inbound message queue one.  Sizes, delivery fees    *)
(* and the weight of the inherent (enough of it for every page) are left   *)
(* out, and so is whatever a message does when it is executed.  A          *)
(* candidate holds one block, so that no recipient is excluded.            *)
(***************************************************************************)
EXTENDS Integers, Sequences, FiniteSets, SequencesExt

CONSTANTS
  Chains,
  Open,                 \* the open HRMP channels, pairs <<sender, recipient>>
  Talk,                 \* the channels some chain sends messages on
  Heavy,                \* the channels with messages too heavy for a pass
  Capacity,             \* max_capacity of a channel, in pages
  PageFragments,        \* max_message_size, in messages
  MaxChannels,          \* hrmp_max_message_num_per_candidate
  MaxActive,            \* MaxActiveOutboundChannels
  MaxInboundSuspended,
  ResumeThreshold, SuspendThreshold, DropThreshold,
  MaxOutstanding        \* bound: messages under way, for every channel

ASSUME ThresholdsValid ==
  /\ ResumeThreshold \in Nat /\ SuspendThreshold \in Nat /\ DropThreshold \in Nat
  /\ 0 < ResumeThreshold
  /\ ResumeThreshold < SuspendThreshold
  /\ SuspendThreshold <= DropThreshold

ASSUME ChannelsValid == Talk \subseteq Open /\ Heavy \subseteq Open

VARIABLES
  status,     \* OutboundXcmpStatus of every chain
  signals,    \* SignalMessages[<<chain, dest>>]
  suspended,  \* InboundXcmpSuspended of every chain
  link,       \* the pages in an HRMP channel
  queue       \* ready pages of the recipient's message queue for a sender

vars == <<status, signals, suspended, link, queue>>

NoSignal == "none"
Signals == {"Suspend", "Resume"}
Pairs == {p \in Chains \X Chains : p[1] # p[2]}

(* A page on the wire: a signal, or messages in one of the two formats.    *)
SignalPage(x) == [signal |-> x, opaque |-> FALSE, fragments |-> 0]
DataPage(o, n) == [signal |-> NoSignal, opaque |-> o, fragments |-> n]

(* OutboundChannelDetails::new.  The pages between first_index and         *)
(* last_index are a sequence.                                              *)
Details(r) ==
  [recipient |-> r, state |-> "Ok", signals_exist |-> FALSE,
   pages |-> <<>>, support |-> FALSE, notified |-> FALSE]

Active(s, r) == \E i \in DOMAIN s : s[i].recipient = r

Position(s, r) ==
  IF Active(s, r) THEN CHOOSE i \in DOMAIN s : s[i].recipient = r ELSE 0

(* try_push of a new entry for r unless there is one, to be followed by a  *)
(* check that it succeeded (Active).                                       *)
try_get_or_insert(s, r) ==
  IF Active(s, r) \/ Len(s) = MaxActive THEN s ELSE Append(s, Details(r))

should_send_notification(d) == ~d.support /\ ~d.notified

Init ==
  /\ status = [c \in Chains |-> <<>>]
  /\ signals = [p \in Pairs |-> NoSignal]
  /\ suspended = [c \in Chains |-> {}]
  /\ link = [ch \in Open |-> <<>>]
  /\ queue = [ch \in Open |-> 0]

-----------------------------------------------------------------------------
(* Sending *)

(* One more message on the pages of d: into the last page when it has the  *)
(* same format and room, into a new page otherwise.                        *)
WithFragment(d) ==
  LET n == Len(d.pages)
      fits == n > 0 /\ d.pages[n].opaque = d.support /\ d.pages[n].fragments < PageFragments
  IN [d EXCEPT
        !.pages = IF fits
                  THEN [@ EXCEPT ![n].fragments = @ + 1]
                  ELSE Append(@, DataPage(d.support, 1)),
        !.notified = @ \/ d.support]

Fragments(pages) ==
  Cardinality({q \in (DOMAIN pages) \X (1 .. PageFragments) : q[2] <= pages[q[1]].fragments})

Outbound(ch) ==
  LET i == Position(status[ch[1]], ch[2])
  IN IF i = 0 THEN 0 ELSE Fragments(status[ch[1]][i].pages)

Outstanding(ch) == Outbound(ch) + Fragments(link[ch]) + queue[ch]

(* deliver and send_fragment: TooManyChannels leaves everything as it was. *)
Deliver(c, r) ==
  LET s == try_get_or_insert(status[c], r)
  IN /\ <<c, r>> \in Talk
     /\ Outstanding(<<c, r>>) < MaxOutstanding[<<c, r>>]
     /\ Active(s, r)
     /\ status' = [status EXCEPT ![c] = [s EXCEPT ![Position(s, r)] = WithFragment(@)]]
     /\ UNCHANGED <<signals, suspended, link, queue>>

-----------------------------------------------------------------------------
(* Holding a sender back *)

\* Fault: the sender is told to resume below the threshold, not at it.
SignalForBelow(c, para, ready) ==
  IF para \in suspended[c]
  THEN IF ready < ResumeThreshold THEN "Resume" ELSE NoSignal
  ELSE IF ready >= SuspendThreshold THEN "Suspend" ELSE NoSignal

(* The signal that a queue of `ready' pages calls for. *)
SignalFor(c, para, ready) ==
  IF para \in suspended[c]
  THEN IF ready <= ResumeThreshold THEN "Resume" ELSE NoSignal
  ELSE IF ready >= SuspendThreshold THEN "Suspend" ELSE NoSignal

(* InboundXcmpSuspended after a signal went out: try_insert may fail.      *)
Marked(c, para, x) ==
  IF x = "Resume" THEN suspended[c] \ {para}
  ELSE IF Cardinality(suspended[c]) < MaxInboundSuspended
       THEN suspended[c] \cup {para}
       ELSE suspended[c]

(* send_signal, on the status s of chain c: the one pending signal for     *)
(* dest is overwritten.  An error leaves the chain as it was.              *)
send_signal(c, dest, x, s) ==
  LET s1 == try_get_or_insert(s, dest)
  IN IF x # NoSignal /\ Active(s1, dest)
     THEN /\ status' = [status EXCEPT ![c] =
                          [s1 EXCEPT ![Position(s1, dest)].signals_exist = TRUE]]
          /\ signals' = [signals EXCEPT ![<<c, dest>>] = x]
          /\ suspended' = [suspended EXCEPT ![c] = Marked(c, dest, x)]
     ELSE /\ status' = [status EXCEPT ![c] = s]
          /\ UNCHANGED <<signals, suspended>>

on_queue_changed(c, para, ready, s) ==
  send_signal(c, para, SignalFor(c, para, ready), s)

-----------------------------------------------------------------------------
(* The inherent: handle_xcmp_messages, one page a step *)

suspend_channel(s, target) ==
  LET s1 == try_get_or_insert(s, target)
  IN IF Active(s1, target)
     THEN [s1 EXCEPT ![Position(s1, target)].state = "Suspended"]
     ELSE s

\* Fault: an entry without pages is left as it is.
resume_channelBusyOnly(s, target) ==
  LET i == Position(s, target)
  IN IF i = 0 THEN s
     ELSE IF s[i].pages = <<>> THEN s ELSE [s EXCEPT ![i].state = "Ok"]

(* An entry without pages is removed, whatever else it holds. *)
resume_channel(s, target) ==
  LET i == Position(s, target)
  IN IF i = 0 THEN s
     ELSE IF s[i].pages = <<>> THEN RemoveAt(s, i)
          ELSE [s EXCEPT ![i].state = "Ok"]

ReceiveSignal(c, s) ==
  /\ <<s, c>> \in Open
  /\ link[<<s, c>>] # <<>>
  /\ link' = [link EXCEPT ![<<s, c>>] = Tail(@)]
  /\ LET page == Head(link[<<s, c>>])
     IN /\ page.signal # NoSignal
        /\ status' = [status EXCEPT ![c] =
                        IF page.signal = "Suspend" THEN suspend_channel(@, s)
                                                   ELSE resume_channel(@, s)]
  /\ UNCHANGED <<signals, suspended, queue>>

(* notice_concatenated_opaque_versioned_xcm_support, if there is room for  *)
(* the entry.                                                              *)
NoticeSupport(st, s) ==
  LET st1 == try_get_or_insert(st, s)
  IN IF Active(st1, s) THEN [st1 EXCEPT ![Position(st1, s)].support = TRUE] ELSE st

\* Fault: messages are dropped from the suspend threshold on.
AcceptedEarly(n, ready) ==
  IF ready + n <= SuspendThreshold THEN n
  ELSE IF ready < SuspendThreshold THEN SuspendThreshold - ready ELSE 0

(* get_batches_footprints under the drop threshold: the messages that fit. *)
Accepted(n, ready) == IF ready + n <= DropThreshold THEN n ELSE DropThreshold - ready

(* enqueue_xcmp_messages tells on_queue_changed even when nothing fits.  A *)
(* page without messages advertises its format and no more.                *)
ReceivePage(c, s) ==
  /\ <<s, c>> \in Open
  /\ link[<<s, c>>] # <<>>
  /\ link' = [link EXCEPT ![<<s, c>>] = Tail(@)]
  /\ LET page == Head(link[<<s, c>>])
         st == IF page.opaque THEN NoticeSupport(status[c], s) ELSE status[c]
         ready == queue[<<s, c>>] + Accepted(page.fragments, queue[<<s, c>>])
     IN /\ page.signal = NoSignal
        /\ queue' = [queue EXCEPT ![<<s, c>>] = ready]
        /\ IF page.fragments = 0
           THEN status' = [status EXCEPT ![c] = st] /\ UNCHANGED <<signals, suspended>>
           ELSE on_queue_changed(c, s, ready, st)

-----------------------------------------------------------------------------
(* A pass of the message queue over the queue of s: k messages executed, h *)
(* set aside as overweight.  The message queue reports a change only when  *)
(* it executed something.                                                  *)
Service(c, s, k, h) ==
  LET ready == queue[<<s, c>>] - k - h
  IN /\ <<s, c>> \in Open
     /\ k + h > 0 /\ ready >= 0
     /\ h > 0 => <<s, c>> \in Heavy
     /\ queue' = [queue EXCEPT ![<<s, c>>] = ready]
     /\ IF k > 0 THEN on_queue_changed(c, s, ready, status[c])
                 ELSE UNCHANGED <<status, signals, suspended>>
     /\ UNCHANGED link

-----------------------------------------------------------------------------
(* The end of a block: take_outbound_messages *)

(* get_channel_status *)
Full(ch) == Len(link[ch]) + 1 > Capacity

(* The page an entry has to send, signals before everything else. *)
HasPage(d) ==
  \/ d.signals_exist
  \/ d.state = "Ok" /\ (d.pages # <<>> \/ should_send_notification(d))

NextPage(c, d) ==
  IF d.signals_exist THEN SignalPage(signals[<<c, d.recipient>>])
  ELSE IF d.pages # <<>> THEN Head(d.pages)
       ELSE DataPage(TRUE, 0)

AfterSend(d) ==
  IF d.signals_exist THEN [d EXCEPT !.signals_exist = FALSE]
  ELSE IF d.pages # <<>> THEN [d EXCEPT !.pages = Tail(@)]
       ELSE [d EXCEPT !.notified = TRUE]

\* Fault: the order of the channels never changes.
rotate_leftNever(s, k) == s

rotate_left(s, k) == SubSeq(s, k + 1, Len(s)) \o SubSeq(s, 1, k)

(* The entries of chain c that send: open, not full, with something to    *)
(* send, as far as the limit of MaxChannels pages goes.                    *)
Takes(c) ==
  LET s == status[c]
      able == {i \in DOMAIN s : /\ <<c, s[i].recipient>> \in Open
                                /\ ~Full(<<c, s[i].recipient>>)
                                /\ HasPage(s[i])}
  IN {i \in able : Cardinality({j \in able : j < i}) < MaxChannels}

(* on_finalize and take_outbound_messages: an entry whose channel is       *)
(* closed goes with all it holds, the others rotate.                       *)
TakeOutbound(c) ==
  LET s == status[c]
      closed == {i \in DOMAIN s : <<c, s[i].recipient>> \notin Open}
      to(I) == {s[i].recipient : i \in I}
  IN \E taken \in {Takes(c)} :
       LET done == to({i \in taken \cup closed : s[i].signals_exist})
           after == [i \in DOMAIN s |-> IF i \in taken THEN AfterSend(s[i]) ELSE s[i]]
           kept == SelectSeq(after, LAMBDA d : <<c, d.recipient>> \in Open)
           n == Cardinality(taken) - Cardinality(closed)
       IN /\ UNCHANGED <<suspended, queue>>
          /\ link' = [ch \in Open |->
                        IF ch[1] = c /\ ch[2] \in to(taken)
                        THEN Append(link[ch], NextPage(c, s[Position(s, ch[2])]))
                        ELSE link[ch]]
          /\ signals' = [p \in Pairs |->
                           IF p[1] = c /\ p[2] \in done THEN NoSignal ELSE signals[p]]
          /\ status' = [status EXCEPT ![c] = rotate_left(kept, IF n < 0 THEN 0 ELSE n)]

-----------------------------------------------------------------------------
Peers(c) == Chains \ {c}

Next ==
  \E c \in Chains :
    \/ \E r \in Peers(c) : Deliver(c, r)
    \/ \E s \in Peers(c) : ReceiveSignal(c, s)
    \/ \E s \in Peers(c) : ReceivePage(c, s)
    \/ \E s \in Peers(c) :
         /\ <<s, c>> \in Open
         /\ \E k, h \in 0 .. queue[<<s, c>>] : Service(c, s, k, h)
    \/ TakeOutbound(c)

(* Every chain goes on producing blocks: the inherent takes what has       *)
(* arrived, and the message queue gets on with every queue.                *)
Fairness ==
  /\ \A ch \in Open : WF_vars(ReceiveSignal(ch[2], ch[1]) \/ ReceivePage(ch[2], ch[1]))
  /\ \A ch \in Talk : WF_vars(\E k, h \in 0 .. queue[ch] : Service(ch[2], ch[1], k, h))
  /\ \A c \in {ch[1] : ch \in Open} : WF_vars(TakeOutbound(c))

Spec == Init /\ [][Next]_vars /\ Fairness

-----------------------------------------------------------------------------
(* Properties *)

(* Every stored value has its type: at most one entry a recipient, no      *)
(* empty outbound page, no channel beyond its capacity and no inbound      *)
(* queue beyond the drop threshold.                                        *)
TypeOK ==
  /\ \A c \in Chains :
       /\ Len(status[c]) <= MaxActive
       /\ \A i, j \in DOMAIN status[c] :
            status[c][i].recipient = status[c][j].recipient => i = j
       /\ \A i \in DOMAIN status[c] :
            /\ status[c][i].recipient \in Peers(c)
            /\ status[c][i].state \in {"Ok", "Suspended"}
            /\ \A k \in DOMAIN status[c][i].pages :
                 status[c][i].pages[k].fragments \in 1 .. PageFragments
       /\ suspended[c] \subseteq Peers(c)
       /\ Cardinality(suspended[c]) <= MaxInboundSuspended
  /\ signals \in [Pairs -> Signals \cup {NoSignal}]
  /\ \A ch \in Open : Len(link[ch]) <= Capacity /\ queue[ch] \in 0 .. DropThreshold

(* The last word of r to s: the pending signal if its entry still says     *)
(* that there is one, else the last signal under way, else what s made of  *)
(* the signals that arrived.                                               *)
LastWord(r, s) ==
  LET i == Position(status[r], s)
      way == SelectSeq(link[<<r, s>>], LAMBDA p : p.signal # NoSignal)
      e == Position(status[s], r)
  IN IF i # 0 /\ status[r][i].signals_exist THEN signals[<<r, s>>]
     ELSE IF way # <<>> THEN Last(way).signal
     ELSE IF e # 0 /\ status[s][e].state = "Suspended" THEN "Suspend" ELSE "Resume"

(* The channels whose recipient has a channel back to signal on. *)
Answered == {ch \in Talk : <<ch[2], ch[1]>> \in Open}

(* A recipient counts a sender among InboundXcmpSuspended exactly when its *)
(* last word to that sender, pending, under way or obeyed, is Suspend: the *)
(* two chains never settle on different views of the channel.  The last    *)
(* word is the one of the only entry that a recipient has (TypeOK).        *)
SignalsAgree ==
  /\ TypeOK
  /\ \A ch \in Answered :
       ch[1] \in suspended[ch[2]] <=> LastWord(ch[2], ch[1]) = "Suspend"

(* A queue above the suspend threshold has its sender told, and a sender   *)
(* that is told has a queue above the resume threshold, so that there is   *)
(* servicing to come that will release it (on_queue_changed).              *)
ToldAsNeeded ==
  \A ch \in Talk :
    /\ queue[ch] >= SuspendThreshold => ch[1] \in suspended[ch[2]]
    /\ ch[1] \in suspended[ch[2]] => queue[ch] > ResumeThreshold

(* A message on its way leaves the system only by being serviced, or by    *)
(* being dropped at a queue that is full to the drop threshold and whose   *)
(* sender had been counted as suspended, its Suspend pending or sent,      *)
(* before the page arrived (enqueue_xcmp_messages drops, on_queue_changed  *)
(* tells).  This needs a gap between the thresholds that takes a whole     *)
(* page, DropThreshold >= SuspendThreshold - 1 + PageFragments, which      *)
(* QueueConfigData::validate does not ask for (the default gap is 16       *)
(* pages): without it one page can cross both thresholds in one call.      *)
LostOnlyWhenTold ==
  [][\A ch \in Talk :
       Outstanding(ch)' < Outstanding(ch) =>
         \/ Outstanding(ch) - Outstanding(ch)' = queue[ch] - queue'[ch]
         \/ queue'[ch] = DropThreshold /\ ch[1] \in suspended[ch[2]]]_vars

(* No channel is starved: one with messages on the way has messages        *)
(* serviced again and again, however busy the other channels of the same   *)
(* sender are (the rotation at the end of take_outbound_messages) and      *)
(* however often it has been suspended.                                    *)
Serviced(ch) == queue'[ch] < queue[ch]

KeepsMoving ==
  \A ch \in Talk : []<>(Outstanding(ch) = 0) \/ []<><<Serviced(ch)>>_vars

(* A signal in SignalMessages belongs to an entry that says so, and will   *)
(* therefore be sent when the channel has room.  send_signal's comment     *)
(* promises that a signal is dispatched; resume_channel breaks this when   *)
(* it removes an entry with a signal pending.                              *)
SignalsDispatched ==
  \A p \in Pairs : signals[p] # NoSignal =>
    \E i \in DOMAIN status[p[1]] :
      status[p[1]][i].recipient = p[2] /\ status[p[1]][i].signals_exist

(* A sender is suspended, or about to be, only by a recipient that will    *)
(* remember to resume it.  Config::MaxInboundSuspended says that further   *)
(* suspensions fail; on_queue_changed sends the signal all the same.       *)
SuspensionsRecorded ==
  \A ch \in Answered :
    LastWord(ch[2], ch[1]) = "Suspend" => ch[1] \in suspended[ch[2]]
=============================================================================
