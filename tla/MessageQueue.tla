---------------------------- MODULE MessageQueue ----------------------------
(***************************************************************************)
(* pallet-message-queue (substrate/frame/message-queue/src/lib.rs).        *)
(*                                                                         *)
(* Every origin has a queue: a book that counts and links, and numbered    *)
(* pages.  The pages begin .. end-1 are ready to be serviced; a page below *)
(* begin is stale and is kept for the overweight messages skipped in it.   *)
(* The books with ready pages are linked in a ring that service_head       *)
(* points into.  A pass (service_queues_impl) walks the ring under a       *)
(* weight meter; a step of the model is one iteration of one of its three  *)
(* nested loops.  Nothing interleaves with a pass but what the message     *)
(* processor itself enqueues.                                              *)
(*                                                                         *)
(* A message has the weight its processor needs and the result that the    *)
(* processor gives it.  All messages have one length, so that a page holds *)
(* PageSize of them, and the byte counters, which move with the message    *)
(* counters, are left out.                                                 *)
(***************************************************************************)
EXTENDS Integers, FiniteSets, SequencesExt


CONSTANTS
  Queues,          \* MessageOriginOf<T>
  NoQueue,         \* None
  Kinds,           \* the kinds of messages that each queue receives
  Pausable,        \* the queues that QueuePausedQuery may pause
  PageSize,        \* messages in the heap of a page
  MaxStale,        \* Config::MaxStale
  ServiceWeight,   \* Config::ServiceWeight
  IdleWeights,     \* Config::IdleMaxServiceWeight, cut to what a block has left
  Reentrant,       \* whether a message executed by hand may enqueue others
  MaxBatch,        \* bound on the messages of one enqueue_messages
  MaxMessages      \* bound on the messages ever enqueued

ASSUME MessageQueueAssumption ==
  /\ NoQueue \notin Queues
  /\ Kinds \in [Queues -> SUBSET [weight : Nat, result : {"ok", "fail", "yield", "stack"}]]
  /\ Pausable \subseteq Queues
  /\ PageSize \in Nat \ {0}
  /\ MaxStale \in Nat
  /\ ServiceWeight \in Nat \ {0}
  /\ IdleWeights \subseteq Nat
  /\ Reentrant \in BOOLEAN
  /\ MaxBatch \in Nat
  /\ MaxMessages \in Nat

VARIABLES
  books,         \* BookStateFor
  pages,         \* Pages
  service_head,  \* ServiceHead
  paused,        \* the queues that QueuePausedQuery says are paused
  stage,         \* "calls" between the two passes of a block, "begin" before the first
  pass,          \* where service_queues_impl is, or Idle
  sent,          \* number of messages enqueued so far; a message is its number
  executed,      \* history: messages processed, or dropped for a permanent error
  reaped,        \* history: messages removed with their page
  told           \* history: the ready pages last given to OnQueueChanged

vars == << books, pages, service_head, paused, stage, pass, sent, executed, reaped,
           told >>

\* WeightInfo: what the steps of a pass cost; queue_base includes
\* ready_ring_unknit.
BumpWeight == 1
QueueWeight == 1
PageWeight == 1
ItemWeight == 1

single_msg_overhead == BumpWeight + QueueWeight + PageWeight + ItemWeight

MaxOf(a, b) == IF a >= b THEN a ELSE b

\* max_message_weight, with the zero that service_queues_impl puts for None.
OverweightLimit ==
  LET most == CHOOSE w \in IdleWeights \cup {ServiceWeight} :
                \A v \in IdleWeights \cup {ServiceWeight} : w >= v
  IN  MaxOf(most - single_msg_overhead, 0)

Idle == [at |-> "idle", queue |-> NoQueue, meter |-> 0, processed |-> 0,
         last_no_progress |-> NoQueue]

Book == [begin : Nat, end : Nat, count : Nat, message_count : Nat,
         prev : Queues \cup {NoQueue}, next : Queues \cup {NoQueue}]

\* A queue out of the ring has no ready_neighbours.
InRing(bs, q) == bs[q].next # NoQueue

ReadyPages(b) == b.end - b.begin

Init ==
  /\ books = [q \in Queues |-> [begin |-> 0, end |-> 0, count |-> 0,
                message_count |-> 0, prev |-> NoQueue, next |-> NoQueue]]
  /\ pages = [q \in Queues |-> << >>]
  /\ service_head = NoQueue
  /\ paused = {}
  /\ stage = "begin"
  /\ pass = Idle
  /\ sent = 0
  /\ executed = {}
  /\ reaped = {}
  /\ told = [q \in Queues |-> 0]

(***************************************************************************)
(* Pages                                                                   *)
(***************************************************************************)
Without(f, i) == [j \in DOMAIN f \ {i} |-> f[j]]

With(f, i, v) == [j \in DOMAIN f \cup {i} |-> IF j = i THEN v ELSE f[j]]

from_message(m) == [msgs |-> << m >>, first |-> 0, remaining |-> 1]

CanAppend(p) == Len(p.msgs) < PageSize

try_append_message(p, m) ==
  [p EXCEPT !.msgs = Append(@, m), !.remaining = @ + 1]

\* Fault: the last message of a page is not seen (first >= last for first > last).
HasFirstButLast(p) == p.first + 1 < Len(p.msgs)

\* peek_first, when first <= last.
HasFirst(p) == p.first < Len(p.msgs)

peek_first(p) == p.msgs[p.first + 1]

note_processed_at_pos(p, i) ==
  IF p.msgs[i].processed THEN p
  ELSE [p EXCEPT !.msgs[i].processed = TRUE, !.remaining = @ - 1]

\* Fault: a message that is only skipped counts as processed.
skip_firstCounted(p, is_processed) ==
  [p EXCEPT !.msgs[p.first + 1].processed = is_processed, !.first = @ + 1,
            !.remaining = @ - 1]

skip_first(p, is_processed) ==
  [(IF is_processed THEN note_processed_at_pos(p, p.first + 1) ELSE p)
     EXCEPT !.first = @ + 1]

(***************************************************************************)
(* The ready ring                                                          *)
(***************************************************************************)
ready_ring_knit(bs, head, q) ==
  IF head = NoQueue THEN [bs EXCEPT ![q].prev = q, ![q].next = q]
  ELSE IF ~InRing(bs, head) THEN bs
  ELSE LET tail == bs[head].prev
           half == [bs EXCEPT ![head].prev = q]
       IN  IF ~InRing(half, tail) THEN half
           ELSE [half EXCEPT ![tail].next = q, ![q].prev = tail, ![q].next = head]

ready_ring_unknit(bs, q) ==
  LET n == bs[q].next
      p == bs[q].prev
      out == [bs EXCEPT ![q].next = NoQueue, ![q].prev = NoQueue]
  IN  IF ~InRing(bs, q) \/ n = q THEN out
      ELSE LET one == IF InRing(out, n) THEN [out EXCEPT ![n].prev = p] ELSE out
           IN  IF InRing(one, p) THEN [one EXCEPT ![p].next = n] ELSE one

\* Fault: the head stays on a queue that leaves the ring.
HeadAfterUnknitStays(bs, head, q) ==
  IF InRing(bs, q) /\ bs[q].next = q THEN NoQueue ELSE head

HeadAfterUnknit(bs, head, q) ==
  IF ~InRing(bs, q) THEN head
  ELSE IF bs[q].next = q THEN NoQueue
  ELSE IF head = q THEN bs[q].next
  ELSE head

(***************************************************************************)
(* Enqueuing.  It is called from outside and by the message processor in   *)
(* the middle of a pass, so it maps a storage to a storage.                *)
(***************************************************************************)
Storage == [books |-> books, pages |-> pages, head |-> service_head,
            sent |-> sent, told |-> told]

SetStorage(st) ==
  /\ books' = st.books
  /\ pages' = st.pages
  /\ service_head' = st.head
  /\ sent' = st.sent
  /\ told' = st.told

\* The loop of do_enqueue_messages: append to the last ready page, or to a new
\* one if there is none, if it is full, or if it is not stored.
AddMessage(st, q, kind) ==
  LET b == st.books[q]
      ps == st.pages[q]
      m == [id |-> st.sent + 1, kind |-> kind, processed |-> FALSE]
      fits == b.end > b.begin /\ b.end - 1 \in DOMAIN ps /\ CanAppend(ps[b.end - 1])
  IN  [st EXCEPT
         !.sent = @ + 1,
         !.books[q].message_count = @ + 1,
         !.books[q].end = IF fits THEN @ ELSE @ + 1,
         !.books[q].count = IF fits THEN @ ELSE @ + 1,
         !.pages[q] = IF fits
                      THEN With(@, b.end - 1, try_append_message(ps[b.end - 1], m))
                      ELSE With(@, b.end, from_message(m))]

OnQueueChanged(st, q) == [st EXCEPT !.told[q] = ReadyPages(st.books[q])]

\* Fault: the handler hears only of queues that become ready.
enqueue_messagesUnheard(st, q, kinds) ==
  LET added == FoldLeft(LAMBDA acc, k : AddMessage(acc, q, k), st, kinds)
  IN  IF InRing(added.books, q) THEN added
      ELSE OnQueueChanged([added EXCEPT
                             !.books = ready_ring_knit(@, added.head, q),
                             !.head = IF @ = NoQueue THEN q ELSE @], q)

enqueue_messages(st, q, kinds) ==
  LET added == FoldLeft(LAMBDA acc, k : AddMessage(acc, q, k), st, kinds)
      linked == IF InRing(added.books, q) THEN added
                ELSE [added EXCEPT
                        !.books = ready_ring_knit(@, added.head, q),
                        !.head = IF @ = NoQueue THEN q ELSE @]
  IN  OnQueueChanged(linked, q)

\* Nothing, or a message that the processor enqueues while it runs.
Spawned(st) ==
  {st} \cup IF st.sent < MaxMessages
            THEN UNION { { enqueue_messages(st, q, << k >>) : k \in Kinds[q] } : q \in Queues }
            ELSE {}

(***************************************************************************)
(* The pass: service_queues_impl, service_queue, service_page and          *)
(* service_page_item                                                       *)
(***************************************************************************)
\* Fault: the head is not bumped.
service_queues_implSameHead(limit) ==
  /\ IF limit < BumpWeight \/ service_head = NoQueue \/ ~InRing(books, service_head)
     THEN UNCHANGED pass
     ELSE pass' = [Idle EXCEPT !.at = "queue", !.queue = service_head,
                               !.meter = limit - BumpWeight]
  /\ UNCHANGED << books, pages, service_head, paused, sent, executed, reaped, told >>

service_queues_impl(limit) ==
  /\ IF limit < BumpWeight \/ service_head = NoQueue \/ ~InRing(books, service_head)
     THEN UNCHANGED << service_head, pass >>
     ELSE /\ service_head' = books[service_head].next
          /\ pass' = [Idle EXCEPT !.at = "queue", !.queue = service_head,
                                  !.meter = limit - BumpWeight]
  /\ UNCHANGED << books, pages, paused, sent, executed, reaped, told >>

on_initialize ==
  /\ pass = Idle
  /\ stage = "begin"
  /\ stage' = "calls"
  /\ service_queues_impl(ServiceWeight)

on_idle ==
  /\ pass = Idle
  /\ stage = "calls"
  /\ stage' = "begin"
  /\ \E limit \in IdleWeights : service_queues_impl(limit)

\* The end of an iteration of the loop over queues.
NextQueue(ps, next) ==
  pass' = IF \/ next = NoQueue
             \/ ps.processed = 0 /\ next = ps.last_no_progress
          THEN Idle
          ELSE [ps EXCEPT
                  !.at = "queue", !.queue = next, !.processed = 0,
                  !.last_no_progress =
                     IF ps.processed > 0 THEN NoQueue
                     ELSE IF @ = NoQueue THEN ps.queue ELSE @]

\* The end of service_queue, after a page bailed, made no progress or was the
\* last one.
LeaveQueue(ps, st) ==
  LET q == ps.queue
      left == IF st.books[q].begin < st.books[q].end THEN st
              ELSE [st EXCEPT !.books = ready_ring_unknit(@, q),
                              !.head = HeadAfterUnknit(st.books, @, q)]
  IN  /\ SetStorage(IF ps.processed > 0 THEN OnQueueChanged(left, q) ELSE left)
      /\ NextQueue(ps, st.books[q].next)

\* The end of service_page with status NoMore.
LeavePage(ps, st) ==
  LET q == ps.queue
      b == st.books[q]
      complete == b.begin \in DOMAIN st.pages[q] /\ st.pages[q][b.begin].remaining = 0
      next == [st EXCEPT
                 !.pages[q] = IF complete THEN Without(@, b.begin) ELSE @,
                 !.books[q].count = IF complete THEN @ - 1 ELSE @,
                 !.books[q].begin = @ + 1]
  IN  IF b.begin + 1 < b.end
      THEN SetStorage(next) /\ pass' = [ps EXCEPT !.at = "page"]
      ELSE LeaveQueue(ps, next)

Spend(w) == [pass EXCEPT !.meter = @ - w]

service_queue ==
  /\ pass.at = "queue"
  /\ LET b == books[pass.queue]
     IN  IF pass.meter < QueueWeight
         THEN pass' = Idle /\ SetStorage(Storage)
         ELSE IF pass.queue \in paused
         THEN NextQueue(Spend(QueueWeight), b.next) /\ SetStorage(Storage)
         ELSE IF b.end > b.begin
         THEN pass' = [Spend(QueueWeight) EXCEPT !.at = "page"] /\ SetStorage(Storage)
         ELSE LeaveQueue(Spend(QueueWeight), Storage)
  /\ UNCHANGED << paused, stage, executed, reaped >>

service_page ==
  /\ pass.at = "page"
  /\ LET q == pass.queue
     IN  IF pass.meter < PageWeight
         THEN LeaveQueue(pass, Storage)
         ELSE IF books[q].begin \notin DOMAIN pages[q]
         THEN LeavePage(Spend(PageWeight), Storage)
         ELSE pass' = [Spend(PageWeight) EXCEPT !.at = "item"] /\ SetStorage(Storage)
  /\ UNCHANGED << paused, stage, executed, reaped >>

\* Fault: the book and the page are not read again after the message ran.
ItemProcessedUnread(ps, m) ==
  LET q == pass.queue
      i == books[q].begin
  IN  /\ \E st \in (IF m.kind.result = "ok" THEN Spawned(Storage) ELSE {Storage}) :
            SetStorage([st EXCEPT
                          !.books[q] = [books[q] EXCEPT !.message_count = @ - 1],
                          !.pages[q][i] = skip_first(pages[q][i], TRUE)])
      /\ executed' = executed \cup {m.id}
      /\ pass' = [ps EXCEPT !.processed = @ + 1,
                    !.meter = IF m.kind.result = "ok" THEN @ - m.kind.weight ELSE @]

\* The message at the front of the page is processed, or dropped for an error
\* that will not go away: what it enqueued is kept only if it succeeded.
ItemProcessed(ps, m) ==
  LET q == pass.queue
      i == books[q].begin
  IN  /\ \E st \in (IF m.kind.result = "ok" THEN Spawned(Storage) ELSE {Storage}) :
            SetStorage([st EXCEPT !.books[q].message_count = @ - 1,
                                  !.pages[q][i] = skip_first(@, TRUE)])
      /\ executed' = executed \cup {m.id}
      /\ pass' = [ps EXCEPT !.processed = @ + 1,
                    !.meter = IF m.kind.result = "ok" THEN @ - m.kind.weight ELSE @]

service_page_item ==
  /\ pass.at = "item"
  /\ LET q == pass.queue
         i == books[q].begin
         p == pages[q][i]
         ps == Spend(ItemWeight)
         m == peek_first(p)
     IN  IF p.remaining = 0
         THEN LeavePage(pass, Storage) /\ UNCHANGED executed
         ELSE IF pass.meter < ItemWeight
         THEN LeaveQueue(pass, Storage) /\ UNCHANGED executed
         ELSE IF ~HasFirst(p)
         THEN LeavePage(ps, Storage) /\ UNCHANGED executed
         ELSE IF m.kind.weight > ps.meter /\ m.kind.weight > OverweightLimit
         THEN /\ SetStorage([Storage EXCEPT !.pages[q][i] = skip_first(@, FALSE)])
              /\ pass' = ps
              /\ UNCHANGED executed
         ELSE IF m.kind.weight > ps.meter \/ m.kind.result = "yield"
         THEN LeaveQueue(ps, Storage) /\ UNCHANGED executed
         ELSE ItemProcessed(ps, m)
  /\ UNCHANGED << paused, stage, reaped >>

(***************************************************************************)
(* The calls from outside a pass                                           *)
(***************************************************************************)
InCalls == pass = Idle /\ stage = "calls"

Batches(q) == UNION { [1 .. n -> Kinds[q]] : n \in 0 .. MaxBatch }

Enqueue(q) ==
  /\ InCalls
  /\ \E kinds \in Batches(q) :
       /\ sent + Len(kinds) <= MaxMessages
       /\ SetStorage(enqueue_messages(Storage, q, kinds))
  /\ UNCHANGED << paused, stage, pass, executed, reaped >>

\* The book and the page are read before the message runs and written back
\* after it, whatever it enqueued.
execute_overweight(q, i, j) ==
  /\ InCalls
  /\ q \notin paused
  /\ i \in DOMAIN pages[q] /\ j \in 1 .. Len(pages[q][i].msgs)
  /\ i < books[q].begin \/ (i = books[q].begin /\ j - 1 < pages[q][i].first)
  /\ LET m == pages[q][i].msgs[j]
         p == note_processed_at_pos(pages[q][i], j)
         removed == p.remaining = 0
     IN  /\ ~m.processed
         /\ m.kind.result \in {"ok", "fail"}
         /\ \E st \in (IF Reentrant /\ m.kind.result = "ok"
                       THEN Spawned(Storage) ELSE {Storage}) :
              SetStorage(OnQueueChanged(
                [st EXCEPT
                   !.books[q] = [books[q] EXCEPT
                                   !.message_count = @ - 1,
                                   !.count = IF removed THEN @ - 1 ELSE @],
                   !.pages[q] = IF removed THEN Without(@, i) ELSE With(@, i, p)],
                q))
         /\ executed' = executed \cup {m.id}
  /\ UNCHANGED << paused, stage, pass, reaped >>

\* Fault: checked_sub(max_stale + 1) without the + 1 that makes up for it.
OverflowLess(b) ==
  LET ready == IF ReadyPages(b) > b.count THEN b.count ELSE ReadyPages(b)
  IN  b.count - ready - MaxStale - 1

\* How far below begin a page must be to be removed with messages in it.
Overflow(b) ==
  LET ready == IF ReadyPages(b) > b.count THEN b.count ELSE ReadyPages(b)
  IN  b.count - ready - MaxStale

Backlog(overflow) == MaxOf((MaxStale * MaxStale) \div overflow, MaxStale)

Cullable(b, i) == Overflow(b) > 0 /\ i < MaxOf(b.begin - Backlog(Overflow(b)), 0)

do_reap_page(q, i) ==
  /\ InCalls
  /\ i \in DOMAIN pages[q]
  /\ i < books[q].begin
  /\ pages[q][i].remaining = 0 \/ Cullable(books[q], i)
  /\ LET p == pages[q][i]
     IN  /\ SetStorage(OnQueueChanged(
              [Storage EXCEPT !.pages[q] = Without(@, i),
                              !.books[q].count = @ - 1,
                              !.books[q].message_count = @ - p.remaining],
              q))
         /\ reaped' = reaped \cup { p.msgs[j].id : j \in { k \in 1 .. Len(p.msgs) :
                                                          ~p.msgs[k].processed } }
  /\ UNCHANGED << paused, stage, pass, executed >>

sweep_queue(q) ==
  /\ InCalls
  /\ SetStorage([Storage EXCEPT
                   !.books = ready_ring_unknit([books EXCEPT ![q].begin = books[q].end], q),
                   !.head = HeadAfterUnknit(books, @, q)])
  /\ UNCHANGED << paused, stage, pass, executed, reaped >>

set_service_head(q) ==
  /\ InCalls
  /\ InRing(books, q)
  /\ service_head' = q
  /\ UNCHANGED << books, pages, paused, stage, pass, sent, executed, reaped, told >>

\* The answer of QueuePausedQuery changes.
Pause(q) ==
  /\ InCalls
  /\ q \in Pausable
  /\ paused' = IF q \in paused THEN paused \ {q} ELSE paused \cup {q}
  /\ UNCHANGED << books, pages, service_head, stage, pass, sent, executed, reaped, told >>

Service == service_queue \/ service_page \/ service_page_item

Next ==
  \/ on_initialize
  \/ on_idle
  \/ Service
  \/ \E q \in Queues :
       \/ Enqueue(q)
       \/ sweep_queue(q)
       \/ set_service_head(q)
       \/ Pause(q)
       \/ \E i \in DOMAIN pages[q] :
            \/ do_reap_page(q, i)
            \/ \E j \in 1 .. PageSize : execute_overweight(q, i, j)

\* Blocks follow each other, and a pass runs to its end.
Spec == Init /\ [][Next]_vars /\ WF_vars(on_initialize \/ on_idle \/ Service)

-----------------------------------------------------------------------------
\* What a queue stores: the unprocessed messages of a page and of all its pages,
\* those no pass has reached yet, and the stale pages.
Unprocessed(p) == { p.msgs[j].id : j \in { k \in 1 .. Len(p.msgs) : ~p.msgs[k].processed } }

Stored(q) == UNION { Unprocessed(pages[q][i]) : i \in DOMAIN pages[q] }

AtOrAfterFirst(p) == { p.msgs[j] : j \in p.first + 1 .. Len(p.msgs) }

Unvisited(q) ==
  UNION { AtOrAfterFirst(pages[q][i]) : i \in { k \in DOMAIN pages[q] : k >= books[q].begin } }

StalePages(q) == { i \in DOMAIN pages[q] : i < books[q].begin }

\* The pages that a book counts as ready although execute_overweight removed them.
MissingPages(q) == (books[q].begin .. books[q].end - 1) \ DOMAIN pages[q]

\* Types, and that no page without messages is kept.
TypeOK ==
  /\ books \in [Queues -> Book]
  /\ \A q \in Queues : books[q].begin <= books[q].end
  /\ \A q \in Queues : \A i \in DOMAIN pages[q] :
       /\ i \in 0 .. books[q].end - 1
       /\ pages[q][i].first \in 0 .. Len(pages[q][i].msgs)
       /\ pages[q][i].remaining \in 1 .. PageSize \/ pass.at = "item"
  /\ service_head \in Queues \cup {NoQueue}
  /\ paused \subseteq Pausable
  /\ stage \in {"begin", "calls"}
  /\ pass.at \in {"idle", "queue", "page", "item"}
  /\ pass.queue \in Queues \cup {NoQueue}
  /\ pass.meter \in Nat
  /\ sent \in 0 .. MaxMessages

Ring == { q \in Queues : InRing(books, q) }

\* The queues met when the ring is followed from the head.
Reached ==
  LET at[n \in 0 .. Cardinality(Queues)] ==
        IF n = 0 THEN service_head
        ELSE IF at[n - 1] = NoQueue THEN NoQueue ELSE books[at[n - 1]].next
  IN  { at[n] : n \in 0 .. Cardinality(Queues) }

\* Whatever is enqueued, serviced, swept or executed, also by a message that runs
\* in the middle of a pass, the books in the ring are one cycle through the head,
\* linked in both directions, and every queue with ready pages is in it: a queue
\* left out would never be serviced again, because enqueuing to it links it only
\* if it has no neighbours.
RingIsSound ==
  /\ (service_head = NoQueue) = (Ring = {})
  /\ \A q \in Ring : /\ books[q].next \in Ring /\ books[books[q].next].prev = q
                     /\ books[q].prev \in Ring /\ books[books[q].prev].next = q
  /\ Ring # {} => Reached = Ring
  /\ \A q \in Queues : books[q].begin < books[q].end => q \in Ring

\* The storage is well-formed, and the counters that a book and a page keep apart
\* from their content are exact after any sequence of operations.
CountsExact ==
  /\ TypeOK
  /\ \A q \in Queues :
       /\ books[q].count = Cardinality(DOMAIN pages[q])
       /\ books[q].message_count = Cardinality(Stored(q))
       /\ \A i \in DOMAIN pages[q] :
            pages[q][i].remaining = Cardinality(Unprocessed(pages[q][i]))

\* Every message is stored, was executed, or was removed with its page, and only
\* one of them: none is lost, and none is executed twice, neither by a pass and by
\* hand nor because of what it enqueues while it runs.
Conserved ==
  /\ 1 .. sent = executed \cup reaped \cup UNION { Stored(q) : q \in Queues }
  /\ executed \cap reaped = {}
  /\ \A q \in Queues : Stored(q) \cap (executed \cup reaped) = {}

\* Between passes the handler has never been told of a shorter queue than there
\* is, so a channel that it suspended is never resumed too early.
NeverUnderstated ==
  \A q \in Queues : pass = Idle => told[q] >= ReadyPages(books[q])

\* Stale pages cannot pile up for good: as soon as there are more than MaxStale of
\* them and at least twice that many, anyone may remove one.  A page that
\* execute_overweight removed while it was still ready (MissingPages) is gone from
\* count but not from end - begin, and so hides a stale page from the count of
\* do_reap_page until a pass goes by it.
CrowdedIsReapable ==
  \A q \in Queues :
    LET n == Cardinality(StalePages(q)) - Cardinality(MissingPages(q))
    IN  n > MaxStale /\ n >= 2 * MaxStale =>
          \E i \in StalePages(q) : Cullable(books[q], i)

\* The pages that a book counts as ready are stored (do_try_state:
\* "There cannot be more ready than total pages").
ReadyPagesExist == \A q \in Queues : MissingPages(q) = {}

\* A pass takes the messages of a queue in the order they were enqueued, one at a
\* time, and passes over one without executing it only if no pass can ever afford
\* it.
TakenInOrder ==
  [][pass # Idle =>
       \A q \in Queues : \A m \in Unvisited(q) :
         m.id \notin { n.id : n \in Unvisited(q)' } =>
           /\ \A n \in Unvisited(q) : m.id <= n.id
           /\ m.id \in executed' \/ m.kind.weight > OverweightLimit]_vars

\* A message that nothing holds back: its queue is not paused, and no message at
\* or before it yields.
Waiting(q, id) ==
  /\ q \notin paused
  /\ \E m \in Unvisited(q) : m.id = id
  /\ \A m \in Unvisited(q) : m.id <= id => m.kind.result # "yield"

\* A step that moves the head by hand, or begins a pass with less than the weight
\* that the limit on messages was computed from.
Disturbance ==
  /\ pass = Idle
  /\ \/ pass' = Idle /\ service_head' # service_head /\ UNCHANGED books
     \/ pass' # Idle /\ pass'.meter < OverweightLimit + single_msg_overhead - BumpWeight

\* No message waits for ever, whatever the other queues hold: the head moves on
\* with every pass, and a pass that begins at a queue can afford any message that
\* is not overweight.
NoStarvation ==
  <>[][~Disturbance]_vars =>
    \A q \in Queues : \A id \in 1 .. MaxMessages : []<>~Waiting(q, id)
=============================================================================
