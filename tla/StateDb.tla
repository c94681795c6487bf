------------------------------- MODULE StateDb -------------------------------
(***************************************************************************)
(* The state database of a node (substrate/client/state-db): the journaled *)
(* overlay of non-canonical blocks (noncanonical.rs), the pruning window   *)
(* of canonical ones (pruning.rs), the pins that keep a block's state from *)
(* being discarded (lib.rs), and the transactions of the backend           *)
(* (client/db/src/lib.rs) that make their changes durable.                 *)
(*                                                                         *)
(* Every operation changes the memory at once and adds its commit set to   *)
(* the transaction under way, which Commit writes in one go.  A crash      *)
(* loses the memory and the transaction; opening the database rebuilds the *)
(* memory from the journals.                                               *)
(*                                                                         *)
(* The block tree is given: the hash, number, parent and state (a set of   *)
(* trie nodes) of every block that may be imported.  A block inserts the   *)
(* nodes its parent lacks and deletes the ones it lacks itself.  The root  *)
(* node of a state is named like the block.  A journal record carries the  *)
(* block's changes and is represented by its hash.                         *)
(***************************************************************************)
EXTENDS Integers, Sequences, FiniteSets, SequencesExt, FiniteSetsExt

CONSTANTS
  Hashes,      \* the blocks
  Keys,        \* the trie nodes
  Parent,      \* Hashes -> Hashes and the parent of the first one
  Number,      \* Hashes -> Nat
  StateOf,     \* Hashes -> SUBSET Keys
  Starts,      \* how a node may start: <<first, counting>>
  MaxPerLevel, \* MAX_BLOCKS_PER_LEVEL
  MaxBlocks,   \* Constraints::max_blocks
  MaxHeld,     \* bound: handles open at a time
  Read,        \* bound: the blocks that readers open
  MaxUnsynced  \* bound: blocks canonicalized since the last sync

NoBlock == [hash |-> "none", number |-> -1]

VARIABLES
  first,     \* the block this node starts from, genesis or a synced one, fixed
  counting,  \* the database does not count references itself, fixed
  nc,        \* NonCanonicalOverlay
  win,       \* RefWindow
  refs,      \* StateDbSync::pinned
  db,        \* what is on disk
  txn,       \* what will be on disk once the transaction is written
  held,      \* the handles on a block's state that readers have open
  exposed    \* auxiliary: held blocks whose handles no longer protect them

vars == <<first, counting, nc, win, refs, db, txn, held, exposed>>

Before(h) == IF h = first \/ Parent[h] \notin Hashes THEN {} ELSE StateOf[Parent[h]]
Inserted(h) == StateOf[h] \ Before(h)
Deleted(h) == Before(h) \ StateOf[h]

Upwards[h \in Hashes] ==
  {h} \cup (IF Parent[h] \in Hashes THEN Upwards[Parent[h]] ELSE {})

Ancestors == [h \in Hashes |-> Upwards[h]]

None == [h \in Hashes |-> 0]

(* insert_values and discard_values: `values' counts, for every node, the  *)
(* blocks that keep it in memory.                                          *)
\* Fault: a node is kept once, not once for each block.
insert_valuesOnce(v, h) == [k \in Keys |-> IF k \in Inserted(h) THEN 1 ELSE v[k]]

insert_values(v, h) == [k \in Keys |-> IF k \in Inserted(h) THEN v[k] + 1 ELSE v[k]]

discard_values(v, B) ==
  [k \in Keys |-> v[k] - Cardinality({b \in B : k \in Inserted(b)})]

-----------------------------------------------------------------------------
(* The overlay *)

InLevels(c) == UNION {{o.hash : o \in c.levels[i]} : i \in DOMAIN c.levels}

front_block_number(c) == c.last.number + 1

Started == nc.last.number >= Number[first]

Canonical ==
  IF Started THEN {a \in Ancestors[nc.last.hash] : Number[a] >= Number[first]} ELSE {}

(* NonCanonicalOverlay::new, from the journal of a database d: it stops at *)
(* the first number without a record.                                      *)
LevelOnDisk(d, n) == {o \in d.journal : Number[o.hash] = n}

OpenedOverlay(d) ==
  LET n0 == d.last.number
      depth == IF n0 = -1 THEN 0
               ELSE CHOOSE m \in 0 .. Cardinality(d.journal) :
                      /\ LevelOnDisk(d, n0 + m + 1) = {}
                      /\ \A i \in 1 .. m : LevelOnDisk(d, n0 + i) # {}
      levels == [i \in 1 .. depth |-> LevelOnDisk(d, n0 + i)]
      hashes == UNION {{o.hash : o \in levels[i]} : i \in 1 .. depth}
  IN [last |-> d.last, levels |-> levels, parents |-> hashes,
      values |-> [k \in Keys |-> Cardinality({h \in hashes : k \in Inserted(h)})],
      pinned |-> None, insertions |-> None, canonicalized |-> <<>>]

(* The first free journal index of a level. *)
available_index(level) ==
  CHOOSE i \in 0 .. Cardinality(level) :
    /\ \A o \in level : o.index # i
    /\ \A j \in 0 .. i - 1 : \E o \in level : o.index = j

(* A record replaces the one with the same key. *)
Journaled(d, o) ==
  {q \in d.journal : Number[q.hash] # Number[o.hash] \/ q.index # o.index} \cup {o}

(* insert_block.  The checks on number and parent are left out only before *)
(* the first block, and its parent is then taken to be canonical unless it *)
(* is genesis.  The parent may be one that has left the tree and is kept   *)
(* for a pin.  A transaction imports one block, after those it finalizes,  *)
(* and none whose header is known.                                         *)
insert(h) ==
  LET n == Number[h]
      fresh == nc.levels = <<>> /\ nc.last = NoBlock
      last == IF fresh /\ n > 0 THEN [hash |-> Parent[h], number |-> n - 1] ELSE nc.last
      at == n - last.number
      new == at > Len(nc.levels)
      level == IF new THEN {} ELSE nc.levels[at]
      o == [hash |-> h, index |-> available_index(level)]
  IN /\ txn.headers = db.headers
     /\ h \notin db.headers \cup InLevels(nc)
     /\ fresh => h = first
     /\ ~fresh => /\ nc.last # NoBlock
                  /\ at \in 1 .. Len(nc.levels) + 1
                  /\ IF at = 1 THEN Parent[h] = last.hash ELSE Parent[h] \in nc.parents
     /\ Cardinality(level) < MaxPerLevel
     /\ nc' = [nc EXCEPT
                 !.last = last,
                 !.levels = IF new THEN Append(@, {o}) ELSE [@ EXCEPT ![at] = @ \cup {o}],
                 !.parents = @ \cup {h},
                 !.values = insert_values(@, h)]
     /\ txn' = [txn EXCEPT !.last = last, !.journal = Journaled(txn, o),
                           !.headers = @ \cup {h}]
     /\ UNCHANGED <<first, counting, win, refs, db, held, exposed>>

-----------------------------------------------------------------------------
(* The pruning window: `queue' is death_rows or, when the database counts  *)
(* references, the cache of the rows that come next.                       *)

Capacity == IF MaxBlocks = 0 THEN 1 ELSE MaxBlocks

window_size(w) ==
  IF counting THEN Len(w.queue) ELSE IF w.last = -1 THEN 0 ELSE w.last + 1 - w.base

Row(h) == [hash |-> h, deleted |-> Deleted(h)]

\* Fault: the node stays on the death row.
importStale(w, h) ==
  IF counting
  THEN [w EXCEPT !.queue = Append(@, Row(h))]
  ELSE [w EXCEPT
          !.queue = IF Number[h] = w.base + Len(@) /\ Len(@) < Capacity
                    THEN Append(@, Row(h)) ELSE @,
          !.last = Number[h]]

(* import: without reference counts in the database, a node that is        *)
(* inserted again is taken off the death row it is on.                     *)
import(w, h) ==
  IF counting
  THEN [w EXCEPT !.queue =
          Append([i \in DOMAIN @ |-> [@[i] EXCEPT !.deleted = @ \ Inserted(h)]], Row(h))]
  ELSE [w EXCEPT
          !.queue = IF Number[h] = w.base + Len(@) /\ Len(@) < Capacity
                    THEN Append(@, Row(h)) ELSE @,
          !.last = Number[h]]

(* The rows on disk from number n on, as far as they go. *)
RowsOnDisk(d, n) ==
  LET count == CHOOSE m \in 0 .. Cardinality(d.rows) :
                 /\ \A h \in d.rows : Number[h] # n + m
                 /\ \A i \in 0 .. m - 1 : \E h \in d.rows : Number[h] = n + i
  IN [i \in 1 .. count |-> CHOOSE h \in d.rows : Number[h] = n + i - 1]

(* load_batch_from_db *)
Batch(d, n) ==
  LET rows == RowsOnDisk(d, n)
      some == SubSeq(rows, 1, IF Len(rows) < Capacity THEN Len(rows) ELSE Capacity)
  IN [i \in DOMAIN some |-> Row(some[i])]

(* RefWindow::new *)
OpenedWindow(d) ==
  LET base == d.pruned + 1
      empty == [base |-> base, queue |-> <<>>, last |-> -1]
  IN IF counting
     THEN FoldLeft(import, empty, RowsOnDisk(d, base))
     ELSE [empty EXCEPT !.queue = Batch(d, base), !.last = d.last.number]

(* note_canonical: the row of h joins the window and the journal. *)
note_canonical(w, t, h) ==
  LET fresh == w.base = 0 /\ window_size(w) = 0 /\ Number[h] > 0
      w1 == IF fresh THEN [w EXCEPT !.base = Number[h]] ELSE w
      t1 == IF fresh THEN [t EXCEPT !.pruned = Number[h] - 1] ELSE t
  IN [w |-> import(w1, h), t |-> [t1 EXCEPT !.rows = @ \cup {h}]]

Delete(data, K) ==
  [k \in Keys |-> IF k \notin K \/ data[k] = 0 THEN data[k]
                  ELSE IF counting THEN 0 ELSE data[k] - 1]

Insert(data, K) ==
  [k \in Keys |-> IF k \notin K THEN data[k] ELSE IF counting THEN 1 ELSE data[k] + 1]

\* Fault: only the rows in the cache are seen.
LoadedNever(w) == w

Loaded(w) ==
  IF ~counting /\ w.queue = <<>> THEN [w EXCEPT !.queue = Batch(db, w.base)] ELSE w

(* prune: as long as the window is too long, its first block is not pinned *)
(* and its row is at hand or already on disk.                              *)
RECURSIVE prune(_)
prune(x) ==
  LET w == Loaded(x.w)
  IN IF window_size(x.w) <= MaxBlocks THEN x
     ELSE IF w.queue = <<>> \/ refs[Head(w.queue).hash] > 0 THEN [x EXCEPT !.w = w]
     ELSE prune([w |-> [w EXCEPT !.base = @ + 1, !.queue = Tail(@)],
                 t |-> [x.t EXCEPT
                          !.data = Delete(@, Head(w.queue).deleted),
                          !.pruned = w.base,
                          !.rows = {h \in @ : Number[h] # w.base}]])

-----------------------------------------------------------------------------
\* Fault: the records of the descendants of h go as well.
discard_journalsBelow(h, lost) ==
  {o \in txn.journal : Ancestors[o.hash] \cap (lost \cup {h}) = {}}

discard_journals(h, lost) == {o \in txn.journal : o.hash \notin lost \cup {h}}

(* canonicalize_block: h is one of the roots of the overlay and a child of *)
(* the last canonical block (its callers see to that), the other roots go  *)
(* with their descendants in the levels.  A block with a pinned block      *)
(* among them stays in memory, counted by these.                           *)
canonicalize(h) ==
  LET roots == {o.hash : o \in nc.levels[1]}
      tree == InLevels(nc)
      lost == {b \in tree : \E r \in (roots \ {h}) \cap Ancestors[b] :
                 \A a \in Ancestors[b] : r \in Ancestors[a] => a \in tree}
      pins(b) == Cardinality({d \in lost : b \in Ancestors[d] /\ nc.pinned[d] > 0})
      gone == {b \in lost : pins(b) = 0}
      t == [txn EXCEPT !.data = Insert(@, Inserted(h)),
                       !.last = [hash |-> h, number |-> front_block_number(nc)],
                       !.journal = discard_journals(h, lost)]
      x == prune(note_canonical(win, t, h))
  IN /\ nc.levels # <<>> /\ h \in roots /\ Len(nc.canonicalized) < MaxUnsynced
     /\ Started => Parent[h] = nc.last.hash
     /\ \/ win.base = 0 /\ window_size(win) = 0
        \/ win.base + window_size(win) = front_block_number(nc)
     /\ nc' = [nc EXCEPT
                 !.last = t.last,
                 !.levels = [i \in 1 .. Len(@) - 1 |-> {o \in @[i + 1] : o.hash \notin lost}],
                 !.parents = @ \ gone,
                 !.values = discard_values(@, gone),
                 !.pinned[h] = @ + 1,
                 !.insertions = [b \in Hashes |->
                                   IF b = h THEN 1
                                   ELSE IF b \in lost \ gone THEN pins(b) ELSE @[b]],
                 !.canonicalized = Append(@, h)]
     /\ win' = x.w
     /\ txn' = x.t
     /\ UNCHANGED <<first, counting, refs, db, held, exposed>>

(* NonCanonicalOverlay::unpin: the last pin of h gone, the blocks kept for *)
(* it are released, from h up to the first one that is not kept.           *)
Walk(c, h) ==
  {a \in Ancestors[h] :
     \A b \in Ancestors[h] : a \in Ancestors[b] => c.insertions[b] > 0}

\* Fault: the blocks on the way are released even if kept for another pin.
unpin_overlayAll(c, h) ==
  LET walk == Walk(c, h)
  IN IF c.pinned[h] # 1
     THEN [c EXCEPT !.pinned[h] = IF @ = 0 THEN 0 ELSE @ - 1]
     ELSE [c EXCEPT !.pinned[h] = 0,
                    !.insertions = [b \in Hashes |-> IF b \in walk THEN 0 ELSE @[b]],
                    !.parents = @ \ walk,
                    !.values = discard_values(@, walk)]

unpin_overlay(c, h) ==
  LET walk == Walk(c, h)
      freed == {a \in walk : c.insertions[a] = 1}
  IN IF c.pinned[h] # 1
     THEN [c EXCEPT !.pinned[h] = IF @ = 0 THEN 0 ELSE @ - 1]
     ELSE [c EXCEPT !.pinned[h] = 0,
                    !.insertions = [b \in Hashes |-> IF b \in walk THEN @[b] - 1 ELSE @[b]],
                    !.parents = @ \ freed,
                    !.values = discard_values(@, freed)]

(* sync, once the transaction is on disk. *)
sync ==
  /\ txn = db
  /\ nc.canonicalized # <<>>
  /\ nc' = FoldLeft(unpin_overlay, [nc EXCEPT !.canonicalized = <<>>], nc.canonicalized)
  /\ UNCHANGED <<first, counting, win, refs, db, txn, held, exposed>>

(* revert_one takes the last level, remove a block without children.  Pins *)
(* do not matter.                                                          *)
Dropped(B, levels) ==
  /\ txn = db
  /\ nc' = [nc EXCEPT !.levels = levels,
                      !.parents = @ \ B,
                      !.values = discard_values(@, B)]
  /\ txn' = [txn EXCEPT !.journal = {o \in @ : o.hash \notin B},
                        !.headers = @ \ B]
  /\ exposed' = exposed \cup {b \in B : held[b] > 0}
  /\ UNCHANGED <<first, counting, win, refs, db, held>>

revert_one ==
  /\ nc.levels # <<>>
  /\ Dropped({o.hash : o \in Last(nc.levels)}, Front(nc.levels))

remove(h) ==
  LET at == Number[h] - nc.last.number
      levels == [nc.levels EXCEPT ![at] = {o \in @ : o.hash # h}]
  IN /\ h \in InLevels(nc)
     /\ at = Len(nc.levels) \/ \A b \in nc.parents : Parent[b] # h
     /\ Dropped({h}, IF Last(levels) = {} THEN Front(levels) ELSE levels)

-----------------------------------------------------------------------------
(* Readers *)

have_block(h) ==
  LET i == Number[h] - win.base
  IN \/ h \in nc.parents
     \/ /\ i \in 0 .. window_size(win) - 1
        /\ IF i < Len(win.queue) THEN win.queue[i + 1].hash = h ELSE db.data[h] > 0

(* The blocks of the tree that grows from the last canonical block of an   *)
(* overlay c.  A child of a block that was discarded is in the levels too, *)
(* but not in this tree.                                                   *)
Tree(c) ==
  LET in == InLevels(c)
  IN {h \in in : \A a \in Ancestors[h] :
        IF Number[a] > c.last.number THEN a \in in
        ELSE Number[a] = c.last.number => a = c.last.hash}

Unpruned == Tree(nc) \cup {h \in Canonical : Number[h] >= win.base}

(* The blocks that left the tree together with h. *)
Fork(h) == {h} \cup {b \in Hashes : (Ancestors[b] \cap Ancestors[h]) \ Canonical # {}}

(* A pin taken on a block that has left the tree or the window and is      *)
(* still in memory is granted, but what is kept there has been counted     *)
(* before: neither this handle nor, once it is closed, the others on the   *)
(* fork can rely on it.                                                    *)
pin(h) ==
  /\ h \in Read \cap db.headers /\ have_block(h)
  /\ Cardinality({x \in Hashes \X (1 .. MaxHeld) : x[2] <= held[x[1]]}) < MaxHeld
  /\ refs' = [refs EXCEPT ![h] = @ + 1]
  /\ nc' = IF refs[h] = 0 THEN [nc EXCEPT !.pinned[h] = @ + 1] ELSE nc
  /\ held' = [held EXCEPT ![h] = @ + 1]
  /\ exposed' = IF h \in Unpruned \/ refs[h] > 0 THEN exposed
                ELSE exposed \cup {b \in Fork(h) : held'[b] > 0}
  /\ UNCHANGED <<first, counting, win, db, txn>>

unpin(h) ==
  /\ held[h] > 0
  /\ refs' = [refs EXCEPT ![h] = IF @ = 0 THEN 0 ELSE @ - 1]
  /\ nc' = IF refs[h] = 1 THEN unpin_overlay(nc, h) ELSE nc
  /\ held' = [held EXCEPT ![h] = @ - 1]
  /\ exposed' = {b \in exposed : held'[b] > 0}
  /\ UNCHANGED <<first, counting, win, db, txn>>

-----------------------------------------------------------------------------
(* The backend *)

(* The transaction is written.  A node's first block is imported as final, *)
(* so it is canonicalized in the transaction that inserts it.              *)
Commit ==
  /\ txn # db
  /\ txn.last.number >= Number[first]
  /\ db' = txn
  /\ UNCHANGED <<first, counting, nc, win, refs, txn, held, exposed>>

Reopen ==
  /\ nc' = OpenedOverlay(db)
  /\ win' = OpenedWindow(db)
  /\ refs' = None
  /\ txn' = db
  /\ UNCHANGED <<first, counting, db>>

(* The node stops and starts again. *)
Restart == Reopen /\ held' = None /\ exposed' = {}

(* commit_operation fails, at its write or before: reset forgets the pins, *)
(* the readers go on.                                                      *)
reset == Reopen /\ UNCHANGED <<held, exposed>>

Empty == [data |-> [k \in Keys |-> 0], last |-> NoBlock, journal |-> {},
          pruned |-> -1, rows |-> {}, headers |-> {}]

Init ==
  /\ \E s \in Starts : first = s[1] /\ counting = s[2]
  /\ db = Empty
  /\ txn = Empty
  /\ nc = OpenedOverlay(Empty)
  /\ win = [base |-> 0, queue |-> <<>>, last |-> -1]
  /\ refs = None
  /\ held = None
  /\ exposed = {}

Next ==
  \/ \E h \in Hashes : insert(h) \/ canonicalize(h) \/ remove(h) \/ pin(h) \/ unpin(h)
  \/ revert_one
  \/ Commit
  \/ sync
  \/ Restart
  \/ reset

Spec == Init /\ [][Next]_vars

-----------------------------------------------------------------------------
(* Properties *)

Readable(h) == \A k \in StateOf[h] : nc.values[k] > 0 \/ db.data[k] > 0

(* The counters never go below zero, no two blocks of a level share a      *)
(* journal key, and every block is at the level of its number.             *)
TypeOK ==
  /\ \A k \in Keys : nc.values[k] >= 0 /\ db.data[k] >= 0
  /\ \A h \in Hashes : nc.insertions[h] >= 0 /\ nc.pinned[h] >= 0 /\ refs[h] >= 0
  /\ \A i \in DOMAIN nc.levels : \A o, q \in nc.levels[i] :
       /\ Number[o.hash] = nc.last.number + i
       /\ o.index = q.index => o = q

(* Every node the overlay keeps in memory is counted once for each block   *)
(* that keeps it, in the tree or for a pin: nothing is freed early, and    *)
(* nothing is kept for ever (insert_values, discard_values, unpin).        *)
CountsExact ==
  LET kept == InLevels(nc) \cup {h \in Hashes : nc.insertions[h] > 0}
  IN /\ TypeOK
     /\ \A k \in Keys : nc.values[k] = Cardinality({h \in kept : k \in Inserted(h)})

(* What is on disk once the transaction is written lets a restarted node   *)
(* find the tree of blocks and the window that the running node has, with  *)
(* a record for every block in memory, and the window ends at the last     *)
(* canonical block, so that the next one can be canonicalized              *)
(* (note_canonical never answers InvalidBlockNumber).  A late child of a   *)
(* discarded block has a record too, but may be above an empty level,      *)
(* where NonCanonicalOverlay::new does not look.                           *)
Recovers ==
  Started =>
    LET c == OpenedOverlay(txn)
        w == OpenedWindow(txn)
    IN /\ c.last = nc.last
       /\ Tree(c) = Tree(nc)
       /\ \A i \in DOMAIN nc.levels : nc.levels[i] \subseteq txn.journal
       /\ w.base = win.base /\ window_size(w) = window_size(win)
       /\ IF counting THEN w.queue = win.queue
          ELSE \A i \in DOMAIN win.queue : i <= Len(w.queue) => w.queue[i] = win.queue[i]
       /\ win.base + window_size(win) = front_block_number(nc)

(* The database holds the nodes of the last canonical block and those that *)
(* are on some death row, and no others, counted if it counts references.  *)
DataExact ==
  LET live == IF Started THEN StateOf[nc.last.hash] ELSE {}
      due(k) == IF counting
                THEN {i \in DOMAIN win.queue : k \in win.queue[i].deleted}
                ELSE {h \in txn.rows : k \in Deleted(h)}
  IN \A k \in Keys :
       IF counting
       THEN txn.data[k] > 0 <=> k \in live \/ due(k) # {}
       ELSE txn.data[k] = Cardinality(due(k)) + (IF k \in live THEN 1 ELSE 0)

(* A canonicalized block that a reader of a descendant has released before *)
(* it is on disk.                                                          *)
Limbo == {p \in Range(nc.canonicalized) :
            nc.insertions[p] = 0 /\ db.last.number < Number[p]}

(* Readers have handles on h, the database counts them all and, if h is    *)
(* off the canonical chain, the window has not left the block it forked    *)
(* from.                                                                   *)
Held ==
  LET canonical == Canonical
  IN {h \in Hashes \ exposed :
        /\ held[h] > 0 /\ refs[h] = held[h]
        /\ h \notin canonical =>
             \A a \in Ancestors[h] \cap canonical : win.base <= Number[a] + 1}

(* Whatever transaction is under way and whatever the readers did, every   *)
(* block of the tree and of the window can be read, and so can every block *)
(* that a reader holds, whether it was discarded or not, unless its pin    *)
(* came too late, was forgotten by reset or did not count, because the     *)
(* block was removed or reverted (canonicalize, prune, pin, unpin).  The   *)
(* one gap is the time until the write of a canonicalized block that was   *)
(* released early.                                                         *)
StateReadable ==
  LET limbo == Limbo
  IN \A h \in Unpruned \cup Held : Ancestors[h] \cap limbo = {} => Readable(h)

(* pin's comment: it "prevents pruning of specified block". *)
PinPreventsPruning == \A h \in Hashes : held[h] > 0 => Readable(h)

(* revert_one's comment: it reverts "all non-canonical blocks with the     *)
(* best block number", so the level it takes has some.                     *)
RevertFindsBest == nc.levels # <<>> => Last(nc.levels) # {}

(* Canonicalizing prunes until the constraint is met: what is left over is *)
(* there for a pin, or because its row is not on disk yet.                 *)
PrunesEnough ==
  [][Len(nc'.canonicalized) > Len(nc.canonicalized) =>
       \/ (window_size(win) <= MaxBlocks)'
       \/ win'.queue # <<>> /\ refs[Head(win'.queue).hash] > 0
       \/ \E r \in txn'.rows : Number[r] = win'.base /\ r \notin db.rows]_vars
=============================================================================
