------------------------ MODULE MessageQueueTheorems ------------------------
(***************************************************************************)
(* What reap_page can do about stale pages, for any number of queues,      *)
(* pages and messages and any MaxStale.                                    *)
(***************************************************************************)
EXTENDS MessageQueue, FiniteSetTheorems, TLAPS

\* The backlog formula of do_reap_page: from an overflow of MaxStale on, the
\* quotient is no more than MaxStale and the depth of the watermark is MaxStale.
LEMMA BacklogShrinks ==
  ASSUME NEW o \in Nat \ {0}, o >= MaxStale
  PROVE  Backlog(o) = MaxStale
<1>0. MaxStale \in Nat
  BY MessageQueueAssumption
<1> DEFINE d == (MaxStale * MaxStale) \div o
<1>1. d \in Int /\ d * o <= MaxStale * MaxStale
  BY <1>0, Z3
<1>2. d <= MaxStale
  <2>1. SUFFICES ASSUME d >= MaxStale + 1 PROVE FALSE
    BY <1>0, <1>1
  <2> HIDE DEF d
  <2>2. d * o >= (MaxStale + 1) * o
    BY <1>0, <1>1, <2>1
  <2>3. (MaxStale + 1) * o >= (MaxStale + 1) * MaxStale
    BY <1>0
  <2>4. (MaxStale + 1) * MaxStale = MaxStale * MaxStale + MaxStale /\ (MaxStale + 1) * o = MaxStale * o + o
    BY <1>0
  <2>5. MaxStale * o >= MaxStale * MaxStale
    BY <1>0
  <2> QED
    BY <1>0, <1>1, <2>2, <2>4, <2>5
<1> QED
  BY <1>0, <1>1, <1>2 DEF Backlog, MaxOf

\* A book that counts its pages right is short of its stale pages by the missing
\* ones exactly: count - (end - begin) pages look stale to do_reap_page.
LEMMA StaleAsCounted ==
  ASSUME CountsExact, NEW q \in Queues
  PROVE  /\ IsFiniteSet(StalePages(q)) /\ IsFiniteSet(MissingPages(q))
         /\ books[q].count - ReadyPages(books[q])
              = Cardinality(StalePages(q)) - Cardinality(MissingPages(q))
<1> DEFINE b == books[q]
           D == DOMAIN pages[q]
           S == StalePages(q)
           M == MissingPages(q)
           R == D \ S
           W == b.begin .. b.end - 1
<1>1. b \in Book /\ b.begin <= b.end /\ D \subseteq 0 .. b.end - 1
  BY DEF CountsExact, TypeOK
<1>2. b.begin \in Nat /\ b.end \in Nat /\ b.count = Cardinality(D)
  BY <1>1 DEF CountsExact, Book
<1> HIDE DEF b
<1>3. IsFiniteSet(D) /\ IsFiniteSet(W) /\ Cardinality(W) = b.end - b.begin
  <2>1. 0 \in Int /\ b.begin \in Int /\ b.end - 1 \in Int
    BY <1>2
  <2>2. IsFiniteSet(0 .. b.end - 1)
    BY <2>1, FS_Interval
  <2>3. IsFiniteSet(D)
    BY <1>1, <2>2, FS_Subset
  <2>4. IsFiniteSet(W) /\ Cardinality(W) = IF b.begin > b.end - 1 THEN 0 ELSE b.end - 1 - b.begin + 1
    BY <2>1, FS_Interval
  <2> QED
    BY <1>1, <1>2, <2>3, <2>4
<1>4. S \subseteq D /\ R = D \cap W /\ M = W \ D
  BY <1>1, <1>2 DEF StalePages, MissingPages, b
<1>5. IsFiniteSet(S) /\ IsFiniteSet(R) /\ IsFiniteSet(M)
  BY <1>3, <1>4, FS_Subset
<1>6. Cardinality(D) = Cardinality(S) + Cardinality(R)
  <2>1. S \cap R = {} /\ D = S \cup R
    BY <1>4
  <2> HIDE DEF S, M, R, W, D
  <2>2. Cardinality(S \cup R) = Cardinality(S) + Cardinality(R) - Cardinality(S \cap R)
    BY <1>5, FS_Union
  <2>3. Cardinality(S \cap R) = 0
    BY <2>1, FS_EmptySet
  <2>4. Cardinality(S) \in Nat /\ Cardinality(R) \in Nat
    BY <1>5, FS_CardinalityType
  <2> QED
    BY <2>1, <2>2, <2>3, <2>4
<1>7. Cardinality(W) = Cardinality(R) + Cardinality(M)
  <2>1. R \cap M = {} /\ W = R \cup M
    BY <1>4
  <2> HIDE DEF S, M, R, W, D
  <2>2. Cardinality(R \cup M) = Cardinality(R) + Cardinality(M) - Cardinality(R \cap M)
    BY <1>5, FS_Union
  <2>3. Cardinality(R \cap M) = 0
    BY <2>1, FS_EmptySet
  <2>4. Cardinality(R) \in Nat /\ Cardinality(M) \in Nat
    BY <1>5, FS_CardinalityType
  <2> QED
    BY <2>1, <2>2, <2>3, <2>4
<1>8. Cardinality(S) \in Nat /\ Cardinality(R) \in Nat /\ Cardinality(M) \in Nat
  BY <1>5, FS_CardinalityType
<1> QED
  BY <1>2, <1>3, <1>5, <1>6, <1>7, <1>8 DEF ReadyPages, b

\* With exact counts, stale pages that pile up can be removed by anyone
\* (do_reap_page, CrowdedIsReapable), for every MaxStale and every number of
\* pages: the backlog is then MaxStale deep, and of more than MaxStale stale
\* pages one lies below it.
THEOREM CrowdedReapable == CountsExact => CrowdedIsReapable
<1>1. SUFFICES ASSUME CountsExact, NEW q \in Queues,
                      Cardinality(StalePages(q)) - Cardinality(MissingPages(q)) > MaxStale,
                      Cardinality(StalePages(q)) - Cardinality(MissingPages(q)) >= 2 * MaxStale
               PROVE  \E i \in StalePages(q) : Cullable(books[q], i)
  BY DEF CrowdedIsReapable
<1> DEFINE b == books[q]
           s == Cardinality(StalePages(q))
           m == Cardinality(MissingPages(q))
<1>2. MaxStale \in Nat
  BY MessageQueueAssumption
<1>3. IsFiniteSet(StalePages(q)) /\ s \in Nat /\ m \in Nat /\ b.count - ReadyPages(b) = s - m
  BY <1>1, StaleAsCounted, FS_CardinalityType
<1>4. b.begin \in Nat /\ b.end \in Nat /\ b.count \in Nat /\ ReadyPages(b) \in Nat
      /\ StalePages(q) \subseteq 0 .. b.begin - 1
  <2>1. b \in Book /\ b.begin <= b.end /\ DOMAIN pages[q] \subseteq 0 .. b.end - 1
    BY <1>1 DEF CountsExact, TypeOK
  <2>2. b.begin \in Nat /\ b.end \in Nat /\ b.count \in Nat
    BY <2>1 DEF Book
  <2>3. \A i \in StalePages(q) : i \in DOMAIN pages[q] /\ i < b.begin
    BY DEF StalePages
  <2> HIDE DEF b
  <2> QED
    BY <2>1, <2>2, <2>3 DEF ReadyPages
<1>5. Overflow(b) = s - m - MaxStale
  BY <1>1, <1>2, <1>3, <1>4 DEF Overflow
<1>6. Overflow(b) \in Nat \ {0} /\ Overflow(b) >= MaxStale
  BY <1>1, <1>2, <1>3, <1>5
<1>7. Backlog(Overflow(b)) = MaxStale
  BY <1>6, BacklogShrinks
<1>8. PICK i \in StalePages(q) : i < b.begin - MaxStale
  <2>1. SUFFICES ASSUME \A i \in StalePages(q) : i >= b.begin - MaxStale PROVE FALSE
    BY <1>2, <1>4
  <2>2. StalePages(q) \subseteq b.begin - MaxStale .. b.begin - 1
    BY <1>2, <1>4, <2>1
  <2>3. IsFiniteSet(b.begin - MaxStale .. b.begin - 1)
        /\ Cardinality(b.begin - MaxStale .. b.begin - 1) = MaxStale
    <3>1. b.begin - MaxStale \in Int /\ b.begin - 1 \in Int
      BY <1>2, <1>4
    <3>2. /\ IsFiniteSet(b.begin - MaxStale .. b.begin - 1)
          /\ Cardinality(b.begin - MaxStale .. b.begin - 1)
               = IF b.begin - MaxStale > b.begin - 1 THEN 0
                 ELSE b.begin - 1 - (b.begin - MaxStale) + 1
      BY <3>1, FS_Interval
    <3> QED
      BY <1>2, <1>4, <3>2
  <2>4. s <= MaxStale
    BY <2>2, <2>3, FS_Subset
  <2> QED
    BY <1>1, <1>2, <1>3, <2>4
<1>9. Cullable(b, i)
  BY <1>2, <1>4, <1>6, <1>7, <1>8 DEF Cullable, MaxOf
<1> QED
  BY <1>8, <1>9
=============================================================================
