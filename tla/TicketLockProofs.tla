-------------------------- MODULE TicketLockProofs --------------------------
(***************************************************************************)
(* Exclusion of the ticket locks of evenk/spinlock.h, for any threads that *)
(* the halves of the word can count, however often the words wrap: every   *)
(* step of every operation keeps the line of tickets between head_ and     *)
(* tail_, and the attempts.                                                *)
(*                                                                         *)
(* There are fewer threads than a half of the word can count, so that the  *)
(* tickets that are out fit between head_ and tail_ without a half coming  *)
(* round: a thread can tell from the words how many exclusive and how many *)
(* shared tickets are before its own (LineInv). An attempt of try_lock()   *)
(* compares words of different moments, but too few tickets are drawn in   *)
(* between for them to be equal by accident (TryInv).                      *)
(***************************************************************************)
EXTENDS TicketLock, FiniteSetTheorems, TLAPS

-----------------------------------------------------------------------------
(* Words                                                                   *)

\* Division with rest
LEMMA DivMod ==
  ASSUME NEW n \in Nat \ {0}, NEW a \in Nat
  PROVE  a % n \in 0 .. n - 1 /\ \E q \in Nat : a = n * q + (a % n)
<1>1. a % n \in 0 .. n - 1 /\ a \div n \in Nat /\ a = n * (a \div n) + (a % n)
  OBVIOUS
<1> QED
  BY <1>1, Zenon

\* The rest of a division is unique.
LEMMA UniqueRest ==
  ASSUME NEW n \in Nat \ {0}, NEW q \in Int, NEW p \in Int, NEW r \in 0 .. n - 1, NEW s \in 0 .. n - 1,
         n * q + r = n * p + s
  PROVE  r = s
<1>1. CASE q >= p + 1
  <2>1. n * q >= n * (p + 1)
    BY <1>1
  <2> QED
    BY <2>1
<1>2. CASE p >= q + 1
  <2>1. n * p >= n * (q + 1)
    BY <1>2
  <2> QED
    BY <2>1
<1>3. CASE q = p
  BY <1>3
<1> QED
  BY <1>1, <1>2, <1>3

\* The rest of a sum of a multiple and a small number
LEMMA RestIs ==
  ASSUME NEW n \in Nat \ {0}, NEW q \in Nat, NEW r \in 0 .. n - 1
  PROVE  (n * q + r) % n = r
<1> DEFINE a == n * q + r
<1>1. n * q \in Nat /\ a \in Nat
  OBVIOUS
<1>2. a = n * q + r
  OBVIOUS
<1> HIDE DEF a
<1> DEFINE s == a % n
<1>3. s \in 0 .. n - 1 /\ \E p \in Nat : a = n * p + s
  BY <1>1, DivMod, Zenon
<1> HIDE DEF s
<1>4. PICK p \in Nat : n * p + s = n * q + r
  BY <1>2, <1>3, Zenon
<1>5. s = r
  BY <1>3, <1>4, UniqueRest
<1> QED
  BY <1>5 DEF a, s

\* A word that wrapped may be added to as if it had not.
LEMMA AddMod ==
  ASSUME NEW n \in Nat \ {0}, NEW a \in Nat, NEW b \in Nat
  PROVE  ((a % n) + b) % n = (a + b) % n
<1> DEFINE r == a % n
<1>1. PICK q \in Nat : r \in 0 .. n - 1 /\ a = n * q + r
  BY DivMod, Zenon
<1> HIDE DEF r
<1>2. r + b \in Nat
  BY <1>1
<1> DEFINE s == (r + b) % n
<1>3. s \in 0 .. n - 1 /\ \E p \in Nat : r + b = n * p + s
  BY <1>2, DivMod, Zenon
<1> HIDE DEF s
<1>4. PICK p \in Nat : r + b = n * p + s
  BY <1>3, Zenon
<1>5. q + p \in Nat /\ a + b = n * (q + p) + s
  BY <1>1, <1>3, <1>4
<1>6. (n * (q + p) + s) % n = s
  BY <1>3, <1>5, RestIs, Zenon
<1> QED
  BY <1>5, <1>6, Zenon DEF s, r

\* Words less than a round apart are equal only if they are the same.
LEMMA CancelMod ==
  ASSUME NEW n \in Nat \ {0}, NEW a \in Nat, NEW d \in 0 .. n - 1, (a + d) % n = a % n
  PROVE  d = 0
<1> DEFINE r == a % n
<1>1. PICK q \in Nat : r \in 0 .. n - 1 /\ a = n * q + r
  BY DivMod, Zenon
<1>0. a + d \in Nat
  OBVIOUS
<1>2. PICK p \in Nat : a + d = n * p + ((a + d) % n)
  BY <1>0, DivMod, Zenon
<1>5. a + d = n * p + r
  BY <1>2
<1> HIDE DEF r
<1>3. n * p + 0 = n * q + d
  BY <1>1, <1>5
<1>4. 0 \in 0 .. n - 1
  OBVIOUS
<1> QED
  BY <1>3, <1>4, UniqueRest

\* Whole rounds make no difference.
LEMMA MulMod ==
  ASSUME NEW n \in Nat \ {0}, NEW a \in Nat, NEW q \in Nat
  PROVE  (a + n * q) % n = a % n
<1> DEFINE r == a % n
<1>1. PICK p \in Nat : r \in 0 .. n - 1 /\ a = n * p + r
  BY DivMod, Zenon
<1> HIDE DEF r
<1>2. p + q \in Nat /\ a + n * q = n * (p + q) + r
  BY <1>1
<1>3. (n * (p + q) + r) % n = r
  BY <1>1, <1>2, RestIs
<1> QED
  BY <1>2, <1>3, SMTT(30), SMTT(60) DEF r

\* The low half of a word does not depend on the wrap of the word.
LEMMA HalfMod ==
  ASSUME NEW n \in Nat \ {0}, NEW w, w = n * n, NEW a \in Nat
  PROVE  (a % w) % n = a % n
<1>0. w \in Nat \ {0}
  OBVIOUS
<1> DEFINE r == a % w
<1>1. r \in 0 .. w - 1 /\ \E q \in Nat : a = w * q + r
  BY <1>0, DivMod, Zenon
<1> HIDE DEF r
<1>2. PICK q \in Nat : a = w * q + r
  BY <1>1
<1>3. n * q \in Nat /\ a = r + n * (n * q)
  BY <1>1, <1>2
<1>4. r \in Nat
  BY <1>0, <1>1
<1>5. (r + n * (n * q)) % n = r % n
  BY <1>3, <1>4, MulMod, Zenon
<1> QED
  BY <1>3, <1>5, Zenon DEF r

\* Two halves that do not overflow fit into a word.
LEMMA Small ==
  ASSUME NEW n \in Nat \ {0}, NEW p \in 0 .. n - 1, NEW q \in 0 .. n - 1
  PROVE  p + n * q \in 0 .. n * n - 1
<1>1. n * q <= n * (n - 1)
  OBVIOUS
<1>2. n * q \in Nat
  OBVIOUS
<1> QED
  BY <1>1, <1>2
-----------------------------------------------------------------------------
(* The invariant                                                           *)

\* The threads that hold a ticket they have not returned
Writers == {t \in Threads : pc[t] \in {"wait", "held", "leave"}}

Readers == {t \in Threads : pc[t] \in {"wait_shared", "shared"}}

Labels ==
  {"idle", "wait", "held", "leave", "wait_shared", "shared", "try", "cas", "try_shared", "cas_shared"}

Words == 0 .. Word - 1

TypeInv ==
  /\ head \in Words /\ tail \in Words
  /\ pc \in [Threads -> Labels]
  /\ seen \in [Threads -> Words]
  /\ mine \in [Threads -> Words]
  /\ stale \in [Threads -> 0 .. MaxStale]
  /\ \A t \in Threads : t \notin Trying => stale[t] = 0

\* The rank of a thread is the number of exclusive tickets still out that were
\* drawn before its own.
Ranks == [Threads -> 0 .. Half - 1]

\* The readers that drew before the writer of rank k
Ahead(rank, k) == {u \in Readers : rank[u] <= k}

\* tail_ is ahead of head_ by the tickets that are out.
TailInv == tail = (head + Cardinality(Writers) + Half * Cardinality(Readers)) % Word

RankInv(rank) ==
  /\ \A t \in Writers : rank[t] < Cardinality(Writers)
  /\ \A t, u \in Writers : rank[t] = rank[u] => t = u
  /\ \A u \in Readers : rank[u] <= Cardinality(Writers)

\* The ticket of a writer is ahead of head_ by the exclusive and the shared
\* tickets before it, that of a reader by the exclusive ones in the low half.
\* Nobody is ahead of a writer that has been let in, and no writer ahead of a
\* reader that has been.
PlaceInv(rank, t) ==
  /\ pc[t] = "wait" =>
       mine[t] = (head + rank[t] + Half * Cardinality(Ahead(rank, rank[t]))) % Word
  /\ pc[t] = "wait_shared" => mine[t] = (head + rank[t]) % Half
  /\ pc[t] \in {"held", "leave"} => rank[t] = 0 /\ Ahead(rank, 0) = {}
  /\ pc[t] = "shared" => rank[t] = 0
  /\ pc[t] = "leave" => seen[t] = head

LineInv(rank) == TailInv /\ RankInv(rank) /\ \A t \in Threads : PlaceInv(rank, t)

\* The word that an attempt compares with tail_
Loaded(t) == IF pc[t] \in {"try", "try_shared"} THEN seen[t] ELSE mine[t]

\* The tickets drawn since head_ was at the word that an attempt has loaded,
\* of which there are too few for a half to come round. Those that are out are
\* among them.
TryInv(t) ==
  \E p, q \in 0 .. Half :
    /\ tail = (Loaded(t) + p + Half * q) % Word
    /\ p + q < Cardinality(Threads) + stale[t]
    /\ Cardinality(Writers) <= p
    /\ pc[t] # "cas_shared" => Cardinality(Readers) <= q

TicketInv ==
  /\ TypeInv
  /\ \E rank \in Ranks : LineInv(rank)
  /\ \A t \in Trying : TryInv(t)

\* What the assumptions say of the constants
LEMMA WordFacts ==
  /\ Half \in Nat \ {0} /\ Word \in Nat \ {0} /\ Word = Half * Half
  /\ MaxStale \in Nat /\ Cardinality(Threads) \in Nat
  /\ Cardinality(Threads) < Half /\ Cardinality(Threads) + MaxStale <= Half
<1>1. Half \in Nat \ {0} /\ Word = Half * Half
  BY TicketAssumption DEF Word
<1>2. Cardinality(Threads) \in Nat
  BY TicketAssumption, FS_CardinalityType, SMTT(30), SMTT(60)
<1> QED
  BY <1>1, <1>2, TicketAssumption, SMTT(30), SMTT(60)

\* Writers and readers together are no more than the threads.
LEMMA Counts ==
  ASSUME NEW W \in SUBSET Threads, NEW R \in SUBSET Threads, W \cap R = {}
  PROVE  /\ IsFiniteSet(W) /\ IsFiniteSet(R)
         /\ Cardinality(W) \in Nat /\ Cardinality(R) \in Nat
         /\ Cardinality(W) + Cardinality(R) <= Cardinality(Threads)
         /\ W \cup R # Threads => Cardinality(W) + Cardinality(R) < Cardinality(Threads)
<1>1. IsFiniteSet(W) /\ IsFiniteSet(R) /\ IsFiniteSet(W \cup R) /\ IsFiniteSet(Threads)
  BY TicketAssumption, FS_Subset
<1>2. /\ Cardinality(W) \in Nat /\ Cardinality(R) \in Nat /\ Cardinality(W \cup R) \in Nat
      /\ Cardinality(Threads) \in Nat
  BY <1>1, FS_CardinalityType
<1>3. Cardinality(W \cup R) = Cardinality(W) + Cardinality(R)
  <2>1. Cardinality(W \cup R) = Cardinality(W) + Cardinality(R) - Cardinality(W \cap R)
    BY <1>1, FS_Union
  <2>2. Cardinality(W \cap R) = 0
    BY FS_EmptySet, SMTT(30), SMTT(60)
  <2> QED
    BY <1>2, <2>1, <2>2
<1>4. /\ Cardinality(W \cup R) <= Cardinality(Threads)
      /\ Cardinality(W \cup R) = Cardinality(Threads) => W \cup R = Threads
  <2>1. W \cup R \subseteq Threads
    OBVIOUS
  <2> QED
    BY Zenon, <1>1, <2>1, FS_Subset
<1> QED
  BY <1>1, <1>2, <1>3, <1>4, SMTT(30), SMTT(60)

\* A word is its own remainder.
LEMMA WordMod ==
  ASSUME NEW w \in Words
  PROVE  w \in Nat /\ w % Word = w /\ w + 0 + Half * 0 = w
<1>1. Word \in Nat \ {0} /\ Half \in Nat
  BY WordFacts, Zenon
<1> QED
  BY <1>1 DEF Words

\* A ticket that is at head_ has no tickets before it.
LEMMA AtHead ==
  ASSUME NEW w \in Words, NEW p \in 0 .. Half - 1, NEW q \in 0 .. Half - 1,
         (w + p + Half * q) % Word = w
  PROVE  p = 0 /\ q = 0
<1> DEFINE d == p + Half * q
<1>1. d \in 0 .. Word - 1
  BY WordFacts, Small
<1>2. w \in Nat /\ w % Word = w /\ w + p + Half * q = w + d
  BY WordFacts DEF Words
<1> HIDE DEF d
<1>3. (w + d) % Word = w % Word
  BY <1>2
<1>4. d = 0
  BY <1>1, <1>2, <1>3, WordFacts, CancelMod, Zenon
<1>5. Half * q \in Nat /\ (q > 0 => Half * q >= Half)
  BY WordFacts
<1> QED
  BY <1>4, <1>5, WordFacts, SMTT(30), SMTT(60) DEF d

\* The same for the low halves
LEMMA AtHeadHalf ==
  ASSUME NEW w \in Words, NEW p \in 0 .. Half - 1, (w + p) % Half = w % Half
  PROVE  p = 0
<1>1. w \in Nat /\ Half \in Nat \ {0}
  BY WordFacts DEF Words
<1> QED
  BY <1>1, CancelMod, Zenon

\* head_ and tail_ may advance and wrap before they are compared.
LEMMA Advance ==
  ASSUME NEW w \in Nat, NEW d \in Nat
  PROVE  /\ ((w % Word) + d) % Word = (w + d) % Word
         /\ ((w % Word) + d) % Half = (w + d) % Half
<1>1. ((w % Word) + d) % Word = (w + d) % Word
  BY WordFacts, AddMod, ZenonT(60)
<1>2. ((w % Word) + d) % Half = (w + d) % Half
  <2>1. w % Word \in Nat
    BY WordFacts
  <2>2. (((w % Word) % Half) + d) % Half = ((w % Word) + d) % Half
    BY <2>1, WordFacts, AddMod, ZenonT(60)
  <2>3. (w % Word) % Half = w % Half
    BY WordFacts, HalfMod, Zenon
  <2>4. ((w % Half) + d) % Half = (w + d) % Half
    BY WordFacts, AddMod, ZenonT(60)
  <2> QED
    BY <2>2, <2>3, <2>4
<1> QED
  BY <1>1, <1>2

\* Multiples of a half
LEMMA Times ==
  ASSUME NEW a \in Nat
  PROVE  Half * a \in Nat /\ Half * (a + 1) = Half * a + Half
BY WordFacts

\* Writers and readers are different threads, and there are fewer of them than
\* a half can count.
LEMMA Parties ==
  /\ Writers \in SUBSET Threads /\ Readers \in SUBSET Threads /\ Writers \cap Readers = {}
  /\ IsFiniteSet(Writers) /\ IsFiniteSet(Readers)
  /\ Cardinality(Writers) \in Nat /\ Cardinality(Readers) \in Nat
  /\ Cardinality(Writers) \in 0 .. Half - 1 /\ Cardinality(Readers) \in 0 .. Half - 1
  /\ \A t \in Threads : t \notin Writers \cup Readers =>
       Cardinality(Writers) + Cardinality(Readers) < Cardinality(Threads)
<1>1. Writers \in SUBSET Threads /\ Readers \in SUBSET Threads /\ Writers \cap Readers = {}
  BY DEF Writers, Readers
<1>2. /\ IsFiniteSet(Writers) /\ IsFiniteSet(Readers)
      /\ Cardinality(Writers) \in Nat /\ Cardinality(Readers) \in Nat
      /\ Cardinality(Writers) + Cardinality(Readers) <= Cardinality(Threads)
      /\ Writers \cup Readers # Threads =>
           Cardinality(Writers) + Cardinality(Readers) < Cardinality(Threads)
  BY <1>1, Counts
<1> HIDE DEF Writers, Readers
<1>3. Cardinality(Writers) \in 0 .. Half - 1 /\ Cardinality(Readers) \in 0 .. Half - 1
  BY <1>2, WordFacts
<1>4. ASSUME NEW t \in Threads, t \notin Writers \cup Readers
      PROVE  Cardinality(Writers) + Cardinality(Readers) < Cardinality(Threads)
  BY <1>2, <1>4, SMTT(30), SMTT(60)
<1> QED
  BY <1>1, <1>2, <1>3, <1>4, SMTT(30), SMTT(60)

\* The readers before a writer are some of the readers.
LEMMA AheadFacts ==
  ASSUME NEW rank, NEW k
  PROVE  /\ Ahead(rank, k) \subseteq Readers
         /\ IsFiniteSet(Ahead(rank, k))
         /\ Cardinality(Ahead(rank, k)) \in Nat /\ Cardinality(Ahead(rank, k)) \in 0 .. Half - 1
<1>1. Ahead(rank, k) \subseteq Readers
  BY DEF Ahead
<1>2. /\ IsFiniteSet(Ahead(rank, k)) /\ Cardinality(Ahead(rank, k)) <= Cardinality(Readers)
  BY Zenon, <1>1, Parties, FS_Subset
<1>3. Cardinality(Ahead(rank, k)) \in Nat
  BY Zenon, <1>2, FS_CardinalityType
<1> QED
  BY <1>1, <1>2, <1>3, Parties, WordFacts, SMTT(30), SMTT(60)

-----------------------------------------------------------------------------
(* Tickets that are drawn and returned                                     *)

\* A step of t that neither draws nor returns a ticket keeps the line, when t
\* itself may be where it gets.
LEMMA LineKept ==
  ASSUME NEW rank \in Ranks, LineInv(rank), NEW t \in Threads,
         head' = head, tail' = tail, Writers' = Writers, Readers' = Readers,
         \A u \in Threads \ {t} : pc'[u] = pc[u] /\ mine'[u] = mine[u] /\ seen'[u] = seen[u],
         /\ pc'[t] \notin {"wait", "wait_shared"}
         /\ pc'[t] \in {"held", "leave"} => rank[t] = 0 /\ Ahead(rank, 0) = {}
         /\ pc'[t] = "shared" => rank[t] = 0
         /\ pc'[t] = "leave" => seen'[t] = head
  PROVE  LineInv(rank)'
<1>1. TailInv' /\ RankInv(rank)'
  BY SMTT(30), SMTT(60) DEF LineInv, TailInv, RankInv
<1>2. \A k : Ahead(rank, k)' = Ahead(rank, k)
  BY DEF Ahead
<1>3. PlaceInv(rank, t)'
  BY <1>2 DEF PlaceInv
<1>4. ASSUME NEW u \in Threads \ {t}
      PROVE  PlaceInv(rank, u)'
  <2>1. PlaceInv(rank, u)
    BY DEF LineInv
  <2>2. pc'[u] = pc[u] /\ mine'[u] = mine[u] /\ seen'[u] = seen[u]
    OBVIOUS
  <2> QED
    BY Zenon, <1>2, <2>1, <2>2 DEF PlaceInv
<1> QED
  BY Zenon, <1>1, <1>3, <1>4 DEF LineInv

\* A thread that draws an exclusive ticket is the last in the line; if it gets
\* the lock at once the line is empty.
LEMMA DrawWriter ==
  ASSUME head \in Words, NEW rank \in Ranks, LineInv(rank),
         NEW t \in Threads, t \notin Writers \cup Readers,
         Writers' = Writers \cup {t}, Readers' = Readers,
         head' = head, tail' = (tail + 1) % Word,
         \A u \in Threads \ {t} : pc'[u] = pc[u] /\ mine'[u] = mine[u] /\ seen'[u] = seen[u],
         \/ pc'[t] = "wait" /\ mine'[t] = tail
         \/ pc'[t] = "held" /\ Cardinality(Writers) = 0 /\ Cardinality(Readers) = 0
  PROVE  \E r \in Ranks : LineInv(r)'
<1> DEFINE E == Cardinality(Writers)
           S == Cardinality(Readers)
<1>1. /\ Writers \in SUBSET Threads /\ Readers \in SUBSET Threads /\ Writers \cap Readers = {}
      /\ IsFiniteSet(Writers) /\ IsFiniteSet(Readers)
      /\ E \in Nat /\ S \in Nat /\ E \in 0 .. Half - 1
  BY Parties
<1>2. Cardinality(Writers \cup {t}) = E + 1
  BY <1>1, FS_AddElement, Zenon
<1>3. PICK r \in Ranks : r[t] = E /\ \A u \in Threads \ {t} : r[u] = rank[u]
  <2>1. [rank EXCEPT ![t] = E] \in Ranks
    BY <1>1, SMTT(30), SMTT(60) DEF Ranks
  <2> QED
    BY <2>1, Zenon DEF Ranks
<1>4. TailInv /\ RankInv(rank) /\ \A u \in Threads : PlaceInv(rank, u)
  BY DEF LineInv
<1>5. /\ \A k : Ahead(r, k)' = Ahead(rank, k)
      /\ Ahead(r, r[t])' = Readers
  <2>1. \A k : Ahead(r, k)' = Ahead(rank, k)
    BY Zenon, <1>1, <1>3 DEF Ahead
  <2>2. Ahead(rank, r[t]) = Readers
    BY <1>3, <1>4 DEF Ahead, RankInv
  <2> QED
    BY Zenon, <2>1, <2>2
<1>6. TailInv'
  <2>1. head \in Nat /\ Half * S \in Nat
    BY <1>1, Times, SMTT(30), SMTT(60) DEF Words
  <2> DEFINE w == head + E + Half * S
  <2>2. w \in Nat /\ w + 1 = head + (E + 1) + Half * S
    BY <1>1, <2>1, SMTT(30), SMTT(60)
  <2>3. tail = w % Word
    BY <1>4 DEF TailInv
  <2> HIDE DEF w
  <2>4. ((w % Word) + 1) % Word = (w + 1) % Word
    BY <2>2, Advance, Zenon
  <2> QED
    BY ZenonT(60), <1>2, <2>2, <2>3, <2>4 DEF TailInv
<1>7. RankInv(r)'
  <2>1. Cardinality(Writers') = E + 1
    BY Zenon, <1>2
  <2>2. \A u \in Writers : r[u] = rank[u] /\ r[u] < E /\ u # t
    BY Zenon, <1>1, <1>3, <1>4 DEF RankInv
  <2>3. \A u \in Readers : r[u] = rank[u] /\ r[u] <= E
    BY Zenon, <1>1, <1>3, <1>4 DEF RankInv
  <2>4. \A u, v \in Writers : r[u] = r[v] => u = v
    BY ZenonT(60), <1>4, <2>2 DEF RankInv
  <2>5. \A u \in Threads : r[u] \in Nat
    BY WordFacts DEF Ranks
  <2>6. \A u \in Writers \cup {t} : r[u] < E + 1
    BY <1>1, <1>3, <2>2, <2>5
  <2>7. \A u, v \in Writers \cup {t} : r[u] = r[v] => u = v
    BY <1>1, <1>3, <2>2, <2>4, <2>5, SMTT(30), SMTT(60)
  <2>8. \A u \in Readers : r[u] <= E + 1
    BY <1>1, <2>3, <2>5, SMTT(30), SMTT(60)
  <2> QED
    BY <2>1, <2>6, <2>7, <2>8, ZenonT(60) DEF RankInv
<1>8. PlaceInv(r, t)'
  <2>1. CASE pc'[t] = "wait" /\ mine'[t] = tail
    <3>1. mine'[t] = (head + r[t] + Half * Cardinality(Ahead(r, r[t])')) % Word
      BY Zenon, <1>3, <1>4, <1>5, <2>1 DEF TailInv
    <3> QED
      BY Zenon, <2>1, <3>1 DEF PlaceInv
  <2>2. CASE pc'[t] = "held" /\ E = 0 /\ S = 0
    <3>1. Readers = {}
      BY Zenon, <1>1, <2>2, FS_EmptySet
    <3>2. r[t] = 0 /\ Ahead(r, 0)' = {}
      BY <1>3, <1>5, <2>2, <3>1, Zenon
    <3> QED
      BY Zenon, <2>2, <3>2 DEF PlaceInv
  <2> QED
    BY <2>1, <2>2
<1>9. ASSUME NEW u \in Threads \ {t}
      PROVE  PlaceInv(r, u)'
  <2>1. PlaceInv(rank, u) /\ r[u] = rank[u]
    BY Zenon, <1>3, <1>4
  <2>2. pc'[u] = pc[u] /\ mine'[u] = mine[u] /\ seen'[u] = seen[u]
    OBVIOUS
  <2> QED
    BY ZenonT(60), <1>5, <2>1, <2>2 DEF PlaceInv
<1> QED
  BY Zenon, <1>3, <1>6, <1>7, <1>8, <1>9 DEF LineInv

\* A thread that draws a shared ticket is behind all exclusive ones, and no
\* writer is behind it yet; if it gets the lock at once there is no writer.
LEMMA DrawReader ==
  ASSUME head \in Words, NEW rank \in Ranks, LineInv(rank),
         NEW t \in Threads, t \notin Writers \cup Readers,
         Writers' = Writers, Readers' = Readers \cup {t},
         head' = head, tail' = (tail + Half) % Word,
         \A u \in Threads \ {t} : pc'[u] = pc[u] /\ mine'[u] = mine[u] /\ seen'[u] = seen[u],
         \/ pc'[t] = "wait_shared" /\ mine'[t] = tail % Half
         \/ pc'[t] = "shared" /\ Cardinality(Writers) = 0
  PROVE  \E r \in Ranks : LineInv(r)'
<1> DEFINE E == Cardinality(Writers)
           S == Cardinality(Readers)
<1>1. /\ Writers \in SUBSET Threads /\ Readers \in SUBSET Threads /\ Writers \cap Readers = {}
      /\ IsFiniteSet(Writers) /\ IsFiniteSet(Readers)
      /\ E \in Nat /\ S \in Nat /\ E \in 0 .. Half - 1
  BY Parties
<1>2. Cardinality(Readers \cup {t}) = S + 1
  BY <1>1, FS_AddElement, Zenon
<1>3. PICK r \in Ranks : r[t] = E /\ \A u \in Threads \ {t} : r[u] = rank[u]
  <2>1. [rank EXCEPT ![t] = E] \in Ranks
    BY <1>1 DEF Ranks
  <2> QED
    BY <2>1, Zenon DEF Ranks
<1>4. TailInv /\ RankInv(rank) /\ \A u \in Threads : PlaceInv(rank, u)
  BY Zenon DEF LineInv
<1>5. ASSUME NEW k \in Nat, k < E
      PROVE  Ahead(r, k)' = Ahead(rank, k)
  <2>1. ~ (r[t] <= k)
    BY <1>1, <1>3, <1>5, SMTT(30), SMTT(60)
  <2> QED
    BY Zenon, <1>1, <1>3, <2>1 DEF Ahead
<1> DEFINE w == head + E + Half * S
<1>6. /\ head \in Nat /\ Half * S \in Nat /\ Half * (S + 1) = Half * S + Half
      /\ w \in Nat /\ w + Half = head + E + Half * (S + 1)
  <2>1. head \in Nat /\ Half * S \in Nat /\ Half * (S + 1) = Half * S + Half /\ Half \in Nat
    BY <1>1, Times, WordFacts, SMTT(30), SMTT(60) DEF Words
  <2> QED
    BY <1>1, <2>1, SMTT(30), SMTT(60)
<1>7. tail = w % Word
  BY <1>4 DEF TailInv
<1>8. TailInv'
  <2> HIDE DEF w
  <2>1. ((w % Word) + Half) % Word = (w + Half) % Word
    BY Zenon, <1>6, WordFacts, Advance
  <2> QED
    BY <1>2, <1>6, <1>7, <2>1, Zenon DEF TailInv
<1>9. RankInv(r)'
  <2>1. \A u \in Writers : r[u] = rank[u]
    BY Zenon, <1>1, <1>3
  <2>2. \A u \in Readers \cup {t} : r[u] <= E
    BY <1>1, <1>3, <1>4, SMTT(30), SMTT(60) DEF RankInv
  <2> QED
    BY <1>4, <2>1, <2>2 DEF RankInv
<1>10. PlaceInv(r, t)'
  <2>1. CASE pc'[t] = "wait_shared" /\ mine'[t] = tail % Half
    <3>1. (w % Word) % Half = w % Half
      BY <1>6, WordFacts, HalfMod, Zenon
    <3>2. w % Half = (head + E) % Half
      <4>1. head + E \in Nat
        BY <1>1, <1>6
      <4>2. (head + E + Half * S) % Half = (head + E) % Half
        BY <1>1, <4>1, WordFacts, MulMod, Zenon
      <4> QED
        BY Zenon, <4>2
    <3>3. mine'[t] = (head + r[t]) % Half
      BY <1>3, <1>7, <2>1, <3>1, <3>2, Zenon
    <3> QED
      BY Zenon, <2>1, <3>3 DEF PlaceInv
  <2>2. CASE pc'[t] = "shared" /\ E = 0
    BY <1>3, <2>2, Zenon DEF PlaceInv
  <2> QED
    BY Zenon, <2>1, <2>2
<1>11. ASSUME NEW u \in Threads \ {t}
       PROVE  PlaceInv(r, u)'
  <2>1. PlaceInv(rank, u) /\ r[u] = rank[u] /\ rank[u] \in Nat
    BY <1>3, <1>4, WordFacts, SMTT(30), SMTT(60) DEF Ranks
  <2>2. pc'[u] = pc[u] /\ mine'[u] = mine[u] /\ seen'[u] = seen[u]
    BY Zenon
  <2>3. u \in Writers => rank[u] < E
    BY Zenon, <1>4 DEF RankInv
  <2>4. u \in Writers => Ahead(r, r[u])' = Ahead(rank, rank[u])
    BY <1>5, <2>1, <2>3, Zenon
  <2>5. pc[u] \in {"held", "leave"} => rank[u] = 0 /\ Ahead(r, 0)' = {}
    <3>1. pc[u] \in {"held", "leave"} => rank[u] = 0 /\ Ahead(rank, 0) = {}
      BY Zenon, <2>1 DEF PlaceInv
    <3>2. pc[u] \in {"held", "leave"} => u \in Writers
      BY Zenon DEF Writers
    <3> QED
      BY <2>1, <2>4, <3>1, <3>2, Zenon
  <2>6. pc[u] = "wait" => u \in Writers
    BY Zenon DEF Writers
  <2> QED
    BY <2>1, <2>2, <2>4, <2>5, <2>6, ZenonT(60) DEF PlaceInv
<1> QED
  BY <1>3, <1>8, <1>9, <1>10, <1>11, ZenonT(60) DEF LineInv

\* A writer that returns its ticket was the first in the line: everyone else
\* gets one place closer.
LEMMA ReturnWriter ==
  ASSUME head \in Words, NEW rank \in Ranks, LineInv(rank),
         NEW t \in Threads, pc[t] = "leave", pc'[t] = "idle",
         Writers' = Writers \ {t}, Readers' = Readers,
         head' = (head + 1) % Word, tail' = tail,
         \A u \in Threads \ {t} : pc'[u] = pc[u] /\ mine'[u] = mine[u] /\ seen'[u] = seen[u]
  PROVE  \E r \in Ranks : LineInv(r)'
<1> DEFINE E == Cardinality(Writers)
           S == Cardinality(Readers)
<1>1. /\ Writers \in SUBSET Threads /\ Readers \in SUBSET Threads /\ Writers \cap Readers = {}
      /\ IsFiniteSet(Writers) /\ IsFiniteSet(Readers)
      /\ E \in Nat /\ S \in Nat /\ t \in Writers
  <2>1. t \in Writers
    BY Zenon DEF Writers
  <2> QED
    BY Zenon, <2>1, Parties
<1>2. Cardinality(Writers \ {t}) = E - 1 /\ E - 1 \in Nat
  <2>1. Cardinality(Writers \ {t}) = E - 1 /\ IsFiniteSet(Writers \ {t})
    BY Zenon, <1>1, FS_RemoveElement
  <2> QED
    BY Zenon, <2>1, FS_CardinalityType
<1>3. PICK r \in Ranks : \A u \in Threads : r[u] = IF rank[u] = 0 THEN 0 ELSE rank[u] - 1
  <2>1. [u \in Threads |-> IF rank[u] = 0 THEN 0 ELSE rank[u] - 1] \in Ranks
    BY WordFacts DEF Ranks
  <2> QED
    BY Zenon, <2>1
<1>4. TailInv /\ RankInv(rank) /\ \A u \in Threads : PlaceInv(rank, u)
  BY Zenon DEF LineInv
<1>5. rank[t] = 0 /\ Ahead(rank, 0) = {}
  BY Zenon, <1>4 DEF PlaceInv
<1>6. \A u \in Threads : rank[u] \in Nat
  BY WordFacts, SMTT(30), SMTT(60) DEF Ranks
<1>7. \A u \in Writers \ {t} : rank[u] \in Nat /\ rank[u] # 0 /\ r[u] = rank[u] - 1 /\ r[u] \in Nat
  BY <1>1, <1>3, <1>4, <1>5, <1>6, SMTT(30), SMTT(60) DEF RankInv
<1>8. \A u \in Readers : rank[u] \in Nat /\ rank[u] # 0 /\ r[u] = rank[u] - 1 /\ r[u] \in Nat
  BY <1>1, <1>3, <1>5, <1>6, SMTT(30), SMTT(60) DEF Ahead
<1>9. head \in Nat /\ head + 1 \in Nat
  BY WordMod
<1>10. TailInv'
  <2> DEFINE d == (E - 1) + Half * S
  <2>1. Half * S \in Nat
    BY Zenon, <1>1, Times
  <2>2. d \in Nat /\ (head + 1) + d = head + E + Half * S
    BY <1>1, <1>2, <1>9, <2>1, SMTT(30), SMTT(60)
  <2>3. (((head + 1) % Word) + d) % Word = ((head + 1) + d) % Word
    <3> HIDE DEF d
    <3> QED
      BY <1>9, <2>2, Advance, Zenon
  <2>4. head' \in Nat /\ head' + d = head' + (E - 1) + Half * S
    BY <1>2, <1>9, <2>1, WordFacts, SMTT(30), SMTT(60)
  <2> QED
    BY <1>2, <1>4, <2>2, <2>3, <2>4, Zenon DEF TailInv
<1>11. RankInv(r)'
  <2>1. \A u \in Writers \ {t} : r[u] < E - 1
    BY <1>1, <1>4, <1>7, SMTT(30), SMTT(60) DEF RankInv
  <2>2. \A u, v \in Writers \ {t} : r[u] = r[v] => u = v
    BY <1>4, <1>7, SMTT(30), SMTT(60) DEF RankInv
  <2>3. \A u \in Readers : r[u] <= E - 1
    BY <1>1, <1>4, <1>8, SMTT(30), SMTT(60) DEF RankInv
  <2> QED
    BY <1>2, <2>1, <2>2, <2>3, ZenonT(60) DEF RankInv
<1>12. ASSUME NEW u \in Threads \ {t}
       PROVE  PlaceInv(r, u)'
  <2>1. PlaceInv(rank, u) /\ rank[u] \in Nat
    BY Zenon, <1>4, <1>6
  <2>2. pc'[u] = pc[u] /\ mine'[u] = mine[u] /\ seen'[u] = seen[u]
    BY Zenon
  <2>3. CASE pc[u] = "wait"
    <3>1. u \in Writers \ {t}
      BY Zenon, <2>3 DEF Writers
    <3>2. r[u] \in Nat /\ rank[u] = r[u] + 1
      BY <1>7, <2>1, <3>1, SMTT(30), SMTT(60)
    <3>3. Ahead(r, r[u])' = Ahead(rank, rank[u])
      <4>1. \A v \in Readers : r[v] <= r[u] <=> rank[v] <= rank[u]
        BY <1>8, <3>2, SMTT(30), SMTT(60)
      <4> QED
        BY Zenon, <4>1 DEF Ahead
    <3> DEFINE c == Cardinality(Ahead(rank, rank[u]))
               d == r[u] + Half * c
    <3>4. c \in Nat
      BY AheadFacts
    <3> HIDE DEF c
    <3>5. Half * c \in Nat
      BY Zenon, <3>4, Times
    <3>6. d \in Nat /\ (head + 1) + d = head + rank[u] + Half * c
      BY <1>9, <3>2, <3>5, SMTT(30), SMTT(60)
    <3>7. (((head + 1) % Word) + d) % Word = ((head + 1) + d) % Word
      <4> HIDE DEF d
      <4> QED
        BY <1>9, <3>6, Advance, Zenon
    <3>8. head' \in Nat /\ head' + d = head' + r[u] + Half * c
      BY <1>9, <3>2, <3>5, WordFacts, SMTT(30), SMTT(60)
    <3>9. mine[u] = (head + rank[u] + Half * c) % Word
      BY <2>1, <2>3, Zenon DEF PlaceInv, c
    <3>10. mine'[u] = (head' + r[u] + Half * Cardinality(Ahead(r, r[u])')) % Word
      BY <2>2, <3>3, <3>6, <3>7, <3>8, <3>9, Zenon DEF c
    <3> QED
      BY <2>2, <2>3, <3>10, Zenon DEF PlaceInv
  <2>4. CASE pc[u] = "wait_shared"
    <3>1. u \in Readers
      BY Zenon, <2>4 DEF Readers
    <3>2. r[u] \in Nat /\ rank[u] = r[u] + 1
      BY <1>8, <2>1, <3>1, SMTT(30), SMTT(60)
    <3>3. (((head + 1) % Word) + r[u]) % Half = ((head + 1) + r[u]) % Half
      BY <1>9, <3>2, Advance, ZenonT(60)
    <3>4. (head + 1) + r[u] = head + rank[u]
      BY <1>9, <3>2, SMTT(30), SMTT(60)
    <3>5. mine'[u] = (head' + r[u]) % Half
      BY Zenon, <2>1, <2>2, <2>4, <3>3, <3>4 DEF PlaceInv
    <3> QED
      BY Zenon, <2>2, <2>4, <3>5 DEF PlaceInv
  <2>5. CASE pc[u] \in {"held", "leave"}
    <3>1. u \in Writers \ {t} /\ rank[u] = 0
      BY Zenon, <2>1, <2>5 DEF Writers, PlaceInv
    <3> QED
      BY Zenon, <1>7, <3>1
  <2>6. CASE pc[u] = "shared"
    <3>1. u \in Readers /\ rank[u] = 0
      BY <2>1, <2>6, Zenon DEF Readers, PlaceInv
    <3> QED
      BY <1>8, <3>1, Zenon
  <2> QED
    BY <2>2, <2>3, <2>4, <2>5, <2>6, Zenon DEF PlaceInv
<1>13. PlaceInv(r, t)'
  BY SMTT(30) DEF PlaceInv
<1> QED
  BY <1>3, <1>10, <1>11, <1>12, <1>13, SMTT(30), SMTT(60) DEF LineInv

\* A reader that returns its ticket had no writer before it: there is one
\* reader less ahead of every writer.
LEMMA ReturnReader ==
  ASSUME head \in Words, NEW rank \in Ranks, LineInv(rank),
         NEW t \in Threads, pc[t] = "shared", pc'[t] = "idle",
         Writers' = Writers, Readers' = Readers \ {t},
         head' = (head + Half) % Word, tail' = tail,
         \A u \in Threads \ {t} : pc'[u] = pc[u] /\ mine'[u] = mine[u] /\ seen'[u] = seen[u]
  PROVE  LineInv(rank)'
<1> DEFINE E == Cardinality(Writers)
           S == Cardinality(Readers)
<1>1. /\ Writers \in SUBSET Threads /\ Readers \in SUBSET Threads
      /\ IsFiniteSet(Writers) /\ IsFiniteSet(Readers)
      /\ E \in Nat /\ S \in Nat /\ t \in Readers
  <2>1. t \in Readers
    BY Zenon DEF Readers
  <2> QED
    BY Zenon, <2>1, Parties
<1>2. Cardinality(Readers \ {t}) = S - 1 /\ S - 1 \in Nat
  <2>1. Cardinality(Readers \ {t}) = S - 1 /\ IsFiniteSet(Readers \ {t})
    BY <1>1, FS_RemoveElement, Zenon
  <2> QED
    BY Zenon, <2>1, FS_CardinalityType
<1>3. TailInv /\ RankInv(rank) /\ \A u \in Threads : PlaceInv(rank, u)
  BY Zenon DEF LineInv
<1>4. rank[t] = 0 /\ \A u \in Threads : rank[u] \in Nat
  BY <1>3, WordFacts, SMTT(30), SMTT(60) DEF PlaceInv, Ranks
<1>5. head \in Nat /\ head + Half \in Nat /\ Half \in Nat
  <2>1. head \in Nat /\ Half \in Nat
    BY WordMod, WordFacts, ZenonT(60)
  <2> QED
    BY <2>1
<1>6. ASSUME NEW k \in Nat
      PROVE  /\ t \in Ahead(rank, k) /\ Ahead(rank, k)' = Ahead(rank, k) \ {t}
             /\ Cardinality(Ahead(rank, k)') \in Nat
             /\ Cardinality(Ahead(rank, k)) = Cardinality(Ahead(rank, k)') + 1
  <2>1. t \in Ahead(rank, k) /\ Ahead(rank, k)' = Ahead(rank, k) \ {t}
    BY <1>1, <1>4, SMTT(30), SMTT(60) DEF Ahead
  <2>2. IsFiniteSet(Ahead(rank, k)) /\ Cardinality(Ahead(rank, k)) \in Nat
    BY AheadFacts, Zenon
  <2>3. /\ IsFiniteSet(Ahead(rank, k) \ {t})
        /\ Cardinality(Ahead(rank, k) \ {t}) = Cardinality(Ahead(rank, k)) - 1
    BY <2>1, <2>2, FS_RemoveElement, Zenon
  <2>4. Cardinality(Ahead(rank, k) \ {t}) \in Nat
    BY <2>3, FS_CardinalityType, Zenon
  <2> QED
    BY <2>1, <2>2, <2>3, <2>4, SMTT(30), SMTT(60)
<1>7. TailInv'
  <2> DEFINE d == E + Half * (S - 1)
  <2>1. Half * (S - 1) \in Nat /\ Half * ((S - 1) + 1) = Half * (S - 1) + Half
    BY Zenon, <1>2, Times
  <2>2. (S - 1) + 1 = S
    BY <1>1, SMTT(30), SMTT(60)
  <2>3. d \in Nat /\ (head + Half) + d = head + E + Half * S
    BY <1>1, <1>5, <2>1, <2>2, SMTT(30), SMTT(60)
  <2>4. (((head + Half) % Word) + d) % Word = ((head + Half) + d) % Word
    <3> HIDE DEF d
    <3> QED
      BY <1>5, <2>3, Advance, Zenon
  <2>5. head' \in Nat /\ head' + d = head' + E + Half * (S - 1)
    BY <1>1, <1>5, <2>1, WordFacts, SMTT(30), SMTT(60)
  <2> QED
    BY <1>2, <1>3, <2>3, <2>4, <2>5, Zenon DEF TailInv
<1>8. RankInv(rank)'
  BY <1>3, Zenon DEF RankInv
<1>9. ASSUME NEW u \in Threads \ {t}
      PROVE  PlaceInv(rank, u)'
  <2>1. PlaceInv(rank, u) /\ rank[u] \in Nat
    BY Zenon, <1>3, <1>4
  <2>2. pc'[u] = pc[u] /\ mine'[u] = mine[u] /\ seen'[u] = seen[u]
    OBVIOUS
  <2>3. CASE pc[u] = "wait"
    <3> DEFINE c == Cardinality(Ahead(rank, rank[u])')
               d == rank[u] + Half * c
    <3>1. c \in Nat /\ Cardinality(Ahead(rank, rank[u])) = c + 1
      BY <1>6, <2>1, Zenon
    <3>2. mine[u] = (head + rank[u] + Half * (c + 1)) % Word
      BY <2>1, <2>3, <3>1, Zenon DEF PlaceInv
    <3> HIDE DEF c
    <3>3. Half * c \in Nat /\ Half * (c + 1) = Half * c + Half
      BY <3>1, Times, Zenon
    <3>4. d \in Nat /\ (head + Half) + d = head + rank[u] + Half * (c + 1)
      BY <1>5, <2>1, <3>3, SMTT(30), SMTT(60)
    <3>5. (((head + Half) % Word) + d) % Word = ((head + Half) + d) % Word
      <4> HIDE DEF d
      <4> QED
        BY <1>5, <3>4, Advance, Zenon
    <3>6. head' \in Nat /\ head' + d = head' + rank[u] + Half * c
      BY <1>5, <2>1, <3>3, WordFacts, SMTT(30), SMTT(60)
    <3>7. mine'[u] = (head' + rank[u] + Half * c) % Word
      BY <2>2, <3>2, <3>4, <3>5, <3>6, Zenon
    <3> QED
      BY <2>2, <2>3, <3>7, Zenon DEF PlaceInv, c
  <2>4. CASE pc[u] = "wait_shared"
    <3>1. (((head + Half) % Word) + rank[u]) % Half = ((head + Half) + rank[u]) % Half
      BY <1>5, <2>1, Advance, Zenon
    <3>2. head + rank[u] \in Nat /\ (head + Half) + rank[u] = (head + rank[u]) + Half * 1
      BY <1>5, <2>1, SMTT(30), SMTT(60)
    <3>3. ((head + rank[u]) + Half * 1) % Half = (head + rank[u]) % Half
      <4>1. 1 \in Nat
        BY Zenon
      <4> QED
        BY <3>2, <4>1, WordFacts, MulMod, Zenon
    <3>4. mine'[u] = (head' + rank[u]) % Half
      BY <2>1, <2>2, <2>4, <3>1, <3>2, <3>3, Zenon DEF PlaceInv
    <3> QED
      BY <2>2, <2>4, <3>4, Zenon DEF PlaceInv
  <2>5. CASE pc[u] \in {"held", "leave"}
    <3>1. Ahead(rank, 0) = {}
      BY <2>1, <2>5, Zenon DEF PlaceInv
    <3> QED
      BY <1>6, <3>1, Zenon
  <2>6. CASE pc[u] = "shared"
    BY <2>1, <2>2, <2>6, Zenon DEF PlaceInv
  <2> QED
    BY <2>2, <2>3, <2>4, <2>5, <2>6, Zenon DEF PlaceInv
<1>10. PlaceInv(rank, t)'
  BY Zenon DEF PlaceInv
<1> QED
  BY <1>7, <1>8, <1>9, <1>10, Zenon DEF LineInv

-----------------------------------------------------------------------------
(* Attempts                                                                *)

\* An attempt stays good while others draw a exclusive and b shared tickets,
\* if it gets that much staler, and while others return tickets.
LEMMA TryKept ==
  ASSUME NEW u \in Threads, TryInv(u), Loaded(u) \in Words, stale[u] \in 0 .. MaxStale,
         NEW a \in Nat, NEW b \in Nat,
         tail' = (tail + a + Half * b) % Word,
         Loaded(u)' = Loaded(u), pc'[u] = pc[u],
         stale'[u] = stale[u] + a + b, stale'[u] \in 0 .. MaxStale,
         Cardinality(Writers') \in Nat, Cardinality(Readers') \in Nat,
         Cardinality(Writers') <= Cardinality(Writers) + a,
         Cardinality(Readers') <= Cardinality(Readers) + b
  PROVE  TryInv(u)'
<1>1. PICK p \in 0 .. Half, q \in 0 .. Half :
        /\ tail = (Loaded(u) + p + Half * q) % Word
        /\ p + q < Cardinality(Threads) + stale[u]
        /\ Cardinality(Writers) <= p
        /\ pc[u] # "cas_shared" => Cardinality(Readers) <= q
  BY Zenon DEF TryInv
<1>2. p \in Nat /\ q \in Nat /\ Half \in Nat /\ Loaded(u) \in Nat
  BY WordFacts, SMTT(30), SMTT(60) DEF Words
<1>3. /\ p + a \in 0 .. Half /\ q + b \in 0 .. Half
      /\ (p + a) + (q + b) < Cardinality(Threads) + stale'[u]
  BY <1>1, <1>2, WordFacts, SMTT(30), SMTT(60)
<1>4. /\ Half * q \in Nat /\ Half * b \in Nat /\ Half * (q + b) = Half * q + Half * b
  BY <1>2, SMTT(30), SMTT(60)
<1> DEFINE w == Loaded(u) + p + Half * q
           d == a + Half * b
<1>5. /\ w \in Nat /\ d \in Nat
      /\ w + d = Loaded(u) + (p + a) + Half * (q + b)
      /\ (w % Word) + a + Half * b = (w % Word) + d
  <2>1. w \in Nat /\ w % Word \in Nat
    BY <1>2, <1>4, WordFacts, SMTT(30), SMTT(60)
  <2> QED
    BY <1>2, <1>4, <2>1, SMTT(30), SMTT(60)
<1>6. ((w % Word) + d) % Word = (w + d) % Word
  <2> HIDE DEF w, d
  <2> QED
    BY <1>5, Advance, Zenon
<1>7. tail' = (Loaded(u)' + (p + a) + Half * (q + b)) % Word
  BY <1>1, <1>5, <1>6, Zenon
<1>8. Cardinality(Writers) \in Nat /\ Cardinality(Readers) \in Nat
  BY Parties, ZenonT(60)
<1>9. /\ Cardinality(Writers') <= p + a
      /\ pc'[u] # "cas_shared" => Cardinality(Readers') <= q + b
  BY <1>1, <1>2, <1>8, SMTT(30), SMTT(60)
<1> HIDE DEF w, d
<1> QED
  BY <1>3, <1>7, <1>9, Zenon DEF TryInv

\* When tail_ is the word that an attempt has loaded no ticket was drawn since
\* and none is out, up to shared ones in try_lock_shared().
LEMMA TryEqual ==
  ASSUME NEW t \in Threads, TryInv(t), stale[t] \in 0 .. MaxStale, tail \in Words,
         tail = Loaded(t)
  PROVE  /\ Cardinality(Writers) = 0
         /\ pc[t] # "cas_shared" => Cardinality(Readers) = 0
<1>1. PICK p \in 0 .. Half, q \in 0 .. Half :
        /\ tail = (Loaded(t) + p + Half * q) % Word
        /\ p + q < Cardinality(Threads) + stale[t]
        /\ Cardinality(Writers) <= p
        /\ pc[t] # "cas_shared" => Cardinality(Readers) <= q
  BY Zenon DEF TryInv
<1>2. p \in 0 .. Half - 1 /\ q \in 0 .. Half - 1
  BY <1>1, WordFacts, SMTT(30), SMTT(60)
<1>3. (tail + p + Half * q) % Word = tail
  BY <1>1
<1>4. p = 0 /\ q = 0
  BY <1>2, <1>3, AtHead, Zenon
<1> QED
  BY <1>1, <1>4, Parties, SMTT(30), SMTT(60)

\* When only the low halves agree no exclusive ticket was drawn and none is out.
LEMMA TryEqualHalf ==
  ASSUME NEW t \in Threads, TryInv(t), stale[t] \in 0 .. MaxStale, Loaded(t) \in Words,
         tail % Half = Loaded(t) % Half
  PROVE  Cardinality(Writers) = 0
<1>1. PICK p \in 0 .. Half, q \in 0 .. Half :
        /\ tail = (Loaded(t) + p + Half * q) % Word
        /\ p + q < Cardinality(Threads) + stale[t]
        /\ Cardinality(Writers) <= p
  BY Zenon DEF TryInv
<1>2. p \in 0 .. Half - 1 /\ q \in Nat /\ p \in Nat
  BY <1>1, WordFacts, SMTT(30), SMTT(60)
<1> DEFINE v == Loaded(t) + p
           w == v + Half * q
<1>3. v \in Nat /\ w \in Nat
  <2>1. Loaded(t) \in Nat /\ Half * q \in Nat
    BY <1>2, Times, WordFacts, SMTT(30), SMTT(60) DEF Words
  <2> QED
    BY <1>2, <2>1, SMTT(30), SMTT(60)
<1>4. tail = w % Word
  BY <1>1
<1> HIDE DEF v
<1>5. w % Half = v % Half
  BY <1>2, <1>3, WordFacts, MulMod, Zenon
<1> HIDE DEF w
<1>6. (w % Word) % Half = w % Half
  BY <1>3, WordFacts, HalfMod, Zenon
<1>7. (Loaded(t) + p) % Half = Loaded(t) % Half
  BY Zenon, <1>4, <1>5, <1>6 DEF v
<1>8. p = 0
  BY <1>2, <1>7, AtHeadHalf, Zenon
<1> QED
  BY <1>1, <1>8, Parties, SMTT(30), SMTT(60)

-----------------------------------------------------------------------------
(* The steps                                                               *)

\* Where a thread goes decides which tickets are out.
LEMMA Sets ==
  ASSUME TypeInv, NEW t \in Threads, NEW l, Goto(t, l)
  PROVE  /\ pc'[t] = l /\ \A u \in Threads \ {t} : pc'[u] = pc[u]
         /\ Writers' = IF l \in {"wait", "held", "leave"} THEN Writers \cup {t} ELSE Writers \ {t}
         /\ Readers' = IF l \in {"wait_shared", "shared"} THEN Readers \cup {t} ELSE Readers \ {t}
         /\ l \in {"try", "cas", "try_shared", "cas_shared"} \/ t \notin Trying'
<1>1. pc'[t] = l /\ \A u \in Threads \ {t} : pc'[u] = pc[u]
  BY DEF TypeInv, Goto
<1> QED
  BY Zenon, <1>1 DEF Writers, Readers, Trying

\* The invariant of the types is kept.
LEMMA TypeNext == TypeInv /\ [Next]_vars => TypeInv'
<1> SUFFICES ASSUME TypeInv, [Next]_vars PROVE TypeInv'
  OBVIOUS
<1>1. \A w \in Nat : w % Word \in Words /\ w % Half \in Words
  <2>1. 0 .. Half - 1 \subseteq 0 .. Word - 1
    BY WordFacts, SMTT(30), SMTT(60)
  <2> SUFFICES ASSUME NEW w \in Nat
               PROVE  w % Word \in 0 .. Word - 1 /\ w % Half \in 0 .. Half - 1
    BY <2>1, SMTT(30), SMTT(60) DEF Words
  <2> QED
    BY WordFacts, DivMod, Zenon
<1>2. /\ 0 \in Words /\ 0 \in 0 .. MaxStale /\ \A w \in Words : w \in Nat /\ w + 1 \in Nat /\ w + Half \in Nat
  BY WordFacts DEF Words
<1>3. CASE UNCHANGED vars
  BY Zenon, <1>3 DEF TypeInv, Trying, vars
<1>4. ASSUME NEW t \in Threads, NEW s \in {1, Half}, Draw(t, s), NEW l \in Labels, Goto(t, l),
             l \notin {"try", "cas", "try_shared", "cas_shared"}
      PROVE  /\ tail' \in Words /\ pc' \in [Threads -> Labels] /\ stale' \in [Threads -> 0 .. MaxStale]
             /\ \A u \in Threads : u \notin Trying' => stale'[u] = 0
  <2>1. tail' \in Words
    BY Zenon, <1>1, <1>2, <1>4 DEF Draw, TypeInv
  <2>2. pc' \in [Threads -> Labels]
    BY Zenon, <1>4 DEF Goto, TypeInv
  <2>3. stale' \in [Threads -> 0 .. MaxStale]
    BY <1>4, WordFacts, SMTT(30), SMTT(60) DEF Draw, TypeInv
  <2>4. ASSUME NEW u \in Threads, u \notin Trying' PROVE stale'[u] = 0
    <3>1. CASE u = t
      BY <1>4, <3>1, Zenon DEF Draw
    <3>2. CASE u # t
      <4>1. u \notin Trying
        BY <1>4, <2>4, <3>2, ZenonT(60) DEF Goto, TypeInv, Trying
      <4> QED
        BY <1>4, <3>2, <4>1, Zenon DEF Draw, TypeInv
    <3> QED
      BY Zenon, <3>1, <3>2
  <2> QED
    BY Zenon, <2>1, <2>2, <2>3, <2>4
<1>5. ASSUME NEW t \in Threads, NEW l \in Labels, Goto(t, l), stale' = stale,
             pc[t] \in {"try", "cas", "try_shared", "cas_shared"} =>
               l \in {"try", "cas", "try_shared", "cas_shared"}
      PROVE  /\ pc' \in [Threads -> Labels] /\ stale' \in [Threads -> 0 .. MaxStale]
             /\ \A u \in Threads : u \notin Trying' => stale'[u] = 0
  <2>1. Trying \subseteq Trying'
    BY Zenon, <1>5 DEF Trying, Goto, TypeInv
  <2> QED
    BY Zenon, <1>5, <2>1 DEF Goto, TypeInv
<1>6. ASSUME NEW t \in Threads, Fail(t), head' = head
      PROVE  TypeInv'
  <2>1. Trying \ {t} \subseteq Trying'
    BY <1>6, Zenon DEF Trying, Fail, Goto, TypeInv
  <2>2. /\ head' \in Words /\ tail' \in Words /\ pc' \in [Threads -> Labels]
        /\ seen' \in [Threads -> Words] /\ mine' \in [Threads -> Words]
        /\ stale' \in [Threads -> 0 .. MaxStale]
    BY Zenon, <1>2, <1>6 DEF Fail, Forget, Goto, TypeInv, Labels
  <2>3. ASSUME NEW u \in Threads, u \notin Trying'
        PROVE  stale'[u] = 0
    BY Zenon, <1>6, <2>1, <2>3 DEF Fail, TypeInv
  <2> QED
    BY <2>2, <2>3, Zenon DEF TypeInv
<1>7. ASSUME NEW t \in Threads, lock(t) \/ lock_shared(t)
      PROVE  TypeInv'
  <2>1. CASE lock(t)
    BY <1>4, <2>1, Zenon DEF lock, TypeInv, Labels, exclusive_step
  <2>2. CASE lock_shared(t)
    BY <1>1, <1>2, <1>4, <2>2, ZenonT(60) DEF lock_shared, TypeInv, Labels, shared_step, Exclusive
  <2> QED
    BY <1>7, <2>1, <2>2, ZenonT(60)
<1>8. ASSUME NEW t \in Threads, try_lock(t) \/ try_lock_shared(t) \/ unlock(t)
      PROVE  TypeInv'
  BY <1>5, <1>8, ZenonT(60) DEF try_lock, try_lock_shared, TryHead, unlock, TypeInv, Labels
<1>9. ASSUME NEW t \in Threads, Enter(t) \/ EnterShared(t)
      PROVE  TypeInv'
  BY <1>2, <1>5, <1>9, ZenonT(60) DEF Enter, EnterShared, Forget, TypeInv, Labels
<1>10. ASSUME NEW t \in Threads, TryTail(t)
       PROVE  TypeInv'
  BY <1>2, <1>5, <1>10 DEF TryTail, TypeInv, Labels
<1>11. ASSUME NEW t \in Threads, TryBusy(t) \/ TryCas(t)
       PROVE  TypeInv'
  <2>1. CASE Fail(t)
    BY <1>6, <1>11, <2>1, Zenon DEF TryBusy, TryCas
  <2>2. CASE ~ Fail(t)
    BY <1>2, <1>4, <1>11, <2>2, ZenonT(60)
    DEF TryBusy, TryCas, Forget, TypeInv, Labels, exclusive_step, shared_step
  <2> QED
    BY <2>1, <2>2, Zenon
<1>12. ASSUME NEW t \in Threads, Leave(t) \/ unlock_shared(t)
       PROVE  TypeInv'
  <2>1. head' \in Words
    BY <1>1, <1>2, <1>12, Zenon DEF Leave, unlock_shared, TypeInv, exclusive_step, shared_step
  <2> QED
    BY <1>2, <1>5, <1>12, <2>1, ZenonT(60) DEF Leave, unlock_shared, Forget, TypeInv, Labels
<1> QED
  BY <1>3, <1>7, <1>8, <1>9, <1>10, <1>11, <1>12, ZenonT(60) DEF Next, Step

\* Attempts of threads other than t stay good.
LEMMA OthersTry ==
  ASSUME TypeInv, TypeInv', NEW t \in Threads, \A u \in Trying : TryInv(u),
         \A u \in Threads \ {t} : pc'[u] = pc[u] /\ mine'[u] = mine[u] /\ seen'[u] = seen[u],
         NEW a \in Nat, NEW b \in Nat, tail' = (tail + a + Half * b) % Word,
         \A u \in Trying \ {t} : stale'[u] = stale[u] + a + b,
         Cardinality(Writers') \in Nat, Cardinality(Readers') \in Nat,
         Cardinality(Writers') <= Cardinality(Writers) + a,
         Cardinality(Readers') <= Cardinality(Readers) + b
  PROVE  \A u \in Trying' \ {t} : TryInv(u)'
<1> SUFFICES ASSUME NEW u \in Threads \ {t}, u \in Trying' PROVE TryInv(u)'
  BY Zenon DEF Trying
<1>1. u \in Trying /\ pc'[u] = pc[u]
  BY SMTT(30) DEF Trying
<1>2. Loaded(u)' = Loaded(u) /\ Loaded(u) \in Words
  BY <1>1, SMTT(30) DEF Loaded, TypeInv
<1>3. stale[u] \in 0 .. MaxStale /\ stale'[u] \in 0 .. MaxStale
  BY Zenon DEF TypeInv
<1>4. TryInv(u) /\ stale'[u] = stale[u] + a + b
  BY <1>1, Zenon
<1> QED
  BY <1>1, <1>2, <1>3, <1>4, TryKept, Zenon

\* A step of t that neither draws nor returns a ticket keeps the invariant.
LEMMA Kept ==
  ASSUME TicketInv, TypeInv', NEW t \in Threads, NEW l, Goto(t, l),
         head' = head, tail' = tail, Writers' = Writers, Readers' = Readers,
         \A u \in Threads \ {t} : mine'[u] = mine[u] /\ seen'[u] = seen[u] /\ stale'[u] = stale[u],
         l \notin {"wait", "wait_shared"},
         \A rank \in Ranks : LineInv(rank) =>
           /\ l \in {"held", "leave"} => rank[t] = 0 /\ Ahead(rank, 0) = {}
           /\ l = "shared" => rank[t] = 0,
         l = "leave" => seen'[t] = head,
         t \in Trying' => TryInv(t)'
  PROVE  TicketInv'
<1>1. TypeInv /\ \A u \in Trying : TryInv(u)
  BY Zenon DEF TicketInv
<1>2. pc'[t] = l /\ \A u \in Threads \ {t} : pc'[u] = pc[u]
  BY <1>1, Sets, Zenon
<1>3. PICK rank \in Ranks : LineInv(rank)
  BY Zenon DEF TicketInv
<1>4. LineInv(rank)'
  BY <1>2, <1>3, LineKept, ZenonT(60)
<1>5. \A u \in Trying' \ {t} : TryInv(u)'
  <2>1. tail \in Nat /\ tail % Word = tail /\ tail + 0 + Half * 0 = tail /\ 0 \in Nat
    <3>1. tail \in Nat /\ tail % Word = tail /\ Half \in Nat
      BY <1>1, WordMod, WordFacts, ZenonT(60) DEF TypeInv
    <3> QED
      BY <3>1, SMTT(30), SMTT(60)
  <2>2. \A u \in Trying \ {t} : stale'[u] = stale[u] + 0 + 0
    BY <1>1, SMTT(30), SMTT(60) DEF TypeInv, Trying
  <2>3. /\ Cardinality(Writers') \in Nat /\ Cardinality(Readers') \in Nat
        /\ Cardinality(Writers') <= Cardinality(Writers) + 0
        /\ Cardinality(Readers') <= Cardinality(Readers) + 0
    BY Parties, SMTT(30), SMTT(60)
  <2>4. tail' = (tail + 0 + Half * 0) % Word
    BY <2>1, Zenon
  <2>5. \A u \in Threads \ {t} : pc'[u] = pc[u] /\ mine'[u] = mine[u] /\ seen'[u] = seen[u]
    BY <1>2, Zenon
  <2> HIDE DEF TicketInv
  <2> QED
    BY <1>1, <2>1, <2>2, <2>3, <2>4, <2>5, OthersTry, ZenonT(60)
<1> QED
  BY <1>3, <1>4, <1>5, Zenon DEF TicketInv

\* A step of t that draws an exclusive ticket keeps the invariant.
LEMMA DrewWriter ==
  ASSUME TicketInv, TypeInv', NEW t \in Threads, NEW l, Goto(t, l), Draw(t, 1),
         t \notin Writers \cup Readers, head' = head,
         \A u \in Threads \ {t} : mine'[u] = mine[u] /\ seen'[u] = seen[u],
         \/ l = "wait" /\ mine'[t] = tail
         \/ l = "held" /\ Cardinality(Writers) = 0 /\ Cardinality(Readers) = 0
  PROVE  TicketInv'
<1>1. TypeInv /\ \A u \in Trying : TryInv(u)
  BY ZenonT(60) DEF TicketInv
<1>2. /\ pc'[t] = l /\ \A u \in Threads \ {t} : pc'[u] = pc[u]
      /\ Writers' = Writers \cup {t} /\ Readers' = Readers /\ t \notin Trying'
  BY <1>1, Sets, SMTT(30), SMTT(60)
<1>3. PICK rank \in Ranks : LineInv(rank)
  BY SMTT(30) DEF TicketInv
<1>4. \E r \in Ranks : LineInv(r)'
  <2>1. head \in Words /\ tail' = (tail + 1) % Word
    BY <1>1, Zenon DEF TypeInv, Draw
  <2> QED
    BY <1>2, <1>3, <2>1, DrawWriter, Zenon
<1>5. \A u \in Trying' \ {t} : TryInv(u)'
  <2>1. tail \in Nat /\ tail + 1 + Half * 0 = tail + 1 /\ 0 \in Nat /\ 1 \in Nat
    <3>1. tail \in Nat /\ tail % Word = tail /\ Half \in Nat
      BY <1>1, WordMod, WordFacts, Zenon DEF TypeInv
    <3> QED
      BY <3>1
  <2>2. tail' = (tail + 1 + Half * 0) % Word
    BY <2>1, Zenon DEF Draw
  <2>3. \A u \in Trying \ {t} : stale'[u] = stale[u] + 1 + 0
    BY <1>1, SMTT(30), SMTT(60) DEF TypeInv, Trying, Draw
  <2>4. /\ Cardinality(Writers') \in Nat /\ Cardinality(Readers') \in Nat
        /\ Cardinality(Writers') <= Cardinality(Writers) + 1
        /\ Cardinality(Readers') <= Cardinality(Readers) + 0
    <3>1. Cardinality(Writers \cup {t}) = Cardinality(Writers) + 1
      BY Parties, FS_AddElement, ZenonT(60)
    <3> QED
      BY <1>2, <3>1, Parties, SMTT(30), SMTT(60)
  <2>5. \A u \in Threads \ {t} : pc'[u] = pc[u] /\ mine'[u] = mine[u] /\ seen'[u] = seen[u]
    BY Zenon, <1>2
  <2> QED
    BY <1>1, <2>1, <2>2, <2>3, <2>4, <2>5, OthersTry, ZenonT(60)
<1> QED
  BY <1>2, <1>4, <1>5, Zenon DEF TicketInv

\* A step of t that draws a shared ticket keeps the invariant.
LEMMA DrewReader ==
  ASSUME TicketInv, TypeInv', NEW t \in Threads, NEW l, Goto(t, l), Draw(t, Half),
         t \notin Writers \cup Readers, head' = head,
         \A u \in Threads \ {t} : mine'[u] = mine[u] /\ seen'[u] = seen[u],
         \/ l = "wait_shared" /\ mine'[t] = tail % Half
         \/ l = "shared" /\ Cardinality(Writers) = 0
  PROVE  TicketInv'
<1>1. TypeInv /\ \A u \in Trying : TryInv(u)
  BY Zenon DEF TicketInv
<1>2. /\ pc'[t] = l /\ \A u \in Threads \ {t} : pc'[u] = pc[u]
      /\ Writers' = Writers /\ Readers' = Readers \cup {t} /\ t \notin Trying'
  BY <1>1, Sets, SMTT(30), SMTT(60)
<1>3. PICK rank \in Ranks : LineInv(rank)
  BY Zenon DEF TicketInv
<1>4. \E r \in Ranks : LineInv(r)'
  <2>1. head \in Words /\ tail' = (tail + Half) % Word
    BY <1>1, Zenon DEF TypeInv, Draw
  <2> QED
    BY <1>2, <1>3, <2>1, DrawReader, Zenon
<1>5. \A u \in Trying' \ {t} : TryInv(u)'
  <2>1. tail \in Nat /\ tail + 0 + Half * 1 = tail + Half /\ 0 \in Nat /\ 1 \in Nat
    <3>1. tail \in Nat /\ tail % Word = tail /\ Half \in Nat
      BY <1>1, WordMod, WordFacts, Zenon DEF TypeInv
    <3> QED
      BY <3>1
  <2>2. tail' = (tail + 0 + Half * 1) % Word
    BY <2>1, Zenon DEF Draw
  <2>3. \A u \in Trying \ {t} : stale'[u] = stale[u] + 0 + 1
    BY <1>1, SMTT(30), SMTT(60) DEF TypeInv, Trying, Draw
  <2>4. /\ Cardinality(Writers') \in Nat /\ Cardinality(Readers') \in Nat
        /\ Cardinality(Writers') <= Cardinality(Writers) + 0
        /\ Cardinality(Readers') <= Cardinality(Readers) + 1
    <3>1. Cardinality(Readers \cup {t}) = Cardinality(Readers) + 1
      BY Parties, FS_AddElement, ZenonT(60)
    <3> QED
      BY <1>2, <3>1, Parties, SMTT(30), SMTT(60)
  <2>5. \A u \in Threads \ {t} : pc'[u] = pc[u] /\ mine'[u] = mine[u] /\ seen'[u] = seen[u]
    BY Zenon, <1>2
  <2> QED
    BY <1>1, <2>1, <2>2, <2>3, <2>4, <2>5, OthersTry, ZenonT(60)
<1> QED
  BY Zenon, <1>2, <1>4, <1>5 DEF TicketInv

\* lock() and lock_shared()
LEMMA LockStep ==
  ASSUME TicketInv, TypeInv', NEW t \in Threads, lock(t) \/ lock_shared(t)
  PROVE  TicketInv'
<1>1. TypeInv /\ t \notin Writers \cup Readers
  BY Zenon DEF TicketInv, Writers, Readers, lock, lock_shared
<1>2. CASE lock(t)
  <2>1. /\ Goto(t, "wait") /\ Draw(t, 1) /\ head' = head /\ mine'[t] = tail
        /\ \A u \in Threads \ {t} : mine'[u] = mine[u] /\ seen'[u] = seen[u]
    BY <1>1, <1>2, Zenon DEF lock, exclusive_step, TypeInv
  <2> QED
    BY Zenon, <1>1, <2>1, DrewWriter
<1>3. CASE lock_shared(t)
  <2>1. /\ Goto(t, "wait_shared") /\ Draw(t, Half) /\ head' = head /\ mine'[t] = tail % Half
        /\ \A u \in Threads \ {t} : mine'[u] = mine[u] /\ seen'[u] = seen[u]
    BY <1>1, <1>3, Zenon DEF lock_shared, shared_step, Exclusive, TypeInv
  <2> QED
    BY <1>1, <2>1, DrewReader, Zenon
<1> QED
  BY Zenon, <1>2, <1>3

\* A thread that sees head_ at its ticket is the first in the line.
LEMMA EnterStep ==
  ASSUME TicketInv, TypeInv', NEW t \in Threads, Enter(t) \/ EnterShared(t)
  PROVE  TicketInv'
<1>1. TypeInv
  BY SMTT(30) DEF TicketInv
<1>2. CASE Enter(t)
  <2>1. /\ Goto(t, "held") /\ head' = head /\ tail' = tail /\ stale' = stale
        /\ \A u \in Threads \ {t} : mine'[u] = mine[u] /\ seen'[u] = seen[u] /\ stale'[u] = stale[u]
    BY <1>1, <1>2, ZenonT(60) DEF Enter, Forget, TypeInv
  <2>2. Writers' = Writers /\ Readers' = Readers /\ t \notin Trying'
    <3>1. t \in Writers /\ t \notin Readers
      BY <1>2, SMTT(30) DEF Enter, Writers, Readers
    <3> QED
      BY <1>1, <2>1, <3>1, Sets, SMTT(30), SMTT(60)
  <2>3. ASSUME NEW rank \in Ranks, LineInv(rank)
        PROVE  rank[t] = 0 /\ Ahead(rank, 0) = {}
    <3> DEFINE c == Cardinality(Ahead(rank, rank[t]))
    <3>1. head = (head + rank[t] + Half * c) % Word
      BY <1>2, <2>3, Zenon DEF Enter, LineInv, PlaceInv
    <3>2. c \in 0 .. Half - 1 /\ IsFiniteSet(Ahead(rank, rank[t]))
      BY AheadFacts
    <3>3. rank[t] \in 0 .. Half - 1
      BY Zenon DEF Ranks
    <3>4. rank[t] = 0 /\ c = 0
      <4>1. head \in Words
        BY <1>1, Zenon DEF TypeInv
      <4> HIDE DEF c
      <4> QED
        BY <3>1, <3>2, <3>3, <4>1, AtHead, Zenon
    <3> QED
      BY <3>2, <3>4, FS_EmptySet, Zenon
  <2> QED
    BY <2>1, <2>2, <2>3, Kept, ZenonT(60)
<1>3. CASE EnterShared(t)
  <2>1. /\ Goto(t, "shared") /\ head' = head /\ tail' = tail /\ stale' = stale
        /\ \A u \in Threads \ {t} : mine'[u] = mine[u] /\ seen'[u] = seen[u] /\ stale'[u] = stale[u]
    BY <1>1, <1>3, ZenonT(60) DEF EnterShared, Forget, TypeInv
  <2>2. Writers' = Writers /\ Readers' = Readers /\ t \notin Trying'
    <3>1. t \notin Writers /\ t \in Readers
      BY <1>3, SMTT(30) DEF EnterShared, Writers, Readers
    <3> QED
      BY <1>1, <2>1, <3>1, Sets, SMTT(30), SMTT(60)
  <2>3. ASSUME NEW rank \in Ranks, LineInv(rank)
        PROVE  rank[t] = 0
    <3>1. (head + rank[t]) % Half = head % Half
      BY <1>3, <2>3, Zenon DEF EnterShared, LineInv, PlaceInv, Exclusive
    <3>2. rank[t] \in 0 .. Half - 1 /\ head \in Words
      BY <1>1 DEF Ranks, TypeInv
    <3> QED
      BY <3>1, <3>2, AtHeadHalf, Zenon
  <2> QED
    BY <2>1, <2>2, <2>3, Kept, Zenon
<1> QED
  BY <1>2, <1>3, SMTT(30), SMTT(60)

\* The steps of an attempt that draw nothing
LEMMA TryStep ==
  ASSUME TicketInv, TypeInv', NEW t \in Threads,
         try_lock(t) \/ try_lock_shared(t) \/ TryTail(t) \/ (Fail(t) /\ head' = head /\ t \in Trying)
  PROVE  TicketInv'
<1>1. TypeInv /\ t \notin Writers \cup Readers
  BY Zenon DEF TicketInv, Writers, Readers, try_lock, try_lock_shared, TryHead, TryTail, Trying
<1>2. Cardinality(Writers) \in 0 .. Half /\ Cardinality(Readers) \in 0 .. Half
  BY Parties, WordFacts, SMTT(30)
<1>3. CASE try_lock(t) \/ try_lock_shared(t)
  <2>1. PICK l \in {"try", "try_shared"} : TryHead(t, l)
    BY <1>3, Zenon DEF try_lock, try_lock_shared
  <2>2. /\ Goto(t, l) /\ head' = head /\ tail' = tail /\ seen'[t] = head
        /\ \A u \in Threads \ {t} : mine'[u] = mine[u] /\ seen'[u] = seen[u] /\ stale'[u] = stale[u]
    BY <1>1, <2>1, SMTT(30) DEF TryHead, TypeInv
  <2>3. Writers' = Writers /\ Readers' = Readers /\ pc'[t] = l
    <3>1. /\ pc'[t] = l
          /\ Writers' = IF l \in {"wait", "held", "leave"} THEN Writers \cup {t} ELSE Writers \ {t}
          /\ Readers' = IF l \in {"wait_shared", "shared"} THEN Readers \cup {t} ELSE Readers \ {t}
      BY <1>1, <2>2, Sets, Zenon
    <3> QED
      BY <1>1, <3>1
  <2>4. tail = (head + Cardinality(Writers) + Half * Cardinality(Readers)) % Word
    BY SMTT(30) DEF TicketInv, LineInv, TailInv
  <2>5. stale'[t] = 0
    BY <1>1, <2>1, Zenon DEF TypeInv, TryHead, Trying
  <2>6. Cardinality(Writers) + Cardinality(Readers) < Cardinality(Threads) + stale'[t]
    BY <1>1, <2>5, Parties, WordFacts, SMTT(30), SMTT(60)
  <2>7. Loaded(t)' = head
    BY <2>2, <2>3, Zenon DEF Loaded
  <2>8. Cardinality(Writers) <= Cardinality(Writers) /\ Cardinality(Readers) <= Cardinality(Readers)
    BY Parties, SMTT(30)
  <2>9. TryInv(t)'
    BY <1>2, <2>2, <2>3, <2>4, <2>6, <2>7, <2>8, Zenon DEF TryInv
  <2> QED
    BY <2>2, <2>3, <2>9, Kept, Zenon
<1>4. CASE TryTail(t)
  <2>1. PICK l \in {"cas", "cas_shared"} :
          /\ Goto(t, l) /\ mine'[t] = tail /\ head' = head /\ tail' = tail /\ stale' = stale
          /\ l = "cas" => pc[t] = "try" /\ seen[t] = tail
          /\ l = "cas_shared" => pc[t] = "try_shared" /\ seen[t] % Half = tail % Half
          /\ \A u \in Threads \ {t} : mine'[u] = mine[u] /\ seen'[u] = seen[u]
    BY <1>1, <1>4, Zenon DEF TryTail, TypeInv, Exclusive
  <2>2. Writers' = Writers /\ Readers' = Readers /\ pc'[t] = l
    BY <1>1, <2>1, Sets, SMTT(30), SMTT(60)
  <2>3. TryInv(t) /\ stale[t] \in 0 .. MaxStale /\ tail \in Words /\ seen[t] \in Words
    BY <1>1, <1>4, ZenonT(60) DEF TicketInv, TypeInv, TryTail, Trying
  <2>4. Loaded(t) = seen[t] /\ Loaded(t)' = tail
    BY <1>4, <2>1, <2>2, Zenon DEF Loaded, TryTail
  <2>5. Cardinality(Writers) = 0 /\ (l = "cas" => Cardinality(Readers) = 0)
    <3>1. CASE l = "cas"
      BY <2>1, <2>3, <2>4, <3>1, TryEqual, Zenon
    <3>2. CASE l = "cas_shared"
      BY <2>1, <2>3, <2>4, <3>2, TryEqualHalf, Zenon
    <3> QED
      BY <3>1, <3>2, Zenon
  <2>6. tail = (tail + 0 + Half * 0) % Word /\ 0 \in 0 .. Half
    <3>1. tail % Word = tail /\ tail + 0 + Half * 0 = tail
      BY <2>3, WordMod, Zenon
    <3>2. Half \in Nat
      BY WordFacts, Zenon
    <3> QED
      BY <3>1, <3>2
  <2>7. 0 + 0 < Cardinality(Threads) + stale[t]
    <3>1. Cardinality(Threads) > 0
      BY <1>1, Parties, WordFacts, SMTT(30), SMTT(60)
    <3> QED
      BY <2>3, <3>1, WordFacts, SMTT(30), SMTT(60)
  <2>8. TryInv(t)'
    <3>1. /\ tail' = (Loaded(t)' + 0 + Half * 0) % Word
          /\ 0 + 0 < Cardinality(Threads) + stale'[t]
          /\ Cardinality(Writers') <= 0
          /\ pc'[t] # "cas_shared" => Cardinality(Readers') <= 0
      BY <2>1, <2>2, <2>4, <2>5, <2>6, <2>7, SMTT(30), SMTT(60)
    <3> QED
      BY <2>6, <3>1, Zenon DEF TryInv
  <2> QED
    BY <2>1, <2>2, <2>8, Kept, Zenon
<1>5. CASE Fail(t) /\ head' = head /\ t \in Trying
  <2>1. /\ Goto(t, "idle") /\ tail' = tail
        /\ \A u \in Threads \ {t} : mine'[u] = mine[u] /\ seen'[u] = seen[u] /\ stale'[u] = stale[u]
    BY <1>1, <1>5, Zenon DEF Fail, Forget, TypeInv
  <2>2. Writers' = Writers /\ Readers' = Readers /\ t \notin Trying'
    BY <1>1, <2>1, Sets, SMTT(30), SMTT(60)
  <2> QED
    BY <1>5, <2>1, <2>2, Kept, SMTT(30), SMTT(60)
<1> QED
  BY <1>3, <1>4, <1>5, Zenon

\* An attempt that draws a ticket finds nobody that it would have to wait for.
LEMMA CasStep ==
  ASSUME TicketInv, TypeInv', NEW t \in Threads, TryCas(t), ~ Fail(t)
  PROVE  TicketInv'
<1>1. TypeInv /\ t \notin Writers \cup Readers /\ tail = mine[t] /\ head' = head
  BY Zenon DEF TicketInv, Writers, Readers, TryCas
<1>2. TryInv(t) /\ stale[t] \in 0 .. MaxStale /\ tail \in Words /\ Loaded(t) = tail
  BY <1>1, Zenon DEF TicketInv, TypeInv, TryCas, Trying, Loaded
<1>3. Cardinality(Writers) = 0 /\ (pc[t] = "cas" => Cardinality(Readers) = 0)
  BY <1>2, TryEqual, Zenon
<1>4. \A u \in Threads \ {t} : mine'[u] = mine[u] /\ seen'[u] = seen[u]
  BY <1>1, SMTT(30) DEF TryCas, Forget, TypeInv
<1>5. CASE pc[t] = "cas"
  <2>1. Goto(t, "held") /\ Draw(t, 1)
    BY <1>5, SMTT(30), SMTT(60) DEF TryCas, exclusive_step
  <2> QED
    BY <1>1, <1>3, <1>4, <1>5, <2>1, DrewWriter, ZenonT(60)
<1>6. CASE pc[t] = "cas_shared"
  <2>1. Goto(t, "shared") /\ Draw(t, Half)
    BY <1>6 DEF TryCas, shared_step
  <2> QED
    BY <1>1, <1>3, <1>4, <2>1, DrewReader, ZenonT(60)
<1> QED
  BY <1>5, <1>6, Zenon DEF TryCas

\* unlock() and unlock_shared()
LEMMA UnlockStep ==
  ASSUME TicketInv, TypeInv', NEW t \in Threads, unlock(t) \/ Leave(t) \/ unlock_shared(t)
  PROVE  TicketInv'
<1>1. TypeInv /\ \A u \in Trying : TryInv(u)
  BY DEF TicketInv
<1>2. PICK rank \in Ranks : LineInv(rank)
  BY Zenon DEF TicketInv
<1>3. CASE unlock(t)
  <2>1. /\ Goto(t, "leave") /\ head' = head /\ tail' = tail /\ seen'[t] = head
        /\ \A u \in Threads \ {t} : mine'[u] = mine[u] /\ seen'[u] = seen[u] /\ stale'[u] = stale[u]
    BY <1>1, <1>3, Zenon DEF unlock, TypeInv
  <2>2. t \in Writers /\ t \notin Readers
    BY <1>3, SMTT(30), SMTT(60) DEF unlock, Writers, Readers
  <2>3. Writers' = Writers /\ Readers' = Readers /\ t \notin Trying'
    <3>1. Writers' = Writers \cup {t} /\ Readers' = Readers \ {t} /\ t \notin Trying'
      BY <1>1, <2>1, Sets, Zenon
    <3> QED
      BY <2>2, <3>1, Zenon
  <2>4. \A r \in Ranks : LineInv(r) => r[t] = 0 /\ Ahead(r, 0) = {}
    BY <1>3, Zenon DEF unlock, LineInv, PlaceInv
  <2> QED
    BY <2>1, <2>3, <2>4, Kept, Zenon
<1>4. CASE Leave(t) \/ unlock_shared(t)
  <2>1. /\ Goto(t, "idle") /\ tail' = tail /\ stale' = stale
        /\ \A u \in Threads \ {t} : mine'[u] = mine[u] /\ seen'[u] = seen[u]
    BY <1>1, <1>4, Zenon DEF Leave, unlock_shared, Forget, TypeInv
  <2>2. /\ pc'[t] = "idle" /\ \A u \in Threads \ {t} : pc'[u] = pc[u]
        /\ Writers' = Writers \ {t} /\ Readers' = Readers \ {t} /\ t \notin Trying'
    <3>1. Goto(t, "idle")
      BY <2>1
    <3> QED
      BY <1>1, <3>1, Sets, SMTT(30), SMTT(60)
  <2>3. head \in Words
    BY Zenon, <1>1 DEF TypeInv
  <2>4. \E r \in Ranks : LineInv(r)'
    <3>1. CASE Leave(t)
      <4>1. pc[t] = "leave" /\ Readers' = Readers
        BY <2>2, <3>1, ZenonT(60) DEF Leave, Readers
      <4>2. head' = (head + 1) % Word
        BY <1>2, <3>1, Zenon DEF Leave, exclusive_step, LineInv, PlaceInv
      <4> QED
        BY <1>2, <2>1, <2>2, <2>3, <4>1, <4>2, ReturnWriter, ZenonT(60)
    <3>2. CASE unlock_shared(t)
      <4>1. pc[t] = "shared" /\ Writers' = Writers /\ head' = (head + Half) % Word
        BY <2>2, <3>2, SMTT(30), SMTT(60) DEF unlock_shared, Writers, shared_step
      <4> QED
        BY <1>2, <2>1, <2>2, <2>3, <4>1, ReturnReader, ZenonT(60)
    <3> QED
      BY Zenon, <1>4, <3>1, <3>2
  <2>5. /\ Cardinality(Writers \ {t}) \in Nat /\ Cardinality(Readers \ {t}) \in Nat
        /\ Cardinality(Writers \ {t}) <= Cardinality(Writers)
        /\ Cardinality(Readers \ {t}) <= Cardinality(Readers)
    <3>1. /\ IsFiniteSet(Writers \ {t}) /\ Cardinality(Writers \ {t}) <= Cardinality(Writers)
          /\ IsFiniteSet(Readers \ {t}) /\ Cardinality(Readers \ {t}) <= Cardinality(Readers)
      <4>1. Writers \ {t} \subseteq Writers /\ Readers \ {t} \subseteq Readers
        BY Zenon
      <4> QED
        BY <4>1, Parties, FS_Subset, Zenon
    <3> QED
      BY <3>1, FS_CardinalityType, Zenon
  <2>6. \A u \in Trying' \ {t} : TryInv(u)'
    <3>1. tail' = (tail + 0 + Half * 0) % Word /\ 0 \in Nat
      <4>1. tail % Word = tail /\ tail + 0 + Half * 0 = tail
        BY <1>1, WordMod, Zenon DEF TypeInv
      <4> QED
        BY <2>1, <4>1
    <3>2. \A u \in Trying \ {t} : stale'[u] = stale[u] + 0 + 0
      BY <1>1, <2>1, SMTT(30), SMTT(60) DEF TypeInv, Trying
    <3>3. /\ Cardinality(Writers') \in Nat /\ Cardinality(Readers') \in Nat
          /\ Cardinality(Writers') <= Cardinality(Writers) + 0
          /\ Cardinality(Readers') <= Cardinality(Readers) + 0
      <4>1. Cardinality(Writers) \in Nat /\ Cardinality(Readers) \in Nat
        BY Parties, SMTT(30)
      <4>2. Writers' = Writers \ {t} /\ Readers' = Readers \ {t}
        BY <2>2, ZenonT(60)
      <4> QED
        BY <2>5, <4>1, <4>2, SMTT(30), SMTT(60)
    <3>4. \A u \in Threads \ {t} : pc'[u] = pc[u] /\ mine'[u] = mine[u] /\ seen'[u] = seen[u]
      BY <2>1, <2>2, Zenon
    <3> QED
      BY <1>1, <3>1, <3>2, <3>3, <3>4, OthersTry, ZenonT(60)
  <2> QED
    BY <2>2, <2>4, <2>6, Zenon DEF TicketInv
<1> QED
  BY Zenon, <1>3, <1>4

\* Nobody holds a ticket of a new lock.
LEMMA InitTicket == Init => TicketInv
<1> SUFFICES ASSUME Init PROVE TicketInv
  OBVIOUS
<1>1. Writers = {} /\ Readers = {} /\ Trying = {}
  BY Zenon DEF Init, Writers, Readers, Trying
<1>2. TypeInv
  BY <1>1, WordFacts, SMTT(30), SMTT(60) DEF Init, TypeInv, Labels, Words
<1>3. Cardinality(Writers) = 0 /\ Cardinality(Readers) = 0
  BY <1>1, FS_EmptySet, Zenon
<1>4. [t \in Threads |-> 0] \in Ranks
  BY WordFacts DEF Ranks
<1>5. \A rank \in Ranks : LineInv(rank)
  <2>1. TailInv
    BY <1>3, WordFacts, SMTT(30), SMTT(60) DEF Init, TailInv
  <2>2. \A rank \in Ranks : RankInv(rank) /\ \A t \in Threads : PlaceInv(rank, t)
    BY <1>1, SMTT(30) DEF Init, RankInv, PlaceInv
  <2> QED
    BY <2>1, <2>2, Zenon DEF LineInv
<1> QED
  BY <1>1, <1>2, <1>4, <1>5, Zenon DEF TicketInv

\* Every step keeps the line and the attempts.
LEMMA NextTicket == TicketInv /\ [Next]_vars => TicketInv'
<1> SUFFICES ASSUME TicketInv, [Next]_vars PROVE TicketInv'
  OBVIOUS
<1>1. TypeInv'
  BY TypeNext, SMTT(30) DEF TicketInv
<1>2. CASE UNCHANGED vars
  <2>1. /\ head' = head /\ tail' = tail /\ pc' = pc /\ seen' = seen /\ mine' = mine /\ stale' = stale
        /\ Writers' = Writers /\ Readers' = Readers /\ Trying' = Trying
    BY <1>2, Zenon DEF vars, Writers, Readers, Trying
  <2>2. \A rank \in Ranks : LineInv(rank) => LineInv(rank)'
    BY <2>1, ZenonT(60) DEF LineInv, TailInv, RankInv, PlaceInv, Ahead
  <2>3. \A t \in Threads : TryInv(t) => TryInv(t)'
    BY <2>1 DEF TryInv, Loaded
  <2>4. Trying \subseteq Threads
    BY SMTT(30) DEF Trying
  <2> QED
    BY <1>1, <2>1, <2>2, <2>3, <2>4, Zenon DEF TicketInv
<1>3. ASSUME NEW t \in Threads, TryBusy(t) \/ TryCas(t)
      PROVE  TicketInv'
  <2>1. CASE Fail(t)
    <3>1. head' = head /\ t \in Trying
      BY <1>3 DEF TryBusy, TryCas, Trying
    <3> QED
      BY <1>1, <2>1, <3>1, TryStep, ZenonT(60)
  <2>2. CASE ~ Fail(t)
    <3>1. TryCas(t)
      BY <1>3, <2>2, SMTT(30), SMTT(60) DEF TryBusy
    <3> QED
      BY <1>1, <2>2, <3>1, CasStep, ZenonT(60)
  <2> QED
    BY <2>1, <2>2
<1> QED
  BY <1>1, <1>2, <1>3, LockStep, EnterStep, TryStep, UnlockStep, Zenon DEF Next, Step

\* The tickets fit between head_ and tail_, and attempts know enough of them.
THEOREM TicketSafe == Spec => []TicketInv
BY InitTicket, NextTicket, PTL DEF Spec

\* For any number of threads below Half: whoever holds the lock exclusively
\* holds it alone, by lock() or by try_lock(), when the words wrap too.
THEOREM TicketExclusion == Spec => []WriterAlone
<1>1. TicketInv => WriterAlone
  <2> SUFFICES ASSUME TicketInv, NEW t \in Threads, NEW u \in Threads,
                      pc[t] \in {"held", "leave"}, pc[u] \in {"held", "leave", "shared"}
               PROVE  t = u
    BY DEF WriterAlone
  <2>1. PICK rank \in Ranks : LineInv(rank)
    BY Zenon DEF TicketInv
  <2>2. rank[t] = 0 /\ Ahead(rank, 0) = {} /\ rank[u] = 0
    BY Zenon, <2>1 DEF LineInv, PlaceInv
  <2>3. u \notin Readers
    BY <2>2 DEF Ahead
  <2>4. t \in Writers /\ u \in Writers
    BY <2>3, Zenon DEF Writers, Readers
  <2> QED
    BY Zenon, <2>1, <2>2, <2>4 DEF LineInv, RankInv
<1> QED
  BY <1>1, TicketSafe, PTL

\* When nobody is inside an operation the words are equal again.
THEOREM TicketBalance == Spec => []TicketsReturned
<1>1. TicketInv => TicketsReturned
  <2> SUFFICES ASSUME TicketInv, \A t \in Threads : pc[t] = "idle"
               PROVE  head = tail
    BY DEF TicketsReturned
  <2>1. Writers = {} /\ Readers = {}
    BY DEF Writers, Readers
  <2>2. Cardinality(Writers) = 0 /\ Cardinality(Readers) = 0
    BY Zenon, <2>1, FS_EmptySet
  <2>3. tail = (head + 0 + Half * 0) % Word /\ head \in Words
    BY <2>2 DEF TicketInv, LineInv, TailInv, TypeInv
  <2> QED
    BY <2>3, WordMod, Zenon
<1> QED
  BY <1>1, TicketSafe, PTL
=============================================================================
