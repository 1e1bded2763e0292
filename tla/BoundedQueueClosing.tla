------------------------ MODULE BoundedQueueClosing ------------------------
(***************************************************************************)
(* What close() of the ring of evenk/bounded_queue.h promises, and what    *)
(* is_empty() and is_full() tell, for every size, every word width and any *)
(* sets of threads, any number of closers among them.                      *)
(*                                                                         *)
(* The first close() finds tail_ at some L and leaves the gap of the Size  *)
(* tickets from L on.  Every slot has one of them, and no push ever holds  *)
(* it: the slot stays empty at that turn (GapInv), so no push behind the   *)
(* gap gets its turn.  Before close() the turn of a slot is no more than a *)
(* lap ahead of either counter, and whoever drew a ticket that the slot    *)
(* has not passed still holds it (OpenInv): the slots are occupied exactly *)
(* from head_ to tail_ when nobody holds a ticket.                         *)
(***************************************************************************)
EXTENDS BoundedQueueSteps

-----------------------------------------------------------------------------
(* Tickets of one slot                                                     *)

\* Two tickets of one slot less than a lap apart are the same.
LEMMA SameLap ==
  ASSUME NEW m \in Nat, NEW n \in Nat, Index(m) = Index(n), m < n + Size, n < m + Size
  PROVE  m = n
<1> DEFINE p == m \div Size
           q == n \div Size
<1>1. /\ m = p * Size + (m % Size) /\ n = q * Size + (n % Size)
      /\ p \in Nat /\ q \in Nat
  BY ConstantFacts
<1>2. m - n = (p - q) * Size
  BY <1>1, ConstantFacts DEF Index
<1>3. p - q \in Int /\ (p - q) * Size < Size /\ -Size < (p - q) * Size
  BY <1>1, <1>2, ConstantFacts, SMTT(30), SMTT(60)
<1>4. p - q = 0
  BY Zenon, <1>3, MultipleBound, ConstantFacts
<1> QED
  BY <1>2, <1>4, ConstantFacts, SMTT(30), SMTT(60)

\* token + mask_ + 1 is the token of the ticket a lap later.
LEMMA NextTicket ==
  ASSUME NEW n \in Nat, n + Size < CountMod
  PROVE  NextLap(n).ticket = Ticket(n + Size) /\ Index(n + Size) = Index(n)
<1>0. Size \in Nat \ {0} /\ Unit \in Nat \ {0} /\ CountMod \in Nat \ {0}
  BY ConstantFacts, SMTT(30), SMTT(60)
<1>1. PICK k \in Nat : Size = k * Unit /\ k >= 1
  BY RingAssumption, SMTT(30), SMTT(60)
<1> DEFINE a == n \div Unit
           b == (n + Size) \div Unit
           p == n \div Size
           q == (n + Size) \div Size
<1>2. n % CountMod = n /\ (n + Size) % CountMod = n + Size
  BY <1>0
<1>3. /\ n = a * Unit + (n % Unit) /\ n % Unit \in 0 .. Unit - 1 /\ a \in Nat
      /\ n + Size = b * Unit + ((n + Size) % Unit) /\ (n + Size) % Unit \in 0 .. Unit - 1 /\ b \in Nat
  BY <1>0, SMTT(30), SMTT(60)
<1>4. b = a + k
  <2>1. a + k - b \in Int /\ (a + k - b) * Unit = ((n + Size) % Unit) - (n % Unit)
    BY <1>0, <1>1, <1>3, SMTT(30), SMTT(60)
  <2>2. (a + k - b) * Unit < Unit /\ -Unit < (a + k - b) * Unit
    BY <1>0, <1>3, <2>1, SMTT(30), SMTT(60)
  <2>3. a + k - b = 0
    BY <1>0, <2>1, <2>2, MultipleBound, Zenon
  <2> QED
    BY <1>1, <1>3, <2>3, SMTT(30), SMTT(60)
<1>5. Ticket(n) = a * Unit /\ Ticket(n + Size) = a * Unit + Size
  BY <1>0, <1>1, <1>2, <1>3, <1>4, SMTT(30), SMTT(60) DEF Ticket
<1>6. (Ticket(n) + Size) % CountMod = Ticket(n + Size)
  BY <1>0, <1>3, <1>5, SMTT(30), SMTT(60)
<1>7. /\ n = p * Size + (n % Size) /\ n % Size \in 0 .. Size - 1 /\ p \in Nat
      /\ n + Size = q * Size + ((n + Size) % Size) /\ (n + Size) % Size \in 0 .. Size - 1 /\ q \in Nat
  BY <1>0, SMTT(30), SMTT(60)
<1>8. q = p + 1
  <2>1. p + 1 - q \in Int /\ (p + 1 - q) * Size = ((n + Size) % Size) - (n % Size)
    BY <1>0, <1>7, SMTT(30), SMTT(60)
  <2>2. (p + 1 - q) * Size < Size /\ -Size < (p + 1 - q) * Size
    BY <1>0, <1>7, <2>1, SMTT(30), SMTT(60)
  <2>3. p + 1 - q = 0
    BY <1>0, <2>1, <2>2, MultipleBound, Zenon
  <2> QED
    BY <1>7, <2>3, SMTT(30), SMTT(60)
<1>9. Index(n + Size) = Index(n)
  BY <1>0, <1>7, <1>8, SMTT(30), SMTT(60) DEF Index
<1> QED
  BY Zenon, <1>6, <1>9 DEF NextLap, Token

\* A push that passes its slot on leaves the turn and fills the slot.
LEMMA PushPasses ==
  ASSUME RingInv, NoWrap, NEW t \in Threads, RoleInv(t), Passes(t), op[t] = "push"
  PROVE  /\ Pushing(t) /\ ~Popping(t) /\ cnt[t] \in Nat /\ cnt[t] < tail /\ At(t) = Index(cnt[t])
         /\ Turn(cnt[t])
         /\ \A n \in Nat : Turn(n)' <=> Turn(n)
         /\ \A n \in Nat : Index(n) # At(t) => Status(n)' = Status(n)
         /\ \A n \in Nat : Index(n) = At(t) => Status(n)' # "none"
         /\ \A n \in Nat : n < CountMod /\ Index(n) = At(t) /\ Turn(n) => n = cnt[t]
<1>1. /\ cnt[t] \in Nat /\ At(t) = Index(cnt[t]) /\ At(t) \in Slots
      /\ slot \in [Slots -> Tokens] /\ head \in Nat /\ tail \in Nat
  BY IndexType, Zenon DEF At, RingInv, TypeInv, TypeOK
<1>2. pc[t] = "wake" /\ slot' = [slot EXCEPT ![At(t)] = tok[t]]
  BY Zenon DEF Passes
<1>3. Pushing(t) /\ ~Popping(t)
  BY <1>2, Zenon DEF Pushing, Popping, Waiting
<1>4. cnt[t] < tail /\ Turn(cnt[t]) /\ tok[t].ticket = Ticket(cnt[t]) /\ tok[t].status # "none"
  BY <1>2, <1>3, Zenon DEF RingInv, LocalInv, PushInv, RoleInv
<1>5. \A n \in Nat : Index(n) \in Slots
  BY IndexType, Zenon
<1>6. \A n \in Nat : Index(n) # At(t) => slot'[Index(n)] = slot[Index(n)]
  BY <1>1, <1>2, <1>5, Zenon
<1>7. slot'[At(t)] = tok[t] /\ slot[At(t)].ticket = tok[t].ticket
  BY <1>1, <1>2, <1>4, Zenon DEF Turn
<1>8. \A n \in Nat : Turn(n)' <=> Turn(n)
  BY <1>6, <1>7, Zenon DEF Turn
<1>9. /\ \A n \in Nat : Index(n) # At(t) => Status(n)' = Status(n)
      /\ \A n \in Nat : Index(n) = At(t) => Status(n)' # "none"
  BY <1>4, <1>6, <1>7, Zenon DEF Status
<1>10. \A n \in Nat : n < CountMod /\ Index(n) = At(t) /\ Turn(n) => n = cnt[t]
  BY <1>1, <1>4, SameTurn, Zenon
<1> QED
  BY <1>1, <1>3, <1>4, <1>8, <1>9, <1>10, Zenon

\* A pop that passes its slot on leaves it empty, at the turn a lap later.
LEMMA PopPasses ==
  ASSUME RingInv, NoWrap, NEW t \in Threads, RoleInv(t), Passes(t), op[t] # "push"
  PROVE  /\ Popping(t) /\ ~Pushing(t) /\ cnt[t] \in Nat /\ At(t) = Index(cnt[t])
         /\ cnt[t] < head /\ cnt[t] < tail
         /\ Turn(cnt[t]) /\ Status(cnt[t]) # "none"
         /\ \A n \in Nat : Index(n) # At(t) => (Turn(n)' <=> Turn(n)) /\ Status(n)' = Status(n)
         /\ \A n \in Nat : Index(n) = At(t) => Status(n)' = "none"
         /\ \A n \in Nat : n < CountMod /\ Index(n) = At(t) /\ Turn(n) => n = cnt[t]
         /\ cnt[t] + Size < CountMod =>
              /\ Index(cnt[t] + Size) = At(t)
              /\ \A n \in Nat : n < CountMod /\ Index(n) = At(t) => (Turn(n)' <=> n = cnt[t] + Size)
<1>1. /\ cnt[t] \in Nat /\ At(t) = Index(cnt[t]) /\ At(t) \in Slots
      /\ slot \in [Slots -> Tokens] /\ head \in Nat /\ tail \in Nat
  BY IndexType, Zenon DEF At, RingInv, TypeInv, TypeOK
<1>2. pc[t] = "wake" /\ slot' = [slot EXCEPT ![At(t)] = tok[t]]
  BY Zenon DEF Passes
<1>3. Popping(t) /\ ~Pushing(t)
  BY <1>2, Zenon DEF Pushing, Popping
<1>4. /\ cnt[t] < head /\ Turn(cnt[t]) /\ Status(cnt[t]) # "none" /\ tok[t].status = "none"
      /\ tok[t].ticket = NextLap(cnt[t]).ticket
  BY <1>2, <1>3, Zenon DEF RingInv, LocalInv, PopInv, RoleInv, Releasing
<1>5. cnt[t] < tail
  <2> SUFFICES ASSUME ~(cnt[t] < tail) PROVE FALSE
    OBVIOUS
  <2>1. cnt[t] \in tail .. CountMod - 1
    BY <1>1, <1>4, ConstantFacts, SMTT(30), SMTT(60) DEF NoWrap
  <2> QED
    BY <1>4, <2>1, Zenon DEF RingInv, FreshInv
<1>6. \A n \in Nat : Index(n) \in Slots
  BY IndexType, Zenon
<1>7. \A n \in Nat : Index(n) # At(t) => slot'[Index(n)] = slot[Index(n)]
  BY <1>1, <1>2, <1>6, Zenon
<1>8. slot'[At(t)] = tok[t]
  BY <1>1, <1>2, Zenon
<1>9. \A n \in Nat : Index(n) # At(t) => (Turn(n)' <=> Turn(n)) /\ Status(n)' = Status(n)
  BY <1>7, Zenon DEF Turn, Status
<1>10. \A n \in Nat : Index(n) = At(t) => Status(n)' = "none"
  BY <1>4, <1>8, Zenon DEF Status
<1>11. \A n \in Nat : n < CountMod /\ Index(n) = At(t) /\ Turn(n) => n = cnt[t]
  BY <1>1, <1>4, SameTurn, Zenon
<1>12. ASSUME cnt[t] + Size < CountMod
       PROVE  /\ Index(cnt[t] + Size) = At(t)
              /\ \A n \in Nat : n < CountMod /\ Index(n) = At(t) => (Turn(n)' <=> n = cnt[t] + Size)
  <2>1. cnt[t] + Size \in Nat
    BY <1>1, ConstantFacts, SMTT(30), SMTT(60)
  <2>2. tok[t].ticket = Ticket(cnt[t] + Size) /\ Index(cnt[t] + Size) = At(t)
    BY <1>1, <1>4, <1>12, NextTicket, Zenon
  <2>3. \A n \in Nat : Index(n) = At(t) => (Turn(n)' <=> Ticket(cnt[t] + Size) = Ticket(n))
    BY <1>8, <2>2, Zenon DEF Turn
  <2>4. ASSUME NEW n \in Nat, n < CountMod, Index(n) = At(t), Ticket(cnt[t] + Size) = Ticket(n)
        PROVE  n = cnt[t] + Size
    BY <1>12, <2>1, <2>2, <2>4, SameTicket, Zenon
  <2> QED
    BY <2>2, <2>3, <2>4, Zenon
<1> QED
  BY <1>1, <1>3, <1>4, <1>5, <1>9, <1>10, <1>11, <1>12, ZenonT(60)

-----------------------------------------------------------------------------
(* What the steps leave of the invariant                                   *)

\* A bound that grows
LEMMA Farther == \A k, m, n \in Nat : k < m + Size /\ m <= n => k < n + Size
  BY ConstantFacts

\* Lag(L, s) of the next state, for an L of this one
LagNext(L, s) ==
  \E m \in Nat : Index(m) = s /\ Turn(m)' /\ m < L + Size /\ m < head' + Size

\* A slot that keeps its turn stays within a lap of counters that only grow.
LEMMA LagKept ==
  ASSUME NEW L \in Nat, NEW M \in Nat, L <= M, NEW s \in Slots, Lag(L, s), TurnsKept,
         head \in Nat, head' \in Nat, head <= head'
  PROVE  LagNext(M, s)
<1>1. PICK m \in Nat : Index(m) = s /\ Turn(m) /\ m < L + Size /\ m < head + Size
  BY Zenon DEF Lag
<1>2. m < M + Size /\ m < head' + Size
  BY <1>1, Farther, Zenon
<1> QED
  BY <1>1, <1>2, Zenon DEF TurnsKept, LagNext

\* So does a slot that a pop below L passes on.
LEMMA LagPassed ==
  ASSUME RingInv, NoWrap, NEW t \in Threads, RoleInv(t), Passes(t),
         NEW L \in Nat, NEW s \in Slots, Lag(L, s),
         op[t] # "push" => cnt[t] < L /\ cnt[t] + Size < CountMod
  PROVE  LagNext(L, s)
<1>1. PICK m \in Nat : Index(m) = s /\ Turn(m) /\ m < L + Size /\ m < head + Size
  BY Zenon DEF Lag
<1>2. head' = head /\ head \in Nat
  BY Zenon DEF Passes, RingInv, TypeInv, TypeOK
<1>3. CASE op[t] = "push"
  BY <1>1, <1>2, <1>3, PushPasses, Zenon DEF LagNext
<1>4. CASE op[t] # "push" /\ s # At(t)
  BY <1>1, <1>2, <1>4, PopPasses, Zenon DEF LagNext
<1>5. CASE op[t] # "push" /\ s = At(t)
  <2>1. cnt[t] \in Nat /\ cnt[t] < head /\ cnt[t] < L /\ cnt[t] + Size < CountMod
    BY <1>5, PopPasses, Zenon
  <2>2. PICK k \in Nat : k = cnt[t] + Size
    BY <2>1, ConstantFacts, SMTT(30), SMTT(60)
  <2>3. k < L + Size /\ k < head' + Size
    BY <1>2, <2>1, <2>2, ConstantFacts, SMTT(30), SMTT(60)
  <2>4. Index(k) = s /\ Turn(k)'
    BY <1>5, <2>1, <2>2, PopPasses, Zenon
  <2> QED
    BY <2>3, <2>4, Zenon DEF LagNext
<1> QED
  BY <1>3, <1>4, <1>5, Zenon

\* Head tickets stay held when their holders stay.
LEMMA HeldKept ==
  ASSUME NEW t \in Threads, OthersKeep(t), TurnsKept, NEW b \in Nat, Held(b), head \in Nat,
         head' = head \/ (head' = head + 1 /\ Popping(t)' /\ cnt'[t] = head),
         Popping(t) /\ cnt[t] < b => Popping(t)' /\ cnt'[t] = cnt[t]
  PROVE  Held(b)'
<1> SUFFICES ASSUME NEW m \in Nat, NEW n \in Nat, n < b, n < head', m <= n,
                    Index(m) = Index(n), Turn(m)'
             PROVE  \E u \in Threads : Popping(u)' /\ cnt'[u] = n
  BY Zenon DEF Held
<1>1. Turn(m)
  BY Zenon DEF TurnsKept
<1>2. CASE n < head
  <2>1. PICK u \in Threads : Popping(u) /\ cnt[u] = n
    BY <1>1, <1>2, Zenon DEF Held
  <2>2. CASE u = t
    BY <2>1, <2>2, Zenon
  <2>3. CASE u # t
    BY <2>1, <2>3, OthersRoles, Zenon DEF OthersKeep
  <2> QED
    BY <2>2, <2>3, Zenon
<1>3. CASE ~(n < head)
  <2>1. head' = head + 1 /\ n = head
    BY <1>3
  <2> QED
    BY <1>3, <2>1, Zenon
<1> QED
  BY <1>2, <1>3, Zenon

\* A pop that passes its slot on gives up no other ticket.
LEMMA HeldPassed ==
  ASSUME RingInv, NoWrap, NEW t \in Threads, RoleInv(t), Passes(t), OthersKeep(t),
         NEW b \in Nat, Held(b), op[t] # "push" => cnt[t] + Size < CountMod
  PROVE  Held(b)'
<1> SUFFICES ASSUME NEW m \in Nat, NEW n \in Nat, n < b, n < head', m <= n,
                    Index(m) = Index(n), Turn(m)'
             PROVE  \E u \in Threads : Popping(u)' /\ cnt'[u] = n
  BY Zenon DEF Held
<1>1. head' = head /\ head \in Nat /\ head < CountMod /\ CountMod \in Nat
  BY ConstantFacts, Zenon DEF Passes, NoWrap, RingInv, TypeInv, TypeOK
<1>2. SUFFICES \E u \in Threads \ {t} : Popping(u) /\ cnt[u] = n
  BY OthersRoles, Zenon DEF OthersKeep
<1>3. CASE op[t] = "push"
  <2>1. ~Popping(t) /\ Turn(m)
    BY <1>3, PushPasses, Zenon
  <2> QED
    BY <1>1, <2>1, Zenon DEF Held
<1>4. CASE op[t] # "push" /\ Index(n) # At(t)
  <2>1. Turn(m) /\ At(t) = Index(cnt[t])
    BY <1>4, PopPasses, Zenon
  <2> QED
    BY <1>1, <1>4, <2>1, Zenon DEF Held
<1>5. CASE op[t] # "push" /\ Index(n) = At(t)
  <2>1. m < CountMod
    BY <1>1
  <2>2. cnt[t] \in Nat /\ At(t) = Index(cnt[t]) /\ Turn(cnt[t]) /\ m = cnt[t] + Size
    BY <1>5, <2>1, PopPasses, Zenon
  <2>3. cnt[t] <= n /\ cnt[t] # n
    BY <2>2, ConstantFacts, SMTT(30), SMTT(60)
  <2> QED
    BY <1>1, <1>5, <2>2, <2>3, Zenon DEF Held
<1> QED
  BY <1>3, <1>4, <1>5, Zenon

\* Tail tickets stay held when their holders stay.
LEMMA FilledKept ==
  ASSUME NEW t \in Threads, OthersKeep(t), TurnsKept, NEW b \in Nat, Filled(b), tail \in Nat,
         tail' = tail \/ b <= tail \/ (tail' = tail + 1 /\ Pushing(t)' /\ cnt'[t] = tail),
         Pushing(t) /\ cnt[t] < b => Pushing(t)' /\ cnt'[t] = cnt[t]
  PROVE  Filled(b)'
<1> SUFFICES ASSUME NEW m \in Nat, NEW n \in Nat, n < b, n < tail', m <= n,
                    Index(m) = Index(n), Turn(m)', m < n \/ Status(m)' = "none"
             PROVE  \E u \in Threads : Pushing(u)' /\ cnt'[u] = n
  BY Zenon DEF Filled
<1>1. Turn(m) /\ (m < n \/ Status(m) = "none")
  BY Zenon DEF TurnsKept
<1>2. CASE n < tail
  <2>1. PICK u \in Threads : Pushing(u) /\ cnt[u] = n
    BY <1>1, <1>2, Zenon DEF Filled
  <2>2. CASE u = t
    BY <2>1, <2>2, Zenon
  <2>3. CASE u # t
    BY <2>1, <2>3, OthersRoles, Zenon DEF OthersKeep
  <2> QED
    BY <2>2, <2>3, Zenon
<1>3. CASE ~(n < tail)
  <2>1. tail' = tail + 1 /\ n = tail
    BY <1>3, SMTT(30), SMTT(60)
  <2>2. tail' # tail /\ ~(b <= tail)
    BY <1>3, <2>1, SMTT(30), SMTT(60)
  <2> QED
    BY <2>1, <2>2, Zenon
<1> QED
  BY <1>2, <1>3, Zenon

\* A push that passes its slot on has filled it, and gives up no other ticket.
LEMMA FilledPassed ==
  ASSUME RingInv, NoWrap, NEW t \in Threads, RoleInv(t), Passes(t), OthersKeep(t),
         NEW b \in Nat, Filled(b), op[t] # "push" => cnt[t] + Size < CountMod
  PROVE  Filled(b)'
<1> SUFFICES ASSUME NEW m \in Nat, NEW n \in Nat, n < b, n < tail', m <= n,
                    Index(m) = Index(n), Turn(m)', m < n \/ Status(m)' = "none"
             PROVE  \E u \in Threads : Pushing(u)' /\ cnt'[u] = n
  BY Zenon DEF Filled
<1>1. tail' = tail /\ tail \in Nat /\ tail < CountMod /\ CountMod \in Nat
  BY ConstantFacts, Zenon DEF Passes, NoWrap, RingInv, TypeInv, TypeOK
<1>0. m < CountMod
  BY <1>1
<1>2. SUFFICES \E u \in Threads \ {t} : Pushing(u) /\ cnt[u] = n
  BY OthersRoles, Zenon DEF OthersKeep
<1>3. CASE op[t] = "push" /\ Index(n) # At(t)
  <2>1. Turn(m) /\ At(t) = Index(cnt[t]) /\ Status(m)' = Status(m)
    BY <1>3, PushPasses, Zenon
  <2> QED
    BY <1>1, <1>3, <2>1, Zenon DEF Filled
<1>4. CASE op[t] = "push" /\ Index(n) = At(t)
  <2>1. Turn(m) /\ m < n /\ m = cnt[t]
    BY <1>0, <1>4, PushPasses, Zenon
  <2>2. cnt[t] # n
    BY <2>1
  <2> QED
    BY <1>1, <2>1, <2>2, Zenon DEF Filled
<1>5. CASE op[t] # "push" /\ Index(n) # At(t)
  <2>1. Turn(m) /\ ~Pushing(t) /\ Status(m)' = Status(m)
    BY <1>5, PopPasses, Zenon
  <2> QED
    BY <1>1, <2>1, Zenon DEF Filled
<1>6. CASE op[t] # "push" /\ Index(n) = At(t)
  <2>1. /\ cnt[t] \in Nat /\ At(t) = Index(cnt[t]) /\ Turn(cnt[t]) /\ m = cnt[t] + Size
        /\ ~Pushing(t)
    BY <1>0, <1>6, PopPasses, Zenon
  <2>2. cnt[t] <= n /\ cnt[t] < n
    BY <2>1, ConstantFacts, SMTT(30), SMTT(60)
  <2> QED
    BY <1>1, <1>6, <2>1, <2>2, Zenon DEF Filled
<1> QED
  BY <1>3, <1>4, <1>5, <1>6, Zenon

\* Behind the gap nobody is let in: whoever passes a slot on has a ticket
\* from before close().
LEMMA PassedBeforeGap ==
  ASSUME RingInv, NoWrap, NEW t \in Threads, RoleInv(t), Passes(t), NEW L \in Nat, GapInv(L)
  PROVE  cnt[t] < L /\ cnt[t] + Size < CountMod
<1>0. /\ cnt[t] \in Nat /\ At(t) = Index(cnt[t]) /\ At(t) \in Slots
      /\ tail \in Nat /\ tail < CountMod /\ CountMod \in Nat
  BY IndexType, ConstantFacts, Zenon DEF At, NoWrap, RingInv, TypeInv, TypeOK
<1>1. PICK m \in Nat : Index(m) = At(t) /\ Turn(m) /\ m < L + Size /\ m < head + Size
  BY <1>0, Zenon DEF GapInv, Lag
<1>2. L + Size <= tail /\ m < CountMod
  BY <1>0, <1>1, ConstantFacts, SMTT(30), SMTT(60) DEF GapInv
<1>3. m = cnt[t]
  BY <1>1, <1>2, PushPasses, PopPasses, ZenonT(60)
<1>4. CASE op[t] = "push"
  <2>1. cnt[t] < L \/ cnt[t] >= L + Size
    BY <1>4, PushPasses, Zenon DEF GapInv
  <2> QED
    BY <1>0, <1>1, <1>2, <1>3, <2>1, ConstantFacts, SMTT(30), SMTT(60)
<1>5. CASE op[t] # "push"
  <2>1. Turn(cnt[t]) /\ Status(cnt[t]) # "none"
    BY <1>5, PopPasses, Zenon
  <2>2. ~(L <= cnt[t])
    BY <1>0, <1>1, <1>3, <2>1, Zenon DEF GapInv
  <2> QED
    BY <1>0, <1>2, <2>2, ConstantFacts, SMTT(30), SMTT(60)
<1> QED
  BY <1>4, <1>5, Zenon

-----------------------------------------------------------------------------
(* Before and after the first close()                                      *)

\* What a step leaves of OpenInv, if it leaves the flag and the tickets.
LEMMA OpenKept ==
  ASSUME OpenInv, NEW t \in Threads, OthersKeep(t), closed' = closed,
         pc'[t] \notin {"close_last", "close_flag"},
         tail' + Size <= CountMod =>
           (\A s \in Slots : Lag(tail, s)') /\ Held(CountMod)' /\ Filled(CountMod)'
  PROVE  OpenInv'
  BY Zenon DEF OpenInv, OthersKeep

\* A step before any close() advances tail_ preserves OpenInv, or is the one
\* that leaves the gap, at the tail_ it finds.
LEMMA OpenStep ==
  ASSUME RingInv, RingInv', NoWrap, NoWrap', Roles, OpenInv,
         NEW t \in Threads, Effect(t), NEW L \in Nat, L = tail
  PROVE  OpenInv' \/ (GapInv(L)' /\ Held(L)' /\ Filled(L)')
<1>t. /\ head \in Nat /\ tail \in Nat /\ head' \in Nat /\ tail' \in Nat
      /\ CountMod \in Nat /\ Size \in Nat /\ head <= head /\ tail <= tail
  BY ConstantFacts, Ordered, Zenon DEF RingInv, TypeInv, TypeOK
<1>o. /\ OthersKeep(t) /\ RoleInv(t)
      /\ closed = "open" /\ \A u \in Threads : pc[u] \notin {"close_last", "close_flag"}
  BY Zenon DEF Effect, Roles, OpenInv
<1>l. tail + Size <= CountMod => (\A s \in Slots : Lag(tail, s)) /\ Held(CountMod) /\ Filled(CountMod)
  BY Zenon DEF OpenInv
<1>1. CASE DrawsPush(t)
  <2>1. /\ TurnsKept /\ tail' = tail + 1 /\ head' = head /\ closed' = closed /\ ~Popping(t)
        /\ ~Pushing(t) /\ Pushing(t)' /\ cnt'[t] = tail
        /\ pc'[t] \notin {"close_last", "close_flag"}
    BY <1>1, Zenon DEF DrawsPush
  <2>2. ASSUME tail' + Size <= CountMod
        PROVE  (\A s \in Slots : Lag(tail, s)') /\ Held(CountMod)' /\ Filled(CountMod)'
    <3>1. tail + Size <= CountMod /\ tail <= tail' /\ head <= head'
      BY <1>t, <2>1, <2>2, SMTT(30), SMTT(60)
    <3>2. ASSUME NEW s \in Slots PROVE Lag(tail, s)'
      <4>1. LagNext(tail', s)
        BY <1>l, <1>t, <2>1, <3>1, LagKept, ZenonT(60)
      <4> QED
        BY <4>1, Zenon DEF Lag, LagNext
    <3>3. Held(CountMod)'
      BY <1>l, <1>o, <1>t, <2>1, <3>1, HeldKept, Zenon
    <3>4. Filled(CountMod)'
      BY <1>l, <1>o, <1>t, <2>1, <3>1, FilledKept, Zenon
    <3> QED
      BY <3>2, <3>3, <3>4, Zenon
  <2> QED
    BY <1>o, <2>1, <2>2, OpenKept, Zenon
<1>2. CASE DrawsPop(t)
  <2>1. /\ TurnsKept /\ head' = head + 1 /\ tail' = tail /\ closed' = closed /\ ~Popping(t)
        /\ ~Pushing(t) /\ Popping(t)' /\ cnt'[t] = head
        /\ pc'[t] \notin {"close_last", "close_flag"}
    BY <1>2, ZenonT(60) DEF DrawsPop
  <2>2. ASSUME tail' + Size <= CountMod
        PROVE  (\A s \in Slots : Lag(tail, s)') /\ Held(CountMod)' /\ Filled(CountMod)'
    <3>1. tail + Size <= CountMod /\ tail <= tail' /\ head <= head'
      BY <1>t, <2>1, <2>2, SMTT(30), SMTT(60)
    <3>2. ASSUME NEW s \in Slots PROVE Lag(tail, s)'
      <4>1. LagNext(tail', s)
        BY <1>l, <1>t, <2>1, <3>1, LagKept, Zenon
      <4> QED
        BY <4>1, Zenon DEF Lag, LagNext
    <3>3. Held(CountMod)'
      BY <1>l, <1>o, <1>t, <2>1, <3>1, HeldKept, Zenon
    <3>4. Filled(CountMod)'
      BY <1>l, <1>o, <1>t, <2>1, <3>1, FilledKept, ZenonT(60)
    <3> QED
      BY <3>2, <3>3, <3>4, Zenon
  <2> QED
    BY <1>o, <2>1, <2>2, OpenKept, Zenon
<1>3. ASSUME TurnsKept, UNCHANGED <<head, tail, closed>>,
             pc'[t] \notin {"close_last", "close_flag"},
             Pushing(t) => Pushing(t)' /\ cnt'[t] = cnt[t],
             Popping(t) => Popping(t)' /\ cnt'[t] = cnt[t]
      PROVE  OpenInv'
  <2>1. head' = head /\ tail' = tail /\ closed' = closed
    BY <1>3, ZenonT(60)
  <2>2. ASSUME tail' + Size <= CountMod
        PROVE  (\A s \in Slots : Lag(tail, s)') /\ Held(CountMod)' /\ Filled(CountMod)'
    <3>1. tail + Size <= CountMod /\ tail <= tail' /\ head <= head'
      BY <1>t, <2>1, <2>2, Zenon
    <3>2. ASSUME NEW s \in Slots PROVE Lag(tail, s)'
      <4>1. LagNext(tail', s)
        BY <1>l, <1>t, <1>3, <2>1, <3>1, LagKept, Zenon
      <4> QED
        BY <4>1, Zenon DEF Lag, LagNext
    <3>3. Held(CountMod)'
      BY <1>l, <1>o, <1>t, <1>3, <2>1, <3>1, HeldKept, Zenon
    <3>4. Filled(CountMod)'
      BY <1>l, <1>o, <1>t, <1>3, <2>1, <3>1, FilledKept, Zenon
    <3> QED
      BY <3>2, <3>3, <3>4, Zenon
  <2> QED
    BY <1>o, <1>3, <2>1, <2>2, OpenKept, Zenon
<1>4. CASE Continues(t)
  BY <1>3, <1>4, Zenon DEF Continues
<1>5. CASE GivesUp(t)
  BY <1>o, <1>5, Zenon DEF GivesUp, is_past_last
<1>6. CASE Passes(t)
  <2>1. /\ head' = head /\ tail' = tail /\ closed' = closed
        /\ pc'[t] \notin {"close_last", "close_flag"}
    BY <1>6, Zenon DEF Passes
  <2>2. ASSUME tail' + Size <= CountMod
        PROVE  (\A s \in Slots : Lag(tail, s)') /\ Held(CountMod)' /\ Filled(CountMod)'
    <3>1. tail + Size <= CountMod
      BY <2>1, <2>2, Zenon
    <3>2. op[t] # "push" => cnt[t] < tail /\ cnt[t] + Size < CountMod
      <4>1. op[t] # "push" => cnt[t] \in Nat /\ cnt[t] < tail
        BY <1>o, <1>6, PopPasses, Zenon
      <4> QED
        BY <1>t, <3>1, <4>1, SMTT(30), SMTT(60)
    <3>3. ASSUME NEW s \in Slots PROVE Lag(tail, s)'
      <4>1. LagNext(tail, s)
        BY <1>l, <1>o, <1>t, <1>6, <3>1, <3>2, LagPassed, ZenonT(60)
      <4> QED
        BY <2>1, <4>1, Zenon DEF Lag, LagNext
    <3>4. Held(CountMod)'
      BY <1>l, <1>o, <1>t, <1>6, <3>1, <3>2, HeldPassed, Zenon
    <3>5. Filled(CountMod)'
      BY <1>l, <1>o, <1>t, <1>6, <3>1, <3>2, FilledPassed, Zenon
    <3> QED
      BY <3>3, <3>4, <3>5, Zenon
  <2> QED
    BY <1>o, <2>1, <2>2, OpenKept, Zenon
<1>7. CASE Closing(t) /\ pc'[t] = "close_last" /\ pc[t] = "close_tail"
  <2>1. /\ TurnsKept /\ head' = head /\ tail' = tail + Size /\ closed' = closed
        /\ ~Popping(t) /\ ~Pushing(t) /\ ~Pushing(t)' /\ cnt'[t] = tail
    BY <1>7, Zenon DEF Closing
  <2>2. /\ tail + Size <= CountMod /\ L < CountMod /\ L + Size <= tail' /\ L <= L /\ head <= head'
        /\ \A n \in Nat : L <= n /\ n < L + Size => n \in tail .. CountMod - 1
        /\ \A n \in Nat : n < L => n < CountMod
        /\ tail >= L
    BY <1>t, <2>1, SMTT(30), SMTT(60) DEF NoWrap
  <2>3. Held(L)'
    <3>1. Held(L)
      BY <1>l, <2>2, Zenon DEF Held
    <3> QED
      BY <1>o, <1>t, <2>1, <3>1, HeldKept, Zenon
  <2>4. \A u \in Threads : Pushing(u)' => cnt'[u] < L \/ cnt'[u] >= L + Size
    <3>1. \A u \in Threads : Pushing(u) => cnt[u] < L
      BY Zenon DEF RingInv, LocalInv, PushInv
    <3> QED
      BY <1>o, <2>1, <3>1, OthersRoles, Zenon DEF OthersKeep
  <2>5. ASSUME NEW s \in Slots PROVE Lag(L, s)'
    <3>1. Lag(L, s)
      BY <1>l, <2>2, Zenon
    <3>2. LagNext(L, s)
      BY <1>t, <2>1, <2>2, <3>1, LagKept, ZenonT(60)
    <3> QED
      BY <3>2, Zenon DEF Lag, LagNext
  <2>6. ASSUME NEW n \in Nat, L <= n, n < L + Size, Turn(n)' PROVE Status(n)' = "none"
    BY <2>1, <2>2, <2>6, Zenon DEF TurnsKept, RingInv, FreshInv
  <2>7. \A u \in Threads : /\ pc'[u] = "close_last" => cnt'[u] >= L
                           /\ pc'[u] # "close_flag"
    BY <1>o, <1>7, <2>1, <2>2, ZenonT(60) DEF OthersKeep
  <2>8. closed' = "open" /\ \E u \in Threads : pc'[u] \in {"close_last", "close_flag"}
    BY <1>o, <1>7, <2>1, Zenon
  <2>9. GapInv(L)'
    BY <2>2, <2>4, <2>5, <2>6, <2>7, <2>8, ZenonT(60) DEF GapInv
  <2>10. Filled(L)'
    <3>1. Filled(L)
      BY <1>l, <2>2, ZenonT(60) DEF Filled
    <3> QED
      BY <1>o, <1>t, <2>1, <3>1, FilledKept, ZenonT(60)
  <2> QED
    BY <2>3, <2>9, <2>10, ZenonT(60)
<1>8. CASE Closing(t) /\ pc'[t] = "done"
  BY <1>3, <1>8, Zenon DEF Closing
<1>9. Closing(t) => \/ pc'[t] = "close_last" /\ pc[t] = "close_tail"
                    \/ pc'[t] = "done"
  BY <1>o, Zenon DEF Closing
<1> QED
  BY <1>1, <1>2, <1>4, <1>5, <1>6, <1>7, <1>8, <1>9, Zenon DEF Effect

\* No step fills the gap.
LEMMA GapStep ==
  ASSUME RingInv, RingInv', NoWrap, Roles, NEW L \in Nat, GapInv(L),
         NEW t \in Threads, Effect(t)
  PROVE  GapInv(L)'
<1>t. /\ head \in Nat /\ tail \in Nat /\ head' \in Nat /\ tail' \in Nat
      /\ CountMod \in Nat /\ Size \in Nat /\ L <= L
  BY ConstantFacts, Ordered, Zenon DEF RingInv, TypeInv, TypeOK
<1>o. OthersKeep(t) /\ RoleInv(t)
  BY Zenon DEF Effect, Roles
<1>g. /\ L + Size <= tail
      /\ \A u \in Threads : Pushing(u) => cnt[u] < L \/ cnt[u] >= L + Size
      /\ \A s \in Slots : Lag(L, s)
      /\ \A n \in Nat : L <= n /\ n < L + Size /\ Turn(n) => Status(n) = "none"
      /\ closed = "closed" => last >= L
      /\ closed = "open" => \E u \in Threads : pc[u] \in {"close_last", "close_flag"}
      /\ \A u \in Threads : /\ pc[u] = "close_last" => cnt[u] >= L
                            /\ pc[u] = "close_flag" => last >= L
  BY Zenon DEF GapInv
<1>c. closed \in {"open", "closed"} /\ closed' \in {"open", "closed"}
  BY Zenon DEF RingInv, TypeInv, TypeOK
<1>1. head <= head' /\ tail <= tail' /\ L + Size <= tail' /\ tail >= L + Size /\ tail >= L
  <2>1. head' \in {head, head + 1} /\ tail' \in {tail, tail + 1, tail + Size}
    BY Zenon DEF Effect, DrawsPush, DrawsPop, Continues, GivesUp, Passes, Closing
  <2> QED
    BY <1>t, <1>g, <2>1, SMTT(30), SMTT(60)
<1>2. \A u \in Threads : Pushing(u)' => cnt'[u] < L \/ cnt'[u] >= L + Size
  <2>1. Pushing(t)' => (Pushing(t) /\ cnt'[t] = cnt[t]) \/ cnt'[t] = tail
    BY Zenon DEF Effect, DrawsPush, DrawsPop, Continues, GivesUp, Passes, Closing
  <2>2. Pushing(t)' => cnt'[t] < L \/ cnt'[t] >= L + Size
    BY <1>1, <1>g, <2>1, Zenon
  <2> QED
    BY <1>g, <1>o, <2>2, OthersRoles, ZenonT(60) DEF OthersKeep
<1>3. TurnsKept \/ Passes(t)
  BY Zenon DEF Effect, DrawsPush, DrawsPop, Continues, GivesUp, Closing
<1>4. ASSUME NEW s \in Slots PROVE Lag(L, s)'
  <2>1. CASE TurnsKept
    <3>1. LagNext(L, s)
      BY <1>1, <1>g, <1>t, <2>1, LagKept, ZenonT(60)
    <3> QED
      BY <3>1, Zenon DEF Lag, LagNext
  <2>2. CASE Passes(t)
    <3>1. cnt[t] < L /\ cnt[t] + Size < CountMod
      BY <1>o, <2>2, PassedBeforeGap, ZenonT(60)
    <3>2. LagNext(L, s)
      BY <1>g, <1>o, <2>2, <3>1, LagPassed, Zenon
    <3> QED
      BY <3>2, Zenon DEF Lag, LagNext
  <2> QED
    BY <1>3, <2>1, <2>2, Zenon
<1>5. ASSUME NEW n \in Nat, L <= n, n < L + Size, Turn(n)' PROVE Status(n)' = "none"
  <2>1. CASE TurnsKept
    BY <1>g, <1>5, <2>1, Zenon DEF TurnsKept
  <2>2. CASE Passes(t) /\ op[t] = "push"
    <3>1. cnt[t] < L /\ cnt[t] \in Nat /\ Turn(n)
      BY <1>o, <1>5, <2>2, PassedBeforeGap, PushPasses, ZenonT(60)
    <3>2. n # cnt[t] /\ n < CountMod
      BY <1>5, <1>g, <1>t, <3>1, SMTT(30), SMTT(60) DEF NoWrap
    <3>3. Index(n) # At(t)
      BY <1>o, <2>2, <3>1, <3>2, PushPasses, Zenon
    <3> QED
      BY <1>g, <1>o, <1>5, <2>2, <3>1, <3>3, PushPasses, Zenon
  <2>3. CASE Passes(t) /\ op[t] # "push"
    BY <1>g, <1>o, <1>5, <2>3, PopPasses, ZenonT(60)
  <2> QED
    BY <1>3, <2>1, <2>2, <2>3, Zenon
<1>6. last' = last \/ (last' = cnt[t] /\ pc[t] = "close_last")
  BY Zenon DEF Effect, DrawsPush, DrawsPop, Continues, GivesUp, Passes, Closing
<1>7. closed' = "closed" => last' >= L
  <2>1. closed' = closed \/ (pc[t] = "close_flag" /\ last' = last)
    BY Zenon DEF Effect, DrawsPush, DrawsPop, Continues, GivesUp, Passes, Closing
  <2> QED
    BY <1>6, <1>g, <2>1, ZenonT(60)
<1>8. closed' = "open" => \E u \in Threads : pc'[u] \in {"close_last", "close_flag"}
  <2> SUFFICES ASSUME closed' = "open" PROVE \E u \in Threads : pc'[u] \in {"close_last", "close_flag"}
    OBVIOUS
  <2>1. closed = "open"
    BY <1>c, Zenon DEF Effect, DrawsPush, DrawsPop, Continues, GivesUp, Passes, Closing
  <2>2. PICK u \in Threads : pc[u] \in {"close_last", "close_flag"}
    BY <1>g, <2>1, Zenon
  <2>3. CASE u = t
    BY <2>2, <2>3, Zenon DEF Effect, Closing
  <2>4. CASE u # t
    BY <1>o, <2>2, <2>4, ZenonT(60) DEF OthersKeep
  <2> QED
    BY <2>3, <2>4, ZenonT(60)
<1>9. ASSUME NEW u \in Threads
      PROVE  /\ pc'[u] = "close_last" => cnt'[u] >= L
             /\ pc'[u] = "close_flag" => last' >= L
  <2>1. CASE u = t
    <3>1. /\ pc'[t] = "close_last" => cnt'[t] = tail
          /\ pc'[t] = "close_flag" => pc[t] = "close_last" /\ last' = cnt[t]
      BY Zenon DEF Effect, DrawsPush, DrawsPop, Continues, GivesUp, Passes, Closing
    <3> QED
      BY <1>1, <1>g, <2>1, <3>1, ZenonT(60)
  <2>2. CASE u # t
    <3>1. /\ pc'[u] = "close_last" => pc[u] = "close_last" /\ cnt'[u] = cnt[u]
          /\ pc'[u] = "close_flag" => pc[u] = "close_flag"
      BY <1>o, <2>2, Zenon DEF OthersKeep
    <3> QED
      BY <1>6, <1>g, <3>1, Zenon
  <2> QED
    BY <2>1, <2>2, Zenon
<1> QED
  BY <1>1, <1>2, <1>4, <1>5, <1>7, <1>8, <1>9, Zenon DEF GapInv

\* The signed difference orders words that are less than half the range apart.
LEMMA SignedOrder ==
  ASSUME NEW a \in Nat, NEW b \in Nat, a < CountMod \div 2, b < CountMod \div 2
  PROVE  SignedLeqZero(a - b) <=> a <= b
<1>0. CountMod \in Nat \ {0} /\ CountMod \div 2 \in Nat /\ 2 * (CountMod \div 2) <= CountMod
  BY ConstantFacts, SMTT(30), SMTT(60)
<1>1. CASE a <= b
  <2>1. CASE a = b
    <3>1. (a - b) % CountMod = 0
      BY <1>0, <2>1, SMTT(30), SMTT(60)
    <3> QED
      BY Zenon, <2>1, <3>1, <1>1 DEF SignedLeqZero
  <2>2. CASE a < b
    <3>1. (a - b) % CountMod = a - b + CountMod
      <4>1. (a - b + CountMod) \in 0 .. CountMod - 1
        BY <1>0, <2>2, SMTT(30), SMTT(60)
      <4> QED
        BY <1>0, <4>1, SMTT(30), SMTT(60)
    <3> QED
      BY <1>0, <1>1, <2>2, <3>1, SMTT(30), SMTT(60) DEF SignedLeqZero
  <2> QED
    BY <1>1, <2>1, <2>2, SMTT(30), SMTT(60)
<1>2. CASE a > b
  <2>1. (a - b) % CountMod = a - b
    <3>1. (a - b) \in 0 .. CountMod - 1
      BY <1>0, <1>2, SMTT(30), SMTT(60)
    <3> QED
      BY <1>0, <3>1, SMTT(30), SMTT(60)
  <2> QED
    BY <1>0, <1>2, <2>1, SMTT(30), SMTT(60) DEF SignedLeqZero
<1> QED
  BY <1>1, <1>2, SMTT(30), SMTT(60)

\* Who is told "closed" has a ticket from the gap on.
LEMMA ToldPastGap ==
  ASSUME RingInv, NoHalfWrap, Roles, NEW t \in Threads, GivesUp(t), NEW L \in Nat, GapInv(L)
  PROVE  cnt[t] >= L /\ (op[t] # "push" => head >= L)
<1>0. /\ head \in Nat /\ tail \in Nat /\ last \in Nat /\ cnt[t] \in Nat
      /\ head < CountMod \div 2 /\ tail < CountMod \div 2 /\ CountMod \div 2 \in Nat
      /\ last <= tail /\ last >= L
      /\ closed = "closed" /\ SignedLeqZero(last - cnt[t]) /\ pc[t] \in {"past", "try_past"}
  <2>1. closed = "closed" /\ SignedLeqZero(last - cnt[t]) /\ pc[t] \in {"past", "try_past"}
    BY Zenon DEF GivesUp, is_past_last
  <2>2. CountMod \div 2 \in Nat
    BY ConstantFacts, SMTT(30), SMTT(60)
  <2> QED
    BY <2>1, <2>2, Zenon DEF RingInv, TypeInv, TypeOK, NoHalfWrap, Roles, GapInv
<1>1. cnt[t] <= head \/ cnt[t] < tail
  <2>1. CASE pc[t] = "try_past"
    BY <2>1, Zenon DEF Roles, RoleInv
  <2>2. CASE pc[t] = "past" /\ op[t] = "push"
    BY <2>2, Zenon DEF RingInv, LocalInv, PushInv, Pushing, Waiting
  <2>3. CASE pc[t] = "past" /\ op[t] # "push"
    <3>1. cnt[t] < head
      BY <2>3, Zenon DEF RingInv, LocalInv, PcOp, PopInv, Popping, Waiting
    <3> QED
      BY <1>0, <3>1, SMTT(30), SMTT(60)
  <2> QED
    BY <1>0, <2>1, <2>2, <2>3, Zenon
<1>2. cnt[t] < CountMod \div 2 /\ last < CountMod \div 2
  BY <1>0, <1>1, SMTT(30), SMTT(60)
<1>3. last <= cnt[t]
  BY <1>0, <1>2, SignedOrder, Zenon
<1>4. op[t] # "push" => cnt[t] <= head
  <2>1. CASE pc[t] = "try_past"
    BY <2>1, ZenonT(60) DEF Roles, RoleInv
  <2>2. CASE pc[t] = "past" /\ op[t] # "push"
    <3>1. cnt[t] < head
      BY <2>2, Zenon DEF RingInv, LocalInv, PcOp, PopInv, Popping, Waiting
    <3> QED
      BY <1>0, <3>1, SMTT(30), SMTT(60)
  <2> QED
    BY <1>0, <2>1, <2>2, ZenonT(60)
<1> QED
  BY <1>0, <1>3, <1>4, SMTT(30), SMTT(60)

\* After the first close() the head tickets below the gap stay held, and
\* consumers are told "closed" only when all of them were drawn.
LEMMA LeftStep ==
  ASSUME RingInv, RingInv', NoWrap, NoHalfWrap, Roles,
         Consumers \cap Producers = {}, Consumers \cap Closers = {},
         NEW L \in Nat, GapInv(L), LeftInv(L), NEW t \in Threads, Effect(t)
  PROVE  LeftInv(L)'
<1>t. /\ head \in Nat /\ head' \in Nat /\ CountMod \in Nat /\ Size \in Nat
      /\ OthersKeep(t) /\ RoleInv(t) /\ Held(L) /\ Filled(L) /\ tail \in Nat
      /\ \A c \in Consumers : pc[c] = "done" => head >= L
  BY ConstantFacts, Zenon DEF RingInv, TypeInv, TypeOK, Effect, Roles, LeftInv
<1>1. Held(L)'
  <2>1. CASE Passes(t)
    BY <1>t, <2>1, PassedBeforeGap, HeldPassed, Zenon
  <2>2. CASE GivesUp(t)
    <3>1. cnt[t] >= L /\ cnt[t] \in Nat
      BY <2>2, ToldPastGap, Zenon DEF RingInv, TypeInv, TypeOK
    <3>2. ~(cnt[t] < L)
      BY <3>1
    <3>3. TurnsKept /\ head' = head
      BY <2>2, Zenon DEF GivesUp
    <3> QED
      BY <1>t, <3>2, <3>3, HeldKept, ZenonT(60)
  <2>3. CASE ~Passes(t) /\ ~GivesUp(t)
    <3>1. /\ TurnsKept
          /\ head' = head \/ (head' = head + 1 /\ Popping(t)' /\ cnt'[t] = head)
          /\ Popping(t) => Popping(t)' /\ cnt'[t] = cnt[t]
      BY <2>3, Zenon DEF Effect, DrawsPush, DrawsPop, Continues, Closing
    <3> QED
      BY <1>t, <3>1, HeldKept, Zenon
  <2> QED
    BY <2>1, <2>2, <2>3, Zenon
<1>3. Filled(L)'
  <2>1. CASE Passes(t)
    BY <1>t, <2>1, PassedBeforeGap, FilledPassed, Zenon
  <2>2. CASE GivesUp(t)
    <3>1. cnt[t] >= L /\ cnt[t] \in Nat
      BY <2>2, ToldPastGap, Zenon DEF RingInv, TypeInv, TypeOK
    <3>2. ~(cnt[t] < L)
      BY <3>1
    <3>3. TurnsKept /\ tail' = tail
      BY <2>2, Zenon DEF GivesUp
    <3> QED
      BY <1>t, <3>2, <3>3, FilledKept, Zenon
  <2>3. CASE ~Passes(t) /\ ~GivesUp(t)
    <3>1. TurnsKept /\ (Pushing(t) => Pushing(t)' /\ cnt'[t] = cnt[t])
      BY <2>3, Zenon DEF Effect, DrawsPush, DrawsPop, Continues, Closing
    <3>2. L <= tail
      BY <1>t, SMTT(30), SMTT(60) DEF GapInv
    <3> QED
      BY <1>t, <3>1, <3>2, FilledKept, Zenon
  <2> QED
    BY <2>1, <2>2, <2>3, Zenon
<1>2. ASSUME NEW c \in Consumers, pc'[c] = "done" PROVE head' >= L
  <2>1. c \in Threads /\ c \notin Producers /\ c \notin Closers
    BY Zenon DEF Threads
  <2>2. head >= L
    <3>1. CASE c # t
      BY <1>t, <1>2, <2>1, <3>1, Zenon DEF OthersKeep
    <3>2. CASE c = t
      <4>1. op[t] # "push" /\ op[t] # "close"
        BY <1>t, <2>1, <3>2, Zenon DEF RoleInv
      <4>2. GivesUp(t)
        BY <1>2, <3>2, <4>1, Zenon
        DEF Effect, DrawsPush, DrawsPop, Continues, Passes, Closing
      <4> QED
        BY <4>1, <4>2, ToldPastGap, Zenon
    <3> QED
      BY <3>1, <3>2, Zenon
  <2>3. head' = head \/ head' = head + 1
    BY Zenon DEF Effect, DrawsPush, DrawsPop, Continues, GivesUp, Passes, Closing
  <2> QED
    BY <1>t, <2>2, <2>3, SMTT(30), SMTT(60)
<1> QED
  BY <1>1, <1>2, <1>3, Zenon DEF LeftInv

-----------------------------------------------------------------------------
(* Every action has one of the effects                                     *)

\* A step that leaves tickets and statuses of slots alone
LEMMA KeepTurns ==
  ASSUME \A s \in Slots : /\ slot'[s].ticket = slot[s].ticket
                          /\ slot'[s].status = slot[s].status
  PROVE  TurnsKept
  BY IndexType, Zenon DEF TurnsKept, Turn, Status

\* A step of t that holds a ticket neither before nor after it
LEMMA IdleEffect ==
  ASSUME NEW t \in Threads, OthersKeep(t), UNCHANGED <<head, tail, closed, last>>,
         \A s \in Slots : /\ slot'[s].ticket = slot[s].ticket
                          /\ slot'[s].status = slot[s].status,
         pc[t] \notin Waiting \cup {"put", "get", "skip", "wake", "close_last", "close_flag"},
         pc'[t] \in {"idle", "take", "signal", "try_load", "try_past", "try_cas",
                     "close_tail", "close_slot"}
  PROVE  Effect(t)
<1>1. TurnsKept
  BY KeepTurns, Zenon
<1>2. ~Pushing(t) /\ ~Popping(t) /\ ~Pushing(t)' /\ ~Popping(t)'
  BY Zenon DEF Pushing, Popping, Waiting
<1>3. Continues(t)
  BY <1>1, <1>2, Zenon DEF Continues
<1> QED
  BY <1>3, Zenon DEF Effect

\* A step of t that holds its ticket before and after it
LEMMA HoldEffect ==
  ASSUME NEW t \in Threads, OthersKeep(t), UNCHANGED <<head, tail, closed, last>>,
         \A s \in Slots : /\ slot'[s].ticket = slot[s].ticket
                          /\ slot'[s].status = slot[s].status,
         \/ Pushing(t) /\ Pushing(t)'
         \/ Popping(t) /\ Popping(t)',
         cnt'[t] = cnt[t]
  PROVE  Effect(t)
<1>1. TurnsKept
  BY KeepTurns, Zenon
<1>2. /\ ~(Pushing(t) /\ Popping(t)) /\ ~(Pushing(t)' /\ Popping(t)')
      /\ pc[t] \notin {"close_last", "close_flag"}
      /\ pc'[t] \notin {"done", "close_last", "close_flag"}
  BY Zenon DEF Pushing, Popping, Waiting
<1>3. Continues(t)
  BY <1>1, <1>2, Zenon DEF Continues
<1> QED
  BY <1>2, <1>3, Zenon DEF Effect

\* A round of wait_tail() or wait_head(): t keeps its ticket.
LEMMA ExamineEffect ==
  ASSUME RingInv, NEW t \in Threads, RoleInv(t), pc[t] \in {"load", "wait"},
         Examine(t, slot[At(t)]), UNCHANGED <<ring, mem, cnt>>
  PROVE  Effect(t) /\ RoleInv(t)'
<1>1. /\ cnt[t] \in Nat /\ slot[At(t)] \in Tokens /\ TypeInv
      /\ pc \in [Threads -> Labels] /\ op \in [Threads -> Ops]
  BY IndexType, Zenon DEF At, RingInv, TypeInv, TypeOK
<1>2. /\ \A u \in Threads : u # t => pc'[u] = pc[u] /\ op'[u] = op[u] /\ tok'[u] = tok[u]
      /\ pc'[t] \in {"past", "put", "get", "skip"}
      /\ cnt' = cnt /\ slot' = slot /\ head' = head /\ tail' = tail /\ closed' = closed /\ last' = last
  BY <1>1, ExamineType, Zenon DEF ring, mem
<1>3. OthersKeep(t)
  BY <1>2, Zenon DEF OthersKeep
<1>4. op[t] \in {"push", "pop", "fill"}
  BY Zenon DEF RingInv, LocalInv, PcOp, Waiting
<1>5. /\ op'[t] = op[t] \/ (op[t] = "pop" /\ op'[t] = "fill")
      /\ op[t] = "push" => pc'[t] \in {"past", "put"}
      /\ op[t] # "push" => pc'[t] \in {"past", "get", "skip"}
  BY <1>1, Zenon DEF Examine, Goto
<1>6. \/ Pushing(t) /\ Pushing(t)'
      \/ Popping(t) /\ Popping(t)'
  BY <1>4, <1>5, Zenon DEF Pushing, Popping, Waiting
<1>7. RoleInv(t)'
  BY <1>2, <1>5, Zenon DEF RoleInv, Releasing
<1> QED
  BY <1>2, <1>3, <1>6, <1>7, HoldEffect, ZenonT(60)

\* What a thread knows of its role it goes on to know.
LEMMA RolesKept ==
  ASSUME RingInv, RingInv', Roles, NEW t \in Threads, Effect(t), RoleInv(t)'
  PROVE  Roles'
<1>t. /\ head \in Nat /\ head' \in Nat /\ tail \in Nat /\ tail' \in Nat /\ last \in Nat
      /\ cnt \in [Threads -> Nat] /\ Size \in Nat
  BY ConstantFacts, Zenon DEF RingInv, TypeInv, TypeOK
<1>1. head' \in {head, head + 1} /\ tail' \in {tail, tail + 1, tail + Size}
  BY Zenon DEF Effect, DrawsPush, DrawsPop, Continues, GivesUp, Passes, Closing
<1>2. last' = last \/ (last' = cnt[t] /\ cnt[t] <= tail)
  BY Zenon DEF Effect, DrawsPush, DrawsPop, Continues, GivesUp, Passes, Closing, Roles, RoleInv
<1>3. last' <= tail'
  BY <1>t, <1>1, <1>2, SMTT(30), SMTT(60) DEF Roles
<1>4. \A n \in Nat : (n <= head => n <= head') /\ (n <= tail => n <= tail')
  BY <1>t, <1>1, SMTT(30), SMTT(60)
<1>5. ASSUME NEW u \in Threads \ {t} PROVE RoleInv(u)'
  <2>1. /\ op'[u] = op[u] /\ cnt'[u] = cnt[u] /\ tok'[u] = tok[u] /\ cnt[u] \in Nat
        /\ pc'[u] = pc[u] \/ (pc[u] = "asleep" /\ pc'[u] = "load")
    BY <1>t, Zenon DEF Effect, OthersKeep
  <2>2. (Pushing(u)' <=> Pushing(u)) /\ (Releasing(u)' <=> Releasing(u))
    BY OthersRoles, Zenon DEF Effect
  <2>3. RoleInv(u)
    BY Zenon DEF Roles
  <2> QED
    BY <1>4, <2>1, <2>2, <2>3, Zenon DEF RoleInv
<1> QED
  BY <1>3, <1>5, Zenon DEF Roles

\* Every action draws a ticket, keeps it, gives it up or passes its slot on,
\* or is one of the accesses of close().
LEMMA StepEffect ==
  ASSUME RingInv, RingInv', NoWrap, Roles, NEW t \in Threads, Acts(t)
  PROVE  Effect(t) /\ Roles'
<1>1. wait_push(t) \/ wait_pop(t) \/ try_pop(t) \/ CloseCas(t) \/ Step(t) \/ Interrupted(t)
  BY Zenon DEF Acts
<1> SUFFICES Effect(t) /\ RoleInv(t)'
  BY RolesKept, Zenon
<1>t. /\ head \in Nat /\ tail \in Nat /\ cnt[t] \in Nat /\ closed \in {"open", "closed"}
      /\ At(t) \in Slots /\ slot[At(t)] \in Tokens /\ slot \in [Slots -> Tokens]
      /\ pc \in [Threads -> Labels] /\ op \in [Threads -> Ops]
      /\ cnt \in [Threads -> Nat] /\ tok \in [Threads -> Tokens]
      /\ idx \in [Threads -> 0 .. Size]
  BY IndexType, Zenon DEF RingInv, TypeInv, TypeOK, At
<1>l. PcOp(t) /\ PushInv(t) /\ PopInv(t) /\ TryInv(t) /\ RoleInv(t)
  BY Zenon DEF RingInv, LocalInv, Roles
<1>s. slot' = slot => \A s \in Slots : /\ slot'[s].ticket = slot[s].ticket
                                       /\ slot'[s].status = slot[s].status
  BY Zenon
<1>2. CASE wait_push(t)
  <2>1. OthersKeep(t)
    BY <1>2, <1>t, Zenon DEF wait_push, Goto, OthersKeep
  <2>2. /\ pc'[t] = "load" /\ op'[t] = "push" /\ cnt'[t] = tail /\ tail' = tail + 1
        /\ head' = head /\ closed' = closed /\ last' = last /\ slot' = slot
        /\ pc[t] = "idle" /\ t \in Producers
    BY <1>2, <1>t, Zenon DEF wait_push, Goto, mem
  <2>3. TurnsKept
    BY <1>s, <2>2, KeepTurns, Zenon
  <2>4. ~Pushing(t) /\ ~Popping(t) /\ Pushing(t)' /\ ~Popping(t)'
    BY <2>2, Zenon DEF Pushing, Popping, Waiting
  <2>5. DrawsPush(t)
    BY <2>2, <2>3, <2>4, Zenon DEF DrawsPush
  <2>6. RoleInv(t)'
    BY <2>2, Zenon DEF RoleInv, Releasing
  <2> QED
    BY <2>1, <2>2, <2>5, <2>6, Zenon DEF Effect
<1>3. CASE wait_pop(t)
  <2>1. OthersKeep(t)
    BY <1>3, <1>t, Zenon DEF wait_pop, Goto, OthersKeep
  <2>2. /\ pc'[t] = "load" /\ op'[t] = "pop" /\ cnt'[t] = head /\ head' = head + 1
        /\ tail' = tail /\ closed' = closed /\ last' = last /\ slot' = slot
        /\ pc[t] \in {"idle", "take"} /\ (pc[t] = "idle" => t \in Consumers)
    BY <1>3, <1>t, Zenon DEF wait_pop, Goto, mem
  <2>3. TurnsKept
    BY <1>s, <2>2, KeepTurns, Zenon
  <2>4. ~Pushing(t) /\ ~Popping(t) /\ Popping(t)' /\ ~Pushing(t)'
    BY <2>2, Zenon DEF Pushing, Popping, Waiting
  <2>5. DrawsPop(t)
    BY <2>2, <2>3, <2>4, Zenon DEF DrawsPop
  <2>6. RoleInv(t)'
    BY <1>l, <2>2, <2>4, Zenon DEF RoleInv, Releasing
  <2> QED
    BY <2>1, <2>2, <2>5, <2>6, Zenon DEF Effect
<1>4. CASE try_pop(t)
  <2>1. OthersKeep(t)
    BY <1>4, <1>t, Zenon DEF try_pop, Goto, OthersKeep
  <2>2. /\ pc[t] = "idle" /\ pc'[t] = "try_load" /\ op'[t] = "try_pop" /\ slot' = slot
        /\ UNCHANGED <<head, tail, closed, last>>
    BY <1>4, <1>t, Zenon DEF try_pop, Goto, ring, mem
  <2>3. RoleInv(t)'
    BY <2>2, Zenon DEF RoleInv, Releasing
  <2> QED
    BY <1>s, <2>1, <2>2, <2>3, IdleEffect, Zenon DEF Waiting
<1>5. CASE CloseCas(t)
  <2>1. OthersKeep(t)
    BY <1>5, <1>t, Zenon DEF CloseCas, Goto, OthersKeep
  <2>2. /\ pc[t] = "idle" /\ pc'[t] = "close_tail" /\ op'[t] = "close" /\ slot' = slot
        /\ UNCHANGED <<head, tail, closed, last>> /\ t \in Closers
    BY <1>5, <1>t, Zenon DEF CloseCas, Goto, mem
  <2>3. RoleInv(t)'
    BY <2>2, Zenon DEF RoleInv, Releasing
  <2> QED
    BY <1>s, <2>1, <2>2, <2>3, IdleEffect, Zenon DEF Waiting
<1>6. ASSUME OthersKeep(t), UNCHANGED <<head, tail, closed, last>>, op'[t] = op[t], cnt'[t] = cnt[t],
             \A s \in Slots : /\ slot'[s].ticket = slot[s].ticket
                              /\ slot'[s].status = slot[s].status,
             pc[t] \in Waiting, pc'[t] \in Waiting
      PROVE  Effect(t) /\ RoleInv(t)'
  <2>1. \/ Pushing(t) /\ Pushing(t)'
        \/ Popping(t) /\ Popping(t)'
    BY <1>6, <1>l, Zenon DEF PcOp, Pushing, Popping
  <2>2. pc'[t] \notin {"take", "try_past", "close_last", "wake"}
    BY <1>6, Zenon DEF Waiting
  <2>3. RoleInv(t)'
    BY <1>6, <1>l, <2>2, Zenon DEF RoleInv, Releasing
  <2> QED
    BY <1>6, <2>1, <2>3, HoldEffect, Zenon
<1>7. CASE Interrupted(t)
  <2>1. OthersKeep(t)
    BY <1>7, <1>t, Zenon DEF Interrupted, Goto, OthersKeep
  <2>2. /\ pc[t] \in Waiting /\ pc'[t] \in Waiting /\ slot' = slot
        /\ UNCHANGED <<head, tail, closed, last>> /\ op'[t] = op[t] /\ cnt'[t] = cnt[t]
    BY <1>7, <1>t, Zenon DEF Interrupted, Goto, ring, mem, Waiting
  <2> QED
    BY <1>6, <1>s, <2>1, <2>2, Zenon
<1>8. CASE Load(t)
  BY <1>8, <1>l, ExamineEffect, Zenon DEF Load
<1>9. CASE Past(t)
  <2>1. CASE is_past_last(cnt[t])
    <3>1. OthersKeep(t)
      BY <1>9, <1>t, <2>1, Zenon DEF Past, Return, Forget, Goto, OthersKeep
    <3>2. /\ pc[t] = "past" /\ pc'[t] = "done" /\ op'[t] = "none" /\ slot' = slot
          /\ UNCHANGED <<head, tail, closed, last>>
      BY <1>9, <1>t, <2>1, Zenon DEF Past, Return, Forget, Goto, ring, mem
    <3>3. TurnsKept
      BY <1>s, <3>2, KeepTurns, ZenonT(60)
    <3>4. GivesUp(t) /\ RoleInv(t)'
      BY <2>1, <3>2, <3>3, ZenonT(60) DEF GivesUp, RoleInv, Pushing, Popping, Releasing, Waiting
    <3> QED
      BY <3>1, <3>2, <3>4, Zenon DEF Effect
  <2>2. CASE ~is_past_last(cnt[t])
    <3>1. OthersKeep(t)
      BY <1>9, <1>t, <2>2, Zenon DEF Past, Goto, OthersKeep
    <3>2. /\ pc[t] \in Waiting /\ pc'[t] \in Waiting /\ slot' = slot
          /\ UNCHANGED <<head, tail, closed, last>> /\ op'[t] = op[t] /\ cnt'[t] = cnt[t]
      BY <1>9, <1>t, <2>2, Zenon DEF Past, Goto, ring, mem, Waiting
    <3> QED
      BY <1>6, <1>s, <3>1, <3>2, Zenon
  <2> QED
    BY <2>1, <2>2, Zenon
<1>10. CASE Backoff(t)
  BY <1>10, <1>l, ExamineEffect, Zenon DEF Backoff
<1>11. CASE SpinWait(t)
  BY <1>11, <1>l, ExamineEffect, Zenon DEF SpinWait
<1>12. CASE FutexMark(t)
  <2> DEFINE x == WithWaiting(tok[t])
  <2>1. CASE slot[At(t)] \in {tok[t], x}
    <3>1. x.ticket = tok[t].ticket /\ x.status = tok[t].status
      BY <1>t DEF WithWaiting, Tokens
    <3>2. OthersKeep(t)
      BY <1>12, <1>t, <2>1, Zenon DEF FutexMark, Goto, OthersKeep
    <3>3. /\ pc[t] \in Waiting /\ pc'[t] \in Waiting
          /\ slot' = [slot EXCEPT ![At(t)] = x]
          /\ UNCHANGED <<head, tail, closed, last>> /\ op'[t] = op[t] /\ cnt'[t] = cnt[t]
      BY <1>12, <1>t, <2>1, ZenonT(60) DEF FutexMark, Goto, ring, Waiting
    <3>4. \A s \in Slots : /\ slot'[s].ticket = slot[s].ticket
                           /\ slot'[s].status = slot[s].status
      BY <1>t, <2>1, <3>1, <3>3, Zenon
    <3> QED
      BY <1>6, <3>2, <3>3, <3>4, Zenon
  <2>2. CASE slot[At(t)] \notin {tok[t], x}
    BY <1>12, <1>l, <2>2, ExamineEffect, Zenon DEF FutexMark, mem
  <2> QED
    BY <2>1, <2>2, Zenon
<1>13. CASE FutexSleep(t)
  <2>1. OthersKeep(t)
    BY <1>13, <1>t, Zenon DEF FutexSleep, Goto, OthersKeep
  <2>2. /\ pc[t] \in Waiting /\ pc'[t] \in Waiting /\ slot' = slot
        /\ UNCHANGED <<head, tail, closed, last>> /\ op'[t] = op[t] /\ cnt'[t] = cnt[t]
    BY <1>13, <1>t, Zenon DEF FutexSleep, Goto, ring, mem, Waiting
  <2> QED
    BY <1>6, <1>s, <2>1, <2>2, Zenon
<1>14. CASE SynchWait(t)
  <2>1. CASE slot[At(t)] = tok[t]
    <3>1. OthersKeep(t)
      BY <1>14, <1>t, <2>1, Zenon DEF SynchWait, Goto, OthersKeep
    <3>2. /\ pc[t] \in Waiting /\ pc'[t] \in Waiting /\ slot' = slot
          /\ UNCHANGED <<head, tail, closed, last>> /\ op'[t] = op[t] /\ cnt'[t] = cnt[t]
      BY <1>14, <1>t, <2>1, Zenon DEF SynchWait, Goto, ring, mem, Waiting
    <3> QED
      BY <1>6, <1>s, <3>1, <3>2, Zenon
  <2>2. CASE slot[At(t)] # tok[t]
    BY <1>14, <1>l, <2>2, ExamineEffect, Zenon DEF SynchWait
  <2> QED
    BY <2>1, <2>2, Zenon
<1>15. CASE Wake(t)
  <2>1. OthersKeep(t)
    BY <1>15, <1>t, ZenonT(60) DEF Wake, Goto, GotoWaking, Settle, Forget, Sleepers, OthersKeep
  <2>2. op[t] # "close"
    BY <1>15, <1>l, Zenon DEF Wake, PcOp
  <2>3. /\ pc[t] = "wake" /\ slot' = [slot EXCEPT ![At(t)] = tok[t]]
        /\ UNCHANGED <<head, tail, closed, last>>
        /\ \/ pc'[t] = "signal" /\ op'[t] = op[t]
           \/ pc'[t] = "take" /\ op'[t] = op[t] /\ op[t] = "again"
           \/ pc'[t] = "idle" /\ op'[t] = "none"
    BY <1>15, <1>t, <2>2, ZenonT(60) DEF Wake, Goto, GotoWaking, Resume, Settle, Forget, ring
  <2>4. Passes(t)
    BY <2>3, Zenon DEF Passes, Pushing, Popping, Waiting
  <2>5. RoleInv(t)'
    BY <1>l, <2>3, Zenon DEF RoleInv, Releasing
  <2> QED
    BY <2>1, <2>3, <2>4, <2>5, Zenon DEF Effect
<1>16. CASE Signal(t)
  <2>1. OthersKeep(t)
    BY <1>16, <1>t, ZenonT(60) DEF Signal, GotoWaking, Settle, Forget, Sleepers, OthersKeep
  <2>2. /\ pc[t] = "signal" /\ slot' = slot /\ UNCHANGED <<head, tail, closed, last>>
        /\ \/ pc'[t] = "take" /\ op'[t] = op[t] /\ op[t] = "again"
           \/ pc'[t] = "close_slot" /\ op'[t] = op[t]
           \/ pc'[t] = "done" /\ op'[t] = "none" /\ op[t] = "close"
           \/ pc'[t] = "idle" /\ op'[t] = "none"
    BY <1>16, <1>t, ZenonT(60) DEF Signal, GotoWaking, Resume, Settle, Forget, ring, mem
  <2>3. RoleInv(t)'
    BY <1>l, <2>2, Zenon DEF RoleInv, Releasing
  <2>4. CASE pc'[t] = "done"
    <3>1. TurnsKept
      BY <1>s, <2>2, KeepTurns, Zenon
    <3>2. Closing(t)
      BY <2>2, <2>4, <3>1, Zenon DEF Closing, Pushing, Popping, Waiting
    <3> QED
      BY <2>1, <2>3, <3>2, Zenon DEF Effect
  <2>5. CASE pc'[t] # "done"
    BY <1>s, <2>1, <2>2, <2>3, <2>5, IdleEffect, ZenonT(60) DEF Waiting
  <2> QED
    BY <2>4, <2>5, Zenon
<1>17. CASE put_value(t)
  <2>1. OthersKeep(t)
    BY <1>17, <1>t, Zenon DEF put_value, Goto, OthersKeep
  <2>2. /\ pc[t] = "put" /\ pc'[t] = "wake" /\ slot' = slot
        /\ UNCHANGED <<head, tail, closed, last>> /\ op'[t] = op[t] /\ cnt'[t] = cnt[t]
    BY <1>17, <1>t, Zenon DEF put_value, Goto, ring
  <2>6. tok'[t].status # "none"
    <3>1. CASE tok' = [tok EXCEPT ![t] = Token(Ticket(cnt[t]), "valid")]
      <4>1. tok'[t] = Token(Ticket(cnt[t]), "valid")
        BY <1>t, <3>1, Zenon
      <4> QED
        BY <4>1 DEF Token
    <3>2. CASE tok' = [tok EXCEPT ![t] = Token(Ticket(cnt[t]), "invalid")]
      <4>1. tok'[t] = Token(Ticket(cnt[t]), "invalid")
        BY <1>t, <3>2, Zenon
      <4> QED
        BY <4>1 DEF Token
    <3> QED
      BY <1>17, <3>1, <3>2, Zenon DEF put_value
  <2>3. op[t] = "push"
    BY <1>l, <2>2, Zenon DEF PcOp
  <2>4. Pushing(t) /\ Pushing(t)'
    BY <2>2, <2>3, Zenon DEF Pushing
  <2>5. RoleInv(t)'
    BY <1>l, <2>2, <2>3, <2>6, Zenon DEF RoleInv, Releasing
  <2> QED
    BY <1>s, <2>1, <2>2, <2>4, <2>5, HoldEffect, ZenonT(60)
<1>18. CASE get_value(t)
  <2>1. OthersKeep(t)
    BY <1>18, <1>t, Zenon DEF get_value, Goto, OthersKeep
  <2>2. /\ pc[t] = "get" /\ pc'[t] = "wake" /\ slot' = slot
        /\ UNCHANGED <<head, tail, closed, last>> /\ op'[t] = op[t] /\ cnt'[t] = cnt[t]
        /\ tok'[t] = NextLap(cnt[t])
    BY <1>18, <1>t, Zenon DEF get_value, Goto, ring
  <2>3. op[t] # "push"
    BY <1>l, <2>2, Zenon DEF PcOp
  <2>4. Popping(t) /\ Popping(t)' /\ ~Pushing(t)'
    BY <2>2, <2>3, Zenon DEF Popping, Pushing
  <2>5. RoleInv(t)'
    BY <1>l, <2>2, <2>4, Zenon DEF RoleInv
  <2> QED
    BY <1>s, <2>1, <2>2, <2>4, <2>5, HoldEffect, Zenon
<1>19. CASE Skip(t)
  <2>1. OthersKeep(t)
    BY <1>19, <1>t, Zenon DEF Skip, Goto, OthersKeep
  <2>2. /\ pc[t] = "skip" /\ pc'[t] = "wake" /\ slot' = slot
        /\ UNCHANGED <<head, tail, closed, last>> /\ cnt'[t] = cnt[t]
        /\ op'[t] = op[t] \/ (op[t] = "fill" /\ op'[t] = "again")
        /\ tok'[t] = NextLap(cnt[t])
    BY <1>19, <1>t, Zenon DEF Skip, Goto, ring, mem
  <2>3. op[t] # "push" /\ op'[t] # "push"
    BY <1>l, <2>2, Zenon DEF PcOp
  <2>4. Popping(t) /\ Popping(t)' /\ ~Pushing(t)'
    BY <2>2, <2>3, Zenon DEF Popping, Pushing
  <2>5. RoleInv(t)'
    BY <1>l, <2>2, <2>4, Zenon DEF RoleInv
  <2> QED
    BY <1>s, <2>1, <2>2, <2>4, <2>5, HoldEffect, Zenon
<1>20. CASE TryLoad(t)
  <2>1. OthersKeep(t)
    BY <1>20, <1>t, Zenon DEF TryLoad, Goto, OthersKeep
  <2>2. /\ pc[t] = "try_load" /\ pc'[t] \in {"try_cas", "try_past"} /\ slot' = slot
        /\ UNCHANGED <<head, tail, closed, last>> /\ op'[t] = op[t] /\ cnt'[t] = cnt[t]
    BY <1>20, <1>t, Zenon DEF TryLoad, Goto, ring, mem
  <2>3. op[t] = "try_pop" /\ cnt[t] <= head
    BY <1>l, <2>2, Zenon DEF PcOp, TryInv
  <2>4. RoleInv(t)'
    BY <2>2, <2>3, Zenon DEF RoleInv, Releasing
  <2> QED
    BY <1>s, <2>1, <2>2, <2>4, IdleEffect, Zenon DEF Waiting
<1>21. CASE TryPast(t)
  <2>1. OthersKeep(t)
    BY <1>21, <1>t, Zenon DEF TryPast, Return, Forget, Goto, OthersKeep
  <2>2. /\ pc[t] = "try_past" /\ slot' = slot /\ op'[t] = "none"
        /\ UNCHANGED <<head, tail, closed, last>>
        /\ \/ pc'[t] = "done" /\ is_past_last(cnt[t])
           \/ pc'[t] = "idle"
    BY <1>21, <1>t, Zenon DEF TryPast, Return, Forget, Goto, ring, mem
  <2>3. RoleInv(t)'
    BY <2>2, Zenon DEF RoleInv, Pushing, Releasing
  <2>4. CASE pc'[t] = "done"
    <3>1. TurnsKept
      BY <1>s, <2>2, KeepTurns, Zenon
    <3>2. GivesUp(t)
      BY <2>2, <2>4, <3>1, Zenon DEF GivesUp, Pushing, Popping, Waiting
    <3> QED
      BY <2>1, <2>2, <2>3, <3>2, Zenon DEF Effect
  <2>5. CASE pc'[t] = "idle"
    BY <1>s, <2>1, <2>2, <2>3, <2>5, IdleEffect, ZenonT(60) DEF Waiting
  <2> QED
    BY <2>2, <2>4, <2>5, Zenon
<1>22. CASE TryCas(t)
  <2>1. OthersKeep(t)
    BY <1>22, <1>t, ZenonT(60) DEF TryCas, Return, Forget, Goto, OthersKeep
  <2>2. op[t] = "try_pop" /\ pc[t] = "try_cas"
    BY <1>22, <1>l, Zenon DEF TryCas, PcOp
  <2>3. CASE head % CountMod = cnt[t] % CountMod
    <3>1. /\ head' = head + 1 /\ cnt'[t] = head /\ op'[t] = "try_pop"
          /\ tail' = tail /\ closed' = closed /\ last' = last /\ slot' = slot
          /\ pc'[t] \in {"get", "skip"}
      BY <1>22, <1>t, <2>2, <2>3, ZenonT(60) DEF TryCas, Goto, mem
    <3>2. TurnsKept
      BY <1>s, <3>1, KeepTurns, Zenon
    <3>3. ~Pushing(t) /\ ~Popping(t) /\ Popping(t)' /\ ~Pushing(t)'
      BY <2>2, <3>1, Zenon DEF Pushing, Popping, Waiting
    <3>4. DrawsPop(t)
      BY <3>1, <3>2, <3>3, Zenon DEF DrawsPop
    <3>5. RoleInv(t)'
      BY <3>1, Zenon DEF RoleInv, Releasing
    <3> QED
      BY <2>1, <2>2, <3>4, <3>5, ZenonT(60) DEF Effect
  <2>4. CASE head % CountMod # cnt[t] % CountMod
    <3>1. /\ UNCHANGED <<head, tail, closed, last>> /\ slot' = slot
          /\ pc'[t] = "idle" /\ op'[t] = "none"
      BY <1>22, <1>t, <2>4, Zenon DEF TryCas, Return, Forget, Goto, mem
    <3>2. RoleInv(t)'
      BY <3>1, Zenon DEF RoleInv, Pushing, Releasing
    <3> QED
      BY <1>s, <2>1, <2>2, <3>1, <3>2, IdleEffect, Zenon DEF Waiting
  <2> QED
    BY <2>3, <2>4, Zenon
<1>23. ASSUME OthersKeep(t), slot' = slot, head' = head, op[t] = "close", op'[t] = "close",
              \/ /\ pc[t] = "close_tail" /\ pc'[t] = "close_last" /\ cnt'[t] = tail
                 /\ tail' = tail + Size /\ UNCHANGED <<closed, last>>
              \/ /\ pc[t] = "close_last" /\ pc'[t] = "close_flag"
                 /\ last' = cnt[t] /\ UNCHANGED <<tail, closed>>
              \/ /\ pc[t] = "close_flag" /\ pc'[t] = "close_slot"
                 /\ closed' = "closed" /\ UNCHANGED <<tail, last>>
       PROVE  Effect(t) /\ RoleInv(t)'
  <2>1. TurnsKept
    BY <1>s, <1>23, KeepTurns, Zenon
  <2>2. ~Pushing(t) /\ ~Popping(t) /\ ~Pushing(t)' /\ ~Popping(t)'
    BY <1>23, Zenon DEF Pushing, Popping, Waiting
  <2>3. Closing(t)
    BY <1>23, <2>1, <2>2, Zenon DEF Closing
  <2>4. tail <= tail + Size
    BY <1>t, ConstantFacts, SMTT(30), SMTT(60)
  <2>5. RoleInv(t)'
    BY <1>l, <1>23, <2>2, <2>4, Zenon DEF RoleInv, Releasing
  <2> QED
    BY <1>23, <2>3, <2>5, Zenon DEF Effect
<1>c. pc[t] \in {"close_tail", "close_last", "close_flag", "close_slot"} => op[t] = "close"
  BY Zenon DEF RingInv, TypeInv, IdxOK
<1>24. CASE CloseTail(t)
  <2>1. OthersKeep(t)
    BY <1>24, <1>t, Zenon DEF CloseTail, Goto, OthersKeep
  <2> QED
    BY <1>c, <1>t, <1>23, <1>24, <2>1, Zenon DEF CloseTail, Goto, mem
<1>25. CASE CloseLast(t)
  <2>1. OthersKeep(t)
    BY <1>25, <1>t, Zenon DEF CloseLast, Goto, OthersKeep
  <2> QED
    BY <1>c, <1>t, <1>23, <1>25, <2>1, Zenon DEF CloseLast, Goto, mem
<1>26. CASE CloseFlag(t)
  <2>1. OthersKeep(t)
    BY <1>26, <1>t, Zenon DEF CloseFlag, Goto, OthersKeep
  <2> QED
    BY <1>c, <1>t, <1>23, <1>26, <2>1, Zenon DEF CloseFlag, Goto, mem
<1>27. CASE CloseSlot(t)
  <2>1. OthersKeep(t)
    BY <1>27, <1>t, SMTT(30), ZenonT(60) DEF CloseSlot, Goto, GotoWaking, Forget, Sleepers, OthersKeep
  <2>2. /\ pc[t] = "close_slot" /\ op[t] = "close" /\ UNCHANGED <<head, tail, closed, last>>
        /\ \/ pc'[t] \in {"signal", "close_slot"} /\ op'[t] = op[t]
           \/ pc'[t] = "done" /\ op'[t] = "none"
    BY <1>27, <1>c, <1>t, ZenonT(60) DEF CloseSlot, Goto, GotoWaking, Forget, ring
  <2>3. \A s \in Slots : /\ slot'[s].ticket = slot[s].ticket
                         /\ slot'[s].status = slot[s].status
    BY <1>27, <1>t, IndexType, ZenonT(60) DEF CloseSlot, Tokens
  <2>4. RoleInv(t)'
    BY <1>l, <2>2, Zenon DEF RoleInv, Releasing
  <2>5. CASE pc'[t] = "done"
    <3>1. Closing(t)
      BY <2>2, <2>3, <2>5, KeepTurns, Zenon DEF Closing, Pushing, Popping, Waiting
    <3> QED
      BY <2>1, <2>4, <3>1, Zenon DEF Effect
  <2>6. CASE pc'[t] # "done"
    BY <2>1, <2>2, <2>3, <2>4, <2>6, IdleEffect, Zenon DEF Waiting
  <2> QED
    BY <2>5, <2>6, Zenon
<1> QED
  BY <1>1, <1>2, <1>3, <1>4, <1>5, <1>7, <1>8, <1>9, <1>10, <1>11, <1>12, <1>13, <1>14, <1>15,
     <1>16, <1>17, <1>18, <1>19, <1>20, <1>21, <1>22, <1>24, <1>25, <1>26, <1>27, Zenon
  DEF Step

-----------------------------------------------------------------------------
(* Whole behaviours                                                        *)

\* The constructor: every slot is empty at the turn of its first ticket.
LEMMA InitEnd == Init => Roles /\ OpenInv /\ \A t \in Threads : pc[t] = "idle"
<1> SUFFICES ASSUME Init PROVE Roles /\ OpenInv /\ \A t \in Threads : pc[t] = "idle"
  OBVIOUS
<1>1. /\ head = 0 /\ tail = 0 /\ last = 0 /\ closed = "open"
      /\ \A t \in Threads : pc[t] = "idle" /\ op[t] = "none"
      /\ \A s \in Slots : slot[s].ticket = Ticket(s)
  BY Zenon DEF Init, Token
<1>2. Roles
  <2>1. last <= tail
    BY <1>1
  <2> QED
    BY <1>1, <2>1, Zenon DEF Roles, RoleInv, Pushing, Releasing
<1>3. ASSUME NEW s \in Slots PROVE Lag(tail, s)
  <2>1. s \in Nat /\ Index(s) = s /\ s < tail + Size /\ s < head + Size
    BY <1>1, ConstantFacts DEF Slots, Index
  <2>2. Turn(s)
    BY <1>1, <2>1, Zenon DEF Turn
  <2> QED
    BY <2>1, <2>2, Zenon DEF Lag
<1>4. \A n \in Nat : ~(n < head) /\ ~(n < tail)
  BY <1>1
<1> QED
  BY <1>1, <1>2, <1>3, <1>4, Zenon DEF OpenInv, Held, Filled

\* A stuttering step
LEMMA StutterEnd ==
  ASSUME UNCHANGED vars
  PROVE  /\ Roles <=> Roles'
         /\ OpenInv <=> OpenInv'
         /\ \A L \in Nat : (GapInv(L) <=> GapInv(L)') /\ (LeftInv(L) <=> LeftInv(L)')
<1>1. /\ head' = head /\ tail' = tail /\ closed' = closed /\ last' = last /\ slot' = slot
      /\ pc' = pc /\ op' = op /\ cnt' = cnt /\ tok' = tok
  BY Zenon DEF vars
<1>2. /\ \A n : (Turn(n)' <=> Turn(n)) /\ Status(n)' = Status(n)
      /\ \A t : (Pushing(t)' <=> Pushing(t)) /\ (Popping(t)' <=> Popping(t))
      /\ \A t : Releasing(t)' <=> Releasing(t)
  BY <1>1, Zenon DEF Turn, Status, Pushing, Popping, Releasing
<1>3. Roles <=> Roles'
  BY <1>1, <1>2, Zenon DEF Roles, RoleInv
<1>4. \A L, s : Lag(L, s)' <=> Lag(L, s)
  BY <1>1, <1>2, Zenon DEF Lag
<1>5. \A b : (Held(b)' <=> Held(b)) /\ (Filled(b)' <=> Filled(b))
  BY <1>1, <1>2, Zenon DEF Held, Filled
<1>6. OpenInv <=> OpenInv'
  BY <1>1, <1>4, <1>5, Zenon DEF OpenInv
<1>7. \A L \in Nat : GapInv(L) <=> GapInv(L)'
  BY <1>1, <1>2, <1>4, Zenon DEF GapInv
<1>8. \A L \in Nat : LeftInv(L) <=> LeftInv(L)'
  BY <1>1, <1>5, Zenon DEF LeftInv
<1> QED
  BY <1>3, <1>6, <1>7, <1>8, Zenon

\* Every step preserves EndInv, as long as neither counter has wrapped.
LEMMA NextEnd ==
  EndInv /\ RingInv /\ RingInv' /\ NoWrap /\ NoWrap' /\ [Next]_vars => EndInv'
<1> SUFFICES ASSUME EndInv, RingInv, RingInv', NoWrap, NoWrap', [Next]_vars PROVE EndInv'
  OBVIOUS
<1>1. CASE UNCHANGED vars
  BY <1>1, StutterEnd, Zenon DEF EndInv
<1>2. CASE Next
  <2>1. PICK t \in Threads : Effect(t) /\ Roles'
    BY <1>2, StepEffect, Zenon DEF EndInv, Next, Acts
  <2>2. CASE OpenInv
    <3>1. PICK L \in Nat : L = tail
      BY Zenon DEF RingInv, TypeInv, TypeOK
    <3> QED
      BY <2>1, <2>2, <3>1, OpenStep, Zenon DEF EndInv
  <2>3. ASSUME NEW L \in Nat, GapInv(L) PROVE GapInv(L)'
    BY <2>1, <2>3, GapStep, Zenon DEF EndInv
  <2> QED
    BY <2>1, <2>2, <2>3, Zenon DEF EndInv
<1> QED
  BY <1>1, <1>2, Zenon

\* The same for DrainInv.
LEMMA NextDrain ==
  ASSUME Consumers \cap Producers = {}, Consumers \cap Closers = {}
  PROVE  DrainInv /\ RingInv /\ RingInv' /\ NoHalfWrap /\ NoHalfWrap' /\ [Next]_vars => DrainInv'
<1> SUFFICES ASSUME DrainInv, RingInv, RingInv', NoHalfWrap, NoHalfWrap', [Next]_vars
             PROVE  DrainInv'
  OBVIOUS
<1>0. NoWrap /\ NoWrap'
  <2>1. CountMod \div 2 \in Nat /\ CountMod \div 2 <= CountMod /\ CountMod \in Nat
    BY ConstantFacts
  <2>2. head \in Nat /\ tail \in Nat /\ head' \in Nat /\ tail' \in Nat
    BY Zenon DEF RingInv, TypeInv, TypeOK
  <2> QED
    BY <2>1, <2>2 DEF NoWrap, NoHalfWrap
<1>1. CASE UNCHANGED vars
  <2>1. pc' = pc
    BY <1>1, Zenon DEF vars
  <2> QED
    BY <1>1, <2>1, StutterEnd, Zenon DEF DrainInv
<1>2. CASE Next
  <2>0. Roles
    BY Zenon DEF DrainInv
  <2>1. PICK t \in Threads : Effect(t) /\ Roles'
    BY <1>0, <1>2, <2>0, StepEffect, Zenon DEF Next, Acts
  <2>2. CASE OpenInv /\ \A c \in Consumers : pc[c] # "done"
    <3>1. PICK L \in Nat : L = tail
      BY Zenon DEF RingInv, TypeInv, TypeOK
    <3>2. \A c \in Consumers : pc'[c] # "done"
      <4> SUFFICES ASSUME NEW c \in Consumers, pc'[c] = "done" PROVE FALSE
        OBVIOUS
      <4>1. c \in Threads /\ c \notin Closers
        BY Zenon DEF Threads
      <4>2. c = t
        BY <2>1, <2>2, <4>1, Zenon DEF Effect, OthersKeep
      <4>3. op[t] # "close" /\ ~GivesUp(t)
        BY <2>0, <2>2, <4>1, <4>2, Zenon DEF Roles, RoleInv, OpenInv, GivesUp, is_past_last
      <4> QED
        BY <2>1, <4>2, <4>3, Zenon DEF Effect, DrawsPush, DrawsPop, Continues, Passes, Closing
    <3>3. OpenInv' \/ (GapInv(L)' /\ Held(L)' /\ Filled(L)')
      BY <1>0, <2>0, <2>1, <2>2, <3>1, OpenStep, Zenon
    <3> QED
      BY <2>1, <3>1, <3>2, <3>3, Zenon DEF DrainInv, LeftInv
  <2>3. ASSUME NEW L \in Nat, GapInv(L), LeftInv(L) PROVE GapInv(L)' /\ LeftInv(L)'
    BY <1>0, <2>0, <2>1, <2>3, GapStep, LeftStep, Zenon
  <2> QED
    BY <2>1, <2>2, <2>3, Zenon DEF DrainInv
<1> QED
  BY <1>1, <1>2, Zenon

\* A push that was let in has its turn, so it is not behind the gap.
LEMMA EndRejects == EndInv /\ RingInv /\ NoWrap => ClosedRejects
<1> SUFFICES ASSUME EndInv, RingInv, NoWrap, closed = "closed", NEW t \in Threads, pc[t] = "put"
             PROVE  cnt[t] < last
  BY Zenon DEF ClosedRejects
<1>1. PICK L \in Nat : GapInv(L)
  BY Zenon DEF EndInv, OpenInv
<1>2. op[t] = "push" /\ Pushing(t)
  BY Zenon DEF RingInv, LocalInv, PcOp, Pushing
<1>3. /\ cnt[t] \in Nat /\ tail \in Nat /\ head \in Nat /\ last \in Nat
      /\ cnt[t] < tail /\ Turn(cnt[t]) /\ Index(cnt[t]) \in Slots
      /\ tail < CountMod /\ CountMod \in Nat /\ Size \in Nat
  BY <1>2, IndexType, ConstantFacts, Zenon
  DEF RingInv, TypeInv, TypeOK, LocalInv, PushInv, NoWrap
<1>4. PICK m \in Nat : Index(m) = Index(cnt[t]) /\ Turn(m) /\ m < L + Size /\ m < head + Size
  BY <1>1, <1>3, Zenon DEF GapInv, Lag
<1>5. L + Size <= tail /\ last >= L /\ (cnt[t] < L \/ cnt[t] >= L + Size)
  BY <1>1, <1>2, Zenon DEF GapInv
<1>6. m < CountMod /\ cnt[t] < CountMod
  BY <1>3, <1>4, <1>5
<1>7. m = cnt[t]
  BY <1>3, <1>4, <1>6, SameTurn, Zenon
<1> QED
  BY <1>3, <1>4, <1>5, <1>7, SMTT(30), SMTT(60)

\* When all consumers were told "closed" every ticket below the gap was drawn,
\* and a filled slot would have its head ticket held by one of them.
LEMMA DrainLeaves ==
  ASSUME Consumers # {}, DrainInv, RingInv
  PROVE  NothingLeftBehind
<1> SUFFICES ASSUME \A c \in Consumers : pc[c] = "done", \A t \in Threads : ~Owner(t),
                    NEW s \in Slots, slot[s].status # "none"
             PROVE  FALSE
  BY Zenon DEF NothingLeftBehind, Occupied
<1>1. PICK L \in Nat : GapInv(L) /\ LeftInv(L)
  BY Zenon DEF DrainInv
<1>2. PICK m \in Nat : Index(m) = s /\ Turn(m) /\ m < L + Size /\ m < head + Size
  BY <1>1, Zenon DEF GapInv, Lag
<1>3. ~(L <= m)
  BY <1>1, <1>2, Zenon DEF GapInv, Status
<1>4. head >= L /\ head \in Nat
  BY <1>1, Zenon DEF LeftInv, RingInv, TypeInv, TypeOK
<1>5. m < L /\ m < head /\ m <= m
  BY <1>3, <1>4
<1>6. PICK t \in Threads : Popping(t) /\ cnt[t] = m
  BY <1>1, <1>2, <1>5, Zenon DEF LeftInv, Held
<1>7. op[t] \in {"pop", "fill"} /\ pc[t] \in Waiting
  BY <1>6, Zenon DEF Popping, Owner
<1>8. t \in Consumers
  BY <1>7, Zenon DEF DrainInv, Roles, RoleInv
<1> QED
  BY <1>7, <1>8, Zenon DEF Waiting

\* Neither counter has wrapped, nor is tail_ within a lap of that.
Room == NoWrap /\ tail + Size <= CountMod

\* With nobody in an operation, the slots are at the turns of the tickets from
\* head_ to a lap later, and those below tail_ are the occupied ones.
LEMMA IdleTurns ==
  ASSUME EndInv, RingInv, Room, \A t \in Threads : pc[t] = "idle", closed = "open"
  PROVE  \A s \in Slots :
           \E m \in Nat : /\ Index(m) = s /\ head <= m /\ m < head + Size /\ m < tail + Size
                          /\ tail <= m + Size
                          /\ s \in Occupied <=> m < tail
<1>1. OpenInv
  BY Zenon DEF EndInv, GapInv
<1>2. (\A s \in Slots : Lag(tail, s)) /\ Held(CountMod) /\ Filled(CountMod)
  BY <1>1, Zenon DEF OpenInv, Room
<1>3. \A t \in Threads : ~Pushing(t) /\ ~Popping(t)
  BY Zenon DEF Pushing, Popping, Waiting
<1>4. /\ head \in Nat /\ tail \in Nat /\ head < CountMod /\ tail + Size <= CountMod
      /\ CountMod \in Nat /\ Size \in Nat
  BY ConstantFacts, Zenon DEF Room, NoWrap, RingInv, TypeInv, TypeOK
<1> SUFFICES ASSUME NEW s \in Slots
             PROVE  \E m \in Nat : /\ Index(m) = s /\ head <= m /\ m < head + Size /\ m < tail + Size
                                   /\ tail <= m + Size
                                   /\ s \in Occupied <=> m < tail
  OBVIOUS
<1>5. PICK m \in Nat : Index(m) = s /\ Turn(m) /\ m < tail + Size /\ m < head + Size
  BY <1>2, Zenon DEF Lag
<1>6. m < CountMod /\ m <= m /\ m + Size \in Nat
  BY <1>4, <1>5
<1>7. head <= m
  <2>1. ~(m < head)
    BY <1>2, <1>3, <1>5, <1>6, Zenon DEF Held
  <2> QED
    BY <1>4, <2>1
<1>8. tail <= m + Size
  <2> SUFFICES ASSUME m + Size < tail PROVE FALSE
    BY <1>4, <1>6
  <2>1. m + Size < CountMod /\ m <= m + Size /\ m < m + Size
    BY <1>4, ConstantFacts
  <2>2. Index(m + Size) = Index(m)
    BY <2>1, NextTicket, Zenon
  <2> QED
    BY <1>2, <1>3, <1>5, <1>6, <2>1, <2>2, Zenon DEF Filled
<1>9. CASE m < tail
  <2>1. Status(m) # "none"
    BY <1>2, <1>3, <1>5, <1>6, <1>9, Zenon DEF Filled
  <2> QED
    BY <1>5, <1>7, <1>8, <1>9, <2>1, Zenon DEF Occupied, Status
<1>10. CASE ~(m < tail)
  <2>1. m \in tail .. CountMod - 1
    BY <1>4, <1>6, <1>10
  <2>2. Status(m) = "none"
    BY <1>5, <2>1, Zenon DEF RingInv, FreshInv
  <2> QED
    BY <1>5, <1>7, <1>8, <1>10, <2>2, Zenon DEF Occupied, Status
<1> QED
  BY <1>9, <1>10, Zenon

\* So the counters are at most a lap apart, and their difference tells the rest.
LEMMA EndObserves ==
  ASSUME Size < CountMod \div 2, EndInv, RingInv, Room
  PROVE  ObserversExact
<1> SUFFICES ASSUME \A t \in Threads : pc[t] = "idle", closed = "open"
             PROVE  /\ is_empty <=> Occupied = {}
                    /\ is_full <=> Occupied = Slots
  BY Zenon DEF ObserversExact
<1>0. /\ head \in Nat /\ tail \in Nat /\ head < CountMod /\ tail + Size <= CountMod
      /\ CountMod \in Nat \ {0} /\ Size \in Nat \ {0}
  BY ConstantFacts, Zenon DEF Room, NoWrap, RingInv, TypeInv, TypeOK
<1> DEFINE P(m, s) == /\ Index(m) = s /\ head <= m /\ m < head + Size /\ m < tail + Size
                      /\ tail <= m + Size
                      /\ s \in Occupied <=> m < tail
<1>1. \A s \in Slots : \E m \in Nat : P(m, s)
  BY IdleTurns, Zenon
<1>2. \A n \in Nat : head <= n /\ n < head + Size => P(n, Index(n))
  <2> SUFFICES ASSUME NEW n \in Nat, head <= n, n < head + Size PROVE P(n, Index(n))
    OBVIOUS
  <2>1. PICK m \in Nat : P(m, Index(n))
    BY <1>1, IndexType, Zenon
  <2>2. Index(m) = Index(n) /\ m < n + Size /\ n < m + Size
    BY <1>0, <2>1
  <2>3. m = n
    BY <2>2, SameLap, Zenon
  <2> QED
    BY <2>1, <2>3, Zenon
<1>3. head <= tail /\ tail <= head + Size
  <2>1. P(head, Index(head))
    BY <1>0, <1>2
  <2>2. head + Size - 1 \in Nat /\ P(head + Size - 1, Index(head + Size - 1))
    BY <1>0, <1>2
  <2> QED
    BY <1>0, <2>1, <2>2
<1>4. (tail - head) % CountMod = tail - head
  <2>1. tail - head \in 0 .. CountMod - 1
    BY <1>0, <1>3
  <2> QED
    BY <1>0, <2>1
<1>5. is_empty <=> tail = head
  <2>1. CountMod \div 2 \in Nat /\ tail - head \in Nat /\ tail - head < CountMod \div 2
    BY <1>0, <1>3
  <2> QED
    BY <1>0, <1>3, <1>4, <2>1, SMTT(30), SMTT(60) DEF is_empty, SignedLeqZero
<1>6. is_full <=> tail = head + Size
  BY <1>0, <1>3, <1>4 DEF is_full
<1>7. Occupied \subseteq Slots
  BY Zenon DEF Occupied
<1>8. Occupied = {} <=> tail = head
  <2>1. CASE tail = head
    <3>1. \A s \in Slots : s \notin Occupied
      <4> SUFFICES ASSUME NEW s \in Slots PROVE s \notin Occupied
        OBVIOUS
      <4>1. PICK m \in Nat : P(m, s)
        BY <1>1, Zenon
      <4>2. ~(m < tail)
        BY <1>0, <2>1, <4>1, SMTT(30), SMTT(60)
      <4> QED
        BY <4>1, <4>2, Zenon
    <3> QED
      BY <1>7, <2>1, <3>1, Zenon
  <2>2. CASE tail # head
    <3>1. head < tail /\ P(head, Index(head))
      BY <1>0, <1>2, <1>3, <2>2, SMTT(30), SMTT(60)
    <3> QED
      BY <2>2, <3>1, Zenon
  <2> QED
    BY <2>1, <2>2, Zenon
<1>9. Occupied = Slots <=> tail = head + Size
  <2>1. CASE tail = head + Size
    <3>1. \A s \in Slots : s \in Occupied
      <4> SUFFICES ASSUME NEW s \in Slots PROVE s \in Occupied
        OBVIOUS
      <4>1. PICK m \in Nat : P(m, s)
        BY <1>1, Zenon
      <4>2. m < tail
        BY <1>0, <2>1, <4>1, SMTT(30), SMTT(60)
      <4> QED
        BY <4>1, <4>2, Zenon
    <3> QED
      BY <1>7, <2>1, <3>1, Zenon
  <2>2. CASE tail # head + Size
    <3>1. /\ head + Size - 1 \in Nat /\ ~(head + Size - 1 < tail)
          /\ P(head + Size - 1, Index(head + Size - 1))
      BY <1>0, <1>2, <1>3, <2>2, SMTT(30), SMTT(60)
    <3>2. Index(head + Size - 1) \in Slots /\ Index(head + Size - 1) \notin Occupied
      BY <3>1, IndexType, Zenon
    <3> QED
      BY <2>2, <3>2, Zenon
  <2> QED
    BY <2>1, <2>2, Zenon
<1> QED
  BY <1>5, <1>6, <1>8, <1>9, Zenon

\* Whatever close() finds and however many threads call it, the gap it leaves
\* in the tail tickets is never filled, until 2^32 tickets were drawn.
THEOREM RingEnds == Spec /\ []NoWrap => []EndInv
<1>1. Init => EndInv
  BY InitEnd, Zenon DEF EndInv
<1> QED
  BY <1>1, NextEnd, RingTickets, PTL DEF Spec

\* Until then no push whose ticket is past last_ gets into a slot once closed_
\* is set, with any number of callers of close().
THEOREM RingRejectsAfterClose == Spec /\ []NoWrap => []ClosedRejects
BY RingEnds, RingTickets, EndRejects, PTL

\* While fewer than 2^31 tickets were drawn, all that was pushed is popped
\* before the last consumer is told "closed" and the owners have left.
THEOREM RingDrains ==
  ASSUME Consumers # {}, Consumers \cap Producers = {}, Consumers \cap Closers = {}
  PROVE  Spec /\ []NoHalfWrap => []NothingLeftBehind
<1>1. Init => DrainInv
  BY InitEnd, Zenon DEF DrainInv, Threads
<1>2. Init => RingInv
  BY InitRing
<1>3. RingInv /\ NoHalfWrap /\ NoHalfWrap' /\ [Next]_vars => RingInv'
  <2> SUFFICES ASSUME RingInv, NoHalfWrap, NoHalfWrap', [Next]_vars PROVE RingInv'
    OBVIOUS
  <2>1. TypeInv'
    BY NextType, Zenon DEF RingInv
  <2>2. CountMod \div 2 \in Nat /\ CountMod \div 2 <= CountMod /\ CountMod \in Nat
    BY ConstantFacts
  <2>3. head \in Nat /\ tail \in Nat /\ head' \in Nat /\ tail' \in Nat
    BY <2>1, Zenon DEF RingInv, TypeInv, TypeOK
  <2>4. NoWrap /\ NoWrap'
    BY <2>2, <2>3 DEF NoWrap, NoHalfWrap
  <2> QED
    BY <2>4, NextRing, Zenon
<1>4. DrainInv /\ RingInv => NothingLeftBehind
  BY DrainLeaves, SMTT(30), SMTT(60)
<1> QED
  BY <1>1, <1>2, <1>3, <1>4, NextDrain, PTL DEF Spec

\* With nobody in an operation on an open queue, is_empty() and is_full() tell
\* exactly whether no slot or every slot is occupied, for every ring of less
\* than 2^31 slots, until tail_ is within a lap of its first wrap.
THEOREM RingObservers ==
  ASSUME Size < CountMod \div 2
  PROVE  Spec /\ []Room => []ObserversExact
<1>1. Room => NoWrap
  BY DEF Room
<1>2. EndInv /\ RingInv /\ Room => ObserversExact
  BY EndObserves
<1> QED
  BY <1>1, <1>2, RingEnds, RingTickets, PTL
=============================================================================
