-------------------------- MODULE RingQueueProofs ---------------------------
(***************************************************************************)
(* The ring of evenk/bounded_queue.h implements the closable first-in      *)
(* first-out queue of Conqueue, for every size and any sets of threads     *)
(* with one closer.                                                        *)
(*                                                                         *)
(* A push takes effect when its ticket is drawn and is less than Size      *)
(* ahead of head_, a pop when tickets of its number are drawn on both      *)
(* sides.  That a thread which is let in by a step of the other side is    *)
(* there, and is the only one, follows from Held, Filled and PairInv.      *)
(***************************************************************************)
EXTENDS BoundedQueueClosing, RingQueueViews

-----------------------------------------------------------------------------
(* The invariant                                                           *)

\* Nobody has begun to close the queue or was told that it is closed.
OpenPhase == OpenInv /\ \A t \in Threads : pc[t] # "done" /\ ~Announced(t)

\* close() has found tail_ at L.
Ended(L) ==
  \/ closed = "open" /\ \E x \in Closers : pc[x] = "close_last" /\ cnt[x] = L
  \/ closed = "open" /\ last = L /\ \E x \in Closers : pc[x] = "close_flag"
  \/ closed = "closed" /\ last = L /\ \A x \in Closers : pc[x] = "done" \/ Announced(x)

ClosedPhase(L) == GapInv(L) /\ LeftInv(L) /\ Ended(L)

\* The strengthening behind the refinement
RefInv ==
  /\ Roles /\ ThrowFree /\ (\A t \in Threads : CallInv(t)) /\ PassInv
  /\ OpenPhase \/ \E L \in Nat : ClosedPhase(L)

-----------------------------------------------------------------------------
(* The phases                                                              *)

\* A step of a thread other than the closer leaves the queue open; the first
\* access of close() ends it at the tail it finds.
LEMMA OpenPhaseStep ==
  ASSUME RingInv, RingInv', NoWrap, NoWrap', Roles, OpenPhase,
         NEW t \in Threads, Effect(t), Detail(t), NEW L \in Nat, L = tail
  PROVE  \/ OpenPhase' /\ ~Closing(t)
         \/ ClosedPhase(L)' /\ Closing(t) /\ pc[t] = "close_tail"
<1>1. /\ OpenInv /\ closed = "open" /\ OthersKeep(t) /\ RoleInv(t)
      /\ \A u \in Threads : /\ pc[u] \notin {"close_last", "close_flag", "done"}
                            /\ ~Announced(u)
  BY ZenonT(60) DEF OpenPhase, OpenInv, Effect, Roles
<1>2. OpenInv' \/ (GapInv(L)' /\ Held(L)' /\ Filled(L)')
  BY <1>1, OpenStep, ZenonT(60)
<1>3. \A u \in Threads \ {t} : pc'[u] # "done" /\ pc'[u] \notin {"close_last", "close_flag"} /\ ~Announced(u)'
  BY <1>1, ZenonT(60) DEF OthersKeep, Announced
<1>4. ~Announced(t)'
  BY <1>1, Zenon DEF Detail
<1>5. CASE Closing(t)
  <2>1. /\ pc[t] = "close_tail" /\ pc'[t] = "close_last" /\ cnt'[t] = tail /\ closed' = closed
        /\ t \in Closers
    BY <1>1, <1>5, ZenonT(60) DEF Closing, Announced, RoleInv
  <2>2. GapInv(L)' /\ Held(L)' /\ Filled(L)'
    BY <1>2, <2>1, ZenonT(60) DEF OpenInv
  <2>3. \A c \in Consumers : pc'[c] # "done"
    BY <1>3, <2>1, ZenonT(60) DEF Threads
  <2>4. Ended(L)'
    BY <1>1, <2>1, Zenon DEF Ended
  <2> QED
    BY <1>5, <2>1, <2>2, <2>3, <2>4, ZenonT(60) DEF ClosedPhase, LeftInv
<1>6. CASE ~Closing(t)
  <2>1. pc'[t] \notin {"done", "close_last", "close_flag"} /\ closed' = closed
    BY <1>1, <1>6, ZenonT(60) DEF Effect, DrawsPush, DrawsPop, Continues, GivesUp, Passes, is_past_last
  <2>2. OpenInv'
    BY <1>1, <1>2, <1>3, <2>1, ZenonT(60) DEF GapInv
  <2> QED
    BY <1>3, <1>4, <1>6, <2>1, <2>2, ZenonT(60) DEF OpenPhase
<1> QED
  BY <1>5, <1>6, ZenonT(60)

\* The end stays where close() has put it.
LEMMA EndedStep ==
  ASSUME RingInv, Roles, NEW L \in Nat, Ended(L), NEW t \in Threads, Effect(t), Detail(t)
  PROVE  Ended(L)' /\ (Closing(t) => pc[t] # "close_tail")
<1>1. OthersKeep(t) /\ \A u \in Closers : u \in Threads
  BY Zenon DEF Effect, Threads
<1>2. Closing(t) => t \in Closers
  BY Zenon DEF Closing, Roles, RoleInv
<1>3. \A u, v \in Closers : u = v
  BY RingQueueAssumption, ZenonT(60)
<1>4. ~Closing(t) => /\ closed' = closed /\ last' = last
                     /\ pc[t] \notin {"close_last", "close_flag"}
  BY Zenon DEF Effect, DrawsPush, DrawsPop, Continues, GivesUp, Passes
<1>5. ASSUME NEW x \in Closers, closed = "open", pc[x] = "close_last", cnt[x] = L
      PROVE  Ended(L)' /\ (Closing(t) => pc[t] # "close_tail")
  <2>1. CASE Closing(t)
    <3>1. x = t
      BY <1>2, <1>3, <2>1, ZenonT(60)
    <3>2. pc'[t] = "close_flag" /\ last' = L /\ closed' = "open"
      BY <1>5, <2>1, <3>1, ZenonT(60) DEF Closing
    <3> QED
      BY <1>5, <3>1, <3>2, ZenonT(60) DEF Ended
  <2>2. CASE ~Closing(t)
    <3>1. x # t
      BY <1>4, <1>5, <2>2, ZenonT(60)
    <3>2. pc'[x] = "close_last" /\ cnt'[x] = L /\ closed' = "open"
      BY <1>1, <1>4, <1>5, <2>2, <3>1, ZenonT(60) DEF OthersKeep
    <3> QED
      BY <2>2, <3>2, ZenonT(60) DEF Ended
  <2> QED
    BY <2>1, <2>2, ZenonT(60)
<1>6. ASSUME NEW x \in Closers, closed = "open", last = L, pc[x] = "close_flag"
      PROVE  Ended(L)' /\ (Closing(t) => pc[t] # "close_tail")
  <2>1. CASE Closing(t)
    <3>1. x = t
      BY <1>2, <1>3, <2>1, ZenonT(60)
    <3>2. pc'[t] = "close_slot" /\ last' = L /\ closed' = "closed"
      BY <1>6, <2>1, <3>1, ZenonT(60) DEF Closing
    <3>3. \A u \in Closers : Announced(u)'
      BY <1>3, <3>1, <3>2, ZenonT(60) DEF Announced
    <3> QED
      BY <1>6, <3>1, <3>2, <3>3, ZenonT(60) DEF Ended
  <2>2. CASE ~Closing(t)
    <3>1. x # t
      BY <1>4, <1>6, <2>2, ZenonT(60)
    <3>2. pc'[x] = "close_flag" /\ last' = L /\ closed' = "open"
      BY <1>1, <1>4, <1>6, <2>2, <3>1, ZenonT(60) DEF OthersKeep
    <3> QED
      BY <2>2, <3>2, ZenonT(60) DEF Ended
  <2> QED
    BY <2>1, <2>2, ZenonT(60)
<1>7. ASSUME closed = "closed", last = L, \A x \in Closers : pc[x] = "done" \/ Announced(x)
      PROVE  Ended(L)' /\ (Closing(t) => pc[t] # "close_tail")
  <2>1. t \in Closers => Announced(t) /\ (pc'[t] = "done" \/ Announced(t)')
    BY <1>7, ZenonT(60) DEF Detail
  <2>2. Closing(t) => closed' = closed /\ last' = last /\ pc[t] # "close_tail"
    BY <1>2, <2>1, ZenonT(60) DEF Announced, Closing
  <2>3. \A x \in Closers : pc'[x] = "done" \/ Announced(x)'
    <3> SUFFICES ASSUME NEW x \in Closers PROVE pc'[x] = "done" \/ Announced(x)'
      OBVIOUS
    <3>1. CASE x = t
      BY <2>1, <3>1, ZenonT(60)
    <3>2. CASE x # t
      BY <1>1, <1>7, <3>2, ZenonT(60) DEF OthersKeep, Announced
    <3> QED
      BY <3>1, <3>2, ZenonT(60)
  <2> QED
    BY <1>4, <1>7, <2>2, <2>3, ZenonT(60) DEF Ended
<1> QED
  BY <1>5, <1>6, <1>7, ZenonT(60) DEF Ended

\* So does the rest of what holds after close().
LEMMA ClosedPhaseStep ==
  ASSUME RingInv, RingInv', NoWrap, NoHalfWrap, Roles, NEW L \in Nat, ClosedPhase(L),
         NEW t \in Threads, Effect(t), Detail(t)
  PROVE  ClosedPhase(L)' /\ (Closing(t) => pc[t] # "close_tail")
<1>1. Consumers \cap Producers = {} /\ Consumers \cap Closers = {}
  BY RingQueueAssumption, Zenon
<1> QED
  BY <1>1, GapStep, LeftStep, EndedStep, ZenonT(60) DEF ClosedPhase

\* Where the mapping sees the end
LEMMA OpenEnd ==
  /\ OpenPhase => End = tail /\ ~AbsClosed
  /\ OpenPhase' => End' = tail' /\ ~AbsClosed'
<1>1. \A u \in Closers : u \in Threads
  BY Zenon DEF Threads
<1>2. OpenPhase => ~AbsClosed /\ \A u \in Closers : pc[u] # "close_last"
  BY <1>1, ZenonT(60) DEF OpenPhase, OpenInv, AbsClosed
<1>3. OpenPhase' => ~AbsClosed' /\ \A u \in Closers : pc'[u] # "close_last"
  BY <1>1, ZenonT(60) DEF OpenPhase, OpenInv, AbsClosed
<1> QED
  BY <1>2, <1>3, Zenon DEF End

\* Once close() has moved the tail, the queue ends where it found it.
LEMMA ClosedEnd ==
  ASSUME NEW L \in Nat
  PROVE  Ended(L) => End = L /\ AbsClosed
<1>1. \A u, v \in Closers : u = v
  BY RingQueueAssumption, ZenonT(60)
<1>2. ASSUME NEW x \in Closers, pc[x] = "close_last", cnt[x] = L
      PROVE  End = L /\ AbsClosed
  <2>1. (CHOOSE u \in Closers : pc[u] = "close_last") = x
    BY <1>1, <1>2, Zenon
  <2> QED
    BY <1>2, <2>1, Zenon DEF End, AbsClosed
<1>3. ASSUME NEW x \in Closers, pc[x] = "close_flag", last = L
      PROVE  End = L /\ AbsClosed
  BY <1>1, <1>3, Zenon DEF End, AbsClosed
<1>4. ASSUME closed = "closed", last = L, \A x \in Closers : pc[x] = "done" \/ Announced(x)
      PROVE  End = L /\ AbsClosed
  BY <1>4, ZenonT(60) DEF End, AbsClosed, Announced
<1> QED
  BY <1>2, <1>3, <1>4, ZenonT(60) DEF Ended

\* The same after a step.
LEMMA ClosedEndNext ==
  ASSUME NEW L \in Nat
  PROVE  Ended(L)' => End' = L /\ AbsClosed'
<1>1. \A u, v \in Closers : u = v
  BY RingQueueAssumption, Zenon
<1>2. ASSUME NEW x \in Closers, pc'[x] = "close_last", cnt'[x] = L
      PROVE  End' = L /\ AbsClosed'
  <2>1. (CHOOSE u \in Closers : pc'[u] = "close_last") = x
    BY <1>1, <1>2, Zenon
  <2> QED
    BY <1>2, <2>1, ZenonT(60) DEF End, AbsClosed
<1>3. ASSUME NEW x \in Closers, pc'[x] = "close_flag", last' = L
      PROVE  End' = L /\ AbsClosed'
  BY <1>1, <1>3, ZenonT(60) DEF End, AbsClosed
<1>4. ASSUME closed' = "closed", last' = L, \A x \in Closers : pc'[x] = "done" \/ Announced(x)'
      PROVE  End' = L /\ AbsClosed'
  BY <1>4, ZenonT(60) DEF End, AbsClosed, Announced
<1> QED
  BY <1>2, <1>3, <1>4, ZenonT(60) DEF Ended

\* The tickets that have taken effect: a slot that is occupied, or free for a
\* push that holds its turn, has one of them.
LEMMA OpenTurns ==
  ASSUME RingInv, NoWrap, tail + Size <= CountMod, OpenPhase, NEW k \in Nat, k < CountMod, Turn(k),
         Status(k) # "none" \/ \E u \in Threads : Pushing(u) /\ cnt[u] = k
  PROVE  k < Accepted
<1>0. /\ head \in Nat /\ tail \in Nat /\ Size \in Nat /\ CountMod \in Nat
      /\ Index(k) \in Slots /\ End = tail
  BY ConstantFacts, IndexType, OpenEnd, ZenonT(60) DEF RingInv, TypeInv, TypeOK
<1>1. k < tail
  <2>1. CASE \E u \in Threads : Pushing(u) /\ cnt[u] = k
    BY <2>1, ZenonT(60) DEF RingInv, LocalInv, PushInv
  <2>2. CASE Status(k) # "none"
    <3>1. k \notin tail .. CountMod - 1
      BY <2>2, ZenonT(60) DEF RingInv, FreshInv
    <3> QED
      BY <1>0, <3>1, SMTT(30), SMTT(60)
  <2> QED
    BY <2>1, <2>2, ZenonT(60)
<1>2. PICK m \in Nat : Index(m) = Index(k) /\ Turn(m) /\ m < tail + Size /\ m < head + Size
  BY <1>0, ZenonT(60) DEF OpenPhase, OpenInv, Lag
<1>3. m < CountMod
  BY <1>0, <1>2, SMTT(30), SMTT(60)
<1>4. m = k
  BY <1>0, <1>2, <1>3, SameTurn, ZenonT(60)
<1>5. PICK e \in Nat : e = tail
  BY <1>0, ZenonT(60)
<1> QED
  BY <1>0, <1>1, <1>2, <1>4, <1>5, AcceptedIs, ZenonT(60)

\* The same once close() has moved the tail.
LEMMA ClosedTurns ==
  ASSUME RingInv, NoWrap, NEW L \in Nat, ClosedPhase(L), NEW k \in Nat, k < CountMod, Turn(k),
         Status(k) # "none" \/ \E u \in Threads : Pushing(u) /\ cnt[u] = k
  PROVE  k < Accepted
<1>0. /\ head \in Nat /\ tail \in Nat /\ Size \in Nat /\ CountMod \in Nat
      /\ Index(k) \in Slots /\ End = L /\ GapInv(L)
  BY ConstantFacts, IndexType, ClosedEnd, Zenon DEF RingInv, TypeInv, TypeOK, ClosedPhase
<1>1. L + Size <= tail /\ tail < CountMod
  BY <1>0, ZenonT(60) DEF GapInv, NoWrap
<1>2. PICK m \in Nat : Index(m) = Index(k) /\ Turn(m) /\ m < L + Size /\ m < head + Size
  BY <1>0, ZenonT(60) DEF GapInv, Lag
<1>3. m < CountMod
  BY <1>0, <1>1, <1>2, SMTT(30), SMTT(60)
<1>4. m = k
  BY <1>0, <1>2, <1>3, SameTurn, ZenonT(60)
<1>5. k < L
  <2>1. CASE \E u \in Threads : Pushing(u) /\ cnt[u] = k
    <3>1. k < L \/ k >= L + Size
      BY <1>0, <2>1, ZenonT(60) DEF GapInv
    <3> QED
      BY <1>0, <1>2, <1>4, <3>1, SMTT(30), SMTT(60)
  <2>2. CASE Status(k) # "none"
    <3>1. ~(L <= k)
      BY <1>0, <1>2, <1>4, <2>2, ZenonT(60) DEF GapInv
    <3> QED
      BY <3>1, SMTT(30), SMTT(60)
  <2> QED
    BY <2>1, <2>2, ZenonT(60)
<1> QED
  BY <1>0, <1>2, <1>4, <1>5, AcceptedIs, ZenonT(60)

-----------------------------------------------------------------------------
(* Threads in line                                                         *)

\* A consumer that drew its ticket before the push with the same number
LEMMA PopInLine ==
  ASSUME RingInv, NoWrap, tail + Size <= CountMod, OpenPhase, NEW n \in Nat, n = tail, n < head
  PROVE  \E c \in Threads : Popping(c) /\ cnt[c] = n
<1>0. head \in Nat /\ Size \in Nat \ {0} /\ CountMod \in Nat /\ Index(n) \in Slots
  BY ConstantFacts, IndexType, ZenonT(60) DEF RingInv, TypeInv, TypeOK
<1>1. (\A s \in Slots : Lag(tail, s)) /\ Held(CountMod)
  BY ZenonT(60) DEF OpenPhase, OpenInv
<1>2. PICK m \in Nat : Index(m) = Index(n) /\ Turn(m) /\ m < n + Size
  BY <1>0, <1>1, ZenonT(60) DEF Lag
<1>3. m <= n
  <2>1. CASE m > n
    <3>1. n < m + Size
      BY <1>0, <2>1, SMTT(30), SMTT(60)
    <3>2. m = n
      BY <1>2, <3>1, SameLap, ZenonT(60)
    <3> QED
      BY <3>2, SMTT(30), SMTT(60)
  <2> QED
    BY <2>1, SMTT(30), SMTT(60)
<1>4. n < CountMod
  BY <1>0, SMTT(30), SMTT(60)
<1> QED
  BY <1>1, <1>2, <1>3, <1>4, ZenonT(60) DEF Held

\* What is known of the tail tickets below c is known of those below e.
LEMMA FilledBelow ==
  ASSUME NEW c \in Nat, Filled(c), NEW e \in Nat, e <= c
  PROVE  Filled(e)
<1>1. \A k \in Nat : k < e => k < c
  BY SMTT(30), SMTT(60)
<1> QED
  BY <1>1, ZenonT(60) DEF Filled

\* A producer that drew its ticket when the ring was full
LEMMA PushInLine ==
  ASSUME RingInv, NoWrap, NEW e \in Nat, Filled(e), e <= tail, Lag(e, Index(head)),
         NEW k \in Nat, k = head + Size, k < e
  PROVE  \E p \in Threads : Pushing(p) /\ cnt[p] = k
<1>0. /\ head \in Nat /\ tail \in Nat /\ Size \in Nat \ {0} /\ CountMod \in Nat
      /\ tail < CountMod
  BY ConstantFacts, ZenonT(60) DEF RingInv, TypeInv, TypeOK, NoWrap
<1>1. PICK m \in Nat : Index(m) = Index(head) /\ Turn(m) /\ m < k
  BY Zenon DEF Lag
<1>2. k < CountMod /\ k < tail /\ m <= k
  BY <1>0, <1>1, SMTT(30), SMTT(60)
<1>3. Index(k) = Index(head)
  BY <1>0, <1>2, NextTicket, ZenonT(60)
<1> QED
  BY <1>1, <1>2, <1>3, ZenonT(60) DEF Filled

-----------------------------------------------------------------------------
(* Every step is a step of the queue                                       *)

\* The parts of the invariant that are about single threads
LEMMA ThreadsKept ==
  ASSUME RingInv, RingInv', NoWrap, Roles, ThrowFree, \A u \in Threads : CallInv(u),
         NEW t \in Threads, Acts(t)
  PROVE  /\ Effect(t) /\ Detail(t) /\ Roles'
         /\ ThrowFree' /\ \A u \in Threads : CallInv(u)'
<1>1. Effect(t) /\ Roles'
  BY StepEffect, ZenonT(60)
<1>2. LocalStep(t)
  BY LocalSteps, Zenon
<1>3. OthersKeep(t)
  BY <1>1, ZenonT(60) DEF Effect
<1>4. CallInv(t)' /\ Detail(t)
  BY <1>2, ZenonT(60) DEF LocalStep
<1>5. ASSUME NEW u \in Threads \ {t} PROVE CallInv(u)'
  <2>1. /\ Pushing(u)' <=> Pushing(u)
        /\ Popping(u)' <=> Popping(u)
    BY <1>3, OthersRoles, ZenonT(60)
  <2>2. op'[u] = op[u] /\ (pc[u] = "signal" => pc'[u] = "signal") /\ CallInv(u)
    BY <1>3, ZenonT(60) DEF OthersKeep
  <2> QED
    BY <2>1, <2>2, ZenonT(60) DEF CallInv
<1>6. \A s \in Slots : slot'[s].status # "invalid"
  BY <1>2, ZenonT(60) DEF LocalStep, ThrowFree
<1>7. \A u \in Threads : /\ tok'[u].status # "invalid"
                         /\ pc'[u] \notin {"skip", "take"} /\ op'[u] # "again"
  BY <1>2, <1>3, ZenonT(60) DEF LocalStep, ThrowFree, OthersKeep
<1>8. ThrowFree'
  BY <1>6, <1>7, ZenonT(60) DEF ThrowFree
<1> QED
  BY <1>1, <1>4, <1>5, <1>8, ZenonT(60)

\* The steps on an open queue
LEMMA OpenMoves ==
  ASSUME RingInv, RingInv', NoWrap, NoWrap', tail + Size <= CountMod, Roles, Roles',
         ThrowFree, ThrowFree', \A u \in Threads : CallInv(u), \A u \in Threads : CallInv(u)',
         PassInv, OpenPhase, NEW t \in Threads, Effect(t), Detail(t), Record
  PROVE  /\ PassInv' /\ (OpenPhase' \/ \E L \in Nat : ClosedPhase(L)')
         /\ [Abs!ConqueueNext]_(Abs!conqueue)
<1>0. /\ head \in Nat /\ tail \in Nat /\ Size \in Nat \ {0} /\ CountMod \in Nat /\ OthersKeep(t)
      /\ CallInv(t)'
  BY ConstantFacts, ZenonT(60) DEF RingInv, TypeInv, TypeOK, Effect
<1>1. PICK h \in Nat, n \in Nat : h = head /\ n = tail
  BY <1>0, ZenonT(60)
<1>2. End = n /\ ~AbsClosed
  BY <1>1, OpenEnd, ZenonT(60)
<1>3. PICK a \in Nat : a = Meet(h, n) /\ Shows(a, n)
  BY <1>1, <1>2, ShowsNow, ZenonT(60)
<1>4. TurnsAccepted
  BY OpenTurns, ZenonT(60) DEF TurnsAccepted
<1>5. \/ OpenPhase' /\ ~Closing(t)
      \/ ClosedPhase(n)' /\ Closing(t) /\ pc[t] = "close_tail"
  BY <1>1, OpenPhaseStep, ZenonT(60)
<1>6. h <= h /\ n <= n /\ n <= n + 1 /\ h <= h + 1 /\ n + 1 \in Nat /\ h + 1 \in Nat /\ h + Size \in Nat
  BY <1>0, SMTT(30), SMTT(60)
<1>7. CASE DrawsPush(t)
  <2>1. OpenPhase' /\ tail' = n + 1 /\ head' = h
    BY <1>1, <1>5, <1>7, ZenonT(60) DEF DrawsPush, Closing
  <2>2. PICK m \in Nat : m = n + 1
    BY <1>6, Zenon
  <2>3. End' = m /\ ~AbsClosed' /\ n <= m
    BY <1>6, <2>1, <2>2, OpenEnd, ZenonT(60)
  <2>4. PassInv' /\ \E b \in Nat : b = Meet(h, m) /\ Shows(b, m)'
    BY <1>1, <1>2, <1>4, <1>6, <2>1, <2>3, ShowsNext, Zenon
  <2>5. PICK b \in Nat : b = Meet(h, m) /\ Shows(b, m)'
    BY <2>4, Zenon
  <2>6. pc[t] \notin {"done", "get"}
    BY <1>7, NotMoving, Zenon DEF DrawsPush
  <2>7. n < h => \E c \in Threads : Popping(c) /\ cnt[c] = n
    BY <1>1, PopInLine, ZenonT(60)
  <2>8. Abs!ConqueueNext
    BY <1>0, <1>1, <1>2, <1>3, <1>7, <2>2, <2>3, <2>5, <2>6, <2>7, Pushes, ZenonT(60)
  <2> QED
    BY <2>1, <2>4, <2>8, ZenonT(60)
<1>8. CASE DrawsPop(t)
  <2>1. OpenPhase' /\ tail' = n /\ head' = h + 1
    BY <1>1, <1>5, <1>8, Zenon DEF DrawsPop, Closing
  <2>2. PICK k \in Nat, w \in Nat : k = h + 1 /\ w = h + Size
    BY <1>6, ZenonT(60)
  <2>3. End' = n /\ ~AbsClosed' /\ h <= k
    BY <1>6, <2>1, <2>2, OpenEnd, ZenonT(60)
  <2>4. PassInv' /\ \E b \in Nat : b = Meet(k, n) /\ Shows(b, n)'
    BY <1>1, <1>2, <1>4, <1>6, <2>1, <2>2, <2>3, ShowsNext, ZenonT(60)
  <2>5. PICK b \in Nat : b = Meet(k, n) /\ Shows(b, n)'
    BY <2>4, ZenonT(60)
  <2>6. ASSUME w < n PROVE \E p \in Threads : Pushing(p) /\ cnt[p] = w
    <3>1. n <= CountMod /\ Index(head) \in Slots
      BY <1>0, <1>1, IndexType, SMTT(30), SMTT(60) DEF NoWrap
    <3>2. Filled(n) /\ Lag(n, Index(head))
      BY <1>0, <1>1, <3>1, FilledBelow, ZenonT(60) DEF OpenPhase, OpenInv
    <3> QED
      BY <1>1, <1>6, <2>2, <2>6, <3>2, PushInLine, ZenonT(60)
  <2>7. Abs!ConqueueNext
    BY <1>0, <1>1, <1>2, <1>3, <1>8, <2>2, <2>3, <2>5, <2>6, Pops, ZenonT(60)
  <2> QED
    BY <2>1, <2>4, <2>7, ZenonT(60)
<1>9. CASE Continues(t) \/ Passes(t)
  <2>1. tail' = n /\ head' = h /\ OpenPhase'
    <3>1. ~(Closing(t) /\ pc[t] = "close_tail")
      BY <1>9, Zenon DEF Continues, Passes, Closing
    <3> QED
      BY <1>1, <1>5, <1>9, <3>1, ZenonT(60) DEF Continues, Passes
  <2>3. End' = n /\ ~AbsClosed'
    BY <2>1, OpenEnd, ZenonT(60)
  <2>4. PassInv' /\ \E b \in Nat : b = Meet(h, n) /\ Shows(b, n)'
    BY <1>1, <1>2, <1>4, <1>6, <2>1, <2>3, ShowsNext, ZenonT(60)
  <2>5. Shows(a, n)'
    BY <1>3, <2>4, ZenonT(60)
  <2>6. UNCHANGED Abs!conqueue
    BY <1>0, <1>2, <1>3, <1>9, <2>3, <2>5, GoesOn, ZenonT(60)
  <2> QED
    BY <2>1, <2>4, <2>6, ZenonT(60)
<1>10. CASE GivesUp(t)
  BY <1>10, ZenonT(60) DEF GivesUp, is_past_last, OpenPhase, OpenInv
<1>11. CASE Closing(t)
  <2>1. ClosedPhase(n)' /\ pc[t] = "close_tail" /\ head' = h
    BY <1>1, <1>5, <1>11, ZenonT(60) DEF Closing
  <2>2. End' = n /\ AbsClosed'
    BY <2>1, ClosedEndNext, ZenonT(60) DEF ClosedPhase
  <2>3. PassInv' /\ \E b \in Nat : b = Meet(h, n) /\ Shows(b, n)'
    BY <1>1, <1>2, <1>4, <1>6, <2>1, <2>2, ShowsNext, ZenonT(60)
  <2>4. Shows(a, n)'
    BY <1>3, <2>3, Zenon
  <2>5. /\ ~Pushing(t) /\ ~Popping(t) /\ ~Pushing(t)' /\ ~Popping(t)'
        /\ pc[t] \notin {"done", "get"} /\ pc'[t] # "done"
    BY <1>11, <2>1, ZenonT(60) DEF Closing
  <2>6. \A u \in Threads : AbsCall(u)' = AbsCall(u) /\ AbsGot(u)' = AbsGot(u)
    BY <1>0, <1>3, <2>4, <2>5, StaysOut, ZenonT(60)
  <2>7. Calls' = Calls /\ Given' = Given
    BY <2>6, CallsChange, GivenChange, Zenon
  <2>8. Queued' = Queued /\ Accepted' = Accepted
    BY <1>1, <1>3, <2>1, <2>4, ZenonT(60) DEF Shows, Queued, Between
  <2>9. AbsClosed' = TRUE
    BY Zenon, <2>2 DEF AbsClosed
  <2>10. Abs!ConqueueNext
    BY <2>7, <2>8, <2>9, ZenonT(60) DEF Abs!ConqueueNext, Abs!close
  <2> QED
    BY <2>1, <2>3, <2>10, ZenonT(60)
<1> QED
  BY <1>7, <1>8, <1>9, <1>10, <1>11, ZenonT(60) DEF Effect

\* The steps after the first access of close()
LEMMA ClosedMoves ==
  ASSUME RingInv, RingInv', NoWrap, NoWrap', NoHalfWrap, Roles, Roles',
         ThrowFree, ThrowFree', \A u \in Threads : CallInv(u), \A u \in Threads : CallInv(u)',
         PassInv, NEW L \in Nat, ClosedPhase(L), NEW t \in Threads, Effect(t), Detail(t), Record
  PROVE  PassInv' /\ ClosedPhase(L)' /\ [Abs!ConqueueNext]_(Abs!conqueue)
<1>0. /\ head \in Nat /\ tail \in Nat /\ Size \in Nat \ {0} /\ CountMod \in Nat /\ OthersKeep(t)
      /\ CallInv(t)' /\ CallInv(t) /\ RoleInv(t) /\ PcOp(t) /\ cnt[t] \in Nat
  BY ConstantFacts, Zenon DEF RingInv, TypeInv, TypeOK, LocalInv, Effect, Roles
<1>1. PICK h \in Nat : h = head
  BY <1>0, ZenonT(60)
<1>2. GapInv(L) /\ LeftInv(L) /\ Ended(L) /\ L + Size <= tail
  BY Zenon DEF ClosedPhase, GapInv
<1>3. ClosedPhase(L)' /\ (Closing(t) => pc[t] # "close_tail")
  BY ClosedPhaseStep, Zenon
<1>4. End = L /\ AbsClosed /\ End' = L /\ AbsClosed'
  BY <1>2, <1>3, ClosedEnd, ClosedEndNext, ZenonT(60) DEF ClosedPhase
<1>5. PICK a \in Nat : a = Meet(h, L) /\ Shows(a, L)
  BY <1>1, <1>4, ShowsNow, ZenonT(60)
<1>6. TurnsAccepted
  BY ClosedTurns, Zenon DEF TurnsAccepted
<1>7. h <= h /\ L <= L /\ h <= h + 1 /\ h + 1 \in Nat /\ h + Size \in Nat
  BY <1>0, SMTT(30), SMTT(60)
<1>8. ASSUME head' = head PROVE PassInv' /\ Shows(a, L)'
  <2>1. PassInv' /\ \E b \in Nat : b = Meet(h, L) /\ Shows(b, L)'
    BY <1>1, <1>4, <1>6, <1>7, <1>8, ShowsNext, Zenon
  <2> QED
    BY <1>5, <2>1, ZenonT(60)
<1>9. CASE DrawsPush(t)
  <2>1. head' = head /\ ~Pushing(t) /\ ~Popping(t) /\ ~Popping(t)' /\ pc'[t] # "done" /\ cnt'[t] = tail
    BY <1>9, Zenon DEF DrawsPush
  <2>2. pc[t] \notin {"done", "get"}
    BY <2>1, NotMoving, Zenon
  <2>3. ~(tail < L)
    BY <1>0, <1>2, SMTT(30), SMTT(60)
  <2>4. \A u \in Threads : AbsCall(u)' = AbsCall(u) /\ AbsGot(u)' = AbsGot(u)
    BY <1>0, <1>5, <1>8, <2>1, <2>2, <2>3, StaysOut, ZenonT(60)
  <2>5. Accepted' = Accepted
    BY <1>5, <1>8, <2>1, ZenonT(60) DEF Shows
  <2>6. UNCHANGED Abs!conqueue
    BY <1>4, <2>1, <2>4, <2>5, Rests, ZenonT(60)
  <2> QED
    BY <1>3, <1>8, <2>1, <2>6, ZenonT(60)
<1>10. CASE DrawsPop(t)
  <2>1. head' = h + 1
    BY <1>1, <1>10, ZenonT(60) DEF DrawsPop
  <2>2. PICK k \in Nat, w \in Nat : k = h + 1 /\ w = h + Size
    BY <1>7, Zenon
  <2>3. h <= k
    BY <1>7, <2>2, Zenon
  <2>4. PassInv' /\ \E b \in Nat : b = Meet(k, L) /\ Shows(b, L)'
    BY <1>1, <1>4, <1>6, <1>7, <2>1, <2>2, <2>3, ShowsNext, ZenonT(60)
  <2>5. PICK b \in Nat : b = Meet(k, L) /\ Shows(b, L)'
    BY <2>4, Zenon
  <2>6. ASSUME w < L PROVE \E p \in Threads : Pushing(p) /\ cnt[p] = w
    <3>1. L <= tail /\ Index(head) \in Slots
      BY <1>0, <1>2, IndexType, SMTT(30), SMTT(60)
    <3>2. Filled(L) /\ Lag(L, Index(head))
      BY <1>2, <3>1, Zenon DEF LeftInv, GapInv
    <3> QED
      BY <1>1, <2>2, <2>6, <3>1, <3>2, PushInLine, Zenon
  <2>7. Abs!ConqueueNext
    BY <1>0, <1>1, <1>4, <1>5, <1>10, <2>2, <2>5, <2>6, Pops, ZenonT(60)
  <2> QED
    BY <1>3, <2>4, <2>7, ZenonT(60)
<1>11. CASE Continues(t) \/ Passes(t)
  <2>1. head' = head
    BY <1>11, Zenon DEF Continues, Passes
  <2>2. UNCHANGED Abs!conqueue
    BY <1>0, <1>4, <1>5, <1>8, <1>11, <2>1, GoesOn, ZenonT(60)
  <2> QED
    BY <1>3, <1>8, <2>1, <2>2, ZenonT(60)
<1>12. CASE GivesUp(t)
  <2>1. /\ head' = head /\ ~Pushing(t)' /\ ~Popping(t)' /\ pc'[t] = "done"
        /\ pc[t] \in {"past", "try_past"} /\ pc[t] \notin {"done", "get"}
    BY <1>12, Zenon DEF GivesUp
  <2>2. cnt[t] >= L /\ (op[t] # "push" => head >= L)
    BY <1>2, <1>12, ToldPastGap, ZenonT(60)
  <2>3. ~(cnt[t] < L) /\ ~(cnt[t] < a) /\ (op[t] # "push" => a <= h)
    BY <1>0, <1>1, <1>5, <2>2, SMTT(30), SMTT(60) DEF Meet
  <2>4. \/ t \in Producers \cup Closers /\ ~Popping(t)
        \/ t \in Consumers \cup TryPoppers /\ ~Pushing(t) /\ Queued = <<>>
    <3>1. CASE op[t] = "push"
      BY <1>0, <2>1, <3>1, ZenonT(60) DEF RoleInv, Popping
    <3>2. CASE op[t] # "push"
      <4>1. op[t] \in {"pop", "fill", "try_pop"}
        BY <1>0, <2>1, <3>2, ZenonT(60) DEF PcOp, Waiting
      <4>2. Queued = <<>>
        BY <1>1, <1>5, <2>3, <3>2, BetweenLength, ZenonT(60) DEF Queued, Shows
      <4> QED
        BY <1>0, <3>2, <4>1, <4>2, Zenon DEF RoleInv, CallInv, Pushing
    <3> QED
      BY <3>1, <3>2, ZenonT(60)
  <2>5. Abs!ConqueueNext
    BY <1>0, <1>4, <1>5, <1>8, <2>1, <2>3, <2>4, Told, ZenonT(60)
  <2> QED
    BY <1>3, <1>8, <2>1, <2>5, ZenonT(60)
<1>13. CASE Closing(t)
  <2>1. /\ head' = head /\ op[t] = "close"
        /\ ~Pushing(t) /\ ~Popping(t) /\ ~Pushing(t)' /\ ~Popping(t)'
        /\ pc[t] \notin {"done", "get"}
    BY <1>13, Zenon DEF Closing
  <2>2. t \in Closers
    BY <1>0, <2>1, Zenon DEF RoleInv
  <2>3. CASE pc'[t] = "done"
    <3>1. Abs!ConqueueNext
      BY <1>0, <1>4, <1>5, <1>8, <2>1, <2>2, <2>3, Told, Zenon
    <3> QED
      BY <1>3, <1>8, <2>1, <3>1, ZenonT(60)
  <2>4. CASE pc'[t] # "done"
    <3>1. \A u \in Threads : AbsCall(u)' = AbsCall(u) /\ AbsGot(u)' = AbsGot(u)
      BY <1>0, <1>5, <1>8, <2>1, <2>4, StaysOut, ZenonT(60)
    <3>2. Accepted' = Accepted
      BY <1>5, <1>8, <2>1, ZenonT(60) DEF Shows
    <3>3. UNCHANGED Abs!conqueue
      BY <1>4, <2>1, <3>1, <3>2, Rests, Zenon
    <3> QED
      BY <1>3, <1>8, <2>1, <3>3, ZenonT(60)
  <2> QED
    BY <2>3, <2>4, Zenon
<1> QED
  BY <1>9, <1>10, <1>11, <1>12, <1>13, ZenonT(60) DEF Effect

\* A stuttering step leaves the invariant and the mapping alone.
LEMMA StutterRef ==
  ASSUME RefInv, UNCHANGED <<vars, got>>
  PROVE  RefInv' /\ UNCHANGED Abs!conqueue
<1>1. /\ head' = head /\ tail' = tail /\ closed' = closed /\ last' = last /\ slot' = slot
      /\ pc' = pc /\ op' = op /\ cnt' = cnt /\ tok' = tok /\ got' = got /\ UNCHANGED vars
  BY Zenon DEF vars
<1>2. \A t : (Pushing(t)' <=> Pushing(t)) /\ (Popping(t)' <=> Popping(t)) /\ (Owner(t)' <=> Owner(t))
  BY <1>1, Zenon DEF Pushing, Popping, Owner
<1>3. (AbsClosed' <=> AbsClosed) /\ End' = End
  BY <1>1, Zenon DEF AbsClosed, End
<1>4. Accepted' = Accepted
  BY <1>1, <1>3, Zenon DEF Accepted
<1>5. \A t : (CallInv(t)' <=> CallInv(t)) /\ (Announced(t)' <=> Announced(t))
  BY <1>1, <1>2, Zenon DEF CallInv, Announced
<1>6. ThrowFree' /\ PassInv'
  BY <1>1, <1>2, <1>4, ZenonT(60) DEF RefInv, ThrowFree, PassInv
<1>7. Roles'
  BY <1>1, StutterEnd, Zenon DEF RefInv
<1>8. OpenPhase => OpenPhase'
  BY <1>1, <1>5, StutterEnd, ZenonT(60) DEF OpenPhase
<1>9. ASSUME NEW L \in Nat, ClosedPhase(L) PROVE ClosedPhase(L)'
  <2>1. Ended(L) => Ended(L)'
    BY <1>1, <1>5, ZenonT(60) DEF Ended
  <2> QED
    BY <1>1, <1>9, <2>1, StutterEnd, ZenonT(60) DEF ClosedPhase
<1>10. RefInv'
  BY <1>5, <1>6, <1>7, <1>8, <1>9, Zenon DEF RefInv
<1>11. \A t \in Threads : AbsCall(t)' = AbsCall(t) /\ AbsGot(t)' = AbsGot(t)
  BY <1>1, <1>3, <1>4, ZenonT(60) DEF AbsCall, AbsGot, Taking
<1> QED
  BY <1>1, <1>3, <1>4, <1>10, <1>11, Rests, Zenon

\* Every step preserves the invariant and is a step of the abstract queue, or
\* none.
LEMMA RefNext ==
  ASSUME RingInv, RingInv', NoHalfWrap, NoHalfWrap', Size <= CountMod \div 2,
         RefInv, [Next /\ Record]_<<vars, got>>
  PROVE  RefInv' /\ [Abs!ConqueueNext]_(Abs!conqueue)
<1>0. /\ head \in Nat /\ tail \in Nat /\ head' \in Nat /\ tail' \in Nat
      /\ Size \in Nat /\ CountMod \in Nat /\ CountMod \div 2 \in Nat
  <2>1. CountMod \div 2 \in Nat
    BY ConstantFacts, SMTT(30), SMTT(60)
  <2> QED
    BY <2>1, ConstantFacts, Zenon DEF RingInv, TypeInv, TypeOK
<1>1. CASE UNCHANGED <<vars, got>>
  BY <1>1, StutterRef, ZenonT(60)
<1>2. CASE Next /\ Record
  <2>1. PICK t \in Threads : Acts(t)
    BY <1>2, Zenon DEF Next, Acts
  <2>2. NoWrap /\ NoWrap' /\ tail + Size <= CountMod
    BY <1>0, SMTT(30), SMTT(60) DEF NoWrap, NoHalfWrap
  <2>3. /\ Roles /\ ThrowFree /\ (\A u \in Threads : CallInv(u)) /\ PassInv
        /\ OpenPhase \/ \E L \in Nat : ClosedPhase(L)
    BY Zenon DEF RefInv
  <2>4. /\ Effect(t) /\ Detail(t) /\ Roles'
        /\ ThrowFree' /\ \A u \in Threads : CallInv(u)'
    BY <2>1, <2>2, <2>3, ThreadsKept, Zenon
  <2>5. CASE OpenPhase
    <3>1. /\ PassInv' /\ (OpenPhase' \/ \E L \in Nat : ClosedPhase(L)')
          /\ [Abs!ConqueueNext]_(Abs!conqueue)
      BY <1>2, <2>1, <2>2, <2>3, <2>4, <2>5, OpenMoves, Zenon
    <3> QED
      BY <2>4, <3>1, Zenon DEF RefInv
  <2>6. ASSUME NEW L \in Nat, ClosedPhase(L)
        PROVE  RefInv' /\ [Abs!ConqueueNext]_(Abs!conqueue)
    <3>1. PassInv' /\ ClosedPhase(L)' /\ [Abs!ConqueueNext]_(Abs!conqueue)
      BY <1>2, <2>1, <2>2, <2>3, <2>4, <2>6, ClosedMoves, ZenonT(60)
    <3> QED
      BY <2>4, <3>1, Zenon DEF RefInv
  <2> QED
    BY <2>3, <2>5, <2>6, ZenonT(60)
<1> QED
  BY <1>1, <1>2, Zenon

\* An empty ring is an empty queue.
LEMMA RefInit == HistoryInit => RefInv /\ Abs!ConqueueInit
<1> SUFFICES ASSUME HistoryInit PROVE RefInv /\ Abs!ConqueueInit
  OBVIOUS
<1>1. Init /\ got = [t \in Threads |-> <<>>]
  BY Zenon DEF HistoryInit
<1>2. Roles /\ OpenInv /\ \A t \in Threads : pc[t] = "idle"
  BY <1>1, InitEnd, Zenon
<1>3. /\ head = 0 /\ tail = 0
      /\ \A t \in Threads : op[t] = "none" /\ tok[t].status # "invalid"
      /\ \A s \in Slots : slot[s].status # "invalid"
  BY <1>1, Zenon DEF Init, Token, NoToken
<1>4. OpenPhase
  BY <1>2, <1>3, Zenon DEF OpenPhase, Announced
<1>5. ThrowFree /\ PassInv /\ \A t \in Threads : CallInv(t)
  BY <1>2, <1>3, Zenon DEF ThrowFree, PassInv, CallInv, Owner
<1>6. RefInv
  BY <1>2, <1>4, <1>5, ZenonT(60) DEF RefInv
<1>7. End = 0 /\ ~AbsClosed /\ 0 \in Nat
  BY <1>3, <1>4, OpenEnd, ZenonT(60)
<1>8. Accepted = 0
  BY <1>3, <1>7, ConstantFacts, SMTT(30), SMTT(60) DEF Accepted
<1>9. Queued = <<>>
  <2>1. Queued = Between(0, 0) /\ 0 <= 0
    BY <1>3, <1>8, SMTT(30), SMTT(60) DEF Queued
  <2> QED
    BY <1>7, <2>1, BetweenLength, ZenonT(60)
<1>10. ASSUME NEW t \in Threads PROVE AbsCall(t) = "none" /\ AbsGot(t) = <<>>
  BY <1>1, <1>2, <1>3, ZenonT(60) DEF AbsCall, AbsGot, Taking
<1>11. Calls = [t \in Threads |-> "none"] /\ Given = [t \in Threads |-> <<>>]
  BY <1>10, Zenon DEF Calls, Given
<1>12. AbsClosed = FALSE
  BY <1>7, SMTT(30), SMTT(60) DEF AbsClosed
<1>13. Abs!ConqueueInit
  BY <1>8, <1>9, <1>11, <1>12, UsersAreThreads, Zenon DEF Abs!ConqueueInit
<1> QED
  BY <1>6, <1>13, Zenon

\* bounded_queue is a closable first-in first-out queue of Size values, for
\* every size and any number of producers, consumers and try_poppers with one
\* closer: each push, pop and close takes effect in one step between its call
\* and its return.  It is so as long as nothing throws and fewer than 2^31
\* tickets are drawn on either side, for rings of at most 2^31 slots.
THEOREM RingImplements ==
  ASSUME Size <= CountMod \div 2
  PROVE  HistorySafety /\ []NoHalfWrap => ImplementsConqueue
<1>1. HistoryInit => RingInv /\ RefInv /\ Abs!ConqueueInit
  BY RefInit, InitRing, Zenon DEF HistoryInit
<1>2. RingInv /\ NoHalfWrap /\ NoHalfWrap' /\ [Next /\ Record]_<<vars, got>> => RingInv'
  <2> SUFFICES ASSUME RingInv, NoHalfWrap, NoHalfWrap', [Next /\ Record]_<<vars, got>> PROVE RingInv'
    OBVIOUS
  <2>0. [Next]_vars
    BY Zenon
  <2>1. TypeInv'
    BY <2>0, NextType, ZenonT(60) DEF RingInv
  <2>2. CountMod \div 2 \in Nat /\ CountMod \div 2 <= CountMod /\ CountMod \in Nat
    BY ConstantFacts, SMTT(30), SMTT(60)
  <2>3. head \in Nat /\ tail \in Nat /\ head' \in Nat /\ tail' \in Nat
    BY <2>1, Zenon DEF RingInv, TypeInv, TypeOK
  <2>4. NoWrap /\ NoWrap'
    BY <2>2, <2>3, SMTT(30), SMTT(60) DEF NoWrap, NoHalfWrap
  <2> QED
    BY <2>0, <2>4, NextRing, ZenonT(60)
<1>3. RingInv /\ RingInv' /\ NoHalfWrap /\ NoHalfWrap' /\ RefInv /\ [Next /\ Record]_<<vars, got>>
        => RefInv' /\ [Abs!ConqueueNext]_(Abs!conqueue)
  BY RefNext, Zenon
<1> QED
  BY <1>1, <1>2, <1>3, PTL DEF HistorySafety, ImplementsConqueue, Abs!ConqueueSpec
=============================================================================
