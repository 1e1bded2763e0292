------------------------- MODULE BoundedQueueSteps --------------------------
(***************************************************************************)
(* What a step of the ring of evenk/bounded_queue.h does to the tickets,   *)
(* and the invariants about its closing that BoundedQueueClosing proves    *)
(* from that.                                                              *)
(***************************************************************************)
EXTENDS BoundedQueueProofs

-----------------------------------------------------------------------------
(* What a step does to the tickets                                         *)

\* Every slot keeps its turn and its status.
TurnsKept == \A n \in Nat : (Turn(n)' <=> Turn(n)) /\ Status(n)' = Status(n)

\* t draws a tail ticket.
DrawsPush(t) ==
  /\ TurnsKept
  /\ tail' = tail + 1 /\ UNCHANGED <<head, closed, last>>
  /\ ~Pushing(t) /\ ~Popping(t)
  /\ Pushing(t)' /\ ~Popping(t)' /\ cnt'[t] = tail
  /\ pc'[t] \notin {"done", "close_last", "close_flag"}

\* t draws a head ticket.
DrawsPop(t) ==
  /\ TurnsKept
  /\ head' = head + 1 /\ UNCHANGED <<tail, closed, last>>
  /\ ~Pushing(t) /\ ~Popping(t)
  /\ Popping(t)' /\ ~Pushing(t)' /\ cnt'[t] = head
  /\ pc'[t] \notin {"done", "close_last", "close_flag"}

\* t keeps the ticket it holds, if it holds one.
Continues(t) ==
  /\ TurnsKept
  /\ UNCHANGED <<head, tail, closed, last>>
  /\ Pushing(t)' <=> Pushing(t)
  /\ Popping(t)' <=> Popping(t)
  /\ Pushing(t) \/ Popping(t) => cnt'[t] = cnt[t]
  /\ pc'[t] \notin {"done", "close_last", "close_flag"}

\* t is told "closed" and gives its ticket up.
GivesUp(t) ==
  /\ TurnsKept
  /\ UNCHANGED <<head, tail, closed, last>>
  /\ pc[t] \in {"past", "try_past"} /\ is_past_last(cnt[t])
  /\ ~Pushing(t)' /\ ~Popping(t)' /\ pc'[t] = "done"

\* t passes its slot on.
Passes(t) ==
  /\ UNCHANGED <<head, tail, closed, last>>
  /\ pc[t] = "wake" /\ slot' = [slot EXCEPT ![At(t)] = tok[t]]
  /\ ~Pushing(t)' /\ ~Popping(t)'
  /\ pc'[t] \notin {"done", "close_last", "close_flag"}

\* t is in close(): the three accesses that announce the end, and the return.
Closing(t) ==
  /\ TurnsKept
  /\ head' = head /\ op[t] = "close"
  /\ ~Pushing(t) /\ ~Popping(t) /\ ~Pushing(t)' /\ ~Popping(t)'
  /\ \/ /\ pc[t] = "close_tail" /\ pc'[t] = "close_last" /\ cnt'[t] = tail
        /\ tail' = tail + Size /\ UNCHANGED <<closed, last>>
     \/ /\ pc[t] = "close_last" /\ pc'[t] = "close_flag"
        /\ last' = cnt[t] /\ UNCHANGED <<tail, closed>>
     \/ /\ pc[t] = "close_flag" /\ pc'[t] = "close_slot"
        /\ closed' = "closed" /\ UNCHANGED <<tail, last>>
     \/ /\ pc[t] \in {"close_slot", "signal"} /\ pc'[t] = "done"
        /\ UNCHANGED <<tail, closed, last>>

\* The steps of t in Next
Acts(t) ==
  wait_push(t) \/ wait_pop(t) \/ try_pop(t) \/ CloseCas(t) \/ Step(t) \/ Interrupted(t)

Effect(t) ==
  /\ OthersKeep(t)
  /\ \/ /\ pc[t] \notin {"close_last", "close_flag"}
        /\ DrawsPush(t) \/ DrawsPop(t) \/ Continues(t) \/ GivesUp(t) \/ Passes(t)
     \/ Closing(t)

\* Who executes what, and what a thread knows of a ticket that it does not hold
\* yet, or of the one after the one it passes on
RoleInv(t) ==
  /\ op[t] \in {"pop", "fill", "again"} => t \in Consumers
  /\ op[t] = "push" => t \in Producers
  /\ op[t] = "close" => t \in Closers
  /\ pc[t] = "take" => op[t] = "again"
  /\ pc[t] = "try_past" => cnt[t] <= head
  /\ pc[t] = "close_last" => cnt[t] <= tail
  /\ Pushing(t) /\ pc[t] = "wake" => tok[t].status # "none"
  /\ Releasing(t) => tok[t].ticket = NextLap(cnt[t]).ticket

Roles == last <= tail /\ \A t \in Threads : RoleInv(t)

-----------------------------------------------------------------------------
(* The invariant                                                           *)

\* The turn of slot s is at most a lap ahead of L and of head_.
Lag(L, s) ==
  \E m \in Nat : Index(m) = s /\ Turn(m) /\ m < L + Size /\ m < head + Size

\* A head ticket below b that was drawn is held until its slot is passed on.
Held(b) ==
  \A m, n \in Nat : n < b /\ n < head /\ m <= n /\ Index(m) = Index(n) /\ Turn(m) =>
    \E t \in Threads : Popping(t) /\ cnt[t] = n

\* A tail ticket below b that was drawn is held until its slot is filled.
Filled(b) ==
  \A m, n \in Nat :
    n < b /\ n < tail /\ m <= n /\ Index(m) = Index(n) /\ Turn(m) /\ (m < n \/ Status(m) = "none") =>
      \E t \in Threads : Pushing(t) /\ cnt[t] = n

\* No close() has advanced tail_.
OpenInv ==
  /\ closed = "open" /\ \A t \in Threads : pc[t] \notin {"close_last", "close_flag"}
  /\ tail + Size <= CountMod => (\A s \in Slots : Lag(tail, s)) /\ Held(CountMod) /\ Filled(CountMod)

\* The first close() has found tail_ at L.
GapInv(L) ==
  /\ L + Size <= tail
  /\ \A t \in Threads : Pushing(t) => cnt[t] < L \/ cnt[t] >= L + Size
  /\ \A s \in Slots : Lag(L, s)
  /\ \A n \in Nat : L <= n /\ n < L + Size /\ Turn(n) => Status(n) = "none"
  /\ closed = "closed" => last >= L
  /\ closed = "open" => \E t \in Threads : pc[t] \in {"close_last", "close_flag"}
  /\ \A t \in Threads : /\ pc[t] = "close_last" => cnt[t] >= L
                        /\ pc[t] = "close_flag" => last >= L

EndInv == Roles /\ (OpenInv \/ \E L \in Nat : GapInv(L))

\* Fewer than half the values of a word were drawn on either side.
NoHalfWrap == head < CountMod \div 2 /\ tail < CountMod \div 2

\* Until the ticket L is drawn nobody who pops was told "closed".
LeftInv(L) == Held(L) /\ Filled(L) /\ \A c \in Consumers : pc[c] = "done" => head >= L

DrainInv ==
  Roles /\ \/ OpenInv /\ \A c \in Consumers : pc[c] # "done"
           \/ \E L \in Nat : GapInv(L) /\ LeftInv(L)
=============================================================================
