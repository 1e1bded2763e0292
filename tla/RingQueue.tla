------------------------------ MODULE RingQueue ------------------------------
(***************************************************************************)
(* The ring of BoundedQueue implements the bounded queue of Conqueue.      *)
(*                                                                         *)
(* The only addition to the ring is a history of the values that every     *)
(* thread has moved out of a slot.  Values are moved without exceptions,   *)
(* and one thread closes: with two the ring loses its end (OnlyOneCloser). *)
(***************************************************************************)
EXTENDS BoundedQueue, Sequences

ASSUME RingQueueAssumption ==
  /\ ~MayThrow
  /\ TryPushers = {}
  /\ \A t, u \in Closers : t = u
  /\ (Producers \cup Closers) \cap (Consumers \cup TryPoppers) = {}

VARIABLE got  \* the values every thread moved out of slots

HistoryInit == Init /\ got = [t \in Threads |-> <<>>]

\* Values of Conqueue are numbered from 1.
Moves(t) == pc[t] = "get" /\ pc'[t] = "wake"

Record ==
  got' = [t \in Threads |-> IF Moves(t) THEN Append(got[t], val[At(t)] + 1) ELSE got[t]]

HistorySafety == HistoryInit /\ [][Next /\ Record]_<<vars, got>>

HistorySpec ==
  /\ HistorySafety
  /\ \A t \in Threads : WF_vars(Step(t))
  /\ \A t \in Consumers : WF_vars(wait_pop(t))

-----------------------------------------------------------------------------
(* The mapping                                                             *)

\* close() takes effect when it moves the tail.
AbsClosed == closed = "closed" \/ \E t \in Closers : pc[t] \in {"close_last", "close_flag"}

\* The tickets below End are or will be filled; later pushes are refused.
End ==
  IF \E t \in Closers : pc[t] = "close_last"
  THEN cnt[CHOOSE t \in Closers : pc[t] = "close_last"]
  ELSE IF AbsClosed THEN last ELSE tail

\* A push takes effect as soon as its ticket is drawn and within Size of the
\* head, before its slot is filled or even free.
Accepted == IF head + Size < End THEN head + Size ELSE End

\* t has drawn a ticket to pop and has not used it yet.
Taking(t) ==
  \/ op[t] \in {"pop", "fill"} /\ pc[t] \notin {"wake", "signal"}
  \/ op[t] = "try_pop" /\ pc[t] = "get"

\* A pop takes effect as soon as tickets of its number are drawn on both
\* sides and the push is accepted.
AbsGot(t) ==
  IF Taking(t) /\ cnt[t] < Accepted THEN Append(got[t], cnt[t] + 1) ELSE got[t]

AbsCall(t) ==
  CASE pc[t] = "done" -> "done"
    [] op[t] = "push" /\ Accepted <= cnt[t] /\ cnt[t] < End -> "push"
    [] op[t] \in {"pop", "fill"} /\ Accepted <= cnt[t] -> "pop"
    [] OTHER -> "none"

\* The values of the tickets from m up to n
Between(m, n) == [i \in 1 .. (IF m < n THEN n - m ELSE 0) |-> m + i]

Queued == Between(head, Accepted)
Calls == [t \in Threads |-> AbsCall(t)]
Given == [t \in Threads |-> AbsGot(t)]

Abs ==
  INSTANCE Conqueue WITH
    Pushers <- Producers \cup Closers,
    Poppers <- Consumers \cup TryPoppers,
    Capacity <- Size,
    queue <- Queued,
    closed <- AbsClosed,
    call <- Calls,
    pushed <- Accepted,
    got <- Given

\* Across all interleavings of tickets, slots, sleeps and wake-ups the ring is
\* a first-in first-out queue of Size values: every push, pop and close takes
\* effect at once between its call and its return, a consumer that drew its
\* ticket early is served before later ones, pushes in line when the queue is
\* closed are still let in, and "closed" is answered to a pop only when no
\* value is left.
ImplementsConqueue == Abs!ConqueueSpec
=============================================================================
