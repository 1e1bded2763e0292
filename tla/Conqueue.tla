------------------------------ MODULE Conqueue ------------------------------
(***************************************************************************)
(* What a concurrent queue promises through the interface of               *)
(* evenk/conqueue.h (queue_base, and the wrapper and the two ends that     *)
(* forward to a queue): a closable first-in first-out queue of at most     *)
(* Capacity values.  Every operation takes effect in one step between its  *)
(* call and its return; a push on a full queue and a pop on an empty one   *)
(* stand in line until a pop or a push lets them through.                  *)
(*                                                                         *)
(* SynchQueue and RingQueue are shown to implement this module; ThreadPool *)
(* and QueueIterators are built on it.  A value is the number of its push. *)
(***************************************************************************)
EXTENDS Integers, Sequences

CONSTANTS
  Pushers,   \* threads at the back of the queue
  Poppers,   \* threads at the front of the queue
  Capacity   \* the number of values the queue holds

ASSUME ConqueueAssumption == Capacity \in Nat \ {0}

VARIABLES
  queue,   \* the values in the queue
  closed,  \* whether it is closed
  call,    \* "push" or "pop" in line, "done" once told "closed"
  pushed,  \* the number of values accepted so far
  got      \* the values every thread was given

conqueue == <<queue, closed, call, pushed, got>>

Users == Pushers \cup Poppers

ConqueueInit ==
  /\ queue = <<>>
  /\ closed = FALSE
  /\ call = [t \in Users |-> "none"]
  /\ pushed = 0
  /\ got = [t \in Users |-> <<>>]

InLine(c) == {t \in Users : call[t] = c}

Give(t, v) == got' = [got EXCEPT ![t] = Append(@, v)]

\* A push that is accepted at once. It meets a consumer in line or finds room.
\* A try_push(), try_pop() or nonblocking operation that fails changes nothing.
try_push(t) ==
  /\ t \in Pushers /\ call[t] = "none"
  /\ ~closed
  /\ pushed' = pushed + 1
  /\ \/ \E c \in InLine("pop") :
          /\ Give(c, pushed + 1)
          /\ call' = [call EXCEPT ![c] = "none"]
          /\ queue' = queue
     \/ /\ InLine("pop") = {}
        /\ Len(queue) < Capacity
        /\ queue' = Append(queue, pushed + 1)
        /\ UNCHANGED <<call, got>>
  /\ UNCHANGED closed

\* push() and wait_push(): on a full queue the thread stands in line, and is
\* let in later even if the queue is closed meanwhile.
wait_push(t) ==
  \/ try_push(t)
  \/ /\ t \in Pushers /\ call[t] = "none"
     /\ ~closed
     /\ Len(queue) = Capacity
     /\ call' = [call EXCEPT ![t] = "push"]
     /\ UNCHANGED <<queue, closed, pushed, got>>

\* A pop that succeeds at once. It lets in a producer that stands in line.
try_pop(t) ==
  /\ t \in Poppers /\ call[t] = "none"
  /\ queue # <<>>
  /\ Give(t, Head(queue))
  /\ \/ \E p \in InLine("push") :
          /\ queue' = Append(Tail(queue), pushed + 1)
          /\ pushed' = pushed + 1
          /\ call' = [call EXCEPT ![p] = "none"]
     \/ /\ InLine("push") = {}
        /\ queue' = Tail(queue)
        /\ UNCHANGED <<pushed, call>>
  /\ UNCHANGED closed

\* value_pop() and wait_pop(): on an empty queue the thread stands in line.
wait_pop(t) ==
  \/ try_pop(t)
  \/ /\ t \in Poppers /\ call[t] = "none"
     /\ queue = <<>>
     /\ call' = [call EXCEPT ![t] = "pop"]
     /\ UNCHANGED <<queue, closed, pushed, got>>

\* A push or a pop returns queue_op_status::closed, a pop only once all the
\* values are gone.
ToldClosed(t) ==
  /\ closed
  /\ \/ t \in Pushers /\ call[t] = "none"
     \/ t \in Poppers /\ call[t] \in {"none", "pop"} /\ queue = <<>>
  /\ call' = [call EXCEPT ![t] = "done"]
  /\ UNCHANGED <<queue, closed, pushed, got>>

close ==
  /\ closed' = TRUE
  /\ UNCHANGED <<queue, call, pushed, got>>

ConqueueNext ==
  \/ close
  \/ \E t \in Users : wait_push(t) \/ wait_pop(t) \/ ToldClosed(t)

ConqueueSpec == ConqueueInit /\ [][ConqueueNext]_conqueue
=============================================================================
