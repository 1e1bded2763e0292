----------------------------- MODULE SynchQueue -----------------------------
(***************************************************************************)
(* synch_queue of evenk/synch_queue.h: an unbounded queue under one lock   *)
(* and one condition variable, composed with the lock and the condition    *)
(* variable of FutexSynch (default_synch on Linux) step by step.           *)
(*                                                                         *)
(* The sequence and the closed flag are only touched under the lock; what  *)
(* an operation does to them is one step with the call of the library that *)
(* it makes next, but a pop reads the front and removes it in two steps.   *)
(* A value is the number of its push.                                      *)
(***************************************************************************)
EXTENDS FutexSynch, Sequences

CONSTANTS
  Producers,  \* threads that call push, wait_push, try_push, nonblocking_push
  Consumers,  \* threads that call wait_pop or value_pop
  TryPoppers, \* threads that call try_pop or nonblocking_pop
  Closers,    \* threads that call close
  MaxPush     \* bound: no push starts once MaxPush values are pushed

ASSUME QueueAssumption ==
  /\ Threads = Producers \cup Consumers \cup TryPoppers \cup Closers
  /\ MaxPush \in Nat
  /\ MaxPush + Cardinality(Producers) + Cardinality(Closers) <= MaxSeq

VARIABLES
  queue,   \* queue_
  closed,  \* closed_
  call,    \* the operation of every thread; "done" once it was told "closed"
  pushed,  \* the number of values pushed so far
  got      \* the values every thread popped

queueVars == <<queue, closed, call, pushed, got>>
vars == <<synch, queueVars>>

Init ==
  /\ SynchInit
  /\ queue = <<>>
  /\ closed = FALSE
  /\ call = [t \in Threads |-> "none"]
  /\ pushed = 0
  /\ got = [t \in Threads |-> <<>>]

Call(t, c) == call' = [call EXCEPT ![t] = c]

\* Thread t is back from the library and holds the lock on behalf of c.
Locked(t, c) == call[t] = c /\ pc[t] = "out" /\ owns[t]

\* The constructor of the guard, the first thing every operation does
Enter(t, c) ==
  /\ call[t] = "none" /\ pc[t] = "out"
  /\ lock(t)
  /\ Call(t, c)
  /\ UNCHANGED <<queue, closed, pushed, got>>

\* The destructor of the guard, the last thing every operation does
Leave(t, c) == unlock(t) /\ Call(t, c)

try_push(t) == t \in Producers /\ pushed < MaxPush /\ Enter(t, "push")

wait_pop(t) == t \in Consumers /\ Enter(t, "wait_pop")

try_pop(t) == t \in TryPoppers /\ Enter(t, "try_pop")

\* Bound: nobody starts to close a queue that is closed; two may close at once.
close(t) == t \in Closers /\ ~closed /\ Enter(t, "close")

\* A guard constructed with try_to_lock. If the lock is taken the operation
\* returns "busy" and has changed nothing.
TryEnter(t, c) ==
  /\ call[t] = "none"
  /\ try_lock(t)
  /\ Call(t, c)
  /\ UNCHANGED <<queue, closed, pushed, got>>

nonblocking_push(t) == t \in Producers /\ pushed < MaxPush /\ TryEnter(t, "push")

nonblocking_pop(t) == t \in TryPoppers /\ TryEnter(t, "try_pop")

\* Mutant: the flag is not looked at.
LockedPushLate(t) ==
  /\ Locked(t, "push")
  /\ queue' = Append(queue, pushed + 1)
  /\ pushed' = pushed + 1
  /\ notify_one(t)
  /\ Call(t, "leave")
  /\ UNCHANGED <<closed, got>>

\* locked_push(): push_back() and the start of notify_one(), or "closed".
locked_push(t) ==
  /\ Locked(t, "push")
  /\ \/ /\ closed
        /\ Leave(t, "done")
        /\ UNCHANGED <<queue, pushed>>
     \/ /\ ~closed
        /\ queue' = Append(queue, pushed + 1)
        /\ pushed' = pushed + 1
        /\ notify_one(t)
        /\ Call(t, "leave")
  /\ UNCHANGED <<closed, got>>

\* A thread that found the queue empty: "closed", or "empty", on which
\* wait_pop() waits and try_pop() returns.
PopEmpty(t) ==
  \/ closed /\ Leave(t, "done")
  \/ ~closed /\ call[t] = "try_pop" /\ Leave(t, "none")
  \/ ~closed /\ call[t] = "wait_pop" /\ wait(t) /\ call' = call

\* Mutant: "closed" is reported before the values are taken out.
LockedPopClosedFirst(t) ==
  /\ Locked(t, "wait_pop") \/ Locked(t, "try_pop")
  /\ \/ /\ queue # <<>> /\ ~closed
        /\ got' = [got EXCEPT ![t] = Append(@, Head(queue))]
        /\ Call(t, "pop_front")
        /\ UNCHANGED synch
     \/ /\ queue = <<>> \/ closed
        /\ PopEmpty(t)
        /\ got' = got
  /\ UNCHANGED <<queue, closed, pushed>>

\* locked_pop(), at first and after every wait(), up to the move out of
\* queue_.front()
locked_pop(t) ==
  /\ Locked(t, "wait_pop") \/ Locked(t, "try_pop")
  /\ \/ /\ queue # <<>>
        /\ got' = [got EXCEPT ![t] = Append(@, Head(queue))]
        /\ Call(t, "pop_front")
        /\ UNCHANGED synch
     \/ /\ queue = <<>>
        /\ PopEmpty(t)
        /\ got' = got
  /\ UNCHANGED <<queue, closed, pushed>>

\* queue_.pop_front(), and the operation returns.
pop_front(t) ==
  /\ Locked(t, "pop_front")
  /\ queue' = IF queue = <<>> THEN queue ELSE Tail(queue)
  /\ Leave(t, "none")
  /\ UNCHANGED <<closed, pushed, got>>

\* Mutant: close() wakes up one consumer only.
LockedCloseOne(t) ==
  /\ Locked(t, "close")
  /\ closed' = TRUE
  /\ notify_one(t)
  /\ Call(t, "leave")
  /\ UNCHANGED <<queue, pushed, got>>

\* The body of close(): the flag and the start of notify_all()
locked_close(t) ==
  /\ Locked(t, "close")
  /\ closed' = TRUE
  /\ notify_all(t)
  /\ Call(t, "leave")
  /\ UNCHANGED <<queue, pushed, got>>

\* The notification is through and the operation returns.
Return(t) ==
  /\ Locked(t, "leave")
  /\ Leave(t, "none")
  /\ UNCHANGED <<queue, closed, pushed, got>>

Begin(t) ==
  \/ try_push(t) \/ wait_pop(t) \/ try_pop(t) \/ close(t)
  \/ nonblocking_push(t) \/ nonblocking_pop(t)

Step(t) ==
  \/ locked_push(t) \/ locked_pop(t) \/ pop_front(t) \/ locked_close(t) \/ Return(t)
  \/ SynchStep(t) /\ UNCHANGED queueVars

Signalled(t) == Interrupted(t) /\ UNCHANGED queueVars

Next == \E t \in Threads : Begin(t) \/ Step(t) \/ Signalled(t)

Spec == Init /\ [][Next]_vars

\* The scheduler runs every thread that is inside an operation and not
\* asleep, a consumer calls wait_pop() until it is told "closed", and every
\* thread receives finitely many signals. Nothing makes anybody push or close.
FairSpec ==
  /\ Spec
  /\ \A t \in Threads : WF_vars(Step(t) \/ wait_pop(t))
  /\ <>[][\A t \in Threads : ~Signalled(t)]_vars

-----------------------------------------------------------------------------
(* Properties                                                              *)

Popped == UNION {{got[t][i] : i \in 1 .. Len(got[t])} : t \in Threads}

\* Every value pushed is in the queue or was popped by one thread once, and
\* no thread gets two values in the order opposite to that of their pushes.
FifoDelivery ==
  /\ \A t \in Threads : \A i, j \in 1 .. Len(got[t]) : i < j => got[t][i] < got[t][j]
  /\ \A t, u \in Threads : \A i \in 1 .. Len(got[t]), j \in 1 .. Len(got[u]) :
       got[t][i] = got[u][j] => t = u /\ i = j
  /\ Popped \cup {queue[i] : i \in 1 .. Len(queue)} = 1 .. pushed

\* No thread is inside an operation except asleep in wait_pop() or in lock().
Quiet == \A t \in Threads : on[t] # "none" \/ (pc[t] = "out" /\ ~owns[t])

\* Whenever everything has come to rest, nobody sleeps on the lock, and
\* consumers sleep on the condition variable only while the queue is empty
\* and open: neither push() nor close() loses a wake-up.
NobodyStranded ==
  Quiet => /\ Asleep("lock") = {}
           /\ Asleep("cond") # {} => queue = <<>> /\ ~closed

\* A consumer that was told "closed" has left no value behind.
ClosedIsDrained ==
  \A t \in Consumers \cup TryPoppers : call[t] = "done" => queue = <<>>

\* After close() every consumer gets the values that remain and then "closed".
ConsumersReleased ==
  closed ~> (\A c \in Consumers : call[c] = "done")

\* Every value pushed is popped.
ValuesConsumed == (queue # <<>>) ~> (queue = <<>>)

-----------------------------------------------------------------------------
(* The queue that synch_queue implements                                   *)

\* A pop takes effect when it moves the front out, before pop_front(). A
\* push never waits for room: every push notifies, so that fewer than MaxSeq
\* are in the queue when one is added. Threads that wait on the lock or on
\* the condition variable hold no place in line.
Abs ==
  INSTANCE Conqueue WITH
    Pushers <- Producers \cup Closers,
    Poppers <- Consumers \cup TryPoppers,
    Capacity <- MaxSeq + 1,
    queue <- IF \E t \in Threads : call[t] = "pop_front" THEN Tail(queue) ELSE queue,
    call <- [t \in Threads |-> IF call[t] = "done" THEN "done" ELSE "none"]

\* Over the steps of the futex lock and the condition variable synch_queue
\* is a closable first-in first-out queue: each push, pop and close takes
\* effect at once, and "closed" is answered only after close() and, to a
\* pop, only when no value is left.
ImplementsConqueue == Abs!ConqueueSpec
=============================================================================
