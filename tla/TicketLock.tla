----------------------------- MODULE TicketLock -----------------------------
(***************************************************************************)
(* ticket_lock and shared_ticket_lock of evenk/spinlock.h.                 *)
(*                                                                         *)
(* Both draw tickets from tail and wait until head gets there.  The shared *)
(* lock packs two counters into each word: the low half counts exclusive   *)
(* tickets, the high half shared ones, and the low half carries into the   *)
(* high one when it overflows.  ticket_lock is the same code without the   *)
(* shared operations, so one model stands for both.                        *)
(***************************************************************************)
EXTENDS Integers, FiniteSets

CONSTANTS
  Threads,   \* the threads that use the lock
  Half,      \* shared_step, 2^(w/2)
  MaxStale   \* bound: tickets drawn by others during one attempt of try_lock

\* Fewer threads than the high half can count, which the test of the lock
\* asserts, and attempts during which neither half comes round: the tickets
\* that others hold at the start and draw during the attempt are below Half.
ASSUME TicketAssumption ==
  /\ Half \in Nat \ {0}
  /\ IsFiniteSet(Threads) /\ Cardinality(Threads) < Half
  /\ MaxStale \in Nat /\ Cardinality(Threads) + MaxStale <= Half

VARIABLES
  head, tail,  \* head_ and tail_
  pc,          \* where every thread is
  seen,        \* the head it loaded, in try_lock and in unlock
  mine,        \* the tail it drew or loaded
  stale        \* tickets drawn by others since it loaded head in try_lock

vars == <<head, tail, pc, seen, mine, stale>>

\* The number of values of base_type
Word == Half * Half

exclusive_step == 1

shared_step == Half

\* w & exclusive_mask
Exclusive(w) == w % Half

Trying == {t \in Threads : pc[t] \in {"try", "cas", "try_shared", "cas_shared"}}

Init ==
  /\ head = 0
  /\ tail = 0
  /\ pc = [t \in Threads |-> "idle"]
  /\ seen = [t \in Threads |-> 0]
  /\ mine = [t \in Threads |-> 0]
  /\ stale = [t \in Threads |-> 0]

Goto(t, l) == pc' = [pc EXCEPT ![t] = l]

\* The locals of t are dead from here on.
Forget(t) ==
  /\ seen' = [seen EXCEPT ![t] = 0]
  /\ mine' = [mine EXCEPT ![t] = 0]

\* Thread t adds step to tail_, by fetch_add() or by a compare_exchange that
\* succeeds; attempts of other threads get staler.
Draw(t, step) ==
  /\ \A u \in Trying \ {t} : stale[u] < MaxStale
  /\ tail' = (tail + step) % Word
  /\ stale' = [u \in Threads |-> IF u = t THEN 0
                                 ELSE IF u \in Trying THEN stale[u] + 1 ELSE stale[u]]

-----------------------------------------------------------------------------
(* lock() and lock_shared()                                                *)

lock(t) ==
  /\ pc[t] = "idle"
  /\ Draw(t, exclusive_step)
  /\ mine' = [mine EXCEPT ![t] = tail]
  /\ Goto(t, "wait")
  /\ UNCHANGED <<head, seen>>

lock_shared(t) ==
  /\ pc[t] = "idle"
  /\ Draw(t, shared_step)
  /\ mine' = [mine EXCEPT ![t] = Exclusive(tail)]
  /\ Goto(t, "wait_shared")
  /\ UNCHANGED <<head, seen>>

\* Mutant: the exclusive side looks at exclusive tickets only.
EnterAmongReaders(t) ==
  /\ pc[t] = "wait"
  /\ Exclusive(head) = Exclusive(mine[t])
  /\ Goto(t, "held")
  /\ Forget(t)
  /\ UNCHANGED <<head, tail, stale>>

\* The load of head_ that ends the loop of lock(): all tickets drawn before,
\* exclusive and shared, have been returned. Other loads change nothing.
Enter(t) ==
  /\ pc[t] = "wait"
  /\ head = mine[t]
  /\ Goto(t, "held")
  /\ Forget(t)
  /\ UNCHANGED <<head, tail, stale>>

\* Mutant: the shared side compares the whole word.
EnterSharedWhole(t) ==
  /\ pc[t] = "wait_shared"
  /\ head = mine[t]
  /\ Goto(t, "shared")
  /\ Forget(t)
  /\ UNCHANGED <<head, tail, stale>>

\* The load of head_ that ends the loop of lock_shared()
EnterShared(t) ==
  /\ pc[t] = "wait_shared"
  /\ Exclusive(head) = mine[t]
  /\ Goto(t, "shared")
  /\ Forget(t)
  /\ UNCHANGED <<head, tail, stale>>

-----------------------------------------------------------------------------
(* try_lock() and try_lock_shared()                                        *)

\* head_.load()
TryHead(t, l) ==
  /\ pc[t] = "idle"
  /\ seen' = [seen EXCEPT ![t] = head]
  /\ Goto(t, l)
  /\ UNCHANGED <<head, tail, mine, stale>>

try_lock(t) == TryHead(t, "try")

try_lock_shared(t) == TryHead(t, "try_shared")

\* An attempt that fails
Fail(t) ==
  /\ Goto(t, "idle")
  /\ Forget(t)
  /\ stale' = [stale EXCEPT ![t] = 0]
  /\ tail' = tail

\* tail_.load() and the comparison
TryTail(t) ==
  /\ \/ pc[t] = "try" /\ seen[t] = tail /\ Goto(t, "cas")
     \/ pc[t] = "try_shared" /\ Exclusive(seen[t]) = Exclusive(tail) /\ Goto(t, "cas_shared")
  /\ mine' = [mine EXCEPT ![t] = tail]
  /\ seen' = [seen EXCEPT ![t] = 0]
  /\ UNCHANGED <<head, tail, stale>>

TryBusy(t) ==
  /\ \/ pc[t] = "try" /\ seen[t] # tail
     \/ pc[t] = "try_shared" /\ Exclusive(seen[t]) # Exclusive(tail)
  /\ Fail(t)
  /\ UNCHANGED head

\* tail_.compare_exchange_strong()
TryCas(t) ==
  /\ \/ /\ pc[t] = "cas" /\ tail = mine[t]
        /\ Draw(t, exclusive_step)
        /\ Goto(t, "held")
        /\ Forget(t)
     \/ /\ pc[t] = "cas_shared" /\ tail = mine[t]
        /\ Draw(t, shared_step)
        /\ Goto(t, "shared")
        /\ Forget(t)
     \/ /\ pc[t] \in {"cas", "cas_shared"} /\ tail # mine[t]
        /\ Fail(t)
  /\ UNCHANGED head

-----------------------------------------------------------------------------
(* unlock() and unlock_shared()                                            *)

\* head_.load(); the store that follows is not one step with it.
unlock(t) ==
  /\ pc[t] = "held"
  /\ seen' = [seen EXCEPT ![t] = head]
  /\ Goto(t, "leave")
  /\ UNCHANGED <<head, tail, mine, stale>>

\* Mutant: the low half does not carry.
LeaveNoCarry(t) ==
  /\ pc[t] = "leave"
  /\ head' = (seen[t] - Exclusive(seen[t])) + Exclusive(seen[t] + exclusive_step)
  /\ Goto(t, "idle")
  /\ Forget(t)
  /\ UNCHANGED <<tail, stale>>

\* head_.store(head + exclusive_step)
Leave(t) ==
  /\ pc[t] = "leave"
  /\ head' = (seen[t] + exclusive_step) % Word
  /\ Goto(t, "idle")
  /\ Forget(t)
  /\ UNCHANGED <<tail, stale>>

\* head_.fetch_add(shared_step)
unlock_shared(t) ==
  /\ pc[t] = "shared"
  /\ head' = (head + shared_step) % Word
  /\ Goto(t, "idle")
  /\ UNCHANGED <<tail, seen, mine, stale>>

-----------------------------------------------------------------------------
Step(t) ==
  \/ Enter(t) \/ EnterShared(t)
  \/ TryTail(t) \/ TryBusy(t) \/ TryCas(t)
  \/ unlock(t) \/ Leave(t) \/ unlock_shared(t)

Next ==
  \E t \in Threads :
    \/ lock(t) \/ lock_shared(t) \/ try_lock(t) \/ try_lock_shared(t)
    \/ Step(t)

Spec == Init /\ [][Next]_vars

\* The scheduler runs every thread that is inside an operation, and whoever
\* holds the lock unlocks it. Nothing makes a thread lock.
FairSpec == Spec /\ \A t \in Threads : WF_vars(Step(t))

-----------------------------------------------------------------------------
(* Properties                                                              *)

\* A thread that holds the lock exclusively is alone with it; unlock() is
\* therefore free to load and store head_ in two steps.
WriterAlone ==
  \A t, u \in Threads :
    pc[t] \in {"held", "leave"} /\ pc[u] \in {"held", "leave", "shared"} => t = u

\* When no thread is inside an operation every ticket drawn was returned: the
\* words agree, carries between their halves and wraps included.
TicketsReturned ==
  (\A t \in Threads : pc[t] = "idle") => head = tail

\* lock() returns, whatever others do meanwhile, although the lock is taken
\* again and again: tickets are served in the order in which they were drawn.
WritersServed ==
  \A t \in Threads : (pc[t] = "wait") ~> (pc[t] = "held")

\* lock_shared() returns: readers do not wait for readers, and exclusive
\* tickets that were drawn later do not hold them up.
ReadersServed ==
  \A t \in Threads : (pc[t] = "wait_shared") ~> (pc[t] = "shared")
=============================================================================
