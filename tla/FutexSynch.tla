----------------------------- MODULE FutexSynch -----------------------------
(***************************************************************************)
(* futex_lock, lock_guard<futex_lock> and futex_cond_var of evenk/synch.h, *)
(* the default lock and condition variable on Linux, over the futex calls  *)
(* of evenk/futex.h.                                                       *)
(*                                                                         *)
(* There is one lock with one condition variable, as in synch_queue and in *)
(* the synch slots of the bounded queue; a thread works on the lock by its *)
(* own lock_guard.  Every atomic access and every system call is one step. *)
(* The kernel keeps the sleepers of each futex; it is free to choose which *)
(* of them futex_wake() wakes up.                                          *)
(***************************************************************************)
EXTENDS Integers, FiniteSets

CONSTANTS
  Threads,  \* the threads that use the lock
  MaxSeq    \* bound: no notification is made once seq has reached MaxSeq

ASSUME SynchAssumption == MaxSeq \in Nat

VARIABLES
  word,   \* futex_ of the lock: 0 free, 1 locked, 2 locked with sleepers
  seq,    \* futex_ of the condition variable: notifications made so far
  count,  \* count_ of the condition variable
  owner,  \* whether owner_ is set
  owns,   \* owns_lock_ of the guard of every thread
  pc,     \* where every thread is; "out" is outside of the library
  val,    \* its local value
  on      \* the futex it sleeps on

synch == <<word, seq, count, owner, owns, pc, val, on>>

SynchInit ==
  /\ word = 0
  /\ seq = 0
  /\ count = 0
  /\ owner = FALSE
  /\ owns = [t \in Threads |-> FALSE]
  /\ pc = [t \in Threads |-> "out"]
  /\ val = [t \in Threads |-> 0]
  /\ on = [t \in Threads |-> "none"]

-----------------------------------------------------------------------------
(* The kernel                                                              *)

Goto(t, l) == pc' = [pc EXCEPT ![t] = l]

Asleep(f) == {t \in Threads : on[t] = f}

\* Where a sleeper continues, whichever futex it was woken up from.
Resumed(t) == IF pc[t] = "cond_asleep" THEN "cond_leave" ELSE "exchange"

\* futex_wait(): the comparison that lets the caller sleep is atomic.
FutexWait(t, f, equal, asleep, back) ==
  /\ Goto(t, IF equal THEN asleep ELSE back)
  /\ on' = [on EXCEPT ![t] = IF equal THEN f ELSE "none"]

\* futex_wake(f, 1), after which t goes to l
FutexWakeOne(t, f, l) ==
  \/ /\ Asleep(f) = {}
     /\ Goto(t, l)
     /\ on' = on
  \/ \E u \in Asleep(f) :
       /\ pc' = [pc EXCEPT ![t] = l, ![u] = Resumed(u)]
       /\ on' = [on EXCEPT ![u] = "none"]

\* A signal ends the sleep of t.
Interrupted(t) ==
  /\ on[t] # "none"
  /\ Goto(t, Resumed(t))
  /\ on' = [on EXCEPT ![t] = "none"]
  /\ UNCHANGED <<word, seq, count, owner, owns, val>>

-----------------------------------------------------------------------------
(* futex_lock, called through a lock_guard                                 *)

\* The compare_exchange of lock(), at the call and when the loop goes round.
\* The guard refuses to lock twice.
lock(t) ==
  /\ \/ pc[t] = "out" /\ ~owns[t]
     \/ pc[t] = "cas"
  /\ \/ /\ word = 0
        /\ word' = 1
        /\ Goto(t, "out")
        /\ owns' = [owns EXCEPT ![t] = TRUE]
        /\ val' = [val EXCEPT ![t] = 0]
     \/ /\ word # 0
        /\ Goto(t, "backoff")
        /\ val' = [val EXCEPT ![t] = word]
        /\ UNCHANGED <<word, owns>>
  /\ UNCHANGED <<seq, count, owner, on>>

\* backoff() tells to go round or to sleep; a value of 2 needs no exchange.
\* The default no_backoff always tells to sleep.
Backoff(t) ==
  /\ pc[t] = "backoff"
  /\ \/ Goto(t, "cas")
     \/ Goto(t, IF val[t] = 2 THEN "sleep" ELSE "exchange")
  /\ val' = [val EXCEPT ![t] = 0]
  /\ UNCHANGED <<word, seq, count, owner, owns, on>>

\* Mutant: a woken thread takes the lock with 1, forgetting other sleepers.
ExchangeOne(t) ==
  /\ pc[t] = "exchange"
  /\ word' = IF word = 0 THEN 1 ELSE 2
  /\ Goto(t, IF word = 0 THEN "out" ELSE "sleep")
  /\ owns' = [owns EXCEPT ![t] = @ \/ word = 0]
  /\ UNCHANGED <<seq, count, owner, val, on>>

\* futex_.exchange(2), in lock() and at the end of wait()
Exchange(t) ==
  /\ pc[t] = "exchange"
  /\ word' = 2
  /\ Goto(t, IF word = 0 THEN "out" ELSE "sleep")
  /\ owns' = [owns EXCEPT ![t] = @ \/ word = 0]
  /\ UNCHANGED <<seq, count, owner, val, on>>

\* futex_wait(futex_, 2), in lock() and at the end of wait()
Sleep(t) ==
  /\ pc[t] = "sleep"
  /\ FutexWait(t, "lock", word = 2, "asleep", "exchange")
  /\ UNCHANGED <<word, seq, count, owner, owns, val>>

\* Mutant: an unconditional store.
TryLockStore(t) ==
  /\ pc[t] = "out" /\ ~owns[t]
  /\ word' = 1
  /\ owns' = [owns EXCEPT ![t] = TRUE]
  /\ UNCHANGED <<seq, count, owner, pc, val, on>>

\* try_lock(); a failed attempt changes nothing.
try_lock(t) ==
  /\ pc[t] = "out" /\ ~owns[t]
  /\ word = 0
  /\ word' = 1
  /\ owns' = [owns EXCEPT ![t] = TRUE]
  /\ UNCHANGED <<seq, count, owner, pc, val, on>>

\* Mutant: the lock is freed before it is known whether somebody sleeps, and
\* then once more.
FetchZero(t, l) ==
  /\ word' = 0
  /\ Goto(t, IF word = 1 THEN l ELSE "store")

\* The fetch_sub of futex_lock::unlock(), which returns to l if it finds 1.
FetchSub(t, l) ==
  /\ word' = word - 1
  /\ Goto(t, IF word = 1 THEN l ELSE "store")

\* unlock() of the guard, or its destructor. The guard forgets the lock at
\* the end of unlock(); nobody else reads the guard, so it may do so here,
\* and owns tells an unlock() of the guard from the one inside wait().
unlock(t) ==
  /\ pc[t] = "out" /\ owns[t]
  /\ FetchSub(t, "out")
  /\ owns' = [owns EXCEPT ![t] = FALSE]
  /\ UNCHANGED <<seq, count, owner, val, on>>

\* futex_.store(0)
Store(t) ==
  /\ pc[t] = "store"
  /\ word' = 0
  /\ Goto(t, "wake")
  /\ UNCHANGED <<seq, count, owner, owns, val, on>>

\* futex_wake(futex_, 1), the end of unlock()
Wake(t) ==
  /\ pc[t] = "wake"
  /\ FutexWakeOne(t, "lock", IF owns[t] THEN "cond_sleep" ELSE "out")
  /\ UNCHANGED <<word, seq, count, owner, owns, val>>

-----------------------------------------------------------------------------
(* futex_cond_var                                                          *)

\* Mutant: count_ is set, not incremented.
WaitSetsCount(t) ==
  /\ pc[t] = "out" /\ owns[t]
  /\ owner' = TRUE
  /\ count' = 1
  /\ Goto(t, "cond_load")
  /\ UNCHANGED <<word, seq, owns, val, on>>

\* wait() up to count_.fetch_add(1). owner_ is stored first but read by
\* nobody who has not seen count_ above 0, so both are one step.
wait(t) ==
  /\ pc[t] = "out" /\ owns[t]
  /\ owner' = TRUE
  /\ count' = count + 1
  /\ Goto(t, "cond_load")
  /\ UNCHANGED <<word, seq, owns, val, on>>

\* futex_.load()
CondLoad(t) ==
  /\ pc[t] = "cond_load"
  /\ val' = [val EXCEPT ![t] = seq]
  /\ Goto(t, "cond_unlock")
  /\ UNCHANGED <<word, seq, count, owner, owns, on>>

\* owner->unlock()
CondUnlock(t) ==
  /\ pc[t] = "cond_unlock"
  /\ FetchSub(t, "cond_sleep")
  /\ UNCHANGED <<seq, count, owner, owns, val, on>>

\* Mutant: futex_wait() on the current value, not on the one loaded before
\* the lock was released.
CondSleepReload(t) ==
  /\ pc[t] = "cond_sleep"
  /\ FutexWait(t, "cond", TRUE, "cond_asleep", "cond_leave")
  /\ UNCHANGED <<word, seq, count, owner, owns, val>>

\* futex_wait(futex_, value)
CondSleep(t) ==
  /\ pc[t] = "cond_sleep"
  /\ FutexWait(t, "cond", seq = val[t], "cond_asleep", "cond_leave")
  /\ UNCHANGED <<word, seq, count, owner, owns, val>>

\* count_.fetch_sub(1); the exchange on the futex of the lock follows.
CondLeave(t) ==
  /\ pc[t] = "cond_leave"
  /\ count' = count - 1
  /\ val' = [val EXCEPT ![t] = 0]
  /\ Goto(t, "exchange")
  /\ UNCHANGED <<word, seq, owner, owns, on>>

\* futex_.fetch_add(1), which starts either notification
Notify(t, l) ==
  /\ pc[t] = "out"
  /\ seq < MaxSeq
  /\ seq' = seq + 1
  /\ Goto(t, l)
  /\ UNCHANGED <<word, count, owner, owns, val, on>>

notify_one(t) == Notify(t, "one")

notify_all(t) == Notify(t, "all")

\* count_.load(), and owner_.load() in notify_all()
NotifyCount(t) ==
  /\ \/ /\ pc[t] = "one"
        /\ Goto(t, IF count # 0 THEN "one_wake" ELSE "out")
     \/ /\ pc[t] = "all"
        /\ Goto(t, IF count # 0 /\ owner THEN "requeue" ELSE "out")
  /\ UNCHANGED <<word, seq, count, owner, owns, val, on>>

\* futex_wake(futex_, 1)
NotifyWake(t) ==
  /\ pc[t] = "one_wake"
  /\ FutexWakeOne(t, "cond", "out")
  /\ UNCHANGED <<word, seq, count, owner, owns, val>>

\* futex_requeue(futex_, 1, INT_MAX, the futex of the lock): one sleeper is
\* woken up, the others are moved to the futex of the lock.
Requeue(t) ==
  /\ pc[t] = "requeue"
  /\ \/ /\ Asleep("cond") = {}
        /\ Goto(t, "out")
        /\ on' = on
     \/ \E u \in Asleep("cond") :
          /\ pc' = [pc EXCEPT ![t] = "out", ![u] = Resumed(u)]
          /\ on' = [v \in Threads |-> IF v = u THEN "none"
                                      ELSE IF on[v] = "cond" THEN "lock" ELSE on[v]]
  /\ UNCHANGED <<word, seq, count, owner, owns, val>>

-----------------------------------------------------------------------------
\* The steps inside a call.
SynchStep(t) ==
  \/ pc[t] = "cas" /\ lock(t)
  \/ Backoff(t) \/ Exchange(t) \/ Sleep(t) \/ Store(t) \/ Wake(t)
  \/ CondLoad(t) \/ CondUnlock(t) \/ CondSleep(t) \/ CondLeave(t)
  \/ NotifyCount(t) \/ NotifyWake(t) \/ Requeue(t)

\* Any client: a thread makes any call that its guard admits.
SynchNext ==
  \E t \in Threads :
    \/ lock(t) \/ try_lock(t) \/ unlock(t)
    \/ wait(t) \/ notify_one(t) \/ notify_all(t)
    \/ SynchStep(t) \/ Interrupted(t)

SynchSpec == SynchInit /\ [][SynchNext]_synch

-----------------------------------------------------------------------------
(* Properties                                                              *)

SynchLabels ==
  {"out", "cas", "backoff", "exchange", "sleep", "asleep", "store", "wake",
   "cond_load", "cond_unlock", "cond_sleep", "cond_asleep", "cond_leave",
   "one", "one_wake", "all", "requeue"}

\* Every variable has its type; the word of the lock is 0, 1 or 2, so
\* unlock() never underflows it.
SynchTypeOK ==
  /\ word \in 0 .. 2
  /\ seq \in Nat
  /\ count \in Int
  /\ owner \in BOOLEAN
  /\ owns \in [Threads -> BOOLEAN]
  /\ pc \in [Threads -> SynchLabels]
  /\ val \in [Threads -> Nat]
  /\ on \in [Threads -> {"none", "lock", "cond"}]

\* t is between the acquisition of the lock and the access that frees it.
Holds(t) ==
  \/ pc[t] = "store"
  \/ owns[t] /\ pc[t] \in {"out", "cond_load", "cond_unlock",
                           "one", "one_wake", "all", "requeue"}

\* At most one thread is between lock() and unlock(), also when threads come
\* back from wait() of the condition variable.
MutualExclusion ==
  \A t, u \in Threads : Holds(t) /\ Holds(u) => t = u

\* While threads sleep on the futex of the lock, the word makes the holder
\* wake one of them up, or a thread is under way that will: unlock() has
\* freed the lock, or a woken thread is about to store 2. This includes the
\* waiters that notify_all() moved there.
LockWakesSleepers ==
  Asleep("lock") # {} =>
    \/ word = 2
    \/ \E t \in Threads : pc[t] \in {"store", "wake", "cond_leave", "exchange"}

\* notify_one() and notify_all() never skip their system call while a waiter
\* sleeps on the condition variable: count_ covers it.
NotifySeesWaiters ==
  Asleep("cond") # {} => count > 0 /\ owner
=============================================================================
