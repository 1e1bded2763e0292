---------------------------- MODULE SynchProofs ----------------------------
(***************************************************************************)
(* Proofs about the lock and the condition variable of evenk/synch.h, for  *)
(* any set of threads and any number of notifications, and that            *)
(* synch_queue of evenk/synch_queue.h, which is built on them, implements  *)
(* the queue of Conqueue and, with finitely many threads, loses no wake-up.*)
(*                                                                         *)
(* Exclusion is inductive once it is known that the word of the lock is 0  *)
(* exactly when nobody holds it (HeldInv).  That a sleeper is never        *)
(* forgotten is inductive as it stands, given the types.                   *)
(*                                                                         *)
(* Every step of the queue is a step of the lock and of the condition      *)
(* variable or leaves them alone, so the lock excludes.  A thread between  *)
(* the move out of the front and pop_front() holds the lock (QueueInv);    *)
(* hence there is one such thread at most, and the front it read is the    *)
(* one it removes.                                                         *)
(*                                                                         *)
(* push() notifies one consumer and trusts that as many consumers are      *)
(* under way as there are values.  The argument counts them: while threads *)
(* sleep on the condition variable, the queue is no longer than the set of *)
(* threads that will look at it or wake somebody up who will (Comers).     *)
(* A thread that goes to sleep found the queue empty and no notification   *)
(* since (Prepared), so the count starts right.                            *)
(***************************************************************************)
EXTENDS SynchQueue, FiniteSetTheorems, TLAPS

-----------------------------------------------------------------------------
(* The lock and the condition variable                                     *)

\* The strengthening of MutualExclusion: the word tells whether the lock is
\* held, and the guard of a thread inside wait() still owns the lock.
HeldInv ==
  /\ SynchTypeOK
  /\ MutualExclusion
  /\ word # 0 <=> \E t \in Threads : Holds(t)
  /\ \A t \in Threads : pc[t] \in {"cond_load", "cond_unlock"} => owns[t]
  /\ \A t \in Threads : pc[t] \in {"cas", "backoff"} => ~owns[t]

\* A thread sleeps on a futex exactly at the two calls of futex_wait().
SleepInv ==
  \A t \in Threads : on[t] # "none" => pc[t] \in {"asleep", "cond_asleep"}

\* Initially nobody holds the lock and nobody sleeps.
LEMMA InitHeld == SynchInit => HeldInv /\ SleepInv
<1> SUFFICES ASSUME SynchInit PROVE HeldInv /\ SleepInv
  OBVIOUS
<1>1. SynchTypeOK /\ SleepInv
  <2>1. owns \in [Threads -> BOOLEAN] /\ owner \in BOOLEAN
    BY Zenon DEF SynchInit
  <2> QED
    BY <2>1, SMT DEF SynchInit, SynchTypeOK, SynchLabels, SleepInv
<1>2. \A t \in Threads : pc[t] = "out" /\ owns[t] = FALSE
  BY Zenon DEF SynchInit
<1>3. \A t \in Threads : ~Holds(t)
  BY <1>2 DEF Holds
<1> QED
  BY Zenon, <1>1, <1>2, <1>3 DEF HeldInv, MutualExclusion, SynchInit

\* A thread that finds the word at 0 and sets it becomes the only holder.
LEMMA Acquired ==
  ASSUME HeldInv, SleepInv, NEW t \in Threads, word = 0, on[t] = "none",
         word' \in {1, 2}, pc' = [pc EXCEPT ![t] = "out"],
         owns' = [owns EXCEPT ![t] = TRUE], val' \in [Threads -> Nat],
         seq' = seq, count' = count, owner' = owner, on' = on
  PROVE  HeldInv' /\ SleepInv'
<1>1. \A u \in Threads : ~Holds(u)
  BY DEF HeldInv
<1>2. owns' \in [Threads -> BOOLEAN]
  BY Zenon DEF HeldInv, SynchTypeOK
<1>3. pc' \in [Threads -> SynchLabels]
  BY Zenon DEF HeldInv, SynchTypeOK, SynchLabels
<1>4. SynchTypeOK'
  BY <1>2, <1>3, SMTT(30), SMTT(60) DEF HeldInv, SynchTypeOK
<1>5. pc'[t] = "out" /\ owns'[t] = TRUE
  BY Zenon DEF HeldInv, SynchTypeOK
<1>6. \A u \in Threads \ {t} : pc'[u] = pc[u] /\ owns'[u] = owns[u]
  BY Zenon DEF HeldInv, SynchTypeOK
<1>7. \A u \in Threads \ {t} : ~Holds(u)'
  BY <1>1, <1>6, Zenon DEF Holds
<1>8. Holds(t)'
  BY <1>5, Zenon DEF Holds
<1>9. MutualExclusion' /\ (word # 0 <=> \E u \in Threads : Holds(u))'
  BY <1>7, <1>8, SMTT(30), SMTT(60) DEF MutualExclusion
<1>10. \A u \in Threads : /\ pc'[u] \in {"cond_load", "cond_unlock"} => owns'[u]
                          /\ pc'[u] \in {"cas", "backoff"} => ~owns'[u]
  <2>1. ASSUME NEW u \in Threads \ {t}
        PROVE  /\ pc'[u] \in {"cond_load", "cond_unlock"} => owns'[u]
               /\ pc'[u] \in {"cas", "backoff"} => ~owns'[u]
    BY <1>6 DEF HeldInv
  <2> QED
    BY Zenon, <1>5, <2>1
<1>11. SleepInv'
  BY <1>3, Zenon DEF SleepInv, HeldInv, SynchTypeOK
<1> QED
  BY <1>4, <1>9, <1>10, <1>11, Zenon DEF HeldInv

\* Every step of every call preserves the invariant: only a thread that found
\* the word at 0 becomes a holder, and only the holder takes the word to 0.
LEMMA NextHeld ==
  ASSUME HeldInv, SleepInv, [SynchNext]_synch
  PROVE  HeldInv' /\ SleepInv'
<1> USE DEF HeldInv, SleepInv, SynchTypeOK, SynchLabels, MutualExclusion, Holds
<1>1. CASE UNCHANGED synch
  BY <1>1, ZenonT(60) DEF synch
<1>2. ASSUME NEW t \in Threads, lock(t)
      PROVE  HeldInv' /\ SleepInv'
  <2>1. CASE word = 0
    <3>1. word' = 1 /\ pc' = [pc EXCEPT ![t] = "out"] /\ owns' = [owns EXCEPT ![t] = TRUE]
      BY Zenon, <1>2, <2>1 DEF lock, Goto
    <3>2. seq' = seq /\ count' = count /\ owner' = owner /\ on' = on
      BY <1>2 DEF lock
    <3>3. on[t] = "none" /\ val' \in [Threads -> Nat]
      BY <1>2, <2>1, SMT DEF lock
    <3>4. \A u \in Threads : ~Holds(u)
      BY Zenon, <2>1
    <3> QED
      BY <1>2, <3>1, <3>2, <3>3, <3>4, Acquired, Zenon DEF SleepInv
  <2>2. CASE word # 0
    BY <1>2, <2>2, SMTT(30), SMTT(60) DEF lock, Goto
  <2> QED
    BY <2>1, <2>2
<1>3. ASSUME NEW t \in Threads, try_lock(t)
      PROVE  HeldInv' /\ SleepInv'
  BY <1>3, SMTT(30), SMTT(60) DEF try_lock
<1>4. ASSUME NEW t \in Threads, unlock(t)
      PROVE  HeldInv' /\ SleepInv'
  BY <1>4, SMTT(30), SMTT(60) DEF unlock, FetchSub, Goto
<1>5. ASSUME NEW t \in Threads, wait(t)
      PROVE  HeldInv' /\ SleepInv'
  BY <1>5, SMTT(30), SMTT(60) DEF wait, Goto
<1>6. ASSUME NEW t \in Threads, notify_one(t) \/ notify_all(t)
      PROVE  HeldInv' /\ SleepInv'
  BY <1>6, SMTT(30), SMTT(60) DEF notify_one, notify_all, Notify, Goto
<1>7. ASSUME NEW t \in Threads, Interrupted(t)
      PROVE  HeldInv' /\ SleepInv'
  BY <1>7, SMTT(30), SMTT(60) DEF Interrupted, Resumed, Goto
<1>8. ASSUME NEW t \in Threads, Backoff(t)
      PROVE  HeldInv' /\ SleepInv'
  BY <1>8, SMTT(30), SMTT(60) DEF Backoff, Goto
<1>9. ASSUME NEW t \in Threads, Exchange(t)
      PROVE  HeldInv' /\ SleepInv'
  <2>1. CASE word = 0
    <3>1. word' = 2 /\ pc' = [pc EXCEPT ![t] = "out"] /\ owns' = [owns EXCEPT ![t] = TRUE]
      BY <1>9, <2>1, Zenon DEF Exchange, Goto
    <3>2. seq' = seq /\ count' = count /\ owner' = owner /\ val' = val /\ on' = on
      BY <1>9 DEF Exchange
    <3>3. on[t] = "none"
      BY <1>9, Zenon DEF Exchange
    <3> QED
      BY Zenon, <1>9, <2>1, <3>1, <3>2, <3>3, Acquired
  <2>2. CASE word # 0
    BY <1>9, <2>2, SMTT(30), SMTT(60) DEF Exchange, Goto
  <2> QED
    BY <2>1, <2>2
<1>10. ASSUME NEW t \in Threads, Sleep(t)
       PROVE  HeldInv' /\ SleepInv'
  BY <1>10, SMTT(30), SMTT(60) DEF Sleep, FutexWait, Goto
<1>11. ASSUME NEW t \in Threads, Store(t)
       PROVE  HeldInv' /\ SleepInv'
  BY <1>11, SMTT(30), SMTT(60) DEF Store, Goto
<1>12. ASSUME NEW t \in Threads, Wake(t)
       PROVE  HeldInv' /\ SleepInv'
  BY <1>12, SMTT(30), SMTT(60) DEF Wake, FutexWakeOne, Asleep, Resumed, Goto
<1>13. ASSUME NEW t \in Threads, CondLoad(t)
       PROVE  HeldInv' /\ SleepInv'
  BY <1>13, SMTT(30), SMTT(60) DEF CondLoad, Goto
<1>14. ASSUME NEW t \in Threads, CondUnlock(t)
       PROVE  HeldInv' /\ SleepInv'
  BY <1>14, SMTT(30), SMTT(60) DEF CondUnlock, FetchSub, Goto
<1>15. ASSUME NEW t \in Threads, CondSleep(t)
       PROVE  HeldInv' /\ SleepInv'
  BY <1>15, SMTT(30), SMTT(60) DEF CondSleep, FutexWait, Goto
<1>16. ASSUME NEW t \in Threads, CondLeave(t)
       PROVE  HeldInv' /\ SleepInv'
  BY <1>16, SMTT(30), SMTT(60) DEF CondLeave, Goto
<1>17. ASSUME NEW t \in Threads, NotifyCount(t)
       PROVE  HeldInv' /\ SleepInv'
  BY <1>17, SMTT(30), SMTT(60) DEF NotifyCount, Goto
<1>18. ASSUME NEW t \in Threads, NotifyWake(t)
       PROVE  HeldInv' /\ SleepInv'
  BY <1>18, SMTT(30), SMTT(60) DEF NotifyWake, FutexWakeOne, Asleep, Resumed, Goto
<1>19. ASSUME NEW t \in Threads, Requeue(t)
       PROVE  HeldInv' /\ SleepInv'
  BY <1>19, SMTT(30) DEF Requeue, Asleep, Resumed, Goto
<1> QED
  BY <1>1, <1>2, <1>3, <1>4, <1>5, <1>6, <1>7, <1>8, <1>9, <1>10, <1>11, <1>12, ZenonT(60),
     <1>13, <1>14, <1>15, <1>16, <1>17, <1>18, <1>19, Zenon DEF SynchNext, SynchStep

\* The lock of evenk/synch.h excludes: whatever calls threads make and however
\* they come back from the condition variable, one thread holds it at a time.
THEOREM LockExcludes == SynchSpec => []MutualExclusion
<1>1. HeldInv /\ SleepInv /\ [SynchNext]_synch => (HeldInv /\ SleepInv)'
  BY NextHeld, SMTT(30), SMTT(60)
<1>2. HeldInv => MutualExclusion
  BY Zenon DEF HeldInv
<1> QED
  BY InitHeld, <1>1, <1>2, PTL DEF SynchSpec

\* Every variable of the lock and of the condition variable has its type.
THEOREM SynchTypeCorrect == SynchSpec => []SynchTypeOK
<1>1. HeldInv /\ SleepInv /\ [SynchNext]_synch => (HeldInv /\ SleepInv)'
  BY NextHeld
<1>2. HeldInv => SynchTypeOK
  BY Zenon DEF HeldInv
<1> QED
  BY InitHeld, <1>1, <1>2, PTL DEF SynchSpec

\* No step leaves threads asleep on the lock with nobody to wake them up: the
\* word leaves 2 only by an unlock() that goes on to futex_wake(), and a woken
\* thread stores 2 before it sleeps again or owns the lock.
LEMMA NextWakes ==
  ASSUME HeldInv, SleepInv, LockWakesSleepers, [SynchNext]_synch
  PROVE  LockWakesSleepers'
<1> USE DEF HeldInv, SleepInv, SynchTypeOK, LockWakesSleepers, Asleep
<1>1. CASE UNCHANGED synch
  BY <1>1, Zenon, Zenon DEF synch
<1>2. ASSUME NEW t \in Threads, lock(t)
      PROVE  LockWakesSleepers'
  BY <1>2, SMTT(30), SMTT(60) DEF lock, Goto
<1>3. ASSUME NEW t \in Threads, try_lock(t)
      PROVE  LockWakesSleepers'
  BY <1>3, SMTT(30), SMTT(60) DEF try_lock
<1>4. ASSUME NEW t \in Threads, unlock(t)
      PROVE  LockWakesSleepers'
  BY <1>4, SMTT(30), SMTT(60) DEF unlock, FetchSub, Goto
<1>5. ASSUME NEW t \in Threads, wait(t)
      PROVE  LockWakesSleepers'
  BY <1>5, Zenon DEF wait, Goto
<1>6. ASSUME NEW t \in Threads, notify_one(t) \/ notify_all(t)
      PROVE  LockWakesSleepers'
  BY <1>6, Zenon DEF notify_one, notify_all, Notify, Goto
<1>7. ASSUME NEW t \in Threads, Interrupted(t)
      PROVE  LockWakesSleepers'
  BY <1>7, Zenon DEF Interrupted, Resumed, Goto
<1>8. ASSUME NEW t \in Threads, Backoff(t)
      PROVE  LockWakesSleepers'
  BY <1>8, ZenonT(60) DEF Backoff, Goto
<1>9. ASSUME NEW t \in Threads, Exchange(t)
      PROVE  LockWakesSleepers'
  BY <1>9, Zenon DEF Exchange, Goto
<1>10. ASSUME NEW t \in Threads, Sleep(t)
      PROVE  LockWakesSleepers'
  BY <1>10, SMTT(30) DEF Sleep, FutexWait, Goto
<1>11. ASSUME NEW t \in Threads, Store(t)
      PROVE  LockWakesSleepers'
  BY <1>11, Zenon DEF Store, Goto
<1>12. ASSUME NEW t \in Threads, Wake(t)
      PROVE  LockWakesSleepers'
  BY <1>12, ZenonT(60) DEF Wake, FutexWakeOne, Resumed, Goto
<1>13. ASSUME NEW t \in Threads, CondLoad(t)
      PROVE  LockWakesSleepers'
  BY <1>13, SMTT(30) DEF CondLoad, Goto
<1>14. ASSUME NEW t \in Threads, CondUnlock(t)
      PROVE  LockWakesSleepers'
  BY <1>14, SMTT(30) DEF CondUnlock, FetchSub, Goto
<1>15. ASSUME NEW t \in Threads, CondSleep(t)
      PROVE  LockWakesSleepers'
  BY <1>15, Zenon DEF CondSleep, FutexWait, Goto
<1>16. ASSUME NEW t \in Threads, CondLeave(t)
      PROVE  LockWakesSleepers'
  BY <1>16, Zenon DEF CondLeave, Goto
<1>17. ASSUME NEW t \in Threads, NotifyCount(t)
      PROVE  LockWakesSleepers'
  BY <1>17, Zenon DEF NotifyCount, Goto
<1>18. ASSUME NEW t \in Threads, NotifyWake(t)
      PROVE  LockWakesSleepers'
  BY <1>18, ZenonT(60) DEF NotifyWake, FutexWakeOne, Resumed, Goto
<1>19. ASSUME NEW t \in Threads, Requeue(t)
      PROVE  LockWakesSleepers'
  BY <1>19, SMTT(30) DEF Requeue, Resumed, Goto
<1> QED
  BY <1>1, <1>2, <1>3, <1>4, <1>5, <1>6, <1>7, <1>8, <1>9, <1>10, <1>11, <1>12, ZenonT(60),
     <1>13, <1>14, <1>15, <1>16, <1>17, <1>18, <1>19 DEF SynchNext, SynchStep

\* No thread is left asleep on the lock of evenk/synch.h: as long as one
\* sleeps there, be it from lock() or moved there by notify_all(), the next
\* unlock() or a thread already under way wakes a sleeper up.
THEOREM SleepersAreWoken == SynchSpec => []LockWakesSleepers
<1>1. SynchInit => LockWakesSleepers
  BY SMT DEF SynchInit, LockWakesSleepers, Asleep
<1>2. HeldInv /\ SleepInv /\ [SynchNext]_synch => (HeldInv /\ SleepInv)'
  BY NextHeld
<1>3. HeldInv /\ SleepInv /\ LockWakesSleepers /\ [SynchNext]_synch => LockWakesSleepers'
  BY NextWakes, SMTT(30)
<1> QED
  BY InitHeld, <1>1, <1>2, <1>3, PTL DEF SynchSpec

\* The threads inside wait() between the two changes of count_
Waiting ==
  {t \in Threads :
     \/ pc[t] \in {"cond_load", "cond_unlock", "cond_sleep", "cond_asleep", "cond_leave"}
     \/ pc[t] \in {"store", "wake"} /\ owns[t]}

\* count_ is their number, and the sleepers of the condition variable are
\* among them.
WaitInv ==
  /\ IsFiniteSet(Waiting)
  /\ count = Cardinality(Waiting)
  /\ Waiting # {} => owner
  /\ \A t \in Threads : on[t] = "cond" => pc[t] = "cond_asleep"

\* All steps but the two that change count_ leave the waiting threads as they
\* are: one that is woken up, moved to the lock or interrupted still waits.
LEMMA StillWaiting ==
  ASSUME HeldInv, SleepInv, WaitInv, NEW t \in Threads,
         \/ lock(t) \/ try_lock(t) \/ unlock(t) \/ notify_one(t) \/ notify_all(t)
         \/ Interrupted(t) \/ (SynchStep(t) /\ ~CondLeave(t))
  PROVE  /\ Waiting' = Waiting /\ count' = count /\ owner' = owner
         /\ \A u \in Threads : on'[u] = "cond" => pc'[u] = "cond_asleep"
<1> USE DEF HeldInv, SynchTypeOK, SleepInv, WaitInv, Waiting
<1>1. CASE lock(t) \/ try_lock(t)
  BY ZenonT(60), <1>1 DEF lock, try_lock, Goto
<1>2. CASE unlock(t)
  BY Zenon, <1>2 DEF unlock, FetchSub, Goto
<1>3. CASE notify_one(t) \/ notify_all(t)
  BY ZenonT(60), <1>3 DEF notify_one, notify_all, Notify, Goto
<1>4. CASE Interrupted(t)
  BY ZenonT(60), <1>4 DEF Interrupted, Resumed, Goto
<1>5. CASE Backoff(t) \/ Exchange(t) \/ Sleep(t) \/ Store(t)
  BY ZenonT(60), <1>5 DEF Backoff, Exchange, Sleep, Store, FutexWait, Goto
<1>6. CASE Wake(t)
  BY <1>6, SMTT(30) DEF Wake, FutexWakeOne, Asleep, Resumed, Goto
<1>7. CASE CondLoad(t) \/ NotifyCount(t)
  BY <1>7, ZenonT(60) DEF CondLoad, NotifyCount, Goto
<1>10. CASE CondUnlock(t)
  BY <1>10, ZenonT(60) DEF CondUnlock, FetchSub, Goto
<1>11. CASE CondSleep(t)
  BY <1>11, ZenonT(60) DEF CondSleep, FutexWait, Goto
<1>8. CASE NotifyWake(t)
  BY ZenonT(60), <1>8 DEF NotifyWake, FutexWakeOne, Asleep, Resumed, Goto
<1>9. CASE Requeue(t)
  BY <1>9 DEF Requeue, Asleep, Resumed, Goto
<1> QED
  BY <1>1, <1>2, <1>3, <1>4, <1>5, <1>6, <1>7, <1>8, <1>9, <1>10, <1>11, ZenonT(60) DEF SynchStep

\* Every step keeps count_ at the number of the waiting threads.
LEMMA NextWaiting ==
  ASSUME HeldInv, SleepInv, WaitInv, [SynchNext]_synch
  PROVE  WaitInv'
<1>1. CASE UNCHANGED synch
  BY <1>1 DEF synch, WaitInv, Waiting
<1>2. ASSUME NEW t \in Threads, wait(t) PROVE WaitInv'
  <2>1. t \notin Waiting
    BY Zenon, <1>2 DEF wait, Waiting
  <2>2. Waiting' = Waiting \cup {t}
    BY Zenon, <1>2 DEF wait, Goto, Waiting, HeldInv, SynchTypeOK
  <2>3. IsFiniteSet(Waiting') /\ Cardinality(Waiting') = Cardinality(Waiting) + 1
    BY Zenon, <2>1, <2>2, FS_AddElement DEF WaitInv
  <2>4. count' = count + 1 /\ owner'
    BY Zenon, <1>2 DEF wait
  <2>5. \A u \in Threads : on'[u] = "cond" => pc'[u] = "cond_asleep"
    BY <1>2 DEF wait, Goto, WaitInv, HeldInv, SynchTypeOK
  <2> QED
    BY Zenon, <2>3, <2>4, <2>5 DEF WaitInv
<1>3. ASSUME NEW t \in Threads, CondLeave(t) PROVE WaitInv'
  <2>1. t \in Waiting
    BY <1>3 DEF CondLeave, Waiting
  <2>2. Waiting' = Waiting \ {t}
    BY Zenon, <1>3 DEF CondLeave, Goto, Waiting, HeldInv, SynchTypeOK
  <2>3. IsFiniteSet(Waiting') /\ Cardinality(Waiting') = Cardinality(Waiting) - 1
    BY Zenon, <2>1, <2>2, FS_RemoveElement DEF WaitInv
  <2>4. count' = count - 1 /\ owner' = owner
    BY <1>3 DEF CondLeave
  <2>5. \A u \in Threads : on'[u] = "cond" => pc'[u] = "cond_asleep"
    BY <1>3, ZenonT(60) DEF CondLeave, Goto, WaitInv, SleepInv, HeldInv, SynchTypeOK
  <2> QED
    BY Zenon, <2>1, <2>3, <2>4, <2>5 DEF WaitInv
<1>4. ASSUME NEW t \in Threads,
             \/ lock(t) \/ try_lock(t) \/ unlock(t) \/ notify_one(t) \/ notify_all(t)
             \/ Interrupted(t) \/ (SynchStep(t) /\ ~CondLeave(t))
      PROVE  WaitInv'
  BY <1>4, StillWaiting, SMTT(30), SMTT(60) DEF WaitInv
<1> QED
  BY ZenonT(60), <1>1, <1>2, <1>3, <1>4 DEF SynchNext

\* A notification never skips its system call while a thread sleeps on the
\* condition variable: count_ is the number of the threads in wait(), and
\* owner_ is set as soon as there is one.
THEOREM NotifiersSeeWaiters == SynchSpec => []NotifySeesWaiters
<1>1. SynchInit => WaitInv
  <2> SUFFICES ASSUME SynchInit PROVE WaitInv
    OBVIOUS
  <2>1. Waiting = {}
    BY DEF SynchInit, Waiting
  <2>2. IsFiniteSet(Waiting) /\ Cardinality(Waiting) = 0
    BY <2>1, FS_EmptySet
  <2> QED
    BY <2>1, <2>2 DEF SynchInit, WaitInv
<1>2. HeldInv /\ SleepInv /\ WaitInv /\ [SynchNext]_synch => (HeldInv /\ SleepInv /\ WaitInv)'
  BY NextHeld, NextWaiting
<1>3. WaitInv => NotifySeesWaiters
  <2> SUFFICES ASSUME WaitInv, Asleep("cond") # {} PROVE count > 0 /\ owner
    BY Zenon DEF NotifySeesWaiters
  <2>1. Waiting # {}
    BY DEF WaitInv, Waiting, Asleep
  <2>2. Cardinality(Waiting) \in Nat /\ Cardinality(Waiting) # 0
    BY Zenon, <2>1, FS_CardinalityType, FS_EmptySet DEF WaitInv
  <2> QED
    BY <2>1, <2>2, SMTT(30), SMTT(60) DEF WaitInv
<1> QED
  BY InitHeld, <1>1, <1>2, <1>3, PTL DEF SynchSpec

-----------------------------------------------------------------------------
(* The queue                                                               *)

Calls == {"none", "push", "wait_pop", "try_pop", "close", "pop_front", "leave", "done"}

Takers == Consumers \cup TryPoppers

QueueType ==
  /\ queue \in Seq(Nat)
  /\ call \in [Threads -> Calls]
  /\ pushed \in Nat
  /\ got \in [Threads -> Seq(Nat)]

\* Who has taken the front holds the lock and has yet to remove it; every push
\* has made a notification.
QueueInv ==
  /\ QueueType
  /\ \A t \in Threads :
       /\ call[t] = "push" => t \in Producers
       /\ call[t] \in {"wait_pop", "try_pop", "pop_front"} => t \in Takers
       /\ call[t] = "pop_front" => pc[t] = "out" /\ owns[t] /\ queue # <<>>
  /\ Len(queue) <= pushed /\ pushed <= seq

Inv == HeldInv /\ SleepInv /\ QueueInv

\* A value appended to a sequence is its last, behind the others.
LEMMA AppendFacts ==
  ASSUME NEW S, NEW s \in Seq(S), NEW v \in S
  PROVE  /\ Append(s, v) \in Seq(S) /\ Append(s, v) # <<>>
         /\ Len(Append(s, v)) = Len(s) + 1
         /\ Append(s, v)[Len(s) + 1] = v
         /\ \A i \in 1 .. Len(s) : Append(s, v)[i] = s[i]
OBVIOUS

\* The tail of a sequence that is not empty holds all but the first value.
LEMMA TailFacts ==
  ASSUME NEW S, NEW s \in Seq(S), s # <<>>
  PROVE  /\ Head(s) \in S /\ Tail(s) \in Seq(S)
         /\ Len(Tail(s)) = Len(s) - 1
         /\ \A i \in 1 .. Len(Tail(s)) : Tail(s)[i] = s[i + 1]
<1>1. Head(s) \in S /\ Tail(s) \in Seq(S)
  OBVIOUS
<1>2. Len(Tail(s)) = Len(s) - 1
  OBVIOUS
<1>3. \A i \in 1 .. Len(Tail(s)) : Tail(s)[i] = s[i + 1]
  BY SMTT(30), SMTT(60)
<1> QED
  BY <1>1, <1>2, <1>3, Zenon

\* Every step is one of the lock and the condition variable, or leaves them.
LEMMA QueueSynch == [Next]_vars => [SynchNext]_synch
BY ZenonT(60) DEF Next, vars, SynchNext, Begin, Step, Signalled, try_push, wait_pop, try_pop, close, Enter,
       TryEnter, nonblocking_push, nonblocking_pop, locked_push, locked_pop, PopEmpty, pop_front,
       locked_close, Return, Leave

\* Initially the queue is empty and nobody is in a call.
LEMMA InitQueue == Init => Inv
<1> SUFFICES ASSUME Init PROVE Inv
  OBVIOUS
<1>1. HeldInv /\ SleepInv
  BY InitHeld DEF Init
<1>2. QueueType
  BY SMTT(30) DEF Init, QueueType, Calls
<1>3. \A t \in Threads : call[t] = "none"
  BY Zenon DEF Init
<1>4. Len(queue) <= pushed /\ pushed <= seq
  BY DEF Init, SynchInit
<1>5. QueueInv
  BY <1>2, <1>3, <1>4, ZenonT(60) DEF QueueInv
<1> QED
  BY <1>1, <1>5, Zenon DEF Inv

\* The steps inside the library leave alone a thread that is outside of it:
\* only sleepers are moved.
LEMMA StepsLeaveOut ==
  ASSUME HeldInv, SleepInv, NEW t \in Threads, SynchStep(t) \/ Interrupted(t),
         NEW u \in Threads, pc[u] = "out"
  PROVE  pc'[u] = "out" /\ owns'[u] = owns[u] /\ seq' = seq
<1> USE DEF HeldInv, SynchTypeOK, SleepInv
<1>1. on[u] = "none"
  BY Zenon
<1>2. CASE Interrupted(t)
  BY <1>1, <1>2, Zenon DEF Interrupted, Goto
<1>3. CASE pc[t] = "cas" /\ lock(t)
  BY ZenonT(60), <1>3 DEF lock, Goto
<1>4. CASE Backoff(t) \/ Exchange(t) \/ Sleep(t) \/ Store(t)
  BY <1>4 DEF Backoff, Exchange, Sleep, Store, FutexWait, Goto
<1>5. CASE Wake(t) \/ NotifyWake(t)
  BY <1>1, <1>5, ZenonT(60) DEF Wake, NotifyWake, FutexWakeOne, Asleep, Goto
<1>6. CASE CondLoad(t) \/ CondUnlock(t) \/ CondSleep(t) \/ CondLeave(t) \/ NotifyCount(t)
  BY Zenon, <1>6 DEF CondLoad, CondUnlock, CondSleep, CondLeave, NotifyCount, FetchSub, FutexWait, Goto
<1>7. CASE Requeue(t)
  BY <1>1, <1>7, ZenonT(60) DEF Requeue, Asleep, Goto
<1> QED
  BY <1>2, <1>3, <1>4, <1>5, <1>6, <1>7, Zenon DEF SynchStep

\* A call of the library moves the caller alone.
LEMMA CallsMoveCaller ==
  ASSUME HeldInv, NEW t \in Threads, NEW u \in Threads, u # t,
         lock(t) \/ try_lock(t) \/ unlock(t) \/ wait(t) \/ notify_one(t) \/ notify_all(t)
  PROVE  pc'[u] = pc[u] /\ owns'[u] = owns[u]
BY Zenon DEF lock, try_lock, unlock, wait, notify_one, notify_all, Notify, FetchSub, Goto, HeldInv, SynchTypeOK

\* Of two threads one at most is outside of the library and owns the lock.
LEMMA OneLocked ==
  ASSUME HeldInv, NEW t \in Threads, NEW u \in Threads,
         pc[t] = "out", owns[t], pc[u] = "out", owns[u]
  PROVE  t = u
BY DEF HeldInv, MutualExclusion, Holds

-----------------------------------------------------------------------------
(* What a step does to the queue                                           *)

\* A thread has moved the front out and not yet removed it.
Taken == \E t \in Threads : call[t] = "pop_front"

Told == [t \in Threads |-> IF call[t] = "done" THEN "done" ELSE "none"]

Adds(t) ==
  /\ t \in Producers /\ call[t] # "done"
  /\ ~closed /\ ~Taken /\ ~Taken'
  /\ Len(queue) <= MaxSeq
  /\ queue' = Append(queue, pushed + 1) /\ pushed' = pushed + 1
  /\ UNCHANGED <<closed, got, Told>>

Takes(t) ==
  /\ t \in Takers /\ call[t] # "done"
  /\ ~Taken /\ Taken'
  /\ queue # <<>>
  /\ got' = [got EXCEPT ![t] = Append(got[t], Head(queue))]
  /\ UNCHANGED <<queue, closed, pushed, Told>>

Removes ==
  /\ Taken /\ ~Taken'
  /\ queue # <<>> /\ queue' = Tail(queue)
  /\ UNCHANGED <<closed, pushed, got, Told>>

Closes ==
  /\ closed' = TRUE /\ (Taken' <=> Taken)
  /\ UNCHANGED <<queue, pushed, got, Told>>

Tells(t) ==
  /\ closed /\ ~Taken /\ ~Taken'
  /\ call[t] # "done"
  /\ t \in Producers \/ (t \in Takers /\ queue = <<>>)
  /\ Told' = [Told EXCEPT ![t] = "done"]
  /\ UNCHANGED <<queue, closed, pushed, got>>

Rests ==
  /\ (Taken' <=> Taken)
  /\ UNCHANGED <<queue, closed, pushed, got, Told>>

QueueStep ==
  \/ \E t \in Threads : Adds(t) \/ Takes(t) \/ Tells(t)
  \/ Removes \/ Closes \/ Rests

\* A call begins: the queue is left alone.
LEMMA BeginStep ==
  ASSUME Inv, NEW t \in Threads, Begin(t)
  PROVE  QueueInv' /\ Rests
<1>1. /\ call[t] = "none" /\ pc[t] = "out" /\ ~owns[t]
      /\ lock(t) \/ try_lock(t)
      /\ UNCHANGED <<queue, closed, pushed, got, seq>>
      /\ \/ call' = [call EXCEPT ![t] = "push"] /\ t \in Producers
         \/ call' = [call EXCEPT ![t] = "wait_pop"] /\ t \in Takers
         \/ call' = [call EXCEPT ![t] = "try_pop"] /\ t \in Takers
         \/ call' = [call EXCEPT ![t] = "close"]
  BY ZenonT(60) DEF Begin, try_push, wait_pop, try_pop, close, nonblocking_push, nonblocking_pop, Enter, TryEnter,
         Call, lock, try_lock, Takers, Inv, QueueInv, QueueType
<1>2. \A u \in Threads : u # t => pc'[u] = pc[u] /\ owns'[u] = owns[u] /\ call'[u] = call[u]
  BY <1>1, CallsMoveCaller, ZenonT(60) DEF Inv, QueueInv, QueueType
<1>3. /\ call'[t] \in {"push", "wait_pop", "try_pop", "close"}
      /\ call'[t] = "push" => t \in Producers
      /\ call'[t] \in {"wait_pop", "try_pop"} => t \in Takers
  BY <1>1, SMTT(30), SMTT(60) DEF Inv, QueueInv, QueueType
<1>4. QueueType'
  BY <1>1, ZenonT(60) DEF Inv, QueueInv, QueueType, Calls
<1>5. QueueInv'
  BY <1>1, <1>2, <1>3, <1>4, ZenonT(60) DEF Inv, QueueInv
<1>6. \A u \in Threads : /\ call'[u] = "pop_front" <=> call[u] = "pop_front"
                         /\ call'[u] = "done" <=> call[u] = "done"
  BY <1>1, <1>2, <1>3, Zenon
<1>7. (Taken' <=> Taken) /\ Told' = Told
  BY <1>6, SMTT(30), SMTT(60) DEF Taken, Told
<1> QED
  BY <1>1, <1>5, <1>7, Zenon DEF Rests

\* The library takes a step, or a sleeper is interrupted.
LEMMA LibraryStep ==
  ASSUME Inv, NEW t \in Threads, SynchStep(t) \/ Interrupted(t), UNCHANGED queueVars
  PROVE  QueueInv' /\ Rests
<1>1. UNCHANGED <<queue, closed, call, pushed, got>>
  BY DEF queueVars
<1>2. \A u \in Threads : pc[u] = "out" => pc'[u] = "out" /\ owns'[u] = owns[u]
  BY StepsLeaveOut, ZenonT(60) DEF Inv
<1>3. seq' = seq
  BY Zenon DEF SynchStep, Interrupted, lock, Backoff, Exchange, Sleep, Store, Wake, CondLoad, CondUnlock, CondSleep,
         CondLeave, NotifyCount, NotifyWake, Requeue
<1>4. QueueInv'
  BY <1>1, <1>2, <1>3, ZenonT(60) DEF Inv, QueueInv, QueueType
<1> QED
  BY Zenon, <1>1, <1>4 DEF Rests, Taken, Told

\* A thread that holds the lock and has not taken the front finds it there.
LEMMA NotTaken ==
  ASSUME Inv, NEW t \in Threads, pc[t] = "out", owns[t], call[t] # "pop_front"
  PROVE  ~Taken
BY Zenon, OneLocked DEF Inv, QueueInv, Taken

\* A thread leaves: it frees the lock and its call is over.
LEMMA LeaveStep ==
  ASSUME Inv, NEW t \in Threads, unlock(t),
         call' = [call EXCEPT ![t] = "none"] \/ call' = [call EXCEPT ![t] = "done"],
         UNCHANGED <<pushed, got>>, queue' \in Seq(Nat), Len(queue') <= Len(queue)
  PROVE  QueueInv' /\ ~Taken'
<1>1. pc[t] = "out" /\ owns[t] /\ seq' = seq
  BY Zenon DEF unlock
<1>2. \A u \in Threads : u # t => call[u] # "pop_front" /\ call'[u] = call[u]
  BY <1>1, OneLocked, Zenon DEF Inv, QueueInv, QueueType
<1>3. call'[t] \in {"none", "done"}
  BY DEF Inv, QueueInv, QueueType
<1>4. QueueType'
  BY Zenon DEF Inv, QueueInv, QueueType, Calls
<1>5. Len(queue) \in Nat /\ Len(queue') \in Nat /\ pushed \in Nat /\ seq \in Nat
  BY SMTT(30), SMTT(60) DEF Inv, QueueInv, QueueType, HeldInv, SynchTypeOK
<1>6. Len(queue') <= pushed' /\ pushed' <= seq'
  BY <1>1, <1>5, SMTT(30), SMTT(60) DEF Inv, QueueInv
<1> QED
  BY <1>2, <1>3, <1>4, <1>6, ZenonT(60) DEF Inv, QueueInv, Taken

\* locked_push() adds a value or tells "closed".
LEMMA PushStep ==
  ASSUME Inv, NEW t \in Threads, locked_push(t)
  PROVE  QueueInv' /\ QueueStep
<1>1. call[t] = "push" /\ pc[t] = "out" /\ owns[t] /\ t \in Producers /\ UNCHANGED <<closed, got>>
  BY DEF locked_push, Locked, Inv, QueueInv
<1>2. ~Taken
  BY <1>1, NotTaken, Zenon
<1>3. CASE closed /\ Leave(t, "done") /\ UNCHANGED <<queue, pushed>>
  <2>1. unlock(t) /\ call' = [call EXCEPT ![t] = "done"]
    BY Zenon, <1>3 DEF Leave, Call
  <2>2. QueueInv' /\ ~Taken'
    <3>1. queue' \in Seq(Nat) /\ Len(queue') <= Len(queue)
      BY <1>3, SMTT(30), SMTT(60) DEF Inv, QueueInv, QueueType
    <3> QED
      BY <1>1, <1>3, <2>1, <3>1, LeaveStep, ZenonT(60)
  <2>3. Told' = [Told EXCEPT ![t] = "done"]
    BY <2>1, Zenon DEF Told, Inv, QueueInv, QueueType
  <2>4. Tells(t)
    BY <1>1, <1>2, <1>3, <2>2, <2>3, Zenon DEF Tells
  <2> QED
    BY <2>2, <2>4, Zenon DEF QueueStep
<1>4. CASE /\ ~closed
           /\ queue' = Append(queue, pushed + 1)
           /\ pushed' = pushed + 1
           /\ notify_one(t)
           /\ Call(t, "leave")
  <2>1. seq' = seq + 1 /\ seq < MaxSeq /\ call' = [call EXCEPT ![t] = "leave"]
    BY <1>4, Zenon DEF notify_one, Notify, Call
  <2>2. queue \in Seq(Nat) /\ Len(queue) \in Nat /\ pushed \in Nat /\ seq \in Nat /\ MaxSeq \in Nat
    BY SynchAssumption, SMTT(30), SMTT(60) DEF Inv, QueueInv, QueueType, HeldInv, SynchTypeOK
  <2>3. pushed + 1 \in Nat /\ Len(queue) <= pushed /\ pushed <= seq
    BY <2>2 DEF Inv, QueueInv
  <2>4. queue' \in Seq(Nat) /\ Len(queue') = Len(queue) + 1
    BY <1>4, <2>2, <2>3, AppendFacts, ZenonT(60)
  <2>5. Len(queue') <= pushed' /\ pushed' <= seq'
    BY <1>4, <2>1, <2>2, <2>3, <2>4, SMTT(30), SMTT(60)
  <2>6. QueueType'
    BY <1>1, <1>4, <2>1, <2>3, <2>4, ZenonT(60) DEF Inv, QueueInv, QueueType, Calls
  <2>7. call'[t] = "leave" /\ \A u \in Threads : u # t => call'[u] = call[u] /\ call[u] # "pop_front"
    BY <1>2, <2>1, Zenon DEF Taken, Inv, QueueInv, QueueType
  <2>8. QueueInv'
    BY <2>5, <2>6, <2>7, ZenonT(60) DEF Inv, QueueInv
  <2>9. ~Taken' /\ Told' = Told
    BY <1>1, <2>7, Zenon DEF Taken, Told
  <2>10. Len(queue) <= MaxSeq
    BY <2>1, <2>2, <2>3, SMTT(30), SMTT(60)
  <2>11. Adds(t)
    BY <1>1, <1>2, <1>4, <2>9, <2>10, ZenonT(60) DEF Adds
  <2> QED
    BY <2>8, <2>11, Zenon DEF QueueStep
<1> QED
  BY <1>3, <1>4, ZenonT(60) DEF locked_push

\* locked_pop() takes the front, tells "closed" or "empty", or waits.
LEMMA PopStep ==
  ASSUME Inv, NEW t \in Threads, locked_pop(t)
  PROVE  QueueInv' /\ QueueStep
<1>1. /\ call[t] \in {"wait_pop", "try_pop"} /\ pc[t] = "out" /\ owns[t]
      /\ t \in Takers
      /\ UNCHANGED <<queue, closed, pushed>>
  BY DEF locked_pop, Locked, Inv, QueueInv
<1>2. ~Taken
  BY <1>1, NotTaken, ZenonT(60)
<1>3. queue' \in Seq(Nat) /\ Len(queue') <= Len(queue)
  BY <1>1, SMTT(30), SMTT(60) DEF Inv, QueueInv, QueueType
<1>4. CASE /\ queue # <<>>
           /\ got' = [got EXCEPT ![t] = Append(got[t], Head(queue))]
           /\ Call(t, "pop_front")
           /\ UNCHANGED synch
  <2>1. call' = [call EXCEPT ![t] = "pop_front"] /\ pc' = pc /\ owns' = owns /\ seq' = seq
    BY <1>4, Zenon DEF Call, synch
  <2>2. got' \in [Threads -> Seq(Nat)]
    <3>1. Head(queue) \in Nat /\ got[t] \in Seq(Nat)
      BY <1>4, TailFacts, Zenon DEF Inv, QueueInv, QueueType
    <3>2. Append(got[t], Head(queue)) \in Seq(Nat)
      BY <3>1, AppendFacts, ZenonT(60)
    <3> QED
      BY <1>4, <3>2, ZenonT(60) DEF Inv, QueueInv, QueueType
  <2>3. call'[t] = "pop_front" /\ \A u \in Threads : u # t => call'[u] = call[u]
    BY <2>1, SMTT(30), SMTT(60) DEF Inv, QueueInv, QueueType
  <2>4. QueueType'
    BY <1>1, <2>1, <2>2, ZenonT(60) DEF Inv, QueueInv, QueueType, Calls
  <2>5. QueueInv'
    BY <1>1, <1>4, <2>1, <2>3, <2>4, ZenonT(60) DEF Inv, QueueInv
  <2>6. Taken' /\ Told' = Told
    BY <1>1, <2>3, ZenonT(60) DEF Taken, Told
  <2>7. Takes(t)
    BY <1>1, <1>2, <1>4, <2>6, ZenonT(60) DEF Takes
  <2> QED
    BY <2>5, <2>7, Zenon DEF QueueStep
<1>5. CASE queue = <<>> /\ closed /\ Leave(t, "done") /\ got' = got
  <2>1. unlock(t) /\ call' = [call EXCEPT ![t] = "done"]
    BY <1>5, SMTT(30), SMTT(60) DEF Leave, Call
  <2>2. QueueInv' /\ ~Taken'
    BY <1>1, <1>3, <1>5, <2>1, LeaveStep, ZenonT(60)
  <2>3. Told' = [Told EXCEPT ![t] = "done"]
    <3>1. call'[t] = "done" /\ \A u \in Threads : u # t => call'[u] = call[u]
      BY <2>1, ZenonT(60) DEF Inv, QueueInv, QueueType
    <3> QED
      BY <3>1, Zenon DEF Told
  <2>4. Tells(t)
    BY ZenonT(60), <1>1, <1>2, <1>5, <2>2, <2>3 DEF Tells
  <2> QED
    BY <2>2, <2>4, SMTT(30), SMTT(60) DEF QueueStep
<1>6. CASE Leave(t, "none") /\ got' = got
  <2>1. unlock(t) /\ call' = [call EXCEPT ![t] = "none"]
    BY <1>6 DEF Leave, Call
  <2>2. QueueInv' /\ ~Taken'
    BY <1>1, <1>3, <1>6, <2>1, LeaveStep, Zenon
  <2>3. Told' = Told
    BY <1>1, <2>1, ZenonT(60) DEF Told, Inv, QueueInv, QueueType
  <2> QED
    BY <1>1, <1>2, <1>6, <2>2, <2>3, ZenonT(60) DEF Rests, QueueStep
<1>7. CASE wait(t) /\ call' = call /\ got' = got
  <2>1. seq' = seq
    BY <1>7, ZenonT(60) DEF wait
  <2>2. QueueInv'
    BY <1>1, <1>2, <1>7, <2>1, ZenonT(60) DEF Inv, QueueInv, QueueType, Taken
  <2> QED
    BY <1>1, <1>7, <2>2, ZenonT(60) DEF Rests, QueueStep, Taken, Told
<1> QED
  BY <1>4, <1>5, <1>6, <1>7, ZenonT(60) DEF locked_pop, PopEmpty

\* pop_front() removes the front that the thread has taken.
LEMMA PopFrontStep ==
  ASSUME Inv, NEW t \in Threads, pop_front(t)
  PROVE  QueueInv' /\ QueueStep
<1>1. call[t] = "pop_front" /\ queue # <<>> /\ queue \in Seq(Nat) /\ UNCHANGED <<closed, pushed, got>>
  BY Zenon DEF pop_front, Locked, Inv, QueueInv, QueueType
<1>2. queue' = Tail(queue) /\ unlock(t) /\ call' = [call EXCEPT ![t] = "none"]
  BY Zenon, <1>1 DEF pop_front, Leave, Call
<1>3. queue' \in Seq(Nat) /\ Len(queue') <= Len(queue)
  BY <1>1, <1>2, TailFacts, SMTT(30), SMTT(60)
<1>4. QueueInv' /\ ~Taken'
  BY <1>1, <1>2, <1>3, LeaveStep, ZenonT(60)
<1>5. Taken /\ Told' = Told
  BY <1>1, <1>2, Zenon DEF Taken, Told, Inv, QueueInv, QueueType
<1> QED
  BY <1>1, <1>2, <1>4, <1>5, ZenonT(60) DEF Removes, QueueStep

\* close() sets the flag, and an operation that has notified returns.
LEMMA CloseStep ==
  ASSUME Inv, NEW t \in Threads, locked_close(t) \/ Return(t)
  PROVE  QueueInv' /\ QueueStep
<1>1. pc[t] = "out" /\ owns[t] /\ call[t] \in {"close", "leave"} /\ UNCHANGED <<queue, pushed, got>>
  BY Zenon DEF locked_close, Return, Locked
<1>2. ~Taken
  BY <1>1, NotTaken, ZenonT(60)
<1>3. CASE locked_close(t)
  <2>1. closed' = TRUE /\ seq' = seq + 1 /\ call' = [call EXCEPT ![t] = "leave"]
    BY <1>3, ZenonT(60) DEF locked_close, notify_all, Notify, Call
  <2>2. call'[t] = "leave" /\ \A u \in Threads : u # t => call'[u] = call[u] /\ call[u] # "pop_front"
    BY <1>2, <2>1, ZenonT(60) DEF Taken, Inv, QueueInv, QueueType
  <2>3. QueueType'
    BY <1>1, <2>1, ZenonT(60) DEF Inv, QueueInv, QueueType, Calls
  <2>4. pushed' <= seq'
    <3>1. pushed \in Nat /\ seq \in Nat /\ pushed <= seq
      BY ZenonT(60) DEF Inv, QueueInv, QueueType, HeldInv, SynchTypeOK
    <3> QED
      BY <1>1, <2>1, <3>1, SMTT(30), SMTT(60)
  <2>5. QueueInv'
    BY <1>1, <2>2, <2>3, <2>4, ZenonT(60) DEF Inv, QueueInv
  <2>6. ~Taken' /\ Told' = Told
    BY <1>1, <2>2, Zenon DEF Taken, Told
  <2> QED
    BY <1>1, <1>2, <2>1, <2>5, <2>6, ZenonT(60) DEF Closes, QueueStep
<1>4. CASE Return(t)
  <2>1. unlock(t) /\ call' = [call EXCEPT ![t] = "none"] /\ closed' = closed
    BY <1>4, ZenonT(60) DEF Return, Leave, Call
  <2>2. queue' \in Seq(Nat) /\ Len(queue') <= Len(queue)
    BY <1>1, SMTT(30), SMTT(60) DEF Inv, QueueInv, QueueType
  <2>3. QueueInv' /\ ~Taken'
    BY <1>1, <2>1, <2>2, LeaveStep, ZenonT(60)
  <2>4. Told' = Told
    BY <1>1, <2>1, Zenon DEF Told, Inv, QueueInv, QueueType
  <2> QED
    BY <1>1, <1>2, <2>1, <2>3, <2>4, Zenon DEF Rests, QueueStep
<1> QED
  BY <1>3, <1>4, ZenonT(60)

\* Every step keeps the invariant and does one thing to the queue.
LEMMA NextQueue ==
  ASSUME Inv, [Next]_vars
  PROVE  Inv' /\ QueueStep
<1>1. HeldInv' /\ SleepInv'
  BY QueueSynch, NextHeld, Zenon DEF Inv
<1>2. CASE UNCHANGED vars
  <2>1. UNCHANGED <<queue, closed, call, pushed, got, pc, owns, seq>>
    BY <1>2, Zenon DEF vars, synch, queueVars
  <2>2. QueueInv'
    BY <2>1, Zenon DEF Inv, QueueInv, QueueType
  <2> QED
    BY <1>1, <2>1, <2>2, Zenon DEF Inv, QueueStep, Rests, Taken, Told
<1>3. ASSUME NEW t \in Threads, Begin(t) \/ Step(t) \/ Signalled(t)
      PROVE  QueueInv' /\ QueueStep
  BY <1>3, BeginStep, LibraryStep, PushStep, PopStep, PopFrontStep, CloseStep, ZenonT(60) DEF Step, Signalled, QueueStep
<1> QED
  BY <1>1, <1>2, <1>3, Zenon DEF Next, Inv

-----------------------------------------------------------------------------
(* The refinement                                                          *)

\* What a step does to the queue is a step of the abstract queue or none.
LEMMA StepRefines ==
  ASSUME Inv, QueueStep
  PROVE  [Abs!ConqueueNext]_(Abs!conqueue)
<1>2. Abs!Users = Threads
  BY Zenon, QueueAssumption DEF Abs!Users
<1>1. \A c \in {"push", "pop"} : Abs!InLine(c) = {}
  BY <1>2, ZenonT(60) DEF Abs!InLine
<1>3. ASSUME NEW t \in Threads, Adds(t) PROVE Abs!ConqueueNext
  <2>1. Len(queue) < MaxSeq + 1
    BY <1>3, SynchAssumption, SMTT(30), SMTT(60) DEF Adds, Inv, QueueInv, QueueType
  <2>2. Abs!try_push(t)
    BY <1>1, <1>3, <2>1, ZenonT(60) DEF Adds, Taken, Told, Abs!try_push
  <2> QED
    BY <1>2, <2>2, ZenonT(60) DEF Abs!ConqueueNext, Abs!wait_push
<1>4. ASSUME NEW t \in Threads, Takes(t) PROVE Abs!ConqueueNext
  <2>1. Abs!try_pop(t)
    BY <1>1, <1>4, Zenon DEF Takes, Takers, Taken, Told, Abs!try_pop, Abs!Give
  <2> QED
    BY <1>2, <2>1, ZenonT(60) DEF Abs!ConqueueNext, Abs!wait_pop
<1>5. ASSUME NEW t \in Threads, Tells(t) PROVE Abs!ConqueueNext
  <2>1. Abs!ToldClosed(t)
    BY <1>5, Zenon DEF Tells, Takers, Taken, Told, Abs!ToldClosed
  <2> QED
    BY <1>2, <2>1, ZenonT(60) DEF Abs!ConqueueNext
<1>6. CASE Removes
  BY <1>6, ZenonT(60) DEF Removes, Taken, Told, Abs!conqueue
<1>7. CASE Closes
  BY <1>7, Zenon DEF Closes, Taken, Told, Abs!ConqueueNext, Abs!close
<1>8. CASE Rests
  BY <1>8 DEF Rests, Taken, Told, Abs!conqueue
<1> QED
  BY <1>3, <1>4, <1>5, <1>6, <1>7, <1>8, ZenonT(60) DEF QueueStep

\* synch_queue is a closable first-in first-out queue: with any number of
\* threads, each push, pop and close takes effect in one step between its call
\* and its return.
THEOREM SynchQueueImplements == Spec => ImplementsConqueue
<1>1. Init => Abs!ConqueueInit
  BY Zenon, QueueAssumption DEF Init, Abs!ConqueueInit, Abs!Users
<1>2. Inv /\ [Next]_vars => Inv' /\ [Abs!ConqueueNext]_(Abs!conqueue)
  BY NextQueue, StepRefines, ZenonT(60)
<1> QED
  BY <1>1, <1>2, InitQueue, PTL DEF Spec, ImplementsConqueue, Abs!ConqueueSpec

-----------------------------------------------------------------------------
(* The order of the values                                                 *)

\* The number of values taken so far
Left == pushed - Len(queue) + (IF Taken THEN 1 ELSE 0)

\* The threads have got the values that left the queue, each of them once and
\* in order.
GotFifo ==
  /\ \A t \in Threads : \A i \in 1 .. Len(got[t]) : got[t][i] \in 1 .. Left
  /\ \A v \in 1 .. Left : \E t \in Threads : \E i \in 1 .. Len(got[t]) : got[t][i] = v
  /\ \A t \in Threads : \A i, j \in 1 .. Len(got[t]) : i < j => got[t][i] < got[t][j]
  /\ \A t, u \in Threads : \A i \in 1 .. Len(got[t]), j \in 1 .. Len(got[u]) :
       got[t][i] = got[u][j] => t = u /\ i = j

\* The queue holds the latest pushes in order, and the ones before are got.
FifoInv ==
  /\ \A i \in 1 .. Len(queue) : queue[i] = pushed - Len(queue) + i
  /\ GotFifo

\* What was got stays in order when nothing is got.
LEMMA NothingGot ==
  ASSUME GotFifo, got' = got, Left' = Left
  PROVE  GotFifo'
BY SMTT(30), SMTT(60) DEF GotFifo

\* A thread that takes the front gets the value that follows those taken.
LEMMA TakesFifo ==
  ASSUME Inv, FifoInv, NEW t \in Threads, Takes(t)
  PROVE  FifoInv'
<1>1. /\ queue \in Seq(Nat) /\ pushed \in Nat /\ Len(queue) \in Nat \ {0} /\ Len(queue) <= pushed
      /\ Head(queue) = queue[1] /\ got \in [Threads -> Seq(Nat)]
  <2>1. queue \in Seq(Nat) /\ pushed \in Nat /\ Len(queue) <= pushed /\ got \in [Threads -> Seq(Nat)]
    BY Zenon DEF Inv, QueueInv, QueueType
  <2> QED
    BY <2>1, TailFacts, SMTT(30), SMTT(60) DEF Takes
<1>2. Left = pushed - Len(queue) /\ Left \in Nat
  BY <1>1, SMTT(30), SMTT(60) DEF Takes, Left
<1>3. UNCHANGED <<queue, pushed>> /\ Left' = Left + 1
  BY <1>1, SMTT(30), SMTT(60) DEF Takes, Left
<1>4. Head(queue) = Left + 1
  BY <1>1, <1>2, SMTT(30), SMTT(60) DEF FifoInv
<1>5. /\ got'[t] = Append(got[t], Left + 1)
      /\ \A u \in Threads : u # t => got'[u] = got[u]
  BY <1>1, <1>4, ZenonT(60) DEF Takes
<1>6. /\ Len(got[t]) \in Nat /\ Len(got'[t]) = Len(got[t]) + 1
      /\ \A i \in 1 .. Len(got[t]) : got'[t][i] = got[t][i]
      /\ got'[t][Len(got[t]) + 1] = Left + 1
  <2>1. got[t] \in Seq(Nat) /\ Left + 1 \in Nat
    BY <1>1, <1>2, SMTT(30), SMTT(60)
  <2> QED
    BY <1>5, <2>1, AppendFacts, SMTT(30), SMTT(60)
\* The places in got' are the old ones, with the old values, and a new one.
<1>7. ASSUME NEW u \in Threads, NEW i \in 1 .. Len(got'[u])
      PROVE  \/ i \in 1 .. Len(got[u]) /\ got'[u][i] = got[u][i] /\ got[u][i] \in 1 .. Left
             \/ u = t /\ i = Len(got[t]) + 1 /\ got'[u][i] = Left + 1
  <2>1. CASE u = t
    <3>1. i \in 1 .. Len(got[t]) \/ i = Len(got[t]) + 1
      BY <1>6, <2>1, SMTT(30), SMTT(60)
    <3> QED
      BY <1>6, <2>1, <3>1, ZenonT(60) DEF FifoInv, GotFifo
  <2>2. CASE u # t
    BY <1>5, <2>2, Zenon DEF FifoInv, GotFifo
  <2> QED
    BY <2>1, <2>2, Zenon
<1>8. ASSUME NEW u \in Threads, NEW i \in 1 .. Len(got[u])
      PROVE  i \in 1 .. Len(got'[u]) /\ got'[u][i] = got[u][i]
  <2>1. CASE u = t
    BY <1>6, <2>1, SMTT(30), SMTT(60)
  <2>2. CASE u # t
    BY <1>5, <2>2, Zenon
  <2> QED
    BY <2>1, <2>2, ZenonT(60)
<1>9. (\A i \in 1 .. Len(queue) : queue[i] = pushed - Len(queue) + i)'
  BY <1>3, ZenonT(60) DEF FifoInv
<1>10. \A u \in Threads : \A i \in 1 .. Len(got'[u]) : got'[u][i] \in 1 .. Left'
  <2>1. \A v \in 1 .. Left : v \in 1 .. Left'
    BY <1>2, <1>3
  <2>2. Left + 1 \in 1 .. Left'
    BY <1>2, <1>3, SMTT(30), SMTT(60)
  <2> QED
    BY <1>7, <2>1, <2>2, ZenonT(60)
<1>11. \A v \in 1 .. Left' : \E u \in Threads : \E i \in 1 .. Len(got'[u]) : got'[u][i] = v
  <2> SUFFICES ASSUME NEW v \in 1 .. Left'
               PROVE  \E u \in Threads : \E i \in 1 .. Len(got'[u]) : got'[u][i] = v
    BY SMTT(30), SMTT(60)
  <2>1. CASE v = Left + 1
    BY <1>6, <2>1, SMTT(30), SMTT(60)
  <2>2. CASE v \in 1 .. Left
    <3>1. PICK u \in Threads : \E i \in 1 .. Len(got[u]) : got[u][i] = v
      BY <2>2, ZenonT(60) DEF FifoInv, GotFifo
    <3> QED
      BY <1>8, <3>1, Zenon
  <2> QED
    BY <1>2, <1>3, <2>1, <2>2, SMTT(30), SMTT(60)
<1>12. ASSUME NEW u \in Threads, NEW i \in 1 .. Len(got'[u]), NEW j \in 1 .. Len(got'[u]), i < j
       PROVE  got'[u][i] < got'[u][j]
  <2>1. CASE i \in 1 .. Len(got[u]) /\ j \in 1 .. Len(got[u])
    BY <1>8, <1>12, <2>1, ZenonT(60) DEF FifoInv, GotFifo
  <2>2. CASE i \in 1 .. Len(got[u]) /\ got'[u][i] \in 1 .. Left /\ got'[u][j] = Left + 1
    BY <1>2, <2>2, SMTT(30), SMTT(60)
  <2>3. ~(u = t /\ i = Len(got[t]) + 1)
    BY <1>6, <1>12, SMTT(30), SMTT(60)
  <2> QED
    BY <1>7, <2>1, <2>2, <2>3, Zenon
<1>13. ASSUME NEW u \in Threads, NEW w \in Threads,
              NEW i \in 1 .. Len(got'[u]), NEW j \in 1 .. Len(got'[w]), got'[u][i] = got'[w][j]
       PROVE  u = w /\ i = j
  <2>1. CASE i \in 1 .. Len(got[u]) /\ j \in 1 .. Len(got[w])
    <3>1. got[u][i] = got[w][j]
      BY <1>8, <1>13, <2>1, Zenon
    <3> QED
      BY <2>1, <3>1, SMTT(30), SMTT(60) DEF FifoInv, GotFifo
  <2>2. CASE u = t /\ i = Len(got[t]) + 1 /\ w = t /\ j = Len(got[t]) + 1
    BY <2>2, Zenon
  <2>3. ~(got'[u][i] \in 1 .. Left /\ got'[w][j] = Left + 1)
    BY <1>2, <1>13, SMTT(30), SMTT(60)
  <2>4. ~(got'[w][j] \in 1 .. Left /\ got'[u][i] = Left + 1)
    BY <1>2, <1>13, SMTT(30), SMTT(60)
  <2> QED
    BY <1>7, <2>1, <2>2, <2>3, <2>4, ZenonT(60)
<1> QED
  BY <1>9, <1>10, <1>11, <1>12, <1>13, ZenonT(60) DEF FifoInv, GotFifo

\* Every step keeps the order.
LEMMA NextFifo ==
  ASSUME Inv, FifoInv, QueueStep
  PROVE  FifoInv'
<1>1. queue \in Seq(Nat) /\ Len(queue) \in Nat /\ pushed \in Nat
  BY SMTT(30) DEF Inv, QueueInv, QueueType
<1>2. ASSUME NEW t \in Threads, Adds(t) PROVE FifoInv'
  <2>1. /\ Len(queue') = Len(queue) + 1
        /\ \A i \in 1 .. Len(queue) : queue'[i] = queue[i]
        /\ queue'[Len(queue) + 1] = pushed + 1
    <3>1. pushed + 1 \in Nat /\ queue' = Append(queue, pushed + 1)
      BY <1>1, <1>2, SMTT(30), SMTT(60) DEF Adds
    <3> QED
      BY <1>1, <3>1, AppendFacts, SMTT(30), SMTT(60)
  <2>2. pushed' = pushed + 1 /\ got' = got /\ Left' = Left
    BY <1>1, <1>2, <2>1, SMTT(30), SMTT(60) DEF Adds, Left
  <2>3. ASSUME NEW i \in 1 .. Len(queue') PROVE queue'[i] = pushed' - Len(queue') + i
    <3>1. CASE i = Len(queue) + 1
      BY <1>1, <2>1, <2>2, <3>1, SMTT(30), SMTT(60)
    <3>2. CASE i \in 1 .. Len(queue)
      <4>1. queue'[i] = pushed - Len(queue) + i
        BY <2>1, <3>2, Zenon DEF FifoInv
      <4> QED
        BY <1>1, <2>1, <2>2, <4>1, SMTT(30), SMTT(60)
    <3> QED
      BY <1>1, <2>1, <3>1, <3>2, SMTT(30), SMTT(60)
  <2> QED
    BY <2>2, <2>3, NothingGot, Zenon DEF FifoInv
<1>3. CASE Removes
  <2>1. /\ Len(queue) \in Nat \ {0}
        /\ Len(queue') = Len(queue) - 1
        /\ \A i \in 1 .. Len(queue) - 1 : queue'[i] = queue[i + 1]
    BY <1>1, <1>3, TailFacts, SMTT(30), SMTT(60) DEF Removes
  <2>2. pushed' = pushed /\ got' = got /\ Left' = Left
    BY <1>1, <1>3, <2>1, SMTT(30), SMTT(60) DEF Removes, Left
  <2>3. ASSUME NEW i \in 1 .. Len(queue') PROVE queue'[i] = pushed' - Len(queue') + i
    <3>1. i + 1 \in 1 .. Len(queue) /\ queue'[i] = queue[i + 1]
      BY <2>1
    <3>2. queue[i + 1] = pushed - Len(queue) + (i + 1)
      BY <3>1, Zenon DEF FifoInv
    <3> QED
      BY <1>1, <2>1, <2>2, <3>1, <3>2, SMTT(30), SMTT(60)
  <2> QED
    BY <2>2, <2>3, NothingGot, ZenonT(60) DEF FifoInv
<1>4. ASSUME UNCHANGED <<queue, pushed, got>>, Taken' <=> Taken PROVE FifoInv'
  <2>1. Left' = Left
    BY <1>4 DEF Left
  <2> QED
    BY <1>4, <2>1, NothingGot, Zenon DEF FifoInv
<1> QED
  BY <1>2, <1>3, <1>4, TakesFifo, Zenon DEF QueueStep, Tells, Closes, Rests

\* Every value pushed is in the queue or was popped once by one thread, and no
\* thread gets two values in the opposite order.
THEOREM SynchQueueFifo == Spec => []FifoDelivery
<1>1. Init => FifoInv
  <2> SUFFICES ASSUME Init PROVE FifoInv
    OBVIOUS
  <2>1. queue = <<>> /\ pushed = 0 /\ Len(queue) = 0 /\ ~Taken /\ \A t \in Threads : Len(got[t]) = 0
    BY DEF Init, Taken
  <2>2. Left = 0
    BY <2>1 DEF Left
  <2> QED
    BY <2>1, <2>2, SMTT(30), SMTT(60) DEF FifoInv, GotFifo
<1>2. Inv /\ FifoInv /\ [Next]_vars => Inv' /\ FifoInv'
  BY NextQueue, NextFifo, Zenon
<1>3. Inv /\ FifoInv => FifoDelivery
  <2> SUFFICES ASSUME Inv, FifoInv PROVE Popped \cup {queue[i] : i \in 1 .. Len(queue)} = 1 .. pushed
    BY Zenon DEF FifoInv, GotFifo, FifoDelivery
  <2>1. queue \in Seq(Nat) /\ Len(queue) \in Nat /\ pushed \in Nat /\ Len(queue) <= pushed
    BY SMTT(30), SMTT(60) DEF Inv, QueueInv, QueueType
  <2>2. Popped = 1 .. Left
    BY DEF FifoInv, GotFifo, Popped
  <2>3. Left \in Int /\ pushed - Len(queue) <= Left /\ Left <= pushed
    <3>1. Taken => Len(queue) > 0
      BY <2>1, SMTT(30), SMTT(60) DEF Taken, Inv, QueueInv
    <3> QED
      BY <2>1, <3>1, SMTT(30), SMTT(60) DEF Left
  <2>4. {queue[i] : i \in 1 .. Len(queue)} = pushed - Len(queue) + 1 .. pushed
    <3>1. ASSUME NEW v \in pushed - Len(queue) + 1 .. pushed PROVE \E i \in 1 .. Len(queue) : queue[i] = v
      <4>1. v - (pushed - Len(queue)) \in 1 .. Len(queue)
        BY <2>1, SMTT(30)
      <4>2. queue[v - (pushed - Len(queue))] = pushed - Len(queue) + (v - (pushed - Len(queue)))
        BY <4>1, Zenon DEF FifoInv
      <4> QED
        BY <2>1, <4>1, <4>2, SMTT(30), SMTT(60)
    <3>2. ASSUME NEW i \in 1 .. Len(queue) PROVE queue[i] \in pushed - Len(queue) + 1 .. pushed
      BY <2>1, SMTT(30), SMTT(60) DEF FifoInv
    <3> QED
      BY <3>1, <3>2, Zenon
  <2>5. (1 .. Left) \cup (pushed - Len(queue) + 1 .. pushed) = 1 .. pushed
    BY <2>1, <2>3, SMTT(30), SMTT(60)
  <2> QED
    BY <2>2, <2>4, <2>5, ZenonT(60)
<1> QED
  BY <1>1, <1>2, <1>3, InitQueue, PTL DEF Spec

\* Where no thread both pushes and pops, a consumer that was told "closed" has
\* left no value behind, and none comes later.
THEOREM SynchQueueDrained ==
  ASSUME Producers \cap Takers = {}
  PROVE  Spec => []ClosedIsDrained
<1> DEFINE Drained == \A t \in Takers : Told[t] = "done" => closed /\ queue = <<>>
<1>1. Init => Drained
  BY QueueAssumption, SMTT(30) DEF Init, Told, Takers
<1>2. Inv /\ Drained /\ [Next]_vars => Inv' /\ Drained'
  <2> SUFFICES ASSUME Inv, Drained, [Next]_vars PROVE Inv' /\ Drained'
    OBVIOUS
  <2>1. Inv' /\ QueueStep
    BY NextQueue, ZenonT(60)
  <2>2. ASSUME NEW t \in Threads, Tells(t) PROVE Drained'
    <3>1. Told'[t] = "done" /\ \A u \in Threads : u # t => Told'[u] = Told[u]
      BY <2>2, Zenon DEF Tells, Told
    <3> QED
      BY <2>2, <3>1, QueueAssumption, Zenon DEF Tells, Takers
  <2>3. ASSUME NEW t \in Threads, Adds(t) \/ Takes(t) PROVE Drained'
    BY <2>3, ZenonT(60) DEF Adds, Takes
  <2>4. CASE Removes \/ Closes \/ Rests
    BY <2>1, <2>4, SMTT(30), SMTT(60) DEF Removes, Closes, Rests
  <2> QED
    BY <2>1, <2>2, <2>3, <2>4, ZenonT(60) DEF QueueStep
<1>3. Drained => ClosedIsDrained
  BY QueueAssumption, Zenon DEF Told, Takers, ClosedIsDrained
<1> QED
  BY <1>1, <1>2, <1>3, InitQueue, PTL DEF Spec

-----------------------------------------------------------------------------
(* No wake-up is lost                                                      *)


\* t is inside wait() after count_ was incremented, with the lock or just
\* after it gave the lock back.
Unlocking(t) ==
  \/ pc[t] \in {"cond_unlock", "cond_sleep"}
  \/ pc[t] \in {"store", "wake"} /\ owns[t]

\* t is going to sleep on the condition variable: no notification was made
\* since it loaded the sequence number.
Prepared(t) == pc[t] = "cond_load" \/ (Unlocking(t) /\ val[t] = seq)

\* t will look at the queue before it sleeps again, or wake somebody up.
Comer(t) ==
  \/ call[t] = "wait_pop" /\ ~Prepared(t) /\ on[t] # "cond"
  \/ call[t] = "pop_front"
  \/ pc[t] \in {"one", "one_wake"}

Comers == {t \in Threads : Comer(t)}

Notifying(t) == pc[t] \in {"all", "requeue"}

\* Who waits is in wait_pop(), and who is in wait_pop() has not left it.
CallInv ==
  \A t \in Threads :
    /\ t \in Waiting => call[t] = "wait_pop"
    /\ call[t] = "wait_pop" =>
         /\ pc[t] \in {"out", "store", "wake"} => owns[t]
         /\ pc[t] \notin {"one", "one_wake", "all", "requeue"}

LoadedInv == \A t \in Threads : Unlocking(t) => val[t] <= seq

PreparedInv == \A t \in Threads : Prepared(t) => queue = <<>> /\ ~closed

ComersInv == Asleep("cond") # {} => Len(queue) <= Cardinality(Comers)

CloseWakes == Asleep("cond") # {} /\ closed => \E t \in Threads : Notifying(t)

WakeInv == CallInv /\ LoadedInv /\ PreparedInv /\ ComersInv /\ CloseWakes

WInv == Inv /\ WaitInv /\ LockWakesSleepers /\ WakeInv

\* More threads under way are enough for the same values.
LEMMA MoreComers ==
  ASSUME IsFiniteSet(Threads), Comers \subseteq Comers'
  PROVE  /\ Cardinality(Comers) \in Nat /\ Cardinality(Comers') \in Nat
         /\ Cardinality(Comers) <= Cardinality(Comers')
<1>1. IsFiniteSet(Comers) /\ IsFiniteSet(Comers')
  <2>1. Comers \subseteq Threads /\ Comers' \subseteq Threads
    BY Zenon DEF Comers
  <2> QED
    BY Zenon, <2>1, FS_Subset
<1> QED
  BY <1>1, FS_Subset, FS_CardinalityType, Zenon

\* A step that leaves the queue alone keeps the invariant if it takes nobody
\* from the way, or if there is nothing to come for.
LEMMA KeptWake ==
  ASSUME IsFiniteSet(Threads), Inv, WakeInv, CallInv', LoadedInv', queue' = queue, closed' = closed,
         \A u \in Threads : /\ Prepared(u)' => Prepared(u) \/ (queue = <<>> /\ ~closed)
                            /\ Comer(u) => Comer(u)' \/ queue = <<>>
                            /\ on'[u] = "cond" => on[u] = "cond"
                            /\ Notifying(u) => Notifying(u)'
  PROVE  WakeInv'
<1>1. PreparedInv'
  BY Zenon DEF WakeInv, PreparedInv
<1>2. Asleep("cond")' \subseteq Asleep("cond")
  BY Zenon DEF Asleep
<1>4. ComersInv'
  <2>1. Len(queue) \in Nat
    BY SMTT(30), SMTT(60) DEF Inv, QueueInv, QueueType
  <2>2. CASE queue # <<>>
    <3>1. Comers \subseteq Comers'
      BY <2>2, Zenon DEF Comers
    <3> QED
      BY <1>2, <2>1, <3>1, MoreComers, SMTT(30), SMTT(60) DEF WakeInv, ComersInv
  <2>3. CASE queue = <<>>
    <3>1. Comers' \subseteq Threads
      BY Zenon DEF Comers
    <3>2. Cardinality(Comers') \in Nat
      BY <3>1, FS_Subset, FS_CardinalityType, Zenon
    <3> QED
      BY <2>3, <3>2, SMTT(30), SMTT(60) DEF ComersInv
  <2> QED
    BY <2>2, <2>3, ZenonT(60)
<1>5. CloseWakes'
  BY <1>2, Zenon DEF WakeInv, CloseWakes
<1> QED
  BY <1>1, <1>4, <1>5, Zenon DEF WakeInv

\* The steps of the library between a call and its return, but those of a
\* notification and the last one before a thread sleeps
LEMMA InsideKeeps ==
  ASSUME Inv, WaitInv, CallInv, LoadedInv, NEW t \in Threads, UNCHANGED queueVars,
         \/ (pc[t] = "cas" /\ lock(t)) \/ Backoff(t) \/ Exchange(t) \/ Sleep(t) \/ Store(t) \/ Wake(t)
         \/ CondLoad(t) \/ CondUnlock(t) \/ CondLeave(t) \/ Interrupted(t)
  PROVE  /\ CallInv' /\ LoadedInv'
         /\ \A u \in Threads : /\ Prepared(u)' => Prepared(u)
                               /\ Comer(u) => Comer(u)'
                               /\ on'[u] = "cond" => on[u] = "cond"
                               /\ Notifying(u) => Notifying(u)'
<1> USE DEF CallInv, LoadedInv, Waiting, Unlocking, Prepared, Comer, Notifying
<1>1. call' = call
  BY Zenon DEF queueVars
<1>0. /\ seq \in Nat /\ owns \in [Threads -> BOOLEAN] /\ val \in [Threads -> Nat]
      /\ pc \in [Threads -> SynchLabels] /\ on \in [Threads -> {"none", "lock", "cond"}]
      /\ \A u \in Threads : /\ on[u] = "cond" => pc[u] = "cond_asleep"
                            /\ on[u] # "none" => pc[u] \in {"asleep", "cond_asleep"}
                            /\ pc[u] \in {"cond_load", "cond_unlock"} => owns[u]
  BY ZenonT(60) DEF Inv, HeldInv, SynchTypeOK, SleepInv, WaitInv
<1>2. CASE pc[t] = "cas" /\ lock(t)
  BY <1>0, <1>1, <1>2, SMTT(30), SMTT(60) DEF lock, Goto
<1>3. CASE Backoff(t)
  BY <1>0, <1>1, <1>3, SMTT(30), SMTT(60) DEF Backoff, Goto
<1>8. CASE Exchange(t)
  <2>1. /\ pc[t] = "exchange" /\ UNCHANGED <<seq, val, on>>
        /\ pc' = [pc EXCEPT ![t] = IF word = 0 THEN "out" ELSE "sleep"]
        /\ \A u \in Threads : u # t => owns'[u] = owns[u]
        /\ word = 0 => owns'[t]
    BY <1>0, <1>8, ZenonT(60) DEF Exchange, Goto
  <2> QED
    BY <1>0, <1>1, <2>1, ZenonT(60)
<1>4. CASE Sleep(t)
  BY <1>0, <1>1, <1>4, ZenonT(60) DEF Sleep, FutexWait, Goto
<1>9. CASE Store(t)
  BY <1>0, <1>1, <1>9, ZenonT(60) DEF Store, Goto
<1>5. CASE Wake(t)
  BY <1>0, <1>1, <1>5, SMTT(30), SMTT(60) DEF Wake, FutexWakeOne, Asleep, Resumed, Goto
<1>6. CASE CondLoad(t)
  BY <1>0, <1>1, <1>6, SMTT(30), SMTT(60) DEF CondLoad, Goto
<1>10. CASE CondUnlock(t)
  BY <1>0, <1>1, <1>10, ZenonT(60) DEF CondUnlock, FetchSub, Goto
<1>7. CASE CondLeave(t)
  BY <1>0, <1>1, <1>7, ZenonT(60) DEF CondLeave, Goto
<1>11. CASE Interrupted(t)
  BY <1>0, <1>1, <1>11, ZenonT(60) DEF Interrupted, Resumed, Goto
<1> QED
  BY <1>2, <1>3, <1>4, <1>5, <1>6, <1>7, <1>8, <1>9, <1>10, <1>11, ZenonT(60)

\* A thread sleeps if no notification came since it loaded the sequence
\* number: then the queue is still empty and open.
LEMMA SleepWake ==
  ASSUME IsFiniteSet(Threads), WInv, NEW t \in Threads, UNCHANGED queueVars, CondSleep(t)
  PROVE  WakeInv'
<1>1. call' = call /\ queue' = queue /\ closed' = closed /\ seq' = seq /\ owns' = owns /\ val' = val
  BY Zenon DEF queueVars, CondSleep
<1>2. CASE seq # val[t]
  <2>1. pc' = [pc EXCEPT ![t] = "cond_leave"] /\ on' = [on EXCEPT ![t] = "none"]
    BY <1>2, Zenon DEF CondSleep, FutexWait, Goto
  <2>2. /\ CallInv' /\ LoadedInv'
        /\ \A u \in Threads : /\ Prepared(u)' => Prepared(u)
                              /\ Comer(u) => Comer(u)'
                              /\ on'[u] = "cond" => on[u] = "cond"
                              /\ Notifying(u) => Notifying(u)'
    BY <1>1, <1>2, <2>1, ZenonT(60) DEF CondSleep, CallInv, LoadedInv, Waiting, Unlocking, Prepared, Comer, Notifying,
       WInv, Inv, HeldInv, SynchTypeOK, WakeInv
  <2> QED
    BY <1>1, <2>2, KeptWake, ZenonT(60) DEF WInv
<1>3. CASE seq = val[t]
  <2>1. pc[t] = "cond_sleep" /\ pc' = [pc EXCEPT ![t] = "cond_asleep"]
    BY <1>3, ZenonT(60) DEF CondSleep, FutexWait, Goto
  <2>2. queue = <<>> /\ ~closed
    BY <1>3, <2>1, Zenon DEF WInv, WakeInv, PreparedInv, Prepared, Unlocking
  <2>3. CallInv' /\ LoadedInv' /\ \A u \in Threads : Prepared(u)' => Prepared(u)
    BY <1>1, <2>1, ZenonT(60) DEF CallInv, LoadedInv, Waiting, Unlocking, Prepared, WInv, Inv, HeldInv, SynchTypeOK, WakeInv
  <2>4. PreparedInv'
    BY <1>1, <2>2, Zenon DEF PreparedInv
  <2>5. ComersInv'
    <3>1. Comers' \subseteq Threads
      BY Zenon DEF Comers
    <3>2. Cardinality(Comers') \in Nat
      BY <3>1, FS_Subset, FS_CardinalityType, Zenon
    <3> QED
      BY <1>1, <2>2, <3>2, SMTT(30), SMTT(60) DEF ComersInv
  <2> QED
    BY <1>1, <2>2, <2>3, <2>4, <2>5, Zenon DEF WakeInv, CloseWakes
<1> QED
  BY <1>2, <1>3, Zenon

\* notify_one() hands its turn to the thread that it wakes up; notify_all()
\* leaves nobody asleep. Either skips its system call only if nobody sleeps.
LEMMA NotifyWakes ==
  ASSUME IsFiniteSet(Threads), WInv, NEW t \in Threads, UNCHANGED queueVars,
         NotifyCount(t) \/ NotifyWake(t) \/ Requeue(t)
  PROVE  WakeInv'
<1>1. call' = call /\ queue' = queue /\ closed' = closed /\ seq' = seq /\ owns' = owns /\ val' = val
  BY SMTT(30) DEF queueVars, NotifyCount, NotifyWake, Requeue
<1>2. call[t] # "wait_pop" /\ pc[t] \in {"one", "one_wake", "all", "requeue"}
  BY Zenon DEF NotifyCount, NotifyWake, Requeue, WInv, WakeInv, CallInv
<1>3. /\ CallInv' /\ LoadedInv'
      /\ \A u \in Threads : Prepared(u)' => Prepared(u)
      /\ \A u \in Threads : on'[u] = "cond" => on[u] = "cond"
  <2>0. /\ owns \in [Threads -> BOOLEAN] /\ val \in [Threads -> Nat]
        /\ pc \in [Threads -> SynchLabels] /\ on \in [Threads -> {"none", "lock", "cond"}]
        /\ CallInv /\ LoadedInv /\ \A u \in Threads : on[u] = "cond" => pc[u] = "cond_asleep"
    BY ZenonT(60) DEF WInv, Inv, HeldInv, SynchTypeOK, WaitInv, WakeInv
  <2> USE DEF CallInv, LoadedInv, Waiting, Unlocking, Prepared
  <2>1. CASE NotifyCount(t)
    BY <1>1, <1>2, <2>0, <2>1, SMTT(30), SMTT(60) DEF NotifyCount, Goto
  <2>2. CASE NotifyWake(t)
    BY <1>1, <1>2, <2>0, <2>2, SMTT(30), SMTT(60) DEF NotifyWake, FutexWakeOne, Asleep, Resumed, Goto
  <2>3. CASE Requeue(t)
    BY <1>1, <1>2, <2>0, <2>3, SMTT(30), SMTT(60) DEF Requeue, Asleep, Resumed, Goto
  <2> QED
    BY <2>1, <2>2, <2>3, Zenon
<1>4. PreparedInv'
  BY <1>1, <1>3, Zenon DEF WInv, WakeInv, PreparedInv
<1>5. CASE Asleep("cond")' = {}
  BY <1>3, <1>4, <1>5, Zenon DEF WakeInv, ComersInv, CloseWakes
<1>6. CASE Asleep("cond")' # {}
  <2>1. Asleep("cond") # {}
    BY <1>3, <1>6, ZenonT(60) DEF Asleep
  <2>2. count > 0 /\ owner
    <3>1. Waiting # {}
      BY <2>1, Zenon DEF WInv, WaitInv, Waiting, Asleep
    <3>2. Cardinality(Waiting) \in Nat /\ Cardinality(Waiting) # 0
      BY <3>1, FS_CardinalityType, FS_EmptySet, Zenon DEF WInv, WaitInv
    <3> QED
      BY <3>1, <3>2, SMTT(30), SMTT(60) DEF WInv, WaitInv
  <2>3. CASE NotifyCount(t)
    <3>1. \/ pc[t] = "one" /\ pc' = [pc EXCEPT ![t] = "one_wake"]
          \/ pc[t] = "all" /\ pc' = [pc EXCEPT ![t] = "requeue"]
      BY <2>2, <2>3, SMTT(30), SMTT(60) DEF NotifyCount, Goto
    <3>2. on' = on
      BY <2>3, Zenon DEF NotifyCount
    <3>3. \A u \in Threads : /\ Comer(u) => Comer(u)'
                             /\ Notifying(u) => Notifying(u)'
      BY <1>1, <1>2, <3>1, <3>2, ZenonT(60) DEF Comer, Notifying, Prepared, Unlocking, WInv, Inv, HeldInv, SynchTypeOK
    <3> QED
      BY <1>1, <1>3, <3>3, KeptWake, Zenon DEF WInv
  <2>4. CASE NotifyWake(t)
    <3>1. PICK u \in Asleep("cond") : /\ pc' = [pc EXCEPT ![t] = "out", ![u] = Resumed(u)]
                                      /\ on' = [on EXCEPT ![u] = "none"]
      BY <2>1, <2>4, Zenon DEF NotifyWake, FutexWakeOne
    <3>2. /\ u \in Threads /\ on[u] = "cond" /\ pc[u] = "cond_asleep"
          /\ u # t /\ call[u] = "wait_pop" /\ Resumed(u) = "cond_leave"
      BY <1>2, <3>1, Zenon DEF Asleep, Resumed, WInv, WaitInv, WakeInv, CallInv, Waiting
    <3>3. pc'[u] = "cond_leave" /\ on'[u] = "none"
      BY <3>1, <3>2, ZenonT(60) DEF WInv, Inv, HeldInv, SynchTypeOK
    <3>4. u \notin Comers /\ u \in Comers'
      <4>1. ~Comer(u)
        BY <3>2, Zenon DEF Comer
      <4>2. Comer(u)'
        BY <1>1, <3>2, <3>3, Zenon DEF Comer, Prepared, Unlocking
      <4> QED
        BY <3>2, <4>1, <4>2, Zenon DEF Comers
    <3>5. \A v \in Threads : v # t /\ v # u => pc'[v] = pc[v] /\ on'[v] = on[v]
      BY <3>1, <3>2, Zenon DEF WInv, Inv, HeldInv, SynchTypeOK
    <3>6. \A v \in Threads : v # t /\ v # u => (Comer(v) => Comer(v)') /\ (Notifying(v) => Notifying(v)')
      BY <1>1, <3>5, Zenon DEF Comer, Prepared, Unlocking, Notifying
    <3>7. ~Notifying(t) /\ ~Notifying(u)
      BY <2>4, <3>2, Zenon DEF Notifying, NotifyWake
    <3>8. CloseWakes'
      BY <1>1, <2>1, <3>6, <3>7, Zenon DEF WInv, WakeInv, CloseWakes
    <3>9. (Comers \ {t}) \cup {u} \subseteq Comers'
      BY <3>4, <3>6, Zenon DEF Comers
    <3>10. Cardinality(Comers) <= Cardinality(Comers') /\ Cardinality(Comers) \in Nat /\ Cardinality(Comers') \in Nat
      <4>1. Comers \subseteq Threads /\ Comers' \subseteq Threads
        BY Zenon DEF Comers
      <4>2. IsFiniteSet(Comers) /\ IsFiniteSet(Comers')
        BY <4>1, FS_Subset, Zenon
      <4>3. IsFiniteSet(Comers \ {t}) /\ Cardinality(Comers \ {t}) >= Cardinality(Comers) - 1
        <5>1. Cardinality(Comers) \in Nat
          BY <4>2, FS_CardinalityType, Zenon
        <5>2. /\ IsFiniteSet(Comers \ {t})
              /\ Cardinality(Comers \ {t}) = IF t \in Comers THEN Cardinality(Comers) - 1 ELSE Cardinality(Comers)
          BY <4>2, FS_RemoveElement, Zenon
        <5> QED
          BY <5>1, <5>2, SMTT(30), SMTT(60)
      <4>4. /\ IsFiniteSet((Comers \ {t}) \cup {u})
            /\ Cardinality((Comers \ {t}) \cup {u}) = Cardinality(Comers \ {t}) + 1
        BY <3>4, <4>3, FS_AddElement, Zenon
      <4>5. Cardinality((Comers \ {t}) \cup {u}) <= Cardinality(Comers')
        BY <3>9, <4>2, FS_Subset, Zenon
      <4>6. Cardinality(Comers) \in Nat /\ Cardinality(Comers') \in Nat /\ Cardinality(Comers \ {t}) \in Nat
        BY <4>2, <4>3, FS_CardinalityType, Zenon
      <4> QED
        BY <4>3, <4>4, <4>5, <4>6, SMTT(30), SMTT(60)
    <3>11. ComersInv'
      <4>1. Len(queue) \in Nat /\ Len(queue) <= Cardinality(Comers)
        BY <2>1, SMTT(30) DEF WInv, WakeInv, ComersInv, Inv, QueueInv, QueueType
      <4> QED
        BY <1>1, <3>10, <4>1, SMTT(30), SMTT(60) DEF ComersInv
    <3> QED
      BY <1>3, <1>4, <3>8, <3>11, Zenon DEF WakeInv
  <2>5. CASE Requeue(t)
    BY <1>6, <2>1, <2>5, Zenon DEF Requeue, Asleep, WInv, Inv, HeldInv, SynchTypeOK
  <2> QED
    BY <2>3, <2>4, <2>5, Zenon
<1> QED
  BY <1>5, <1>6, Zenon

\* unlock() at the end of an operation disturbs nobody but the caller.
LEMMA LeaveKeeps ==
  ASSUME Inv, WaitInv, CallInv, LoadedInv, NEW t \in Threads, unlock(t),
         call' = [call EXCEPT ![t] = "none"] \/ call' = [call EXCEPT ![t] = "done"]
  PROVE  /\ CallInv' /\ LoadedInv'
         /\ \A u \in Threads : /\ Prepared(u)' => Prepared(u)
                               /\ Comer(u) => Comer(u)' \/ u = t
                               /\ on'[u] = "cond" => on[u] = "cond"
                               /\ Notifying(u) => Notifying(u)'
<1>1. /\ pc[t] = "out" /\ UNCHANGED <<seq, val, on>>
      /\ pc' = [pc EXCEPT ![t] = "out"] \/ pc' = [pc EXCEPT ![t] = "store"]
      /\ owns' = [owns EXCEPT ![t] = FALSE]
  BY ZenonT(60) DEF unlock, FetchSub, Goto
<1>2. pc'[t] \in {"out", "store"} /\ ~owns'[t] /\ call'[t] \in {"none", "done"}
  BY <1>1, Zenon DEF Inv, HeldInv, SynchTypeOK, QueueInv, QueueType
<1>3. \A u \in Threads : u # t => pc'[u] = pc[u] /\ owns'[u] = owns[u] /\ call'[u] = call[u]
  BY <1>1, ZenonT(60) DEF Inv, HeldInv, SynchTypeOK, QueueInv, QueueType
<1> QED
  BY <1>1, <1>2, <1>3, ZenonT(60) DEF CallInv, LoadedInv, Waiting, Unlocking, Prepared, Comer, Notifying

\* A notification makes everybody who was going to sleep turn back.
LEMMA NotifyKeeps ==
  ASSUME WInv, NEW t \in Threads, owns[t], notify_one(t) \/ notify_all(t),
         call' = [call EXCEPT ![t] = "leave"]
  PROVE  /\ CallInv' /\ LoadedInv'
         /\ \A u \in Threads : /\ ~Prepared(u)'
                               /\ Comer(u) => Comer(u)' \/ u = t
                               /\ on'[u] = on[u]
                               /\ Notifying(u) => Notifying(u)'
<1>1. /\ pc[t] = "out" /\ seq' = seq + 1 /\ UNCHANGED <<owns, val, on>>
      /\ pc' = [pc EXCEPT ![t] = "one"] \/ pc' = [pc EXCEPT ![t] = "all"]
  BY Zenon DEF notify_one, notify_all, Notify, Goto
<1>2. pc'[t] \in {"one", "all"} /\ call'[t] = "leave"
  BY <1>1, Zenon DEF WInv, Inv, HeldInv, SynchTypeOK, QueueInv, QueueType
<1>3. \A u \in Threads : u # t => pc'[u] = pc[u] /\ call'[u] = call[u]
  BY <1>1, ZenonT(60) DEF WInv, Inv, HeldInv, SynchTypeOK, QueueInv, QueueType
<1>4. \A u \in Threads : val[u] \in Nat /\ seq \in Nat
  BY Zenon DEF WInv, Inv, HeldInv, SynchTypeOK
<1>5. \A u \in Threads : u # t => pc[u] # "cond_load"
  BY <1>1, Zenon DEF WInv, Inv, HeldInv, MutualExclusion, Holds
<1>6. \A u \in Threads : Unlocking(u)' => Unlocking(u) /\ u # t
  BY <1>1, <1>2, <1>3, Zenon DEF Unlocking
<1>7. LoadedInv'
  BY <1>1, <1>4, <1>6, SMTT(30), SMTT(60) DEF WInv, WakeInv, LoadedInv
<1>8. \A u \in Threads : ~Prepared(u)'
  <2> SUFFICES ASSUME NEW u \in Threads, Prepared(u)' PROVE FALSE
    OBVIOUS
  <2>1. pc'[u] # "cond_load"
    BY <1>2, <1>3, <1>5, Zenon
  <2>2. Unlocking(u) /\ val[u] = seq + 1
    BY <1>1, <1>6, <2>1, Zenon DEF Prepared
  <2> QED
    BY <1>4, <2>2, SMTT(30), SMTT(60) DEF WInv, WakeInv, LoadedInv
<1>9. CallInv'
  BY <1>1, <1>2, <1>3, ZenonT(60) DEF WInv, WakeInv, CallInv, Waiting
<1>10. \A u \in Threads : (Comer(u) => Comer(u)' \/ u = t) /\ (Notifying(u) => Notifying(u)')
  BY <1>1, <1>3, <1>8, Zenon DEF Comer, Notifying
<1> QED
  BY <1>1, <1>7, <1>8, <1>9, <1>10, Zenon

\* An operation begins.
LEMMA BeginWake ==
  ASSUME IsFiniteSet(Threads), WInv, NEW t \in Threads, Begin(t)
  PROVE  WakeInv'
<1>1. /\ call[t] = "none" /\ pc[t] = "out" /\ ~owns[t]
      /\ UNCHANGED <<queue, closed, seq, on>>
      /\ \E c \in Calls \ {"none", "done", "pop_front", "leave"} : call' = [call EXCEPT ![t] = c]
  BY Zenon DEF Begin, try_push, wait_pop, try_pop, close, nonblocking_push, nonblocking_pop, Enter, TryEnter,
         Call, Calls, lock, try_lock
<1>2. lock(t) \/ try_lock(t)
  BY Zenon DEF Begin, try_push, wait_pop, try_pop, close, nonblocking_push, nonblocking_pop, Enter, TryEnter
<1>3. /\ pc'[t] = "backoff" \/ (pc'[t] = "out" /\ owns'[t])
      /\ \A u \in Threads : u # t => pc'[u] = pc[u] /\ owns'[u] = owns[u] /\ val'[u] = val[u]
  BY <1>2, ZenonT(60) DEF lock, try_lock, Goto, WInv, Inv, HeldInv, SynchTypeOK
<1>4. call'[t] # "pop_front" /\ \A u \in Threads : u # t => call'[u] = call[u]
  BY <1>1, Zenon DEF WInv, Inv, QueueInv, QueueType
<1>5. /\ CallInv' /\ LoadedInv'
      /\ \A u \in Threads : /\ Prepared(u)' => Prepared(u)
                            /\ Comer(u) => Comer(u)'
                            /\ on'[u] = "cond" => on[u] = "cond"
                            /\ Notifying(u) => Notifying(u)'
  BY <1>1, <1>3, <1>4, ZenonT(60) DEF WInv, WakeInv, CallInv, LoadedInv, Waiting, Unlocking, Prepared, Comer, Notifying
<1> QED
  BY <1>1, <1>5, KeptWake, Zenon DEF WInv

\* A push adds a value and a thread that will wake somebody up.
LEMMA PushWake ==
  ASSUME IsFiniteSet(Threads), WInv, NEW t \in Threads, locked_push(t)
  PROVE  WakeInv'
<1>1. call[t] = "push" /\ pc[t] = "out" /\ owns[t] /\ closed' = closed
  BY Zenon DEF locked_push, Locked
<1>2. ~Comer(t)
  BY <1>1, Zenon DEF Comer
<1>3. CASE closed /\ Leave(t, "done") /\ UNCHANGED <<queue, pushed>>
  BY <1>1, <1>2, <1>3, LeaveKeeps, KeptWake, ZenonT(60) DEF Leave, Call, WInv, WakeInv
<1>4. CASE /\ ~closed
           /\ queue' = Append(queue, pushed + 1)
           /\ pushed' = pushed + 1
           /\ notify_one(t)
           /\ Call(t, "leave")
  <2>1. /\ CallInv' /\ LoadedInv'
        /\ \A u \in Threads : /\ ~Prepared(u)'
                              /\ Comer(u) => Comer(u)' \/ u = t
                              /\ on'[u] = on[u]
    BY <1>1, <1>4, NotifyKeeps, ZenonT(60) DEF Call
  <2>2. Comer(t)'
    BY <1>4, Zenon DEF notify_one, Notify, Goto, Comer, WInv, Inv, HeldInv, SynchTypeOK
  <2>3. Comers \cup {t} \subseteq Comers' /\ t \notin Comers
    BY <1>2, <2>1, <2>2, Zenon DEF Comers
  <2>4. Cardinality(Comers) + 1 <= Cardinality(Comers') /\ Cardinality(Comers) \in Nat /\ Cardinality(Comers') \in Nat
    <3>1. Comers \subseteq Threads /\ Comers' \subseteq Threads
      BY Zenon DEF Comers
    <3>2. IsFiniteSet(Comers) /\ IsFiniteSet(Comers')
      BY <3>1, FS_Subset, Zenon
    <3>3. Cardinality(Comers \cup {t}) = Cardinality(Comers) + 1
      BY <2>3, <3>2, FS_AddElement, ZenonT(60)
    <3>4. Cardinality(Comers \cup {t}) <= Cardinality(Comers')
      BY <2>3, <3>2, FS_Subset, Zenon
    <3> QED
      BY <3>2, <3>3, <3>4, FS_CardinalityType, Zenon
  <2>5. queue \in Seq(Nat) /\ Len(queue) \in Nat /\ pushed + 1 \in Nat
    BY SMTT(30) DEF WInv, Inv, QueueInv, QueueType
  <2>6. Len(queue') = Len(queue) + 1
    BY <1>4, <2>5, AppendFacts, Zenon
  <2>7. ComersInv'
    <3>1. Asleep("cond")' = Asleep("cond")
      BY <2>1, Zenon DEF Asleep
    <3> QED
      BY <2>4, <2>5, <2>6, <3>1, SMTT(30), SMTT(60) DEF ComersInv, WInv, WakeInv
  <2> QED
    BY <1>1, <1>4, <2>1, <2>7, Zenon DEF WakeInv, PreparedInv, CloseWakes
<1> QED
  BY <1>3, <1>4 DEF locked_push

\* A pop takes the front, finds the queue empty and leaves, or waits.
LEMMA PopWake ==
  ASSUME IsFiniteSet(Threads), WInv, NEW t \in Threads, locked_pop(t)
  PROVE  WakeInv'
<1>1. /\ call[t] \in {"wait_pop", "try_pop"} /\ pc[t] = "out" /\ owns[t]
      /\ queue' = queue /\ closed' = closed
  BY SMTT(30) DEF locked_pop, Locked
<1>2. CASE Call(t, "pop_front") /\ UNCHANGED synch
  <2>1. call' = [call EXCEPT ![t] = "pop_front"] /\ UNCHANGED <<pc, owns, val, seq, on>>
    BY <1>2, Zenon DEF Call, synch
  <2>2. call'[t] = "pop_front" /\ \A u \in Threads : u # t => call'[u] = call[u]
    BY <2>1, Zenon DEF WInv, Inv, QueueInv, QueueType
  <2>3. CallInv'
    BY <1>1, <2>1, <2>2, ZenonT(60) DEF WInv, WakeInv, CallInv, Waiting
  <2>4. LoadedInv' /\ \A u \in Threads : (Prepared(u)' => Prepared(u)) /\ (Notifying(u) => Notifying(u)')
    BY <2>1, ZenonT(60) DEF WInv, WakeInv, LoadedInv, Unlocking, Prepared, Notifying
  <2>5. \A u \in Threads : Comer(u) => Comer(u)'
    BY <2>1, <2>2, <2>4, ZenonT(60) DEF Comer
  <2> QED
    BY <1>1, <2>1, <2>3, <2>4, <2>5, KeptWake, Zenon DEF WInv
<1>3. CASE queue = <<>> /\ (Leave(t, "done") \/ Leave(t, "none"))
  <2>1. unlock(t) /\ (call' = [call EXCEPT ![t] = "none"] \/ call' = [call EXCEPT ![t] = "done"])
    BY <1>3, ZenonT(60) DEF Leave, Call
  <2>2. /\ CallInv' /\ LoadedInv'
        /\ \A u \in Threads : /\ Prepared(u)' => Prepared(u)
                              /\ on'[u] = "cond" => on[u] = "cond"
                              /\ Notifying(u) => Notifying(u)'
    BY <2>1, LeaveKeeps, ZenonT(60) DEF WInv, WakeInv
  <2> QED
    BY <1>1, <1>3, <2>2, KeptWake, ZenonT(60) DEF WInv
<1>4. CASE queue = <<>> /\ ~closed /\ call[t] = "wait_pop" /\ wait(t) /\ call' = call
  <2>1. pc' = [pc EXCEPT ![t] = "cond_load"] /\ UNCHANGED <<seq, owns, val, on>>
    BY <1>4, Zenon DEF wait, Goto
  <2>2. pc'[t] = "cond_load" /\ \A u \in Threads : u # t => pc'[u] = pc[u]
    BY <2>1, Zenon DEF WInv, Inv, HeldInv, SynchTypeOK
  <2>3. CallInv' /\ LoadedInv' /\ \A u \in Threads : Notifying(u) => Notifying(u)'
    BY <1>1, <1>4, <2>1, <2>2, ZenonT(60) DEF WInv, WakeInv, CallInv, LoadedInv, Waiting, Unlocking, Notifying
  <2> QED
    BY <1>1, <1>4, <2>1, <2>3, KeptWake, ZenonT(60) DEF WInv
<1> QED
  BY <1>2, <1>3, <1>4, Zenon DEF locked_pop, PopEmpty

\* pop_front() takes away a value and one thread that came for it.
LEMMA PopFrontWake ==
  ASSUME IsFiniteSet(Threads), WInv, NEW t \in Threads, pop_front(t)
  PROVE  WakeInv'
<1>1. call[t] = "pop_front" /\ queue # <<>> /\ queue \in Seq(Nat) /\ closed' = closed
  BY Zenon DEF pop_front, Locked, WInv, Inv, QueueInv, QueueType
<1>2. queue' = Tail(queue) /\ unlock(t) /\ call' = [call EXCEPT ![t] = "none"]
  BY <1>1, Zenon DEF pop_front, Leave, Call
<1>3. Len(queue) \in Nat /\ Len(queue') = Len(queue) - 1
  BY <1>1, <1>2, TailFacts, SMTT(30), SMTT(60)
<1>4. /\ CallInv' /\ LoadedInv'
      /\ \A u \in Threads : /\ Prepared(u)' => Prepared(u)
                            /\ Comer(u) => Comer(u)' \/ u = t
                            /\ on'[u] = "cond" => on[u] = "cond"
                            /\ Notifying(u) => Notifying(u)'
  BY <1>2, LeaveKeeps, ZenonT(60) DEF WInv, WakeInv
<1>5. PreparedInv'
  BY <1>1, <1>4, Zenon DEF WInv, WakeInv, PreparedInv
<1>6. Asleep("cond")' \subseteq Asleep("cond")
  BY <1>4, ZenonT(60) DEF Asleep
<1>7. CloseWakes'
  BY <1>1, <1>4, <1>6, ZenonT(60) DEF WInv, WakeInv, CloseWakes
<1>8. Comers \ {t} \subseteq Comers'
  BY <1>4, Zenon DEF Comers
<1>9. Cardinality(Comers) - 1 <= Cardinality(Comers') /\ Cardinality(Comers) \in Nat /\ Cardinality(Comers') \in Nat
  <2>1. Comers \subseteq Threads /\ Comers' \subseteq Threads /\ t \in Comers
    BY <1>1, Zenon DEF Comers, Comer
  <2>2. IsFiniteSet(Comers) /\ IsFiniteSet(Comers')
    BY <2>1, FS_Subset, Zenon
  <2>3. Cardinality(Comers \ {t}) = Cardinality(Comers) - 1
    BY <2>1, <2>2, FS_RemoveElement, Zenon
  <2>4. Cardinality(Comers \ {t}) <= Cardinality(Comers')
    BY <1>8, <2>2, FS_Subset, Zenon
  <2> QED
    BY <2>2, <2>3, <2>4, FS_CardinalityType, Zenon
<1>10. ComersInv'
  BY <1>3, <1>6, <1>9, SMTT(30), SMTT(60) DEF ComersInv, WInv, WakeInv
<1> QED
  BY <1>4, <1>5, <1>7, <1>10, ZenonT(60) DEF WakeInv

\* close() is going to wake everybody up; an operation returns.
LEMMA CloseWake ==
  ASSUME IsFiniteSet(Threads), WInv, NEW t \in Threads, locked_close(t) \/ Return(t)
  PROVE  WakeInv'
<1>1. call[t] \in {"close", "leave"} /\ pc[t] = "out" /\ owns[t] /\ queue' = queue
  BY Zenon DEF locked_close, Return, Locked
<1>2. ~Comer(t)
  BY <1>1, Zenon DEF Comer
<1>3. CASE Return(t)
  BY <1>1, <1>2, <1>3, LeaveKeeps, KeptWake, ZenonT(60) DEF Return, Leave, Call, WInv, WakeInv
<1>4. CASE locked_close(t)
  <2>1. /\ CallInv' /\ LoadedInv'
        /\ \A u \in Threads : /\ ~Prepared(u)'
                              /\ Comer(u) => Comer(u)' \/ u = t
                              /\ on'[u] = on[u]
    BY <1>1, <1>4, NotifyKeeps, ZenonT(60) DEF locked_close, Call
  <2>2. Notifying(t)'
    BY <1>4, Zenon DEF locked_close, notify_all, Notify, Goto, Notifying, WInv, Inv, HeldInv, SynchTypeOK
  <2>3. Comers \subseteq Comers'
    BY <1>2, <2>1, Zenon DEF Comers
  <2>4. ComersInv'
    <3>1. Asleep("cond")' = Asleep("cond") /\ Len(queue) \in Nat
      BY <2>1, SMTT(30) DEF Asleep, WInv, Inv, QueueInv, QueueType
    <3> QED
      BY <1>1, <2>3, <3>1, MoreComers, SMTT(30), SMTT(60) DEF ComersInv, WInv, WakeInv
  <2> QED
    BY <2>1, <2>2, <2>4, Zenon DEF WakeInv, PreparedInv, CloseWakes
<1> QED
  BY <1>3, <1>4, Zenon

\* Every step keeps the invariant.
LEMMA NextWake ==
  ASSUME IsFiniteSet(Threads), WInv, [Next]_vars
  PROVE  WInv'
<1>1. Inv' /\ WaitInv' /\ LockWakesSleepers'
  BY QueueSynch, NextQueue, NextWaiting, NextWakes, Zenon DEF WInv, Inv
<1>2. CASE UNCHANGED vars
  <2>1. UNCHANGED <<queue, closed, call, pc, owns, seq, val, on>>
    BY <1>2, Zenon DEF vars, synch, queueVars
  <2>2. /\ CallInv' /\ LoadedInv'
        /\ \A u \in Threads : /\ Prepared(u)' => Prepared(u)
                              /\ Comer(u) => Comer(u)'
                              /\ on'[u] = "cond" => on[u] = "cond"
                              /\ Notifying(u) => Notifying(u)'
    BY <2>1, ZenonT(60) DEF WInv, WakeInv, CallInv, LoadedInv, Waiting, Unlocking, Prepared, Comer, Notifying
  <2> QED
    BY <1>1, <2>1, <2>2, KeptWake, Zenon DEF WInv
<1>3. ASSUME NEW t \in Threads, SynchStep(t) \/ Interrupted(t), UNCHANGED queueVars PROVE WakeInv'
  <2>1. CASE \/ (pc[t] = "cas" /\ lock(t)) \/ Backoff(t) \/ Exchange(t) \/ Sleep(t) \/ Store(t) \/ Wake(t)
             \/ CondLoad(t) \/ CondUnlock(t) \/ CondLeave(t) \/ Interrupted(t)
    <3>1. queue' = queue /\ closed' = closed
      BY <1>3 DEF queueVars
    <3> QED
      BY <1>3, <2>1, <3>1, InsideKeeps, KeptWake, ZenonT(60) DEF WInv, WakeInv
  <2> QED
    BY <1>3, <2>1, SleepWake, NotifyWakes, Zenon DEF SynchStep
<1> QED
  BY <1>1, <1>2, <1>3, BeginWake, PushWake, PopWake, PopFrontWake, CloseWake, Zenon
     DEF Next, Step, Signalled, WInv

\* Neither push() nor close() of synch_queue loses a wake-up: with finitely
\* many threads, when everything has come to rest nobody sleeps on the lock,
\* and consumers sleep only while the queue is empty and open.
THEOREM SynchQueueStrandsNobody ==
  ASSUME IsFiniteSet(Threads)
  PROVE  Spec => []NobodyStranded
<1>1. Init => WInv
  <2> SUFFICES ASSUME Init PROVE WInv
    BY Zenon
  <2>1. Inv /\ SynchInit
    BY InitQueue, Zenon DEF Init
  <2>2. Waiting = {} /\ Asleep("cond") = {} /\ Asleep("lock") = {}
    BY <2>1, Zenon DEF SynchInit, Waiting, Asleep
  <2>3. WaitInv
    BY <2>1, <2>2, FS_EmptySet, Zenon DEF SynchInit, WaitInv
  <2>4. CallInv /\ LoadedInv /\ PreparedInv
    BY DEF Init, SynchInit, CallInv, LoadedInv, PreparedInv, Waiting, Unlocking, Prepared
  <2> QED
    BY <2>1, <2>2, <2>3, <2>4, Zenon DEF WInv, WakeInv, LockWakesSleepers, ComersInv, CloseWakes
<1>2. WInv /\ [Next]_vars => WInv'
  BY NextWake, Zenon
<1>3. WInv => NobodyStranded
  <2> SUFFICES ASSUME WInv, Quiet
               PROVE  Asleep("lock") = {} /\ (Asleep("cond") # {} => queue = <<>> /\ ~closed)
    BY Zenon DEF NobodyStranded
  \* Who is neither asleep nor outside is not quiet.
  <2>1. \A t \in Threads : pc[t] \in {"asleep", "cond_asleep"} \/ (pc[t] = "out" /\ ~owns[t])
    BY Zenon DEF Quiet, WInv, Inv, SleepInv
  <2>2. Asleep("lock") = {}
    <3>1. \A t \in Threads : ~Holds(t)
      BY <2>1, Zenon DEF Holds
    <3>2. word = 0
      BY <3>1, Zenon DEF WInv, Inv, HeldInv
    <3> QED
      BY <2>1, <3>2, SMTT(30), SMTT(60) DEF WInv, LockWakesSleepers
  <2>3. Comers = {}
    <3> SUFFICES ASSUME NEW t \in Threads, Comer(t) PROVE FALSE
      BY Zenon DEF Comers
    <3>1. pc[t] \notin {"one", "one_wake"} /\ call[t] # "pop_front"
      BY <2>1, Zenon DEF WInv, Inv, QueueInv
    <3>2. call[t] = "wait_pop" /\ on[t] # "cond"
      BY <3>1, Zenon DEF Comer
    <3>3. on[t] = "none"
      BY <2>2, <3>2, Zenon DEF Asleep, WInv, Inv, HeldInv, SynchTypeOK
    <3>4. pc[t] = "out" /\ ~owns[t]
      BY <3>3, Zenon DEF Quiet
    <3> QED
      BY <3>2, <3>4, Zenon DEF WInv, WakeInv, CallInv
  <2>4. ASSUME Asleep("cond") # {} PROVE queue = <<>> /\ ~closed
    <3>1. Len(queue) <= 0 /\ queue \in Seq(Nat)
      BY <2>3, <2>4, FS_EmptySet, Zenon DEF WInv, WakeInv, ComersInv, Inv, QueueInv, QueueType
    <3>2. queue = <<>>
      BY <3>1, SMTT(30), SMTT(60)
    <3>3. ~closed
      BY <2>1, <2>4 DEF WInv, WakeInv, CloseWakes, Notifying
    <3> QED
      BY <3>2, <3>3, Zenon
  <2> QED
    BY <2>2, <2>4, Zenon
<1> QED
  BY <1>1, <1>2, <1>3, PTL DEF Spec
=============================================================================
