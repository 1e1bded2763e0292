----------------------------- MODULE ThreadPool -----------------------------
(***************************************************************************)
(* thread_pool of evenk/thread_pool.h on any queue that implements         *)
(* Conqueue: the workers pop at the front, the threads that submit push at *)
(* the back, and managers stop the pool, wait for it and destroy it.       *)
(*                                                                         *)
(* A task is the number of its push; to run it is one step, and it ends.   *)
(* That a task can be moved out of the queue is taken for granted here;    *)
(* how task moves is the subject of Task.                                  *)
(*                                                                         *)
(* The pool may be destroyed at any time.  Whoever then uses a part of it  *)
(* that is gone has undefined behaviour, and nothing is said of what       *)
(* follows (fault).                                                        *)
(***************************************************************************)
EXTENDS Conqueue, FiniteSets

CONSTANTS
  Managers,  \* threads that call stop() and wait(), each at most once
  Main,      \* the manager that creates and destroys the pool
  MaxSubmit  \* bound: nobody submits once MaxSubmit tasks are accepted

ASSUME PoolAssumption ==
  /\ Main \in Managers
  /\ Managers \cap Users = {}
  /\ Pushers \cap Poppers = {}
  /\ MaxSubmit \in Nat

VARIABLES
  pc,         \* where every worker and every manager is
  flags,      \* flags_, as a set
  calls,      \* the operations every manager has called
  lock,       \* the managers that hold join_lock_
  join_done,  \* join_done_
  todo,       \* the threads a manager has yet to join
  joins,      \* how often every thread was joined
  shutdowns,  \* how often the queue was closed
  alive,      \* whether queue_ exists
  early,      \* whether it was destroyed before a wait() or under a call
  fault,      \* whether something was used that is gone
  waited,     \* whether a wait() has returned
  ran         \* the number of tasks every worker has run

life == <<alive, early, fault>>
pool == <<pc, flags, calls, lock, join_done, todo, joins, shutdowns, life, waited, ran>>
poolVars == <<conqueue, pool>>

PoolInit ==
  /\ ConqueueInit
  /\ pc = [t \in Poppers \cup Managers |-> IF t = Main THEN "activate" ELSE "idle"]
  /\ flags = {}
  /\ calls = [m \in Managers |-> {}]
  /\ lock = {}
  /\ join_done = FALSE
  /\ todo = [m \in Managers |-> {}]
  /\ joins = [w \in Poppers |-> 0]
  /\ shutdowns = 0
  /\ alive = TRUE
  /\ early = FALSE
  /\ fault = FALSE
  /\ waited = FALSE
  /\ ran = [w \in Poppers |-> 0]

Goto(t, l) == pc' = [pc EXCEPT ![t] = l]

\* The constructor has returned and the pool may be used by everybody.
Active == pc[Main] # "activate" /\ alive

\* The virtual functions are those of thread_pool until the destructor of the
\* base begins.
Derived == alive \/ pc[Main] = "destruct"

-----------------------------------------------------------------------------
(* The workers                                                             *)

\* One round of the loop of activate(), or its end
activate(w) ==
  /\ pc[Main] = "activate"
  /\ \/ pc[w] = "idle" /\ Goto(w, "start")
     \/ (\A v \in Poppers : pc[v] # "idle") /\ Goto(Main, "idle")
  /\ UNCHANGED <<conqueue, flags, calls, lock, join_done, todo, joins, shutdowns, life, waited, ran>>

\* The new thread calls the virtual function work().
WorkStart(w) ==
  /\ pc[w] = "start" /\ Derived
  /\ Goto(w, "loop")
  /\ UNCHANGED <<conqueue, flags, calls, lock, join_done, todo, joins, shutdowns, life, waited, ran>>

\* Mutant: any flag stops the workers.
IsStoppedByWait == flags # {}

is_stopped == "stop" \in flags

\* The condition of the loop of work()
WorkLoop(w) ==
  /\ pc[w] = "loop"
  /\ Goto(w, IF is_stopped THEN "exit" ELSE "pop")
  /\ UNCHANGED <<conqueue, flags, calls, lock, join_done, todo, joins, shutdowns, life, waited, ran>>

HasTask(w) == Len(got[w]) > ran[w]

\* queue_.wait_pop(task), which ends the worker if it returns "closed"
WorkPop(w) ==
  /\ pc[w] = "pop" /\ ~HasTask(w) /\ alive
  /\ \/ wait_pop(w) /\ pc' = pc
     \/ ToldClosed(w) /\ Goto(w, "exit")
  /\ UNCHANGED <<flags, calls, lock, join_done, todo, joins, shutdowns, life, waited, ran>>

\* task()
WorkRun(w) ==
  /\ pc[w] = "pop" /\ HasTask(w)
  /\ ran' = [ran EXCEPT ![w] = @ + 1]
  /\ Goto(w, "loop")
  /\ UNCHANGED <<conqueue, flags, calls, lock, join_done, todo, joins, shutdowns, life, waited>>

work(w) == WorkStart(w) \/ WorkLoop(w) \/ WorkPop(w) \/ WorkRun(w)

\* submit(), which throws if the queue is closed
submit(s) ==
  /\ Active
  /\ \/ pushed + Cardinality(InLine("push")) < MaxSubmit /\ wait_push(s)
     \/ s \in Pushers /\ ToldClosed(s)
  /\ UNCHANGED pool

-----------------------------------------------------------------------------
(* The managers. After the queue is gone Main acts in the destructor.      *)

\* Mutant: each flag closes the queue.
CloseEach(m, flag, next) ==
  /\ flags' = flags \cup {flag}
  /\ Goto(m, IF flag \notin flags THEN flag ELSE next)

\* The fetch_or of close(flag); shutdown() follows if no flag was set before,
\* else the caller goes on.
Close(m, flag, next) ==
  /\ flags' = flags \cup {flag}
  /\ Goto(m, IF flags = {} THEN flag ELSE next)

\* The end of stop() and of wait(): the destructor calls one after the other.
AfterStop(m) == IF m = Main /\ ~alive THEN "destroy" ELSE "idle"
AfterWait(m) == IF m = Main /\ ~alive THEN "gone" ELSE "idle"

stop(m) ==
  /\ \/ Active /\ pc[m] = "idle" /\ "stop" \notin calls[m]
     \/ pc[m] = "destruct"
  /\ calls' = [calls EXCEPT ![m] = @ \cup {"stop"}]
  /\ Close(m, "stop", AfterStop(m))
  /\ UNCHANGED <<conqueue, lock, join_done, todo, joins, shutdowns, life, waited, ran>>

\* Mutant: only the caller that closes the queue waits.
WaitFirst(m) ==
  /\ \/ Active /\ pc[m] = "idle" /\ "wait" \notin calls[m]
     \/ pc[m] = "destroy"
  /\ calls' = [calls EXCEPT ![m] = @ \cup {"wait"}]
  /\ Close(m, "wait", AfterWait(m))
  /\ waited' = (waited \/ flags # {})
  /\ UNCHANGED <<conqueue, lock, join_done, todo, joins, shutdowns, life, ran>>

wait(m) ==
  /\ \/ Active /\ pc[m] = "idle" /\ "wait" \notin calls[m]
     \/ pc[m] = "destroy"
  /\ calls' = [calls EXCEPT ![m] = @ \cup {"wait"}]
  /\ Close(m, "wait", "lock")
  /\ UNCHANGED <<conqueue, lock, join_done, todo, joins, shutdowns, life, waited, ran>>

\* Mutant: the queue is left open for the workers to drain.
ShutdownLater(m) ==
  /\ pc[m] \in {"stop", "wait"} /\ alive
  /\ shutdowns' = shutdowns + 1
  /\ Goto(m, IF pc[m] = "stop" THEN AfterStop(m) ELSE "lock")
  /\ UNCHANGED <<conqueue, flags, calls, lock, join_done, todo, joins, life, waited, ran>>

\* queue_.close(), called by stop() or by wait()
shutdown(m) ==
  /\ pc[m] \in {"stop", "wait"} /\ alive
  /\ close
  /\ shutdowns' = shutdowns + 1
  /\ Goto(m, IF pc[m] = "stop" THEN AfterStop(m) ELSE "lock")
  /\ UNCHANGED <<flags, calls, lock, join_done, todo, joins, life, waited, ran>>

\* Mutant: join_done_ is not looked at.
LockJoinAlways(m) ==
  /\ pc[m] = "lock" /\ lock = {} /\ pc[Main] # "gone"
  /\ lock' = {m}
  /\ todo' = [todo EXCEPT ![m] = Poppers]
  /\ Goto(m, "join")
  /\ UNCHANGED <<conqueue, flags, calls, join_done, joins, shutdowns, life, waited, ran>>

\* The guard on join_lock_ and the test of join_done_ under it
LockJoin(m) ==
  /\ pc[m] = "lock" /\ lock = {} /\ pc[Main] # "gone"
  /\ lock' = {m}
  /\ todo' = [todo EXCEPT ![m] = IF join_done THEN {} ELSE Poppers]
  /\ Goto(m, "join")
  /\ UNCHANGED <<conqueue, flags, calls, join_done, joins, shutdowns, life, waited, ran>>

\* pool_[i].join(), or the end of the loop, of the guard and of wait(). To
\* join a thread twice is an error, which join() reports without waiting.
Join(m) ==
  /\ pc[m] = "join"
  /\ \/ \E w \in todo[m] :
          /\ joins[w] = 0 => pc[w] = "exit"
          /\ joins' = [joins EXCEPT ![w] = @ + 1]
          /\ todo' = [todo EXCEPT ![m] = @ \ {w}]
          /\ UNCHANGED <<pc, lock, join_done, waited>>
     \/ /\ todo[m] = {}
        /\ join_done' = TRUE
        /\ lock' = {}
        /\ waited' = TRUE
        /\ Goto(m, AfterWait(m))
        /\ UNCHANGED <<joins, todo>>
  /\ UNCHANGED <<conqueue, flags, calls, shutdowns, life, ran>>

\* The destructor destroys queue_ first; then the base calls stop() and
\* wait(). Nothing in the code asks for a wait() before, or looks for others
\* that are inside.
Destroy ==
  /\ Active /\ pc[Main] = "idle"
  /\ alive' = FALSE
  /\ early' = ~(waited /\ (\A m \in Managers : pc[m] = "idle") /\ InLine("push") = {})
  /\ Goto(Main, "destruct")
  /\ UNCHANGED <<conqueue, flags, calls, lock, join_done, todo, joins, shutdowns, fault, waited, ran>>

\* A worker is about to call work(), which is pure virtual by now, or uses
\* queue_; a manager calls shutdown(), which is pure virtual or uses queue_, or
\* takes join_lock_ of a pool that is gone; a submitter is inside queue_.
UseGone(t) ==
  /\ \/ t \in Poppers /\ pc[t] = "start" /\ ~Derived
     \/ t \in Poppers /\ pc[t] = "pop" /\ ~HasTask(t) /\ ~alive
     \/ t \in Managers /\ pc[t] \in {"stop", "wait"} /\ ~alive
     \/ t \in Managers /\ pc[t] = "lock" /\ pc[Main] = "gone"
     \/ t \in Pushers /\ call[t] = "push" /\ ~alive
  /\ fault' = TRUE
  /\ UNCHANGED <<conqueue, pc, flags, calls, lock, join_done, todo, joins, shutdowns, alive, early, waited, ran>>

manage(m) == shutdown(m) \/ LockJoin(m) \/ Join(m)

PoolNext ==
  /\ ~fault
  /\ \/ \E w \in Poppers : activate(w) \/ work(w)
     \/ \E s \in Pushers : submit(s)
     \/ \E m \in Managers : stop(m) \/ wait(m) \/ manage(m)
     \/ Destroy
     \/ \E t \in Users \cup Managers : UseGone(t)

\* What a thread does inside an operation
Work(w) == ~fault /\ (activate(w) \/ work(w) \/ UseGone(w))
Manage(m) == ~fault /\ (manage(m) \/ UseGone(m) \/ (~alive /\ (stop(m) \/ wait(m))))

\* The scheduler runs every thread that is inside an operation and not blocked.
PoolFairness ==
  /\ \A w \in Poppers : WF_poolVars(Work(w))
  /\ \A m \in Managers : WF_poolVars(Manage(m))

PoolSpec == PoolInit /\ [][PoolNext]_poolVars /\ PoolFairness
-----------------------------------------------------------------------------
(* Properties                                                              *)

\* However many threads stop the pool, wait for it and destroy it, the queue
\* is closed once (a second close() moves the end of a bounded queue) and
\* every thread is joined once.
TornDownOnce == shutdowns <= 1 /\ \A w \in Poppers : joins[w] <= 1

TasksRun == UNION {{got[w][i] : i \in 1 .. ran[w]} : w \in Poppers}

\* When wait() has returned to anybody, every worker has ended, and unless the
\* pool was stopped every task that submit() took has been run, those that
\* stood in line when the queue was closed included.
WaitMeansFinished ==
  waited => /\ \A w \in Poppers : pc[w] = "exit"
            /\ "stop" \notin flags => TasksRun = 1 .. pushed /\ InLine("push") = {}

\* What a client may rely on: whoever destroys the pool after a wait() has
\* returned to anybody, and when nobody else is inside, destroys nothing that a
\* worker or the destructor itself goes on to use.
SafeAfterWait == fault => early

\* The destructor calls stop() and wait() itself (thread_pool.h:43-47), so that
\* it ends the workers of a pool that nobody has waited for: nobody uses
\* queue_, or a virtual function of thread_pool, after they are gone.
QueueOutlivesUsers == ~fault

\* wait() and the destructor return, also when others stop or wait meanwhile,
\* unless the pool is destroyed too early.
WaitReturns ==
  \A m \in Managers :
    (pc[m] \in {"wait", "lock", "join", "destruct"}) ~> (pc[m] \in {"idle", "gone"} \/ early)

\* A submit() that waits for room returns, unless the pool is stopped: then
\* the workers leave and it may stay in line for ever. Nor does it return if the
\* pool is destroyed meanwhile.
SubmitReturns ==
  \A s \in Pushers : (call[s] = "push") ~> (call[s] # "push" \/ "stop" \in flags \/ early)
=============================================================================
