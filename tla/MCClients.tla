----------------------------- MODULE MCClients ------------------------------
(***************************************************************************)
(* The code on top of the queues, one client per behaviour: a thread pool, *)
(* loops over the iterators, or a program that handles tasks.              *)
(***************************************************************************)
EXTENDS ThreadPool, QueueIterators, Task

VARIABLE client

clientVars == <<conqueue, pool, iterators, tasks, client>>

Init ==
  /\ client \in {"pool", "loops", "tasks"}
  /\ PoolInit /\ IteratorInit /\ TaskInit
  /\ client # "tasks" => class = "task"

OnlyPool == client = "pool" /\ UNCHANGED <<iterators, tasks, client>>
OnlyLoops == client = "loops" /\ UNCHANGED <<pool, tasks, client>>
OnlyTasks == client = "tasks" /\ UNCHANGED <<conqueue, pool, iterators, client>>

Next ==
  \/ OnlyPool /\ PoolNext
  \/ OnlyLoops /\ IteratorNext
  \/ OnlyTasks /\ TaskNext

\* PoolFairness and IteratorFairness, each for its client
Fairness ==
  /\ \A t \in Poppers :
       WF_clientVars(IF client = "pool" THEN OnlyPool /\ Work(t) ELSE OnlyLoops /\ Read(t))
  /\ \A m \in Managers : WF_clientVars(OnlyPool /\ Manage(m))

Spec == Init /\ [][Next]_clientVars /\ Fairness
=============================================================================
