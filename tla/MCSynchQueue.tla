---------------------------- MODULE MCSynchQueue ----------------------------
(***************************************************************************)
(* The lock and the condition variable under one client per behaviour:     *)
(* synch_queue, or threads that make any call of the library at any time.  *)
(***************************************************************************)
EXTENDS SynchQueue

CONSTANT MaxAny  \* bound: notifications made by threads that make any call

ASSUME AnyAssumption == MaxAny \in 0 .. MaxSeq

VARIABLE client

clientVars == <<vars, client>>

ClientInit == Init /\ client \in {"queue", "any"}

OnlyQueue == client = "queue" /\ UNCHANGED client
OnlyAny == client = "any" /\ UNCHANGED <<queueVars, client>>

ClientNext ==
  \/ OnlyQueue /\ Next
  \/ OnlyAny /\ SynchNext /\ seq' <= MaxAny

\* The fairness of FairSpec, for the queue only
ClientSpec ==
  /\ ClientInit /\ [][ClientNext]_clientVars
  /\ \A t \in Threads : WF_clientVars(OnlyQueue /\ (Step(t) \/ wait_pop(t)))
  /\ <>[][\A t \in Threads : ~(OnlyQueue /\ Signalled(t))]_clientVars
=============================================================================
