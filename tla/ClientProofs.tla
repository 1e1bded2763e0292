---------------------------- MODULE ClientProofs ----------------------------
(***************************************************************************)
(* Proofs about the clients of a concurrent queue: thread_pool of          *)
(* evenk/thread_pool.h, for any numbers of workers, submitters and         *)
(* managers, and loops over the iterators of evenk/conqueue.h, for any     *)
(* number of readers, with a queue of any capacity.                        *)
(*                                                                         *)
(* Both rest on what the queue of Conqueue does for any client (QueueInv): *)
(* a value that was pushed is in the queue or was given to one thread,     *)
(* once, and pushes wait only while the queue is full.  A thread that sees *)
(* the queue closed then finds it drained for good.                        *)
(*                                                                         *)
(* That the pool is torn down once rests on what a manager between two     *)
(* steps knows (PoolInv): whoever is about to close the queue is the only  *)
(* one, and whoever holds join_lock_ has joined the threads that it has    *)
(* not yet to join.  What wait() has seen run (TaskInv), and what a loop   *)
(* has dereferenced (LoopsInv), is what the queue gave the thread, but for *)
(* the one value that the thread is busy with.                             *)
(***************************************************************************)
EXTENDS ThreadPool, QueueIterators, TLAPS

-----------------------------------------------------------------------------
(* What any client may rely on: every value is in one place                *)

Values(s) == {s[i] : i \in 1 .. Len(s)}

Given == UNION {Values(got[w]) : w \in Poppers}

Distinct(s) == \A i, j \in 1 .. Len(s) : s[i] = s[j] => i = j

QueueType ==
  /\ queue \in Seq(Nat)
  /\ pushed \in Nat
  /\ got \in [Users -> Seq(Nat)]
  /\ call \in [Users -> {"none", "push", "pop", "done"}]
  /\ \A t \in Users : /\ call[t] = "pop" => t \in Poppers
                      /\ call[t] = "push" => t \in Pushers

\* No value was given twice.
GivenOnce ==
  /\ \A r \in Poppers : Distinct(got[r])
  /\ \A r, q \in Poppers : r # q => Values(got[r]) \cap Values(got[q]) = {}

QueueInv ==
  /\ QueueType
  /\ GivenOnce
  /\ Distinct(queue)
  /\ Values(queue) \cap Given = {}
  /\ Values(queue) \cup Given = 1 .. pushed
  /\ InLine("push") # {} => Len(queue) = Capacity

\* Nothing is in the queue any more, and nothing comes in.
Drained == closed /\ queue = <<>> /\ InLine("push") = {}

\* The length of a sequence is a number.
LEMMA SeqLength == \A s \in Seq(Nat) : Len(s) \in Nat
  OBVIOUS

\* A number and the next one
LEMMA NextNumber ==
  \A n \in Nat : /\ n + 1 \in Nat /\ n + 1 > 0 /\ n + 1 \in 1 .. n + 1 /\ n = (n + 1) - 1
                 /\ n + 1 <= n + 1 /\ n + 1 <= (n + 1) + 1 /\ n <= n + 1
  OBVIOUS

\* A number and the one before
LEMMA LastNumber ==
  \A m, n \in Nat : m > 0 /\ n = m - 1 => n + 1 = m /\ m \in 1 .. m /\ n <= m
  OBVIOUS

\* Numbers that differ by at most one
LEMMA OneMore == \A m, n \in Nat : m < n /\ n <= m + 1 => n = m + 1 /\ m # n
  OBVIOUS

\* The indices of a prefix
LEMMA PrefixIndex == \A m, n \in Nat : m <= n => \A i \in 1 .. m : i \in 1 .. n
  OBVIOUS

\* An index is a number other than 0.
LEMMA IndexPositive == \A n \in Nat : \A i \in 1 .. n : i \in Nat /\ i # 0
  OBVIOUS

\* Numbers that are not in either order
LEMMA SameNumber == \A m, n \in Nat : ~(m < n) /\ m <= n => m = n
  OBVIOUS

\* The values of a sequence that grows at its end
LEMMA AppendValues ==
  ASSUME NEW s \in Seq(Nat), NEW v \in Nat
  PROVE  /\ Append(s, v) \in Seq(Nat)
         /\ Len(Append(s, v)) = Len(s) + 1
         /\ Values(Append(s, v)) = Values(s) \cup {v}
<1>1. /\ Append(s, v) \in Seq(Nat)
      /\ Len(Append(s, v)) = Len(s) + 1
      /\ Len(s) \in Nat
      /\ \A i \in 1 .. Len(s) : Append(s, v)[i] = s[i]
      /\ Append(s, v)[Len(s) + 1] = v
  OBVIOUS
<1>2. 1 .. Len(s) + 1 = (1 .. Len(s)) \cup {Len(s) + 1}
  BY <1>1
<1> QED
  BY <1>1, <1>2, SMTT(30), SMTT(60) DEF Values

\* The values of a sequence that loses its head
LEMMA TailValues ==
  ASSUME NEW s \in Seq(Nat), s # <<>>
  PROVE  /\ Head(s) \in Nat
         /\ Tail(s) \in Seq(Nat)
         /\ Len(Tail(s)) = Len(s) - 1
         /\ Values(s) = {Head(s)} \cup Values(Tail(s))
<1>1. /\ Head(s) \in Nat
      /\ Head(s) = s[1]
      /\ Tail(s) \in Seq(Nat)
      /\ Len(s) \in Nat \ {0}
      /\ Len(Tail(s)) = Len(s) - 1
      /\ \A i \in 1 .. Len(s) - 1 : Tail(s)[i] = s[i + 1]
  OBVIOUS
<1>2. \A i \in 1 .. Len(s) : i = 1 \/ (i - 1 \in 1 .. Len(s) - 1 /\ s[i] = Tail(s)[i - 1])
  BY <1>1
<1>3. ASSUME NEW v \in Values(s) PROVE v \in {Head(s)} \cup Values(Tail(s))
  <2>1. PICK i \in 1 .. Len(s) : v = s[i]
    BY DEF Values
  <2>2. CASE i = 1
    BY <1>1, <2>1, <2>2
  <2>3. CASE i - 1 \in 1 .. Len(s) - 1 /\ s[i] = Tail(s)[i - 1]
    <3>1. Tail(s)[i - 1] \in Values(Tail(s))
      BY <1>1, <2>3, Zenon DEF Values
    <3> QED
      BY <2>1, <2>3, <3>1
  <2> QED
    BY <1>2, <2>2, <2>3
<1>4. \A i \in 1 .. Len(s) - 1 : i + 1 \in 1 .. Len(s)
  BY <1>1
<1>5. {Head(s)} \cup Values(Tail(s)) \subseteq Values(s)
  BY <1>1, <1>4 DEF Values
<1> QED
  BY <1>1, <1>3, <1>5

\* What try_push() and try_pop() give to a worker is added to the tasks given.
LEMMA GivenValues ==
  ASSUME got \in [Users -> Seq(Nat)], NEW c \in Poppers, NEW v \in Nat, Give(c, v)
  PROVE  /\ got' \in [Users -> Seq(Nat)]
         /\ got'[c] = Append(got[c], v)
         /\ Len(got'[c]) = Len(got[c]) + 1
         /\ \A t \in Users \ {c} : got'[t] = got[t]
         /\ Given' = Given \cup {v}
<1>1. c \in Users
  BY DEF Users
<1>2. got[c] \in Seq(Nat)
  BY <1>1
<1>3. got' = [got EXCEPT ![c] = Append(got[c], v)]
  BY DEF Give
<1>4. got'[c] = Append(got[c], v) /\ \A t \in Users \ {c} : got'[t] = got[t]
  BY <1>1, <1>3
<1>5. /\ Append(got[c], v) \in Seq(Nat)
      /\ Len(Append(got[c], v)) = Len(got[c]) + 1
      /\ Values(Append(got[c], v)) = Values(got[c]) \cup {v}
  BY <1>2, AppendValues
<1>6. got' \in [Users -> Seq(Nat)]
  BY <1>3, <1>5, Zenon
<1>7. \A w \in Poppers : Values(got'[w]) = IF w = c THEN Values(got[w]) \cup {v} ELSE Values(got[w])
  BY <1>4, <1>5, Zenon DEF Users
<1>8. Given' = UNION {Values(got'[w]) : w \in Poppers}
  BY DEF Given, Values
<1>9. Given' = Given \cup {v}
  BY <1>7, <1>8, Zenon DEF Given
<1> QED
  BY <1>4, <1>5, <1>6, <1>9

\* A sequence of different values stays one when it gets a new value.
LEMMA DistinctAppend ==
  ASSUME NEW s \in Seq(Nat), NEW v \in Nat, Distinct(s), v \notin Values(s)
  PROVE  Distinct(Append(s, v))
<1>1. /\ Len(Append(s, v)) = Len(s) + 1
      /\ Len(s) \in Nat
      /\ \A i \in 1 .. Len(s) : Append(s, v)[i] = s[i]
      /\ Append(s, v)[Len(s) + 1] = v
  OBVIOUS
<1>2. \A i \in 1 .. Len(s) + 1 : i \in 1 .. Len(s) \/ i = Len(s) + 1
  BY <1>1
<1>3. \A i \in 1 .. Len(s) : s[i] # v
  BY DEF Values
<1> SUFFICES ASSUME NEW i \in 1 .. Len(s) + 1, NEW j \in 1 .. Len(s) + 1,
                    Append(s, v)[i] = Append(s, v)[j]
             PROVE  i = j
  BY <1>1, Zenon DEF Distinct
<1> QED
  BY <1>1, <1>2, <1>3, Zenon DEF Distinct

\* The head of a sequence of different values is not in the tail.
LEMMA DistinctTail ==
  ASSUME NEW s \in Seq(Nat), s # <<>>, Distinct(s)
  PROVE  Distinct(Tail(s)) /\ Head(s) \notin Values(Tail(s))
<1>1. /\ Head(s) = s[1]
      /\ Len(s) \in Nat \ {0}
      /\ Len(Tail(s)) = Len(s) - 1
      /\ \A i \in 1 .. Len(s) - 1 : Tail(s)[i] = s[i + 1]
  OBVIOUS
<1>2. \A i \in 1 .. Len(s) - 1 : i + 1 \in 1 .. Len(s) /\ i + 1 # 1 /\ 1 \in 1 .. Len(s)
  BY <1>1
<1>3. \A i, j \in 1 .. Len(s) - 1 : i + 1 = j + 1 => i = j
  BY <1>1
<1> QED
  BY <1>1, <1>2, <1>3 DEF Distinct, Values

\* A reader is given a value that nobody was given.
LEMMA GiveOnce ==
  ASSUME QueueType, GivenOnce, NEW c \in Poppers, NEW v \in Nat, v \notin Given, Give(c, v)
  PROVE  GivenOnce'
<1>1. c \in Users /\ got[c] \in Seq(Nat)
  BY DEF Users, QueueType
<1>2. /\ got'[c] = Append(got[c], v)
      /\ \A t \in Users \ {c} : got'[t] = got[t]
  BY GivenValues, SMTT(30), SMTT(60) DEF QueueType
<1>3. \A r \in Poppers : v \notin Values(got[r])
  BY DEF Given
<1>4. Distinct(got'[c]) /\ Values(got'[c]) = Values(got[c]) \cup {v}
  BY <1>1, <1>2, <1>3, DistinctAppend, AppendValues DEF GivenOnce
<1>5. \A r \in Poppers : r # c => got'[r] = got[r]
  BY <1>2 DEF Users
<1>6. \A r \in Poppers : Distinct(got'[r])
  BY <1>4, <1>5, Zenon DEF GivenOnce
<1>7. ASSUME NEW r \in Poppers, NEW q \in Poppers, r # q
      PROVE  Values(got'[r]) \cap Values(got'[q]) = {}
  <2>0. Values(got[r]) \cap Values(got[q]) = {}
    BY <1>7 DEF GivenOnce
  <2>1. CASE r = c
    BY <1>3, <1>4, <1>5, <1>7, <2>0, <2>1, Zenon
  <2>2. CASE q = c
    BY <1>3, <1>4, <1>5, <1>7, <2>0, <2>2, Zenon
  <2>3. CASE r # c /\ q # c
    BY <1>5, <2>0, <2>3, Zenon
  <2> QED
    BY <2>1, <2>2, <2>3
<1> QED
  BY <1>6, <1>7, Zenon DEF GivenOnce, Distinct, Values

\* A value is accepted: it is new, and goes to a reader in line or to the queue.
LEMMA PushQueue ==
  ASSUME QueueInv, NEW t \in Users, try_push(t)
  PROVE  /\ QueueInv'
         /\ \A r \in Poppers :
              \/ got'[r] = got[r] /\ call'[r] = call[r]
              \/ /\ call[r] = "pop" /\ call'[r] = "none"
                 /\ got'[r] = Append(got[r], pushed + 1)
<1> DEFINE v == pushed + 1
<1>1. /\ queue \in Seq(Nat) /\ pushed \in Nat /\ v \in Nat
      /\ got \in [Users -> Seq(Nat)]
      /\ pushed' = v /\ 1 .. v = (1 .. pushed) \cup {v} /\ v \notin 1 .. pushed
  BY SMTT(30), SMTT(60) DEF QueueInv, QueueType, try_push
<1>2. v \notin Values(queue) /\ v \notin Given
  BY <1>1, Zenon DEF QueueInv
<1>3. ASSUME NEW c \in InLine("pop"), Give(c, v), call' = [call EXCEPT ![c] = "none"], queue' = queue
      PROVE  /\ QueueInv'
             /\ \A r \in Poppers :
                  \/ got'[r] = got[r] /\ call'[r] = call[r]
                  \/ call[r] = "pop" /\ call'[r] = "none" /\ got'[r] = Append(got[r], v)
  <2>1. c \in Poppers /\ c \in Users /\ call[c] = "pop"
    BY DEF InLine, QueueInv, QueueType
  <2>2. /\ got' \in [Users -> Seq(Nat)]
        /\ got'[c] = Append(got[c], v)
        /\ \A u \in Users \ {c} : got'[u] = got[u]
        /\ Given' = Given \cup {v}
    BY <1>1, <1>3, <2>1, GivenValues, Zenon
  <2>3. GivenOnce'
    BY <1>1, <1>2, <1>3, <2>1, GiveOnce, Zenon DEF QueueInv
  <2>4. /\ call'[c] = "none"
        /\ \A u \in Users \ {c} : call'[u] = call[u]
        /\ call' \in [Users -> {"none", "push", "pop", "done"}]
    BY Zenon, <1>3, <2>1 DEF QueueInv, QueueType
  <2>5. QueueType'
    BY Zenon, <1>1, <1>3, <2>2, <2>4 DEF QueueInv, QueueType, Users
  <2>6. InLine("push")' = InLine("push")
    BY <2>1, <2>4, SMTT(30), SMTT(60) DEF InLine
  <2>7. Values(queue)' = Values(queue) /\ Distinct(queue)' = Distinct(queue)
    BY <1>3 DEF Values, Distinct
  <2>8. /\ (Values(queue) \cap Given = {})'
        /\ (Values(queue) \cup Given = 1 .. pushed)'
    BY <1>1, <1>2, <2>2, <2>7, ZenonT(60) DEF QueueInv
  <2>9. QueueInv'
    BY <1>3, <2>3, <2>5, <2>6, <2>7, <2>8 DEF QueueInv
  <2> QED
    BY <2>1, <2>2, <2>4, <2>9, Zenon DEF Users
<1>4. ASSUME Len(queue) < Capacity, queue' = Append(queue, v), UNCHANGED <<call, got>>
      PROVE  QueueInv'
  <2>1. /\ queue' \in Seq(Nat)
        /\ Values(queue') = Values(queue) \cup {v}
        /\ Distinct(queue')
    BY Zenon, <1>1, <1>2, <1>4, AppendValues, DistinctAppend DEF QueueInv
  <2>2. InLine("push")' = {}
    BY <1>4, <1>1, ConqueueAssumption DEF QueueInv, InLine
  <2>3. Given' = Given /\ GivenOnce' /\ QueueType'
    <3>1. Given' = Given /\ GivenOnce' = GivenOnce
      BY <1>4 DEF Given, Values, GivenOnce, Distinct
    <3> QED
      BY Zenon, <1>1, <1>4, <2>1, <3>1 DEF QueueInv, QueueType
  <2>4. Values(queue)' = Values(queue') /\ Distinct(queue)' = Distinct(queue')
    BY DEF Values, Distinct
  <2>5. /\ (Values(queue) \cap Given = {})'
        /\ (Values(queue) \cup Given = 1 .. pushed)'
    BY <1>1, <1>2, <2>1, <2>3, <2>4, ZenonT(60) DEF QueueInv
  <2> QED
    BY Zenon, <2>1, <2>2, <2>3, <2>4, <2>5 DEF QueueInv
<1> QED
  BY <1>3, <1>4, SMTT(30), SMTT(60) DEF try_push

\* A value is popped, and a pusher in line gets its own in.
LEMMA PopQueue ==
  ASSUME QueueInv, NEW t \in Poppers, try_pop(t)
  PROVE  /\ QueueInv'
         /\ got'[t] = Append(got[t], Head(queue))
         /\ Head(queue) \in Nat
         /\ \A r \in Poppers \ {t} : got'[r] = got[r]
         /\ \A r \in Users : call'[r] = call[r] \/ (call[r] = "push" /\ call'[r] = "none")
<1> DEFINE v == Head(queue)
           n == pushed + 1
<1>1. /\ queue \in Seq(Nat) /\ queue # <<>> /\ pushed \in Nat /\ n \in Nat
      /\ got \in [Users -> Seq(Nat)]
      /\ 1 .. n = (1 .. pushed) \cup {n} /\ n \notin 1 .. pushed
      /\ Give(t, v) /\ t \in Users
  BY SMTT(30), SMTT(60) DEF QueueInv, QueueType, try_pop, Users
<1>2. /\ v \in Nat
      /\ Tail(queue) \in Seq(Nat)
      /\ Len(Tail(queue)) = Len(queue) - 1
      /\ Values(queue) = {v} \cup Values(Tail(queue))
      /\ Distinct(Tail(queue))
      /\ v \notin Values(Tail(queue))
  BY <1>1, TailValues, DistinctTail DEF QueueInv
<1>3. v \notin Given
  BY <1>2, Zenon DEF QueueInv
<1>4. /\ got' \in [Users -> Seq(Nat)]
      /\ got'[t] = Append(got[t], v)
      /\ \A u \in Users \ {t} : got'[u] = got[u]
      /\ Given' = Given \cup {v}
  BY <1>1, <1>2, GivenValues, Zenon
<1>5. GivenOnce'
  BY <1>1, <1>2, <1>3, GiveOnce, Zenon DEF QueueInv
<1>6. /\ Values(Tail(queue)) \cap Given' = {}
      /\ Values(Tail(queue)) \cup Given' = 1 .. pushed
  BY <1>2, <1>4, Zenon DEF QueueInv
<1>7. Values(queue)' = Values(queue') /\ Distinct(queue)' = Distinct(queue')
  BY DEF Values, Distinct
<1>8. ASSUME NEW p \in InLine("push"), queue' = Append(Tail(queue), n), pushed' = n,
             call' = [call EXCEPT ![p] = "none"]
      PROVE  /\ QueueInv'
             /\ \A r \in Users : call'[r] = call[r] \/ (call[r] = "push" /\ call'[r] = "none")
  <2>1. p \in Users /\ call[p] = "push" /\ Len(queue) = Capacity
    BY DEF InLine, QueueInv
  <2>2. n \notin Values(Tail(queue)) /\ n \notin Given'
    BY <1>1, <1>6, Zenon
  <2>3. /\ queue' \in Seq(Nat)
        /\ Values(queue') = Values(Tail(queue)) \cup {n}
        /\ Len(queue') = Len(Tail(queue)) + 1
        /\ Distinct(queue')
    BY <1>1, <1>2, <1>8, <2>2, AppendValues, DistinctAppend, Zenon
  <2>4. Len(queue') = Capacity
    BY <1>1, <1>2, <2>1, <2>3
  <2>5. /\ \A u \in Users : call'[u] = call[u] \/ (call[u] = "push" /\ call'[u] = "none")
        /\ call' \in [Users -> {"none", "push", "pop", "done"}]
    BY Zenon, <1>8, <2>1 DEF QueueInv, QueueType
  <2>6. QueueType'
    BY Zenon, <1>1, <1>4, <1>8, <2>3, <2>5 DEF QueueInv, QueueType, Users
  <2>7. /\ (Values(queue) \cap Given = {})'
        /\ (Values(queue) \cup Given = 1 .. pushed)'
    BY <1>1, <1>6, <1>7, <1>8, <2>2, <2>3, ZenonT(60)
  <2> QED
    BY Zenon, <1>5, <1>7, <2>3, <2>4, <2>5, <2>6, <2>7 DEF QueueInv
<1>9. ASSUME InLine("push") = {}, queue' = Tail(queue), UNCHANGED <<pushed, call>>
      PROVE  QueueInv'
  <2>1. QueueType' /\ InLine("push")' = {}
    BY <1>2, <1>4, <1>9, Zenon DEF QueueInv, QueueType, InLine
  <2>2. /\ (Values(queue) \cap Given = {})'
        /\ (Values(queue) \cup Given = 1 .. pushed)'
    BY <1>6, <1>7, <1>9, ZenonT(60)
  <2> QED
    BY <1>2, <1>5, <1>7, <1>9, <2>1, <2>2, Zenon DEF QueueInv
<1>10. QueueInv' /\ \A r \in Users : call'[r] = call[r] \/ (call[r] = "push" /\ call'[r] = "none")
  BY <1>8, <1>9 DEF try_pop
<1> QED
  BY Zenon, <1>2, <1>4, <1>10 DEF Users

\* A thread that gets into line or is told "closed" moves no value.
LEMMA WaitQueue ==
  ASSUME QueueInv, NEW t \in Users, NEW c \in {"push", "pop", "done"},
         call' = [call EXCEPT ![t] = c], UNCHANGED <<queue, pushed, got>>,
         c = "pop" => t \in Poppers,
         c = "push" => t \in Pushers /\ Len(queue) = Capacity
  PROVE  QueueInv'
<1>1. QueueType'
  BY DEF QueueInv, QueueType
<1>2. InLine("push")' \subseteq InLine("push") \/ Len(queue) = Capacity
  BY DEF InLine, QueueInv, QueueType
<1>3. /\ Given' = Given /\ Values(queue)' = Values(queue)
      /\ Distinct(queue)' = Distinct(queue) /\ GivenOnce' = GivenOnce
  BY DEF Given, Values, Distinct, GivenOnce
<1> QED
  BY <1>1, <1>2, <1>3 DEF QueueInv

\* Steps of the client alone and close() leave the values alone.
LEMMA SameQueue == QueueInv /\ UNCHANGED <<queue, call, pushed, got>> => QueueInv'
<1> SUFFICES ASSUME QueueInv, UNCHANGED <<queue, call, pushed, got>> PROVE QueueInv'
  OBVIOUS
<1>1. QueueType' /\ InLine("push")' = InLine("push")
  BY DEF QueueInv, QueueType, InLine
<1>2. /\ Given' = Given /\ Values(queue)' = Values(queue)
      /\ Distinct(queue)' = Distinct(queue) /\ GivenOnce' = GivenOnce
  BY DEF Given, Values, Distinct, GivenOnce
<1> QED
  BY <1>1, <1>2 DEF QueueInv

\* Initially there are no values.
LEMMA InitQueue == ConqueueInit => QueueInv
<1> SUFFICES ASSUME ConqueueInit PROVE QueueInv
  OBVIOUS
<1>1. QueueType
  BY DEF ConqueueInit, QueueType
<1>2. \A r \in Poppers : got[r] = <<>>
  BY DEF ConqueueInit, Users
<1>3. Values(<<>>) = {} /\ Distinct(<<>>)
  BY DEF Values, Distinct
<1>4. Given = {} /\ GivenOnce
  BY <1>2, <1>3 DEF Given, GivenOnce
<1>5. queue = <<>> /\ 1 .. pushed = {} /\ InLine("push") = {}
  BY SMTT(30), SMTT(60) DEF ConqueueInit, InLine
<1> QED
  BY <1>1, <1>3, <1>4, <1>5, ZenonT(60) DEF QueueInv

-----------------------------------------------------------------------------
(* The pool is torn down once                                              *)

PoolLabels ==
  {"activate", "idle", "start", "loop", "pop", "exit", "stop", "wait", "lock", "join",
   "destruct", "destroy", "gone"}

Closing(m) == pc[m] \in {"stop", "wait"}

PoolType ==
  /\ pc \in [Poppers \cup Managers -> PoolLabels]
  /\ todo \in [Managers -> SUBSET Poppers]
  /\ joins \in [Poppers -> {0, 1}]
  /\ shutdowns \in {0, 1}

\* Who is about to close the queue is alone and has found it open.
CloseInv ==
  /\ flags = {} => shutdowns = 0
  /\ \A m \in Managers : Closing(m) => shutdowns = 0
  /\ \A m, n \in Managers : Closing(m) /\ Closing(n) => m = n
  /\ \A m \in Managers : Closing(m) \/ pc[m] \in {"lock", "join"} => flags # {}

\* Who holds join_lock_ is alone and has joined all threads but those of todo.
JoinInv ==
  /\ \A m \in Managers : pc[m] = "join" => m \in lock
  /\ \A m, n \in Managers : m \in lock /\ n \in lock => m = n
  /\ \A m \in Managers : pc[m] = "join" /\ join_done => todo[m] = {}
  /\ \A m \in Managers : pc[m] = "join" /\ ~join_done =>
       \A w \in Poppers : joins[w] = IF w \in todo[m] THEN 0 ELSE 1
  /\ ~join_done /\ lock = {} => \A w \in Poppers : joins[w] = 0
  /\ join_done => \A w \in Poppers : joins[w] = 1
  /\ \A w \in Poppers : joins[w] = 1 => pc[w] = "exit"

\* Unless the queue is destroyed too early, everybody is through then, and only
\* Main goes on.
GoneInv ==
  /\ waited => join_done /\ flags # {}
  /\ fault => early
  /\ pc[Main] = "gone" => ~alive
  /\ ~alive /\ ~early => /\ waited /\ InLine("push") = {} /\ ~Closing(Main)
                         /\ \A m \in Managers \ {Main} : pc[m] = "idle"

PoolInv == PoolType /\ CloseInv /\ JoinInv /\ GoneInv

\* Initially the queue is open and nobody joins.
LEMMA InitPool == PoolInit => PoolInv
BY PoolAssumption DEF PoolInit, PoolInv, PoolType, PoolLabels, CloseInv, JoinInv, GoneInv, Closing

\* A manager that goes on, but not to join, leaves the joining to the others.
LEMMA MoveManager ==
  ASSUME PoolInv, NEW m \in Managers, NEW l \in PoolLabels, l # "join", Goto(m, l),
         UNCHANGED <<lock, join_done, todo, joins>>
  PROVE  /\ JoinInv'
         /\ pc' \in [Poppers \cup Managers -> PoolLabels]
         /\ pc'[m] = l /\ \A n \in Managers \ {m} : pc'[n] = pc[n]
<1>1. pc \in [Poppers \cup Managers -> PoolLabels] /\ JoinInv
  BY Zenon DEF PoolInv, PoolType
<1>2. /\ pc' \in [Poppers \cup Managers -> PoolLabels]
      /\ pc'[m] = l /\ \A t \in (Poppers \cup Managers) \ {m} : pc'[t] = pc[t]
  BY Zenon, <1>1 DEF Goto
<1>3. \A w \in Poppers : pc'[w] = pc[w]
  BY Zenon, <1>2, PoolAssumption DEF Users
<1>4. \A n \in Managers : pc'[n] = "join" => pc[n] = "join"
  BY Zenon, <1>2
<1> QED
  BY ZenonT(60), <1>1, <1>2, <1>3, <1>4 DEF JoinInv

\* A worker that goes on leaves the teardown alone.
LEMMA MoveWorker ==
  ASSUME PoolInv, NEW w \in Poppers, NEW l \in PoolLabels, pc[w] # "exit", Goto(w, l),
         alive \/ call' = call,
         UNCHANGED <<flags, lock, join_done, todo, joins, shutdowns, life, waited>>
  PROVE  PoolInv'
<1>1. PoolType /\ CloseInv /\ JoinInv /\ GoneInv
  BY Zenon DEF PoolInv
<1>2. /\ pc' \in [Poppers \cup Managers -> PoolLabels]
      /\ \A t \in (Poppers \cup Managers) \ {w} : pc'[t] = pc[t]
  BY Zenon, <1>1 DEF Goto, PoolType
<1>3. \A m \in Managers : pc'[m] = pc[m]
  BY Zenon, <1>2, PoolAssumption DEF Users
<1>4. PoolType'
  BY Zenon, <1>1, <1>2 DEF PoolType
<1>5. CloseInv'
  BY ZenonT(60), <1>1, <1>3 DEF CloseInv, Closing
<1>6. JoinInv'
  BY ZenonT(60), <1>1, <1>2, <1>3 DEF JoinInv
<1>7. GoneInv'
  BY ZenonT(60), <1>1, <1>3, PoolAssumption DEF GoneInv, Closing, InLine, life
<1> QED
  BY Zenon, <1>4, <1>5, <1>6, <1>7 DEF PoolInv

\* Workers and submitters leave the teardown alone: a worker that was joined
\* has ended, and nobody submits once the queue is gone.
LEMMA WorkPool ==
  ASSUME PoolInv,
         \/ \E w \in Poppers : activate(w) \/ work(w)
         \/ \E s \in Pushers : submit(s)
  PROVE  PoolInv'
<1>1. ASSUME NEW w \in Poppers, activate(w) PROVE PoolInv'
  <2>1. "start" \in PoolLabels /\ "idle" \in PoolLabels
    BY Zenon DEF PoolLabels
  <2>2. CASE pc[w] = "idle" /\ Goto(w, "start")
    BY Zenon, <1>1, <2>1, <2>2, MoveWorker DEF activate, conqueue
  <2>3. CASE Goto(Main, "idle")
    <3>1. /\ JoinInv' /\ pc' \in [Poppers \cup Managers -> PoolLabels]
          /\ pc'[Main] = "idle" /\ \A n \in Managers \ {Main} : pc'[n] = pc[n]
      BY Zenon, <1>1, <2>1, <2>3, PoolAssumption, MoveManager DEF activate
    <3>2. \A m \in Managers : ~Closing(m)' \/ (Closing(m) /\ pc'[m] = pc[m])
      BY Zenon, <3>1 DEF Closing
    <3>3. CloseInv'
      BY ZenonT(60), <1>1, <3>1, <3>2 DEF activate, PoolInv, CloseInv
    <3>4. GoneInv'
      BY ZenonT(60), <1>1, <3>1, <3>2, PoolAssumption DEF activate, conqueue, life, PoolInv, GoneInv, InLine
    <3> QED
      BY Zenon, <1>1, <3>1, <3>3, <3>4 DEF activate, PoolInv, PoolType
  <2> QED
    BY Zenon, <1>1, <2>2, <2>3 DEF activate
<1>2. ASSUME NEW w \in Poppers, WorkLoop(w) PROVE PoolInv'
  <2>1. PICK l \in PoolLabels : Goto(w, l)
    BY Zenon, <1>2 DEF WorkLoop, PoolLabels
  <2> QED
    BY Zenon, <1>2, <2>1, MoveWorker DEF WorkLoop, conqueue
<1>3. ASSUME NEW w \in Poppers, WorkStart(w) \/ WorkRun(w) PROVE PoolInv'
  <2>1. "loop" \in PoolLabels
    BY Zenon DEF PoolLabels
  <2> QED
    BY Zenon, <1>3, <2>1, MoveWorker DEF WorkStart, WorkRun, conqueue
<1>4. ASSUME NEW w \in Poppers, WorkPop(w) PROVE PoolInv'
  <2>1. alive
    BY Zenon, <1>4 DEF WorkPop
  <2>2. pc' = pc \/ Goto(w, "exit")
    BY Zenon, <1>4 DEF WorkPop
  <2>3. pc \in [Poppers \cup Managers -> PoolLabels] /\ "exit" \in PoolLabels
    BY Zenon DEF PoolInv, PoolType, PoolLabels
  <2>4. pc' = pc => Goto(w, pc[w])
    BY Zenon, <2>3 DEF Goto
  <2> QED
    BY Zenon, <1>4, <2>1, <2>2, <2>3, <2>4, MoveWorker DEF WorkPop
<1>5. ASSUME NEW s \in Pushers, submit(s) PROVE PoolInv'
  <2>1. alive /\ UNCHANGED pool
    BY Zenon, <1>5 DEF submit, Active
  <2> QED
    BY ZenonT(60), <2>1 DEF pool, life, PoolInv, PoolType, CloseInv, JoinInv, GoneInv, Closing
<1> QED
  BY Zenon, <1>1, <1>2, <1>3, <1>4, <1>5 DEF work

\* stop() and wait(): the first to set a flag is to close the queue.
LEMMA ClosePool ==
  ASSUME PoolInv, NEW m \in Managers, stop(m) \/ wait(m)
  PROVE  PoolInv'
<1>1. PICK f \in {"stop", "wait"}, l \in {"idle", "destroy", "lock"} : Close(m, f, l)
  BY Zenon DEF stop, wait, AfterStop
<1>2. PICK k \in {f, l} : Goto(m, k) /\ flags' = flags \cup {f} /\ (k = f => flags = {})
  BY Zenon, <1>1 DEF Close
<1>3. /\ UNCHANGED <<call, lock, join_done, todo, joins, shutdowns, alive, early, fault, waited>>
      /\ flags' # {}
  BY Zenon, <1>2 DEF stop, wait, conqueue, life
<1>4. k \in PoolLabels /\ k # "join" /\ (k \in {"stop", "wait"} => flags = {})
  BY Zenon, <1>1, <1>2 DEF PoolLabels
<1>5. /\ JoinInv' /\ pc' \in [Poppers \cup Managers -> PoolLabels]
      /\ pc'[m] = k /\ \A n \in Managers \ {m} : pc'[n] = pc[n]
  BY Zenon, <1>2, <1>3, <1>4, MoveManager
<1>6. CloseInv'
  <2>1. \A n \in Managers : flags = {} => ~Closing(n)
    BY Zenon DEF PoolInv, CloseInv
  <2>2. \A n \in Managers : Closing(n)' => (n = m /\ flags = {}) \/ (n # m /\ Closing(n))
    BY Zenon, <1>4, <1>5 DEF Closing
  <2> QED
    BY ZenonT(60), <1>3, <2>1, <2>2 DEF PoolInv, CloseInv
<1>7. GoneInv'
  <2>1. GoneInv /\ Main \in Managers
    BY Zenon, PoolAssumption DEF PoolInv
  <2>2. k # "gone" /\ (alive \/ pc[m] # "idle")
    BY Zenon, <1>1, <1>2 DEF stop, wait, Active
  <2>3. ~alive /\ ~early => m = Main /\ flags # {}
    BY Zenon, <2>1, <2>2 DEF GoneInv
  <2>4. Closing(Main)' => flags = {} \/ Closing(Main)
    BY Zenon, <1>4, <1>5, <2>1 DEF Closing
  <2>5. pc'[Main] = "gone" => pc[Main] = "gone"
    BY Zenon, <1>5, <2>1, <2>2
  <2> QED
    BY ZenonT(60), <1>3, <1>5, <2>1, <2>3, <2>4, <2>5 DEF GoneInv, InLine
<1> QED
  BY Zenon, <1>3, <1>5, <1>6, <1>7 DEF PoolInv, PoolType

\* The queue is closed by the one manager that is to close it.
LEMMA ShutdownPool ==
  ASSUME PoolInv, NEW m \in Managers, shutdown(m)
  PROVE  PoolInv'
<1>1. PICK l \in {"idle", "destroy", "lock"} : Goto(m, l)
  BY Zenon DEF shutdown, AfterStop
<1>2. /\ UNCHANGED <<call, flags, lock, join_done, todo, joins, alive, early, fault, waited>>
      /\ shutdowns' = shutdowns + 1 /\ Closing(m) /\ alive
  BY Zenon DEF shutdown, close, Closing, life
<1>3. l \in PoolLabels /\ l # "join"
  BY Zenon DEF PoolLabels
<1>4. /\ JoinInv' /\ pc' \in [Poppers \cup Managers -> PoolLabels]
      /\ pc'[m] = l /\ \A n \in Managers \ {m} : pc'[n] = pc[n]
  BY Zenon, <1>1, <1>2, <1>3, MoveManager
<1>5. shutdowns = 0 /\ flags # {} /\ \A n \in Managers \ {m} : ~Closing(n)
  BY Zenon, <1>2 DEF PoolInv, CloseInv
<1>6. \A n \in Managers : ~Closing(n)'
  BY Zenon, <1>4, <1>5 DEF Closing
<1>7. shutdowns' = 1
  BY <1>2, <1>5
<1>8. CloseInv'
  BY ZenonT(60), <1>2, <1>5, <1>6, <1>4 DEF PoolInv, CloseInv
<1>9. GoneInv'
  BY ZenonT(60), <1>2, <1>4, PoolAssumption DEF PoolInv, GoneInv
<1> QED
  BY Zenon, <1>2, <1>4, <1>7, <1>8, <1>9 DEF PoolInv, PoolType

\* Whoever gets join_lock_ first joins every thread, later ones none.
LEMMA LockJoinPool ==
  ASSUME PoolInv, NEW m \in Managers, LockJoin(m)
  PROVE  PoolInv'
<1>1. PoolType /\ CloseInv /\ JoinInv /\ GoneInv
  BY Zenon DEF PoolInv
<1>2. /\ pc[m] = "lock" /\ lock = {} /\ lock' = {m}
      /\ UNCHANGED <<call, flags, join_done, joins, shutdowns, alive, early, fault, waited>>
  BY Zenon DEF LockJoin, conqueue, life
<1>3. /\ todo' \in [Managers -> SUBSET Poppers]
      /\ todo'[m] = IF join_done THEN {} ELSE Poppers
  BY Zenon, <1>1 DEF LockJoin, PoolType
<1>4. /\ pc' \in [Poppers \cup Managers -> PoolLabels]
      /\ pc'[m] = "join" /\ \A t \in (Poppers \cup Managers) \ {m} : pc'[t] = pc[t]
  BY Zenon, <1>1 DEF LockJoin, Goto, PoolType, PoolLabels
<1>5. \A w \in Poppers : pc'[w] = pc[w]
  BY Zenon, <1>4, PoolAssumption DEF Users
<1>6. \A n \in Managers : pc'[n] = "join" => n = m
  BY ZenonT(60), <1>1, <1>2, <1>4 DEF JoinInv
<1>7. JoinInv'
  <2>1. ~join_done => \A w \in Poppers : joins[w] = 0
    BY Zenon, <1>1, <1>2 DEF JoinInv
  <2>2. ~join_done => \A w \in Poppers : joins[w] = IF w \in todo'[m] THEN 0 ELSE 1
    BY Zenon, <1>3, <2>1
  <2>3. /\ join_done => todo'[m] = {} /\ \A w \in Poppers : joins[w] = 1
        /\ \A w \in Poppers : joins[w] = 1 => pc'[w] = "exit"
    BY Zenon, <1>1, <1>3, <1>5 DEF JoinInv
  <2> QED
    BY ZenonT(60), <1>2, <1>6, <2>2, <2>3 DEF JoinInv
<1>8. \A n \in Managers : /\ Closing(n)' => Closing(n)
                          /\ pc'[n] \in {"lock", "join"} => pc[n] \in {"lock", "join"}
  BY Zenon, <1>2, <1>4 DEF Closing
<1>9. CloseInv'
  BY ZenonT(60), <1>1, <1>2, <1>8 DEF CloseInv
<1>10. GoneInv'
  <2>1. ~alive /\ ~early => m = Main
    BY Zenon, <1>1, <1>2 DEF GoneInv
  <2> QED
    BY ZenonT(60), <1>1, <1>2, <1>4, <1>8, <2>1, PoolAssumption DEF GoneInv, InLine
<1> QED
  BY Zenon, <1>1, <1>2, <1>3, <1>4, <1>7, <1>9, <1>10 DEF PoolInv, PoolType

\* It joins one thread after the other, and then returns.
LEMMA JoinPool ==
  ASSUME PoolInv, NEW m \in Managers, Join(m)
  PROVE  PoolInv'
<1>1. PoolType /\ CloseInv /\ JoinInv /\ GoneInv
  BY Zenon DEF PoolInv
<1>2. /\ pc[m] = "join" /\ m \in lock /\ flags # {}
      /\ \A n \in Managers : n \in lock => n = m
      /\ UNCHANGED <<call, flags, shutdowns, alive, early, fault>>
  BY Zenon, <1>1 DEF Join, conqueue, life, JoinInv, CloseInv
<1>3. ASSUME NEW w \in todo[m],
             joins[w] = 0 => pc[w] = "exit",
             joins' = [joins EXCEPT ![w] = @ + 1],
             todo' = [todo EXCEPT ![m] = @ \ {w}],
             UNCHANGED <<pc, lock, join_done, waited>>
      PROVE  PoolInv'
  <2>1. w \in Poppers /\ ~join_done
    BY Zenon, <1>1, <1>2, <1>3 DEF PoolType, JoinInv
  <2>2. \A v \in Poppers : joins[v] = IF v \in todo[m] THEN 0 ELSE 1
    BY Zenon, <1>1, <1>2, <2>1 DEF JoinInv
  <2>3. joins[w] = 0 /\ pc[w] = "exit"
    BY Zenon, <1>3, <2>1, <2>2
  <2>4. joins' = [joins EXCEPT ![w] = 1]
    BY <1>3, <2>3
  <2>5. /\ joins' \in [Poppers -> {0, 1}]
        /\ joins'[w] = 1 /\ \A v \in Poppers \ {w} : joins'[v] = joins[v]
    BY Zenon, <1>1, <2>1, <2>4 DEF PoolType
  <2>6. todo' \in [Managers -> SUBSET Poppers] /\ todo'[m] = todo[m] \ {w}
    BY Zenon, <1>1, <1>3 DEF PoolType
  <2>7. \A v \in Poppers : joins'[v] = IF v \in todo'[m] THEN 0 ELSE 1
    BY Zenon, <2>2, <2>5, <2>6
  <2>8. \A v \in Poppers : joins'[v] = 1 => pc[v] = "exit"
    BY Zenon, <1>1, <2>3, <2>5 DEF JoinInv
  <2>9. JoinInv'
    BY ZenonT(60), <1>1, <1>2, <1>3, <2>1, <2>7, <2>8 DEF JoinInv
  <2>10. CloseInv' /\ GoneInv'
    BY ZenonT(60), <1>1, <1>2, <1>3 DEF CloseInv, GoneInv, Closing, InLine
  <2> QED
    BY Zenon, <1>1, <1>2, <1>3, <2>5, <2>6, <2>9, <2>10 DEF PoolInv, PoolType
<1>4. ASSUME todo[m] = {}, join_done' = TRUE, lock' = {}, waited' = TRUE,
             Goto(m, AfterWait(m)), UNCHANGED <<joins, todo>>
      PROVE  PoolInv'
  <2>1. AfterWait(m) \in PoolLabels /\ AfterWait(m) \notin {"stop", "wait", "lock", "join"}
    BY Zenon DEF AfterWait, PoolLabels
  <2>2. /\ pc' \in [Poppers \cup Managers -> PoolLabels]
        /\ pc'[m] = AfterWait(m) /\ \A t \in (Poppers \cup Managers) \ {m} : pc'[t] = pc[t]
    BY Zenon, <1>1, <1>4, <2>1 DEF Goto, PoolType
  <2>3. \A w \in Poppers : pc'[w] = pc[w]
    BY Zenon, <2>2, PoolAssumption DEF Users
  <2>4. \A n \in Managers : pc'[n] # "join"
    BY ZenonT(60), <1>1, <1>2, <2>1, <2>2 DEF JoinInv
  <2>5. \A w \in Poppers : joins[w] = 1
    BY Zenon, <1>1, <1>2, <1>4 DEF JoinInv
  <2>6. JoinInv'
    BY ZenonT(60), <1>1, <1>4, <2>3, <2>4, <2>5 DEF JoinInv
  <2>7. \A n \in Managers : Closing(n)' => Closing(n)
    BY Zenon, <2>1, <2>2 DEF Closing
  <2>8. CloseInv'
    BY ZenonT(60), <1>1, <1>2, <1>4, <2>7 DEF CloseInv
  <2>9. GoneInv'
    <3>1. ~alive /\ ~early => m = Main
      BY Zenon, <1>1, <1>2 DEF GoneInv
    <3>2. pc'[Main] = "gone" => ~alive
      BY Zenon, <1>1, <2>2, PoolAssumption DEF AfterWait, GoneInv
    <3> QED
      BY ZenonT(60), <1>1, <1>2, <1>4, <2>2, <2>7, <3>1, <3>2, PoolAssumption DEF GoneInv, InLine
  <2> QED
    BY Zenon, <1>1, <1>2, <1>4, <2>2, <2>6, <2>8, <2>9 DEF PoolInv, PoolType
<1> QED
  BY Zenon, <1>3, <1>4 DEF Join

\* The queue is destroyed, early or not.
LEMMA DestroyPool ==
  ASSUME PoolInv, ~fault, Destroy
  PROVE  PoolInv'
<1>1. /\ UNCHANGED <<call, flags, lock, join_done, todo, joins, shutdowns, fault, waited>>
      /\ Goto(Main, "destruct") /\ Main \in Managers
      /\ ~early' => waited /\ (\A m \in Managers : pc[m] = "idle") /\ InLine("push") = {}
  BY Zenon, PoolAssumption DEF Destroy, conqueue
<1>2. /\ JoinInv' /\ pc' \in [Poppers \cup Managers -> PoolLabels]
      /\ pc'[Main] = "destruct" /\ \A n \in Managers \ {Main} : pc'[n] = pc[n]
  <2>1. "destruct" \in PoolLabels
    BY Zenon DEF PoolLabels
  <2> QED
    BY Zenon, <1>1, <2>1, MoveManager
<1>3. \A n \in Managers : Closing(n)' \/ pc'[n] \in {"lock", "join"} => pc'[n] = pc[n]
  BY Zenon, <1>2 DEF Closing
<1>4. CloseInv'
  BY ZenonT(60), <1>1, <1>3 DEF PoolInv, CloseInv, Closing
<1>5. GoneInv'
  BY ZenonT(60), <1>1, <1>2 DEF PoolInv, GoneInv, Closing, InLine
<1> QED
  BY Zenon, <1>1, <1>2, <1>4, <1>5 DEF PoolInv, PoolType

\* Something is used that is gone: that happens only if it was destroyed early.
LEMMA FaultPool ==
  ASSUME PoolInv, NEW t \in Users \cup Managers, UseGone(t)
  PROVE  PoolInv'
<1>1. /\ UNCHANGED <<call, pc, flags, lock, join_done, todo, joins, shutdowns, alive, early, waited>>
      /\ Main \in Managers
  BY Zenon, PoolAssumption DEF UseGone, conqueue
<1>2. PoolType /\ CloseInv /\ JoinInv /\ GoneInv
  BY Zenon DEF PoolInv
<1>3. ASSUME ~early PROVE FALSE
  <2>1. ~alive
    BY Zenon, <1>2 DEF UseGone, Derived, GoneInv
  <2>2. /\ waited /\ InLine("push") = {} /\ ~Closing(Main)
        /\ \A m \in Managers \ {Main} : pc[m] = "idle"
    BY Zenon, <1>2, <1>3, <2>1 DEF GoneInv
  <2>3. \A w \in Poppers : pc[w] = "exit"
    BY Zenon, <1>2, <2>2 DEF GoneInv, JoinInv
  <2>4. \A s \in Pushers : call[s] # "push"
    BY Zenon, <2>2 DEF InLine, Users
  <2> QED
    BY ZenonT(60), <1>1, <2>2, <2>3, <2>4 DEF UseGone, Closing
<1>4. PoolType' /\ CloseInv' /\ JoinInv'
  BY ZenonT(60), <1>1, <1>2 DEF PoolType, CloseInv, JoinInv, Closing
<1>5. GoneInv'
  BY ZenonT(60), <1>1, <1>2, <1>3 DEF GoneInv, InLine, Closing
<1> QED
  BY Zenon, <1>4, <1>5 DEF PoolInv

\* Every step keeps the invariant.
LEMMA NextPool == PoolInv /\ [PoolNext]_poolVars => PoolInv'
<1> SUFFICES ASSUME PoolInv, [PoolNext]_poolVars PROVE PoolInv'
  BY Zenon
<1>1. CASE UNCHANGED poolVars
  <2>1. UNCHANGED <<call, pc, flags, lock, join_done, todo, joins, shutdowns, alive, early, fault, waited>>
    BY Zenon, <1>1 DEF poolVars, pool, conqueue, life
  <2> QED
    BY ZenonT(60), <2>1 DEF PoolInv, PoolType, CloseInv, JoinInv, GoneInv, Closing, InLine
<1> QED
  BY Zenon, <1>1, WorkPool, ClosePool, ShutdownPool, LockJoinPool, JoinPool, DestroyPool, FaultPool
  DEF PoolNext, manage

\* Any threads may stop the pool, wait for it and destroy it in any order: the
\* queue is closed at most once and every thread is joined at most once.
THEOREM PoolTornDownOnce == PoolSpec => []TornDownOnce
<1>1. PoolInv => TornDownOnce
  BY SMTT(30), SMTT(60) DEF PoolInv, PoolType, TornDownOnce
<1> QED
  BY <1>1, InitPool, NextPool, PTL DEF PoolSpec

\* Whoever destroys the pool after some wait() has returned, and with nobody
\* inside, leaves nobody behind that uses a part that is gone: every worker has
\* ended, and the stop() of the destructor finds the queue closed. Destroyed at
\* any other moment the pool has no such guarantee.
THEOREM PoolSafeAfterWait == PoolSpec => []SafeAfterWait
<1>1. PoolInv => SafeAfterWait
  BY Zenon DEF PoolInv, GoneInv, SafeAfterWait
<1> QED
  BY <1>1, InitPool, NextPool, PTL DEF PoolSpec

-----------------------------------------------------------------------------
(* What has been run when wait() returns                                   *)

\* Between two tasks a worker has run all it was given; it is given one at a
\* time.
RanInv(w) ==
  /\ ran[w] <= Len(got[w]) /\ Len(got[w]) <= ran[w] + 1
  /\ pc[w] # "pop" \/ call[w] = "pop" => ran[w] = Len(got[w])
  /\ call[w] = "pop" => pc[w] = "pop"

\* A worker that ends, unless the pool was stopped, has found the queue closed
\* and empty, which it then remains.
TaskInv ==
  /\ QueueInv
  /\ ran \in [Poppers -> Nat]
  /\ \A w \in Poppers : RanInv(w) /\ (pc[w] = "exit" => "stop" \in flags \/ Drained)

\* A step of the queue keeps the invariant of the tasks: a worker is given one,
\* or gets into line, when it waits and has none left.
LEMMA TasksKept ==
  ASSUME TaskInv, QueueInv', ran' = ran, flags' = flags, Drained => Drained',
         \A w \in Poppers :
           /\ pc'[w] = pc[w]
           /\ \/ got'[w] = got[w] /\ (call'[w] = call[w] \/ call'[w] # "pop")
              \/ got'[w] = got[w] /\ pc[w] = "pop" /\ ran[w] = Len(got[w])
              \/ /\ \E v \in Nat : got'[w] = Append(got[w], v)
                 /\ pc[w] = "pop" /\ ran[w] = Len(got[w]) /\ call'[w] # "pop"
  PROVE  TaskInv'
<1>1. ASSUME NEW w \in Poppers PROVE RanInv(w)'
  <2>1. /\ got[w] \in Seq(Nat) /\ Len(got[w]) \in Nat /\ ran[w] \in Nat /\ RanInv(w)
        /\ pc'[w] = pc[w] /\ ran'[w] = ran[w]
    BY SeqLength, ZenonT(60) DEF TaskInv, QueueInv, QueueType, Users
  <2>2. CASE got'[w] = got[w] /\ (call'[w] = call[w] \/ call'[w] # "pop")
    BY Zenon, <2>1, <2>2 DEF RanInv
  <2>3. CASE got'[w] = got[w] /\ pc[w] = "pop" /\ ran[w] = Len(got[w])
    BY Zenon, <2>1, <2>3 DEF RanInv
  <2>4. CASE /\ \E v \in Nat : got'[w] = Append(got[w], v)
             /\ pc[w] = "pop" /\ ran[w] = Len(got[w]) /\ call'[w] # "pop"
    <3>1. Len(got'[w]) = Len(got[w]) + 1
      BY <2>1, <2>4, AppendValues, Zenon
    <3> QED
      BY <2>1, <2>4, <3>1, NextNumber, Zenon DEF RanInv
  <2> QED
    BY Zenon, <2>2, <2>3, <2>4
<1> QED
  BY <1>1 DEF TaskInv

\* A worker that has run all its tasks pops one, or gets into line.
LEMMA PopTask ==
  ASSUME TaskInv, NEW w \in Poppers, pc[w] = "pop", ~HasTask(w), wait_pop(w),
         pc' = pc, ran' = ran, flags' = flags
  PROVE  TaskInv'
<1>1. w \in Users /\ QueueInv /\ RanInv(w) /\ QueueType
  BY DEF Users, TaskInv, QueueInv
<1>2. ran[w] = Len(got[w])
  BY <1>1, SeqLength, SameNumber, ZenonT(60) DEF HasTask, TaskInv, QueueType, RanInv
<1>3. CASE try_pop(w)
  <2>1. QueueInv' /\ got'[w] = Append(got[w], Head(queue)) /\ Head(queue) \in Nat
    BY Zenon, <1>1, <1>3, PopQueue
  <2>2. /\ \A q \in Poppers \ {w} : got'[q] = got[q]
        /\ \A q \in Users : call'[q] = call[q] \/ (call[q] = "push" /\ call'[q] = "none")
    BY Zenon, <1>1, <1>3, PopQueue
  <2>3. ~Drained /\ call[w] = "none"
    BY Zenon, <1>3 DEF try_pop, Drained
  <2>4. call'[w] # "pop"
    BY Zenon, <1>1, <2>2, <2>3
  <2>5. \A q \in Poppers \ {w} : call'[q] = call[q] \/ call'[q] # "pop"
    BY Zenon, <2>2 DEF Users
  <2> QED
    BY Zenon, <1>2, <2>1, <2>2, <2>3, <2>4, <2>5, TasksKept
<1>4. CASE /\ queue = <<>> /\ call[w] = "none"
           /\ call' = [call EXCEPT ![w] = "pop"]
           /\ UNCHANGED <<queue, closed, pushed, got>>
  <2>1. QueueInv'
    BY <1>1, <1>4, WaitQueue, Zenon
  <2>2. \A q \in Poppers \ {w} : call'[q] = call[q]
    BY Zenon, <1>1, <1>4 DEF QueueType, Users
  <2>3. Drained => Drained'
    BY Zenon, <1>1, <1>4 DEF Drained, InLine, QueueType
  <2> QED
    BY Zenon, <1>2, <1>4, <2>1, <2>2, <2>3, TasksKept
<1> QED
  BY Zenon, <1>3, <1>4 DEF wait_pop

\* A task is submitted, or the submitter is told that the queue is closed.
LEMMA SubmitTask ==
  ASSUME TaskInv, NEW s \in Pushers, submit(s)
  PROVE  TaskInv'
<1> USE PoolAssumption
<1>1. /\ s \in Users /\ s \notin Poppers /\ QueueInv /\ QueueType
      /\ ran' = ran /\ flags' = flags /\ pc' = pc
  BY Zenon DEF Users, TaskInv, QueueInv, submit, pool
<1>2. CASE try_push(s)
  <2>1. /\ QueueInv'
        /\ \A r \in Poppers :
             \/ got'[r] = got[r] /\ call'[r] = call[r]
             \/ call[r] = "pop" /\ call'[r] = "none" /\ got'[r] = Append(got[r], pushed + 1)
    BY Zenon, <1>1, <1>2, PushQueue
  <2>2. pushed + 1 \in Nat /\ ~Drained
    BY <1>1, <1>2, NextNumber, Zenon DEF QueueType, try_push, Drained
  <2>3. \A r \in Poppers : call[r] = "pop" => pc[r] = "pop" /\ ran[r] = Len(got[r])
    BY Zenon DEF TaskInv, RanInv
  <2> QED
    BY Zenon, <1>1, <2>1, <2>2, <2>3, TasksKept
<1>3. CASE /\ ~closed /\ Len(queue) = Capacity
           /\ call' = [call EXCEPT ![s] = "push"]
           /\ UNCHANGED <<queue, closed, pushed, got>>
  <2>1. QueueInv'
    BY <1>1, <1>3, WaitQueue, Zenon
  <2>2. \A q \in Poppers : call'[q] = call[q]
    BY <1>1, <1>3 DEF QueueType, Users
  <2>3. ~Drained
    BY Zenon, <1>3 DEF Drained
  <2> QED
    BY Zenon, <1>1, <1>3, <2>1, <2>2, <2>3, TasksKept
<1>4. CASE ToldClosed(s)
  <2>1. /\ call' = [call EXCEPT ![s] = "done"]
        /\ UNCHANGED <<queue, closed, pushed, got>>
    BY <1>4 DEF ToldClosed
  <2>2. QueueInv'
    BY <1>1, <2>1, WaitQueue, Zenon
  <2>3. \A q \in Poppers : call'[q] = call[q]
    BY Zenon, <1>1, <2>1 DEF QueueType, Users
  <2>4. Drained => Drained'
    BY Zenon, <1>1, <2>1 DEF Drained, InLine, QueueType
  <2> QED
    BY Zenon, <1>1, <2>1, <2>2, <2>3, <2>4, TasksKept
<1> QED
  BY Zenon, <1>2, <1>3, <1>4 DEF submit, wait_push

\* A worker that is told "closed" has run all it was given and leaves the queue
\* empty and without a submitter in line.
LEMMA ClosedTask ==
  ASSUME PoolInv, TaskInv, NEW w \in Poppers, pc[w] = "pop", ~HasTask(w), ToldClosed(w),
         Goto(w, "exit"), ran' = ran, flags' = flags
  PROVE  TaskInv'
<1> USE PoolAssumption, ConqueueAssumption
<1>1. /\ closed /\ queue = <<>>
      /\ call' = [call EXCEPT ![w] = "done"]
      /\ UNCHANGED <<queue, closed, pushed, got>>
      /\ w \in Users /\ QueueInv /\ QueueType
  BY DEF ToldClosed, Users, TaskInv, QueueInv
<1>2. QueueInv'
  BY <1>1, WaitQueue, Zenon
<1>3. InLine("push")' = {}
  BY Zenon, <1>1 DEF QueueInv, QueueType, InLine
<1>4. Drained'
  BY Zenon, <1>1, <1>3 DEF Drained
<1>5. /\ pc'[w] = "exit" /\ call'[w] = "done"
      /\ \A v \in Poppers \ {w} : pc'[v] = pc[v] /\ call'[v] = call[v]
  BY <1>1 DEF Goto, PoolInv, PoolType, QueueType, Users
<1>6. ran[w] = Len(got[w]) /\ Len(got[w]) \in Nat
  BY <1>1, SeqLength, SameNumber, ZenonT(60) DEF HasTask, TaskInv, QueueType, RanInv
<1>7. ASSUME NEW v \in Poppers PROVE RanInv(v)'
  <2>1. RanInv(v)
    BY Zenon DEF TaskInv
  <2> QED
    BY Zenon, <1>1, <1>5, <1>6, <2>1 DEF RanInv
<1> QED
  BY Zenon, <1>2, <1>4, <1>7 DEF TaskInv

\* A step that moves no task: a worker goes round its loop, a manager sets
\* flags and closes the queue.
LEMMA RoundTask ==
  ASSUME TaskInv, flags \subseteq flags', closed => closed',
         UNCHANGED <<queue, call, pushed, got, ran>>,
         \A w \in Poppers :
           \/ pc'[w] = pc[w]
           \/ pc[w] \in {"idle", "start"} /\ pc'[w] \in {"start", "loop"}
           \/ pc[w] = "loop" /\ pc'[w] = "pop"
           \/ pc[w] = "loop" /\ pc'[w] = "exit" /\ "stop" \in flags
  PROVE  TaskInv'
<1>1. QueueInv' /\ (Drained => Drained')
  BY Zenon, SameQueue DEF TaskInv, Drained, InLine
<1>2. ASSUME NEW w \in Poppers
      PROVE  RanInv(w)' /\ (pc'[w] = "exit" => "stop" \in flags' \/ Drained')
  <2>1. RanInv(w) /\ (pc[w] = "exit" => "stop" \in flags \/ Drained)
    BY DEF TaskInv
  <2> QED
    BY Zenon, <1>1, <2>1 DEF RanInv
<1> QED
  BY <1>1, <1>2, Zenon DEF TaskInv

\* A worker starts, looks at the flags, pops a task and runs it.
LEMMA WorkTask ==
  ASSUME PoolInv, TaskInv, NEW w \in Poppers, activate(w) \/ work(w)
  PROVE  TaskInv'
<1> USE PoolAssumption
<1>1. CASE activate(w)
  <2>1. \A v \in Poppers : pc'[v] = pc[v] \/ (pc[v] = "idle" /\ pc'[v] = "start")
    BY <1>1, ZenonT(60) DEF activate, Goto, PoolInv, PoolType, Users
  <2> QED
    BY <1>1, <2>1, RoundTask, Zenon DEF activate, conqueue
<1>2. CASE WorkLoop(w)
  <2>1. \A v \in Poppers :
          \/ pc'[v] = pc[v]
          \/ pc[v] = "loop" /\ pc'[v] = "pop"
          \/ pc[v] = "loop" /\ pc'[v] = "exit" /\ "stop" \in flags
    BY <1>2 DEF WorkLoop, is_stopped, Goto, PoolInv, PoolType
  <2> QED
    BY <1>2, <2>1, RoundTask, Zenon DEF WorkLoop, conqueue
<1>3. CASE WorkPop(w)
  BY <1>3, PopTask, ClosedTask, Zenon DEF WorkPop
<1>4. CASE WorkRun(w)
  <2>1. /\ ran[w] \in Nat /\ Len(got[w]) \in Nat /\ Len(got[w]) = ran[w] + 1 /\ call[w] # "pop"
        /\ pc[w] = "pop"
    BY <1>4 DEF WorkRun, HasTask, TaskInv, QueueInv, QueueType, RanInv, Users
  <2>2. /\ UNCHANGED <<queue, closed, call, pushed, got, flags>>
        /\ ran' = [ran EXCEPT ![w] = ran[w] + 1]
        /\ pc'[w] = "loop" /\ \A v \in Poppers \ {w} : pc'[v] = pc[v]
    BY <1>4, Zenon DEF WorkRun, Goto, conqueue, PoolInv, PoolType
  <2>3. /\ ran' \in [Poppers -> Nat] /\ ran'[w] = ran[w] + 1
        /\ \A v \in Poppers \ {w} : ran'[v] = ran[v]
    BY Zenon, <2>1, <2>2 DEF TaskInv
  <2>4. QueueInv' /\ Drained' = Drained
    BY Zenon, <2>2, SameQueue DEF TaskInv, Drained, InLine
  <2>5. ASSUME NEW v \in Poppers
        PROVE  RanInv(v)' /\ (pc'[v] = "exit" => "stop" \in flags' \/ Drained')
    <3>1. RanInv(v) /\ (pc[v] = "exit" => "stop" \in flags \/ Drained)
      BY DEF TaskInv
    <3> QED
      BY <2>1, <2>2, <2>3, <2>4, <3>1, NextNumber, ZenonT(60) DEF RanInv
  <2> QED
    BY Zenon, <2>3, <2>4, <2>5 DEF TaskInv
<1>5. CASE WorkStart(w)
  <2>1. \A v \in Poppers : pc'[v] = pc[v] \/ (pc[v] = "start" /\ pc'[v] = "loop")
    BY <1>5, ZenonT(60) DEF WorkStart, Goto, PoolInv, PoolType
  <2> QED
    BY <1>5, <2>1, RoundTask, Zenon DEF WorkStart, conqueue
<1> QED
  BY <1>1, <1>2, <1>3, <1>4, <1>5, Zenon DEF work

\* Every step keeps the invariant of the tasks.
LEMMA NextTask == PoolInv /\ TaskInv /\ [PoolNext]_poolVars => TaskInv'
<1> SUFFICES ASSUME PoolInv, TaskInv, [PoolNext]_poolVars PROVE TaskInv'
  OBVIOUS
<1> USE PoolAssumption
<1>1. ASSUME NEW m \in Managers, stop(m) \/ wait(m) \/ manage(m) PROVE TaskInv'
  <2>1. \A w \in Poppers : w # m
    BY Zenon DEF Users
  <2>2. CASE stop(m)
    BY <2>1, <2>2, RoundTask, Zenon DEF stop, Close, Goto, conqueue, PoolInv, PoolType
  <2>3. CASE wait(m)
    BY <2>1, <2>3, RoundTask, Zenon DEF wait, Close, Goto, conqueue, PoolInv, PoolType
  <2>4. CASE shutdown(m)
    BY <2>1, <2>4, RoundTask, Zenon DEF shutdown, close, Goto, PoolInv, PoolType
  <2>5. CASE LockJoin(m)
    BY <2>1, <2>5, RoundTask, Zenon DEF LockJoin, Goto, conqueue, PoolInv, PoolType
  <2>6. CASE Join(m)
    BY <2>1, <2>6, RoundTask, Zenon DEF Join, Goto, conqueue, PoolInv, PoolType
  <2> QED
    BY <1>1, <2>2, <2>3, <2>4, <2>5, <2>6, SMTT(30), SMTT(60) DEF manage
<1>2. CASE Destroy
  BY <1>2, RoundTask, Zenon DEF Destroy, Goto, conqueue, PoolInv, PoolType, Users
<1>3. CASE UNCHANGED poolVars
  BY Zenon, <1>3, RoundTask DEF poolVars, pool, conqueue
<1>4. ASSUME NEW t \in Users \cup Managers, UseGone(t) PROVE TaskInv'
  BY <1>4, RoundTask, Zenon DEF UseGone, conqueue
<1> QED
  BY <1>1, <1>2, <1>3, <1>4, WorkTask, SubmitTask, Zenon DEF PoolNext

\* Initially there are no tasks.
LEMMA InitTask == PoolInit => TaskInv
<1> SUFFICES ASSUME PoolInit PROVE TaskInv
  OBVIOUS
<1>1. QueueInv /\ ran \in [Poppers -> Nat]
  BY Zenon, InitQueue DEF PoolInit
<1>2. ASSUME NEW w \in Poppers PROVE RanInv(w) /\ pc[w] # "exit"
  <2>1. got[w] = <<>> /\ call[w] = "none" /\ ran[w] = 0 /\ pc[w] # "exit" /\ pc[w] # "pop"
    BY PoolAssumption DEF PoolInit, ConqueueInit, Users
  <2> QED
    BY <2>1, SMTT(30), SMTT(60) DEF RanInv
<1> QED
  BY Zenon, <1>1, <1>2 DEF TaskInv

\* With at least one worker, wait() of a pool that was not stopped returns only
\* after every task that submit() accepted has been run, those of submitters
\* that stood in line when the queue was closed included.
THEOREM PoolWaitMeansFinished ==
  ASSUME Poppers # {}
  PROVE  PoolSpec => []WaitMeansFinished
<1>1. PoolInv /\ TaskInv => WaitMeansFinished
  <2> SUFFICES ASSUME PoolInv, TaskInv, waited PROVE
        /\ \A w \in Poppers : pc[w] = "exit"
        /\ "stop" \notin flags => TasksRun = 1 .. pushed /\ InLine("push") = {}
    BY Zenon DEF WaitMeansFinished
  <2>1. \A w \in Poppers : pc[w] = "exit"
    BY Zenon DEF PoolInv, GoneInv, JoinInv
  <2>2. \A w \in Poppers : ran[w] = Len(got[w])
    BY Zenon, <2>1 DEF TaskInv, RanInv
  <2>3. TasksRun = Given
    BY <2>2 DEF TasksRun, Given, Values
  <2>4. ASSUME "stop" \notin flags PROVE TasksRun = 1 .. pushed /\ InLine("push") = {}
    <3>1. queue = <<>> /\ InLine("push") = {}
      BY Zenon, <2>1, <2>4 DEF TaskInv, Drained
    <3>2. Values(queue) = {}
      BY <3>1 DEF Values
    <3> QED
      BY <2>3, <3>1, <3>2, Zenon DEF TaskInv, QueueInv
  <2> QED
    BY Zenon, <2>1, <2>4
<1> QED
  BY <1>1, InitPool, NextPool, InitTask, NextTask, PTL DEF PoolSpec

-----------------------------------------------------------------------------
(* Loops over the iterators                                                *)

\* The value that r has popped last and not yet dereferenced
Pending(r) == (at[r] = "test" /\ queue_[r]) \/ copy[r] # 0

LoopType ==
  /\ at \in [Poppers -> {"begin", "pop", "test", "end"}]
  /\ queue_ \in [Users -> BOOLEAN]
  /\ value_ \in [Poppers -> Nat]
  /\ copy \in [Poppers -> Nat]
  /\ taken \in [Poppers -> Nat]
  /\ used \in [Poppers -> Seq(Nat)]

\* An iterator pops one value at a time, holds it until the next, and its
\* reader has dereferenced all values but the pending one, in order.
LoopInv(r) ==
  /\ taken[r] <= Len(got[r]) /\ Len(got[r]) <= taken[r] + 1
  /\ at[r] # "pop" \/ call[r] = "pop" => taken[r] = Len(got[r])
  /\ call[r] = "pop" => at[r] = "pop"
  /\ at[r] # "pop" => copy[r] = 0
  /\ copy[r] # 0 => copy[r] = value_[r]
  /\ Pending(r) => taken[r] > 0 /\ value_[r] = got[r][taken[r]]
  /\ Len(used[r]) = IF Pending(r) THEN taken[r] - 1 ELSE taken[r]
  /\ \A i \in 1 .. Len(used[r]) : used[r][i] = got[r][i]
  /\ at[r] = "end" => ~queue_[r]
  /\ ~queue_[r] => at[r] \in {"test", "end"} /\ Drained

LoopsInv == QueueInv /\ LoopType /\ \A r \in Poppers : LoopInv(r)

\* What the loop of r alone changes
Loop(r) == <<at[r], queue_[r], value_[r], copy[r], taken[r], used[r]>>

\* What the types say of the loop of one reader
LEMMA LoopFacts ==
  ASSUME QueueType, LoopType, NEW r \in Poppers
  PROVE  /\ r \in Users /\ got[r] \in Seq(Nat) /\ Len(got[r]) \in Nat
         /\ taken[r] \in Nat /\ used[r] \in Seq(Nat) /\ Len(used[r]) \in Nat
         /\ copy[r] \in Nat /\ value_[r] \in Nat
<1>1. /\ r \in Users /\ got[r] \in Seq(Nat) /\ used[r] \in Seq(Nat)
      /\ taken[r] \in Nat /\ copy[r] \in Nat /\ value_[r] \in Nat
  BY Zenon DEF Users, QueueType, LoopType
<1> QED
  BY <1>1, SeqLength, Zenon

\* Of the values g popped k were taken, and the values u, a prefix of g, read.
Reading(g, u, k) ==
  /\ k <= Len(g) /\ Len(g) <= k + 1
  /\ Len(u) = k \/ Len(u) = k - 1
  /\ \A i \in 1 .. Len(u) : u[i] = g[i]

\* When all was taken a value may be popped.
MayGrow(g, h, k) == h = g \/ (k = Len(g) /\ \E v \in Nat : h = Append(g, v))

\* With the values h popped instead of g, reading goes on where it was.
ReadingOn(g, h, u, k) == Reading(h, u, k) /\ (k > 0 => h[k] = g[k])

\* What was read is still what was popped when a value is popped.
LEMMA PrefixKept ==
  ASSUME NEW g \in Seq(Nat), NEW h \in Seq(Nat), NEW u \in Seq(Nat), NEW k \in Nat,
         Reading(g, u, k), MayGrow(g, h, k)
  PROVE  ReadingOn(g, h, u, k)
<1> USE DEF Reading, MayGrow, ReadingOn
<1>1. CASE h = g
  BY Zenon, <1>1
<1>2. CASE k = Len(g) /\ \E v \in Nat : h = Append(g, v)
  <2>1. PICK v \in Nat : h = Append(g, v)
    BY <1>2, Zenon
  <2>2. Len(h) = Len(g) + 1 /\ \A i \in 1 .. Len(g) : h[i] = g[i]
    BY <2>1, SMTT(30), SMTT(60)
  <2>3. \A i \in 1 .. Len(u) : i \in 1 .. Len(g)
    BY SMTT(30), SMTT(60)
  <2> QED
    BY <1>2, <2>2, <2>3
<1> QED
  BY <1>1, <1>2, Zenon

\* A prefix of a sequence that is extended by the next value
LEMMA PrefixAppend ==
  ASSUME NEW s \in Seq(Nat), NEW g \in Seq(Nat), NEW v \in Nat, v = g[Len(s) + 1],
         \A i \in 1 .. Len(s) : s[i] = g[i]
  PROVE  /\ Len(Append(s, v)) = Len(s) + 1
         /\ \A i \in 1 .. Len(s) + 1 : Append(s, v)[i] = g[i]
<1>1. /\ Len(Append(s, v)) = Len(s) + 1 /\ Append(s, v)[Len(s) + 1] = v
      /\ \A i \in 1 .. Len(s) : Append(s, v)[i] = s[i]
  OBVIOUS
<1>2. \A i \in 1 .. Len(s) + 1 : i \in 1 .. Len(s) \/ i = Len(s) + 1
  BY SMTT(30)
<1> QED
  BY <1>1, <1>2

\* A reader that takes no step keeps its invariant. It may be given a value, or
\* get into line, when it is in pop_value() and has nothing left.
LEMMA LoopKept ==
  ASSUME NEW r \in Poppers, QueueType, QueueType', LoopType, LoopInv(r),
         Loop(r)' = Loop(r),
         ~queue_[r] => Drained',
         \/ got'[r] = got[r] /\ (call'[r] = call[r] \/ call'[r] # "pop")
         \/ got'[r] = got[r] /\ at[r] = "pop" /\ taken[r] = Len(got[r])
         \/ /\ \E v \in Nat : got'[r] = Append(got[r], v)
            /\ at[r] = "pop" /\ taken[r] = Len(got[r]) /\ call'[r] # "pop"
  PROVE  LoopInv(r)'
<1>1. /\ got[r] \in Seq(Nat) /\ got'[r] \in Seq(Nat) /\ used[r] \in Seq(Nat) /\ taken[r] \in Nat
  BY Zenon DEF Users, QueueType, LoopType
<1>2. /\ at'[r] = at[r] /\ queue_'[r] = queue_[r] /\ value_'[r] = value_[r]
      /\ copy'[r] = copy[r] /\ taken'[r] = taken[r] /\ used'[r] = used[r]
      /\ Pending(r)' = Pending(r)
  BY ZenonT(60) DEF Pending, Loop
<1>3. Reading(got[r], used[r], taken[r])
  BY ZenonT(60) DEF LoopInv, Reading
<1>4. MayGrow(got[r], got'[r], taken[r])
  BY Zenon DEF MayGrow
<1>5. ReadingOn(got[r], got'[r], used[r], taken[r])
  BY <1>1, <1>3, <1>4, PrefixKept, Zenon
<1>6. /\ at[r] # "pop" \/ call'[r] = "pop" => taken[r] = Len(got'[r])
      /\ call'[r] = "pop" => at[r] = "pop"
  BY ZenonT(60) DEF LoopInv
<1>7. Pending(r) => taken[r] > 0 /\ value_[r] = got'[r][taken[r]]
  BY <1>5, ZenonT(60) DEF LoopInv, ReadingOn
<1> QED
  BY <1>2, <1>5, <1>6, <1>7, ZenonT(60) DEF LoopInv, ReadingOn, Reading

\* A step that leaves the iterators alone and keeps a drained queue drained
LEMMA SameLoops ==
  ASSUME LoopsInv, QueueInv', UNCHANGED iterators, Drained => Drained',
         \A r \in Poppers :
           \/ got'[r] = got[r] /\ (call'[r] = call[r] \/ call'[r] # "pop")
           \/ got'[r] = got[r] /\ at[r] = "pop" /\ taken[r] = Len(got[r])
           \/ /\ \E v \in Nat : got'[r] = Append(got[r], v)
              /\ at[r] = "pop" /\ taken[r] = Len(got[r]) /\ call'[r] # "pop"
  PROVE  LoopsInv'
<1>1. LoopType'
  BY Zenon DEF LoopsInv, LoopType, iterators
<1>2. ASSUME NEW r \in Poppers PROVE LoopInv(r)'
  <2>1. /\ LoopType /\ LoopInv(r) /\ QueueType /\ QueueType'
        /\ ~queue_[r] => Drained'
    BY Zenon DEF LoopsInv, LoopInv, QueueInv
  <2>2. Loop(r)' = Loop(r)
    BY Zenon DEF iterators, Loop
  <2> QED
    BY <2>1, <2>2, LoopKept, ZenonT(60)
<1> QED
  BY <1>1, <1>2, SMTT(30) DEF LoopsInv

\* A step of reader r alone
LEMMA OneLoop ==
  ASSUME LoopsInv, QueueInv', NEW r \in Poppers, LoopType', LoopInv(r)', got' = got,
         Drained => Drained',
         \A q \in Poppers \ {r} :
           /\ call'[q] = call[q]
           /\ Loop(q)' = Loop(q)
  PROVE  LoopsInv'
<1>1. ASSUME NEW q \in Poppers \ {r} PROVE LoopInv(q)'
  <2>1. /\ LoopType /\ LoopInv(q) /\ QueueType /\ QueueType'
        /\ ~queue_[q] => Drained'
    BY Zenon DEF LoopsInv, LoopInv, QueueInv
  <2> QED
    BY <2>1, LoopKept, ZenonT(60)
<1> QED
  BY <1>1, Zenon DEF LoopsInv

\* The values that a reader was given are numbers of pushes, never 0.
LEMMA GotPositive ==
  ASSUME QueueInv, NEW r \in Poppers, NEW i \in 1 .. Len(got[r])
  PROVE  got[r][i] \in Nat /\ got[r][i] # 0
<1>1. got[r][i] \in Given
  BY DEF Given, Values
<1>2. got[r][i] \in 1 .. pushed
  BY <1>1, ZenonT(60) DEF QueueInv
<1> QED
  BY <1>2, IndexPositive, Zenon DEF QueueInv, QueueType

\* When pop_value() returns, a pending copy is dereferenced.
LEMMA CopyUsed ==
  ASSUME LoopsInv, NEW r \in Poppers, at[r] = "pop", PopReturns(r)
  PROVE  /\ Len(used'[r]) = taken[r] /\ \A i \in 1 .. taken[r] : used'[r][i] = got[r][i]
         /\ used' \in [Poppers -> Seq(Nat)]
         /\ \A q \in Poppers \ {r} : used'[q] = used[q]
<1>1. /\ r \in Users /\ got[r] \in Seq(Nat) /\ used[r] \in Seq(Nat) /\ Len(used[r]) \in Nat
      /\ taken[r] \in Nat /\ copy[r] \in Nat /\ LoopInv(r)
      /\ used \in [Poppers -> Seq(Nat)]
  BY LoopFacts, ZenonT(60) DEF LoopsInv, QueueInv, LoopType
<1>2. CASE copy[r] = 0
  BY <1>1, <1>2, Zenon DEF PopReturns, LoopInv, Pending
<1>3. CASE copy[r] # 0
  <2>1. /\ taken[r] > 0 /\ Len(used[r]) = taken[r] - 1
        /\ copy[r] = got[r][taken[r]]
        /\ \A i \in 1 .. Len(used[r]) : used[r][i] = got[r][i]
    BY Zenon, <1>1, <1>3 DEF LoopInv, Pending
  <2>2. Len(used[r]) + 1 = taken[r] /\ copy[r] = got[r][Len(used[r]) + 1]
    BY <1>1, <2>1, LastNumber, Zenon
  <2>3. /\ Len(Append(used[r], copy[r])) = Len(used[r]) + 1
        /\ \A i \in 1 .. Len(used[r]) + 1 : Append(used[r], copy[r])[i] = got[r][i]
    BY <1>1, <2>1, <2>2, PrefixAppend, Zenon
  <2>4. used' = [used EXCEPT ![r] = Append(used[r], copy[r])] /\ Append(used[r], copy[r]) \in Seq(Nat)
    BY <1>1, <1>3, AppendValues, Zenon DEF PopReturns
  <2> QED
    BY <1>1, <2>2, <2>3, <2>4, Zenon
<1> QED
  BY Zenon, <1>2, <1>3

\* pop_value() returns after it has popped a value.
LEMMA TakeLoop ==
  ASSUME LoopsInv, NEW r \in Poppers, at[r] = "pop", TakeValue(r)
  PROVE  LoopsInv'
<1>1. QueueInv /\ QueueInv' /\ got' = got /\ Drained' = Drained
  BY SameQueue, ZenonT(60) DEF LoopsInv, TakeValue, conqueue, Drained, InLine
<1>2. /\ r \in Users /\ got[r] \in Seq(Nat) /\ Len(got[r]) \in Nat
      /\ taken[r] \in Nat /\ used[r] \in Seq(Nat) /\ Len(used[r]) \in Nat
      /\ copy[r] \in Nat /\ value_[r] \in Nat /\ LoopInv(r)
  BY <1>1, LoopFacts, ZenonT(60) DEF LoopsInv, QueueInv
<1>3. taken[r] < Len(got[r]) /\ Len(got[r]) = taken[r] + 1
  <2>1. taken[r] < Len(got[r]) /\ Len(got[r]) <= taken[r] + 1
    BY <1>2, Zenon DEF TakeValue, LoopInv
  <2> QED
    BY <1>2, <2>1, OneMore, Zenon
<1>4. got[r][taken[r] + 1] \in Nat /\ got[r][taken[r] + 1] # 0
  BY <1>1, <1>2, <1>3, GotPositive, NextNumber, Zenon
<1>5. /\ at' = [at EXCEPT ![r] = "test"] /\ copy' = [copy EXCEPT ![r] = 0]
      /\ taken' = [taken EXCEPT ![r] = taken[r] + 1]
      /\ value_' = [value_ EXCEPT ![r] = got[r][taken[r] + 1]]
      /\ queue_' = queue_ /\ UNCHANGED conqueue
  BY Zenon DEF TakeValue, PopReturns
<1>6. /\ Len(used'[r]) = taken[r] /\ \A i \in 1 .. taken[r] : used'[r][i] = got[r][i]
      /\ used' \in [Poppers -> Seq(Nat)] /\ \A q \in Poppers \ {r} : used'[q] = used[q]
  BY CopyUsed, Zenon DEF TakeValue
<1>7. /\ LoopType'
      /\ at'[r] = "test" /\ copy'[r] = 0 /\ taken'[r] = taken[r] + 1
      /\ value_'[r] = got[r][taken[r] + 1] /\ queue_'[r] = queue_[r]
  <2>1. taken[r] + 1 \in Nat
    BY <1>2, NextNumber, Zenon
  <2>2. LoopType'
    BY <1>4, <1>5, <1>6, <2>1, Zenon DEF LoopsInv, LoopType, Users
  <2> QED
    BY <1>5, <2>2, ZenonT(60) DEF LoopsInv, LoopType
<1>8. \A q \in Poppers \ {r} :
           /\ call'[q] = call[q]
           /\ Loop(q)' = Loop(q)
  <2>1. \A q \in Poppers \ {r} :
          /\ at'[q] = at[q] /\ copy'[q] = copy[q] /\ taken'[q] = taken[q] /\ value_'[q] = value_[q]
    BY <1>5, Zenon DEF LoopsInv, LoopType
  <2> QED
    BY <1>5, <1>6, <2>1, Zenon DEF Loop, conqueue
<1>9. queue_[r] /\ call'[r] # "pop"
  <2>1. taken[r] # Len(got[r])
    BY <1>2, <1>3, OneMore, NextNumber, Zenon
  <2> QED
    BY <1>2, <1>5, <2>1, ZenonT(60) DEF LoopInv, conqueue
<1>10. Pending(r)'
  BY <1>7, <1>9, Zenon DEF Pending
<1>11. LoopInv(r)'
  <2>1. /\ taken'[r] = Len(got'[r]) /\ taken'[r] > 0 /\ Len(got'[r]) <= taken'[r] + 1
        /\ taken'[r] <= Len(got'[r]) /\ Len(used'[r]) = taken'[r] - 1
        /\ value_'[r] = got'[r][taken'[r]]
    BY <1>1, <1>2, <1>3, <1>7, <1>6, NextNumber, ZenonT(60)
  <2>2. \A i \in 1 .. Len(used'[r]) : used'[r][i] = got'[r][i]
    BY <1>1, <1>6, Zenon
  <2> QED
    BY <1>7, <1>9, <1>10, <2>1, <2>2, Zenon DEF LoopInv
<1> QED
  BY <1>1, <1>7, <1>8, <1>11, OneLoop, Zenon

\* pop_value() finds the queue closed, and the iterator becomes equal to end().
LEMMA ClosedLoop ==
  ASSUME LoopsInv, NEW r \in Poppers, at[r] = "pop", taken[r] = Len(got[r]),
         ToldClosed(r), queue_' = [queue_ EXCEPT ![r] = FALSE], PopReturns(r),
         UNCHANGED <<value_, taken>>
  PROVE  LoopsInv'
<1> USE IteratorAssumption, ConqueueAssumption
<1>1. /\ r \in Users /\ got[r] \in Seq(Nat) /\ Len(got[r]) \in Nat
      /\ taken[r] \in Nat /\ used[r] \in Seq(Nat) /\ Len(used[r]) \in Nat
      /\ copy[r] \in Nat /\ LoopInv(r)
  BY LoopFacts, ZenonT(60) DEF LoopsInv, QueueInv
<1>2. /\ closed /\ queue = <<>> /\ call' = [call EXCEPT ![r] = "done"]
      /\ UNCHANGED <<queue, closed, pushed, got>>
  BY Zenon DEF ToldClosed
<1>3. QueueInv'
  BY <1>1, <1>2, WaitQueue, ZenonT(60) DEF LoopsInv
<1>4. InLine("push") = {} /\ InLine("push")' = {}
  BY Zenon, <1>1, <1>2 DEF LoopsInv, QueueInv, QueueType, InLine
<1>5. Drained /\ Drained'
  BY Zenon, <1>2, <1>4 DEF Drained
<1>6. /\ at' = [at EXCEPT ![r] = "test"] /\ copy' = [copy EXCEPT ![r] = 0]
  BY Zenon DEF PopReturns
<1>7. /\ Len(used'[r]) = taken[r] /\ \A i \in 1 .. taken[r] : used'[r][i] = got[r][i]
      /\ used' \in [Poppers -> Seq(Nat)] /\ \A q \in Poppers \ {r} : used'[q] = used[q]
  BY CopyUsed, Zenon
<1>8. /\ LoopType'
      /\ at'[r] = "test" /\ copy'[r] = 0 /\ taken'[r] = taken[r] /\ ~queue_'[r]
      /\ call'[r] = "done"
  BY <1>1, <1>2, <1>6, <1>7, ZenonT(60) DEF LoopsInv, LoopType, QueueInv, QueueType
<1>9. \A q \in Poppers \ {r} :
           /\ call'[q] = call[q]
           /\ Loop(q)' = Loop(q)
  BY <1>2, <1>6, <1>7, ZenonT(60) DEF LoopsInv, LoopType, QueueInv, QueueType, Users, Loop
<1>10. ~Pending(r)'
  BY <1>8, Zenon DEF Pending
<1>11. LoopInv(r)'
  BY <1>1, <1>2, <1>5, <1>8, <1>7, <1>10, ZenonT(60) DEF LoopInv
<1> QED
  BY <1>2, <1>3, <1>5, <1>8, <1>9, <1>11, OneLoop, ZenonT(60)

\* The loop begins, or goes round: the value is dereferenced, at once or as a
\* copy after the next pop.
LEMMA RoundLoop ==
  ASSUME LoopsInv, NEW r \in Poppers, begin(r) \/ Increment(r)
  PROVE  LoopsInv'
<1>1. /\ r \in Users /\ got[r] \in Seq(Nat) /\ Len(got[r]) \in Nat
      /\ taken[r] \in Nat /\ used[r] \in Seq(Nat) /\ Len(used[r]) \in Nat
      /\ copy[r] \in Nat /\ value_[r] \in Nat /\ LoopInv(r) /\ at[r] # "pop"
  BY LoopFacts, ZenonT(60) DEF LoopsInv, QueueInv, begin, Increment
<1>2. /\ UNCHANGED <<queue, closed, call, pushed, got>>
      /\ UNCHANGED <<queue_, value_, taken>>
  BY Zenon DEF begin, Increment, conqueue
<1>3. QueueInv /\ QueueInv' /\ got' = got /\ Drained' = Drained
  BY <1>2, SameQueue, Zenon DEF LoopsInv, Drained, InLine
<1>4. /\ copy[r] = 0 /\ taken[r] = Len(got[r]) /\ call[r] # "pop"
  BY <1>1, ZenonT(60) DEF LoopInv
<1>5. ASSUME NEW a \in {"pop", "end"}, at' = [at EXCEPT ![r] = a], UNCHANGED <<copy, used>>,
             ~Pending(r), queue_[r] <=> a = "pop",
             ~queue_[r] => Drained
      PROVE  LoopsInv'
  <2>1. /\ LoopType' /\ at'[r] = a
        /\ \A q \in Poppers \ {r} :
             /\ call'[q] = call[q]
             /\ Loop(q)' = Loop(q)
    <3>1. LoopType' /\ at'[r] = a /\ \A q \in Poppers \ {r} : at'[q] = at[q]
      BY <1>2, <1>5, Zenon DEF LoopsInv, LoopType
    <3> QED
      BY <1>2, <1>5, <3>1, Zenon DEF Loop
  <2>2. ~Pending(r)'
    BY <1>2, <1>4, <1>5, <2>1, ZenonT(60) DEF Pending
  <2>3. LoopInv(r)'
    BY <1>1, <1>2, <1>3, <1>4, <1>5, <2>1, <2>2, ZenonT(60) DEF LoopInv
  <2> QED
    BY Zenon, <1>3, <2>1, <2>3, OneLoop
<1>6. ASSUME at[r] = "test", queue_[r], at' = [at EXCEPT ![r] = "pop"],
             \/ used' = [used EXCEPT ![r] = Append(used[r], value_[r])] /\ copy' = copy
             \/ copy' = [copy EXCEPT ![r] = value_[r]] /\ used' = used
      PROVE  LoopsInv'
  <2>1. /\ LoopType' /\ at'[r] = "pop"
        /\ \A q \in Poppers \ {r} :
             /\ call'[q] = call[q]
             /\ Loop(q)' = Loop(q)
    <3>1. Append(used[r], value_[r]) \in Seq(Nat)
      BY <1>1, AppendValues, Zenon
    <3>2. LoopType'
      <4>1. used' \in [Poppers -> Seq(Nat)] /\ copy' \in [Poppers -> Nat]
        BY <1>1, <1>6, <3>1, Zenon DEF LoopsInv, LoopType
      <4> QED
        BY Zenon, <1>2, <1>6, <4>1 DEF LoopsInv, LoopType
    <3>3. at'[r] = "pop" /\ \A q \in Poppers \ {r} : at'[q] = at[q] /\ copy'[q] = copy[q] /\ used'[q] = used[q]
      BY <1>6, Zenon DEF LoopsInv, LoopType
    <3> QED
      BY <1>2, <3>2, <3>3, ZenonT(60) DEF Loop
  <2>2. /\ Pending(r) /\ taken[r] > 0 /\ value_[r] = got[r][taken[r]]
        /\ Len(used[r]) = taken[r] - 1
        /\ \A i \in 1 .. taken[r] - 1 : used[r][i] = got[r][i]
    BY <1>1, <1>6, ZenonT(60) DEF Pending, LoopInv
  <2>3. value_[r] # 0
    <3>1. taken[r] \in 1 .. Len(got[r])
      BY <1>1, <1>4, <2>2, LastNumber, Zenon
    <3> QED
      BY <1>3, <2>2, <3>1, GotPositive, Zenon
  <2>4. CASE copy' = [copy EXCEPT ![r] = value_[r]] /\ used' = used
    <3>1. copy'[r] = value_[r] /\ used'[r] = used[r] /\ Pending(r)'
      BY Zenon, <2>1, <2>3, <2>4 DEF LoopsInv, LoopType, Pending
    <3>2. LoopInv(r)'
      <4>1. /\ got'[r] = got[r] /\ call'[r] = call[r] /\ taken'[r] = taken[r]
            /\ value_'[r] = value_[r] /\ queue_'[r] = queue_[r] /\ queue_[r] /\ at'[r] = "pop"
        BY Zenon, <1>2, <1>6, <2>1
      <4>2. /\ taken[r] <= Len(got[r]) /\ Len(got[r]) <= taken[r] + 1
            /\ \A i \in 1 .. Len(used[r]) : used[r][i] = got[r][i]
        BY <1>1, ZenonT(60) DEF LoopInv
      <4> QED
        BY <1>4, <2>2, <3>1, <4>1, <4>2, ZenonT(60) DEF LoopInv
    <3> QED
      BY <1>3, <2>1, <3>2, OneLoop, ZenonT(60)
  <2>5. CASE used' = [used EXCEPT ![r] = Append(used[r], value_[r])] /\ copy' = copy
    <3>1. copy'[r] = 0 /\ used'[r] = Append(used[r], value_[r]) /\ ~Pending(r)'
      BY Zenon, <1>4, <2>1, <2>5 DEF LoopsInv, LoopType, Pending
    <3>2. /\ Len(Append(used[r], value_[r])) = taken[r]
          /\ \A i \in 1 .. taken[r] : Append(used[r], value_[r])[i] = got[r][i]
      <4>1. Len(used[r]) + 1 = taken[r] /\ value_[r] = got[r][Len(used[r]) + 1]
        BY <1>1, <2>2, LastNumber, Zenon
      <4>2. \A i \in 1 .. Len(used[r]) : used[r][i] = got[r][i]
        BY <2>2, Zenon
      <4>3. /\ Len(Append(used[r], value_[r])) = Len(used[r]) + 1
            /\ \A i \in 1 .. Len(used[r]) + 1 : Append(used[r], value_[r])[i] = got[r][i]
        BY <1>1, <4>1, <4>2, PrefixAppend, ZenonT(60)
      <4> QED
        BY <4>1, <4>3, Zenon
    <3>3. Len(used'[r]) = taken[r] /\ \A i \in 1 .. taken[r] : used'[r][i] = got[r][i]
      BY <3>1, <3>2, Zenon
    <3>4. LoopInv(r)'
      BY <1>1, <1>2, <1>3, <1>4, <1>6, <2>1, <3>1, <3>3, ZenonT(60) DEF LoopInv
    <3> QED
      BY <1>3, <2>1, <3>4, OneLoop, ZenonT(60)
  <2> QED
    BY <1>6, <2>4, <2>5, Zenon
<1>7. CASE begin(r)
  BY Zenon, <1>1, <1>4, <1>5, <1>7 DEF begin, Pending, LoopInv
<1>8. CASE Increment(r)
  BY <1>1, <1>4, <1>5, <1>6, <1>8, ZenonT(60) DEF Increment, Pending, LoopInv
<1> QED
  BY <1>7, <1>8, SMTT(30), SMTT(60)

\* A reader that has taken all it was given pops a value or gets into line.
LEMMA PopLoop ==
  ASSUME LoopsInv, NEW r \in Poppers, at[r] = "pop", taken[r] = Len(got[r]),
         wait_pop(r), UNCHANGED iterators
  PROVE  LoopsInv'
<1>1. r \in Users /\ QueueInv /\ LoopInv(r) /\ QueueType
  BY Zenon DEF Users, LoopsInv, QueueInv
<1>2. CASE try_pop(r)
  <2>1. QueueInv' /\ got'[r] = Append(got[r], Head(queue)) /\ Head(queue) \in Nat
    BY <1>1, <1>2, PopQueue, Zenon
  <2>2. /\ \A q \in Poppers \ {r} : got'[q] = got[q]
        /\ \A q \in Users : call'[q] = call[q] \/ (call[q] = "push" /\ call'[q] = "none")
    BY Zenon, <1>1, <1>2, PopQueue
  <2>3. ~Drained /\ call[r] = "none"
    BY Zenon, <1>2 DEF try_pop, Drained
  <2>4. call'[r] # "pop"
    BY Zenon, <1>1, <2>2, <2>3
  <2>5. \A q \in Poppers \ {r} : call'[q] = call[q] \/ call'[q] # "pop"
    BY <2>2, Zenon DEF Users
  <2> QED
    BY <2>1, <2>2, <2>3, <2>4, <2>5, SameLoops, Zenon
<1>3. CASE /\ queue = <<>> /\ call[r] = "none"
           /\ call' = [call EXCEPT ![r] = "pop"]
           /\ UNCHANGED <<queue, closed, pushed, got>>
  <2>1. QueueInv'
    BY <1>1, <1>3, WaitQueue, ZenonT(60)
  <2>2. \A q \in Poppers \ {r} : call'[q] = call[q]
    BY <1>1, <1>3, Zenon DEF QueueType, Users
  <2>3. Drained => Drained'
    BY Zenon, <1>1, <1>3 DEF Drained, InLine, QueueType
  <2> QED
    BY <1>3, <2>1, <2>2, <2>3, SameLoops, Zenon
<1> QED
  BY <1>2, <1>3, ZenonT(60) DEF wait_pop

\* A writer assigns to its output iterator.
LEMMA WriteLoop ==
  ASSUME LoopsInv, NEW w \in Pushers, Write(w)
  PROVE  LoopsInv'
<1> USE IteratorAssumption
<1>1. /\ w \in Users /\ w \notin Poppers /\ QueueInv /\ QueueType
      /\ \A r \in Poppers : LoopInv(r)
  BY Zenon DEF Users, LoopsInv, QueueInv
<1>2. CASE try_push(w) /\ UNCHANGED iterators
  <2>1. /\ QueueInv'
        /\ \A r \in Poppers :
             \/ got'[r] = got[r] /\ call'[r] = call[r]
             \/ call[r] = "pop" /\ call'[r] = "none" /\ got'[r] = Append(got[r], pushed + 1)
    BY Zenon, <1>1, <1>2, PushQueue
  <2>2. pushed + 1 \in Nat /\ ~Drained
    BY <1>1, <1>2, NextNumber, ZenonT(60) DEF QueueType, try_push, Drained
  <2>3. \A r \in Poppers : call[r] = "pop" => at[r] = "pop" /\ taken[r] = Len(got[r])
    BY <1>1, Zenon DEF LoopInv
  <2> QED
    BY <1>2, <2>1, <2>2, <2>3, SameLoops, Zenon
<1>3. CASE /\ ~closed /\ Len(queue) = Capacity
           /\ call' = [call EXCEPT ![w] = "push"]
           /\ UNCHANGED <<queue, closed, pushed, got>>
           /\ UNCHANGED iterators
  <2>1. QueueInv'
    BY <1>1, <1>3, WaitQueue, Zenon
  <2>2. \A q \in Poppers : call'[q] = call[q]
    BY Zenon, <1>1, <1>3 DEF QueueType, Users
  <2>3. ~Drained
    BY Zenon, <1>3 DEF Drained
  <2> QED
    BY <1>3, <2>1, <2>2, <2>3, SameLoops, Zenon
<1>4. CASE /\ ToldClosed(w)
           /\ queue_' = [queue_ EXCEPT ![w] = FALSE]
           /\ UNCHANGED <<at, value_, copy, taken, used>>
  <2>1. /\ call' = [call EXCEPT ![w] = "done"]
        /\ UNCHANGED <<queue, closed, pushed, got>>
    BY <1>4 DEF ToldClosed
  <2>2. QueueInv'
    BY <1>1, <2>1, WaitQueue, Zenon
  <2>3. LoopType' /\ \A q \in Poppers : call'[q] = call[q] /\ queue_'[q] = queue_[q]
    BY <1>1, <1>4, <2>1, ZenonT(60) DEF QueueType, Users, LoopsInv, LoopType
  <2>4. Drained => Drained'
    BY Zenon, <1>1, <2>1 DEF Drained, InLine, QueueType
  <2>5. ASSUME NEW q \in Poppers PROVE LoopInv(q)'
    <3>1. /\ LoopType /\ LoopInv(q) /\ QueueType /\ QueueType'
          /\ ~queue_[q] => Drained'
      BY <2>2, <2>4, Zenon DEF LoopsInv, LoopInv, QueueInv
    <3>2. Loop(q)' = Loop(q)
      BY <1>4, <2>3, Zenon DEF Loop
    <3> QED
      BY <2>1, <2>3, <3>1, <3>2, LoopKept, Zenon
  <2> QED
    BY Zenon, <2>2, <2>3, <2>5 DEF LoopsInv
<1> QED
  BY Zenon, <1>2, <1>3, <1>4 DEF Write, wait_push

\* Every step keeps the invariant.
LEMMA NextLoops == LoopsInv /\ [IteratorNext]_iteratorVars => LoopsInv'
<1> SUFFICES ASSUME LoopsInv, [IteratorNext]_iteratorVars PROVE LoopsInv'
  OBVIOUS
<1>1. ASSUME NEW r \in Poppers, Read(r) PROVE LoopsInv'
  BY <1>1, RoundLoop, PopLoop, TakeLoop, ClosedLoop, ZenonT(60) DEF Read, pop_value
<1>2. CASE CloseQueue \/ UNCHANGED iteratorVars
  <2>1. UNCHANGED <<queue, call, pushed, got>> /\ UNCHANGED iterators /\ (closed => closed')
    BY <1>2 DEF CloseQueue, close, iteratorVars, conqueue
  <2>2. QueueInv'
    BY Zenon, <2>1, SameQueue DEF LoopsInv
  <2>3. Drained => Drained'
    BY Zenon, <2>1 DEF Drained, InLine
  <2> QED
    BY Zenon, <2>1, <2>2, <2>3, SameLoops
<1> QED
  BY Zenon, <1>1, <1>2, WriteLoop DEF IteratorNext

\* Initially no loop has begun.
LEMMA InitLoops == IteratorInit => LoopsInv
<1> SUFFICES ASSUME IteratorInit PROVE LoopsInv
  OBVIOUS
<1>1. QueueInv /\ LoopType
  BY InitQueue, SMTT(30) DEF IteratorInit, LoopType
<1>2. ASSUME NEW r \in Poppers PROVE LoopInv(r)
  <2>1. /\ got[r] = <<>> /\ call[r] = "none" /\ at[r] = "begin" /\ copy[r] = 0
        /\ taken[r] = 0 /\ used[r] = <<>> /\ queue_[r] = TRUE
    BY Zenon DEF IteratorInit, ConqueueInit, Users
  <2>2. Len(<<>>) = 0 /\ 0 <= 0 /\ 0 <= 0 + 1 /\ \A i \in 1 .. 0 : FALSE
    OBVIOUS
  <2> QED
    BY <2>1, <2>2, Zenon DEF LoopInv, Pending
<1> QED
  BY Zenon, <1>1, <1>2 DEF LoopsInv

\* With at least one reader: however many loops walk one queue, no value is
\* dereferenced twice, an iterator equals end() only when the queue is closed
\* and drained, and the loops together see every value that was written.
THEOREM IteratorsShareValues ==
  ASSUME Poppers # {}
  PROVE  IteratorSpec => []LoopsShareValues
<1>1. LoopsInv => LoopsShareValues
  <2> SUFFICES ASSUME LoopsInv PROVE LoopsShareValues
    OBVIOUS
  <2>1. \A r \in Poppers : /\ used[r] \in Seq(Nat) /\ Len(used[r]) \in Nat
                           /\ got[r] \in Seq(Nat) /\ Len(got[r]) \in Nat
                           /\ taken[r] \in Nat
                           /\ LoopInv(r)
    BY LoopFacts, ZenonT(60) DEF LoopsInv, QueueInv
  <2>2. ASSUME NEW r \in Poppers
        PROVE  /\ Len(used[r]) <= Len(got[r])
               /\ \A i \in 1 .. Len(used[r]) : i \in 1 .. Len(got[r]) /\ used[r][i] = got[r][i]
               /\ at[r] = "end" => Len(used[r]) = Len(got[r]) /\ Drained
    <3>1. Len(used[r]) <= Len(got[r])
      <4>1. taken[r] <= Len(got[r]) /\ (Len(used[r]) = taken[r] - 1 \/ Len(used[r]) = taken[r])
        BY <2>1, ZenonT(60) DEF LoopInv
      <4> QED
        BY <2>1, <4>1, SMTT(30), SMTT(60)
    <3>2. at[r] = "end" => ~Pending(r) /\ taken[r] = Len(got[r]) /\ Drained
      BY <2>1, Zenon DEF LoopInv, Pending
    <3>3. at[r] = "end" => Len(used[r]) = Len(got[r])
      BY Zenon, <2>1, <3>2 DEF LoopInv
    <3>4. \A i \in 1 .. Len(used[r]) : i \in 1 .. Len(got[r])
      BY <2>1, <3>1, PrefixIndex, Zenon
    <3> QED
      BY <2>1, <3>1, <3>2, <3>3, <3>4, ZenonT(60) DEF LoopInv
  <2>3. \A r \in Poppers : \A i, j \in 1 .. Len(used[r]) : used[r][i] = used[r][j] => i = j
    BY ZenonT(60), <2>1, <2>2 DEF Distinct, LoopsInv, QueueInv, GivenOnce
  <2>4. \A r \in Poppers : Seen(r) \subseteq Values(got[r])
    BY Zenon, <2>2 DEF Seen, Values
  <2>5. \A r \in Poppers : \A q \in Poppers \ {r} : Seen(r) \cap Seen(q) = {}
    BY Zenon, <2>4 DEF LoopsInv, QueueInv, GivenOnce
  <2>6. ASSUME \A r \in Poppers : at[r] = "end"
        PROVE  UNION {Seen(r) : r \in Poppers} = 1 .. pushed
    <3>1. Drained
      BY Zenon, <2>2, <2>6
    <3>2. \A r \in Poppers : Seen(r) = Values(got[r])
      BY ZenonT(60), <2>2, <2>6 DEF Seen, Values
    <3>3. Values(queue) = {}
      BY <3>1 DEF Drained, Values
    <3>4. UNION {Seen(r) : r \in Poppers} = Given
      BY <3>2 DEF Given
    <3> QED
      BY Zenon, <3>3, <3>4 DEF LoopsInv, QueueInv
  <2> QED
    BY Zenon, <2>2, <2>3, <2>5, <2>6 DEF LoopsShareValues, Drained
<1> QED
  BY <1>1, InitLoops, NextLoops, PTL DEF IteratorSpec

=============================================================================
