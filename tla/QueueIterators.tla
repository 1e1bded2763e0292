--------------------------- MODULE QueueIterators ---------------------------
(***************************************************************************)
(* The iterators of evenk/conqueue.h on any queue that implements          *)
(* Conqueue.  Every reader walks the queue with an input iterator of its   *)
(* own, from begin() to end(); every writer fills it through an output     *)
(* iterator of its own.  An input iterator holds the value it popped last, *)
(* and becomes equal to end() when its queue_ pointer is reset.            *)
(***************************************************************************)
EXTENDS Conqueue, FiniteSets

CONSTANT MaxWrite  \* bound: nobody writes once MaxWrite values are accepted

ASSUME IteratorAssumption ==
  /\ Pushers \cap Poppers = {}
  /\ MaxWrite \in Nat

VARIABLES
  at,       \* where every reader is in its loop
  queue_,   \* whether the iterator of a thread still points to the queue
  value_,   \* the value in every input iterator, 0 before the first
  copy,     \* the value in the copy a postfix increment returns, else 0
  taken,    \* the number of values every reader's iterator has popped
  used      \* the values every reader has dereferenced

iterators == <<at, queue_, value_, copy, taken, used>>
iteratorVars == <<conqueue, iterators>>

IteratorInit ==
  /\ ConqueueInit
  /\ at = [r \in Poppers |-> "begin"]
  /\ queue_ = [t \in Users |-> TRUE]
  /\ value_ = [r \in Poppers |-> 0]
  /\ copy = [r \in Poppers |-> 0]
  /\ taken = [r \in Poppers |-> 0]
  /\ used = [r \in Poppers |-> <<>>]

-----------------------------------------------------------------------------
(* Readers                                                                 *)

\* The constructor and the increments end up in pop_value().
begin(r) ==
  /\ at[r] = "begin"
  /\ at' = [at EXCEPT ![r] = "pop"]
  /\ UNCHANGED <<conqueue, queue_, value_, copy, taken, used>>

\* pop_value() returns; the caller of a postfix increment then dereferences
\* the copy.
PopReturns(r) ==
  /\ at' = [at EXCEPT ![r] = "test"]
  /\ copy' = [copy EXCEPT ![r] = 0]
  /\ used' = IF copy[r] = 0 THEN used
             ELSE [used EXCEPT ![r] = Append(@, copy[r])]

\* wait_pop(value_) has assigned value_.
TakeValue(r) ==
  /\ taken[r] < Len(got[r])
  /\ taken' = [taken EXCEPT ![r] = @ + 1]
  /\ value_' = [value_ EXCEPT ![r] = got[r][taken[r] + 1]]
  /\ PopReturns(r)
  /\ UNCHANGED <<conqueue, queue_>>

\* Mutant: the pointer is kept when the queue turns out to be closed.
PopValueKeep(r) ==
  /\ at[r] = "pop"
  /\ \/ taken[r] = Len(got[r]) /\ wait_pop(r) /\ UNCHANGED iterators
     \/ TakeValue(r)
     \/ /\ ToldClosed(r)
        /\ PopReturns(r)
        /\ UNCHANGED <<queue_, value_, taken>>

pop_value(r) ==
  /\ at[r] = "pop"
  /\ \/ taken[r] = Len(got[r]) /\ wait_pop(r) /\ UNCHANGED iterators
     \/ TakeValue(r)
     \/ /\ taken[r] = Len(got[r])
        /\ ToldClosed(r)
        /\ queue_' = [queue_ EXCEPT ![r] = FALSE]
        /\ PopReturns(r)
        /\ UNCHANGED <<value_, taken>>

\* it != end(), and if so *it and ++it, or *it++
Increment(r) ==
  /\ at[r] = "test"
  /\ \/ /\ ~queue_[r]
        /\ at' = [at EXCEPT ![r] = "end"]
        /\ UNCHANGED <<copy, used>>
     \/ /\ queue_[r]
        /\ at' = [at EXCEPT ![r] = "pop"]
        /\ \/ used' = [used EXCEPT ![r] = Append(@, value_[r])] /\ copy' = copy
           \/ copy' = [copy EXCEPT ![r] = value_[r]] /\ used' = used
  /\ UNCHANGED <<conqueue, queue_, value_, taken>>

Read(r) == begin(r) \/ pop_value(r) \/ Increment(r)

-----------------------------------------------------------------------------
(* Writers                                                                 *)

\* The assignment of a value to an output iterator, which throws the status
\* and forgets the queue if the queue is closed
Write(w) ==
  /\ queue_[w]
  /\ \/ /\ pushed + Cardinality(InLine("push")) < MaxWrite
        /\ wait_push(w)
        /\ UNCHANGED iterators
     \/ /\ w \in Pushers /\ ToldClosed(w)
        /\ queue_' = [queue_ EXCEPT ![w] = FALSE]
        /\ UNCHANGED <<at, value_, copy, taken, used>>

\* close() through the wrapper or either end
CloseQueue == ~closed /\ close /\ UNCHANGED iterators

IteratorNext ==
  \/ \E r \in Poppers : Read(r)
  \/ \E w \in Pushers : Write(w)
  \/ CloseQueue

IteratorFairness == \A r \in Poppers : WF_iteratorVars(Read(r))

IteratorSpec == IteratorInit /\ [][IteratorNext]_iteratorVars /\ IteratorFairness
-----------------------------------------------------------------------------
(* Properties                                                              *)

Seen(r) == {used[r][i] : i \in 1 .. Len(used[r])}

\* The loops share the values out: no value is dereferenced twice, by prefix
\* or postfix increments, and an iterator equals end() only when the queue is
\* closed and drained; when all loops have ended they have seen everything
\* that was written.
LoopsShareValues ==
  /\ \A r \in Poppers :
       /\ \A i, j \in 1 .. Len(used[r]) : used[r][i] = used[r][j] => i = j
       /\ \A q \in Poppers \ {r} : Seen(r) \cap Seen(q) = {}
       /\ at[r] = "end" => closed /\ queue = <<>> /\ InLine("push") = {}
  /\ (\A r \in Poppers : at[r] = "end") => UNION {Seen(r) : r \in Poppers} = 1 .. pushed

\* After close() every loop that has begun, or begins later, reaches end(), also
\* one that waits in pop_value(); a loop never goes back to begin().
LoopsEnd == closed ~> (\A r \in Poppers : at[r] \in {"begin", "end"})
=============================================================================
