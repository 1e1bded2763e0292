# A TLA+ verification of Evenk

Evenk is a header-only C++14 library of locks, condition variables, queues,
tasks and a thread pool. This directory holds TLA+ models of its concurrent
parts, TLC configurations that check them on small instances, and proofs,
checked by TLAPS, that hold for every value of the constants.

## The system

| part | source | state | operations |
|---|---|---|---|
| bounded queue | `bounded_queue.h` | ring of slots (token and value), `head_`, `tail_`, `closed_`, `last_` | `wait_push`, `wait_pop`, `try_push`, `try_pop`, `push`, `value_pop`, `close`, `is_empty`, `is_full` |
| slots | `bounded_queue.h` | one 32-bit token: ticket, status, waiting and closed flags; `synch` adds a lock and a condition variable | `load`, `wait`, `wake`, `close` |
| futex calls | `futex.h` | the kernel's sleepers of a word | wait, wake, requeue |
| `futex_lock`, `lock_guard` | `synch.h` | a word: 0 free, 1 locked, 2 locked with sleepers; `owns_lock_` | `lock`, `try_lock`, `unlock` |
| `futex_cond_var` | `synch.h` | sequence number, count of waiters, owner lock | `wait`, `notify_one`, `notify_all` |
| synchronized queue | `synch_queue.h` | a deque and a closed flag under one lock and condition variable | `push`, `wait_pop`, `try_push`, `try_pop`, `nonblocking_push`, `nonblocking_pop`, `close` |
| spinning locks | `spinlock.h` | a flag, or head and tail counters, packed for readers and writers in the shared lock | `lock`, `try_lock`, `unlock`, shared variants |
| thread pool | `thread_pool.h` | flags, threads, a queue of tasks, the lock that joins are made under | `submit`, `stop`, `wait`, construction and destruction; `work` in every worker |
| task, trivial_task | `task.h` | target memory, helper, allocator | construct, move, assign, swap, call, destroy |
| queue interface, iterators | `conqueue.h` | a pointer to a queue, a cached value | forwarding, iteration |
| backoff, thread, basic | `backoff.h`, `thread.h`, `basic.h` | local | pauses, thread wrapper, allocation |

The queues stand on the locks and the futex calls; the thread pool stands on a
queue and on tasks; the iterators stand on a queue. The modules follow this
structure: `Conqueue` says what a queue promises, `RingQueue` and `SynchQueue`
show that the two queues keep it, and `ThreadPool` and `QueueIterators` are
built on it.

```
          ThreadPool      QueueIterators      Task
                  \          /
                   Conqueue                   what a queue promises
                  /          \
        RingQueue              SynchQueue     implement it
            |                       |
      BoundedQueue             FutexSynch     TicketLock
```

What is hard here: threads of several laps that wait on one slot; a decision to
sleep taken on a token that has changed since; wake-ups between a check and a
system call; `close()` racing with pushes and pops; values whose assignment
throws; counters that wrap; waiters that `notify_all()` moves from one futex to
another; several threads that stop a pool, wait for it and destroy it at once;
moves that leave two owners of a target, or none. `PROJECT.json` lists these hazards at their lines, with the properties
that cover them.

## Modules

### BoundedQueue

The ring with all kinds of slots, one step per atomic access. Steps interleave
under sequential consistency: the code is built for x86-64 and changes tokens
with locked instructions or release stores that acquire loads read.

* Counters are kept as the number of tickets drawn. All that the code computes
  from them (`Ticket`, `Index`, `is_past_last`, `is_empty`, `is_full`) is
  computed from the word, the number modulo `CountMod` (2^32 in the code).
* `Unit` is `min_size` (16): the low bits of the ticket make room for flags.
* A token is a record of its bit fields. The value of a push is the number of
  its ticket; the code never looks into a value.
* `SlotKind` selects `spin` (`yield` does the same), `futex` or `synch`. The
  methods of a `synch` slot run under the lock of the slot and are one step.
* `op` holds what a thread executes: `pop` and `fill` are the first and the
  second loop of `wait_head()`, `again` is a pop that skips an invalid slot.
  `pc` is the place in it. `idle` is outside; a thread that was told *closed*,
  or has closed, is `done` and makes no further call, like the clients in the
  repository.
* `MaxTail` and `MaxHead` bound the tickets drawn by new calls.
* `Spec` has all operations but `try_push()`; `SpecTryPush` adds it as the code
  has it, which breaks the ring (see the findings).

### Conqueue

What a queue promises through the interface of `conqueue.h`: a closable
first-in first-out queue of at most `Capacity` values. Every operation takes
effect in one step. A push that finds the queue full and a pop that finds it
empty stand in line (`call` is `push` or `pop`) and are served by a later pop or
push; a push that stood in line when the queue was closed is still let in; a
consumer is told *closed* only when no value is left. The wrapper
`queue_wrapper` and the two ends `generic_queue_front` and `generic_queue_back`
forward to the queue.

### RingQueue

`BoundedQueue` with a history of the values taken out, and the refinement
mapping from it to `Conqueue`. A push takes effect when its ticket is drawn and
lies within `Size` of the head, that is before its slot is filled; a pop takes
effect when the tickets of both sides are drawn; `close()` takes effect when it
advances the tail. Pushes and pops with later tickets are those that stand in
line.

### FutexSynch

`futex_lock` under a `lock_guard`, and `futex_cond_var`, with the kernel's part
of the futex calls: a comparison that is atomic with falling asleep, an
arbitrary choice of the thread to wake up, requeueing, and interruptions. `on`
is the futex a thread sleeps on, which requeueing changes; `pc` is where it will
continue. `SynchNext` is the most general client: any thread makes any call
that its guard admits, and may notify with or without the lock. `MaxSeq` bounds
the notifications.

### SynchQueue

`synch_queue` composed with `FutexSynch`: an operation enters through the real
`lock()` (`try_lock()` if it is nonblocking), touches the deque, calls `wait()`,
`notify_one()` or `notify_all()`, and leaves through `unlock()`, all step by
step. Taking the front and removing it are two steps, so that delivery depends
on the lock. `MaxPush` bounds pushes, and nobody starts to close a queue that is
closed. `Abs` maps the queue to `Conqueue`: a value has left as soon as it is
taken, and a thread is told *closed* in the step that begins to give back the
lock. A
consumer that waits is not in line there but has yet to begin, since a
notification does not promise it the value.

### TicketLock

`shared_ticket_lock` on words of `Half * Half` values: exclusive tickets in the
low half, shared ones in the high half, with the carry between them. Without
readers it is `ticket_lock`. Loads and stores are steps of their own where the
code does not use one read-modify-write (`unlock()`, `try_lock()`). Nothing
bounds the number of acquisitions; the words wrap. `TicketAssumption` has the
limit on threads that `tests/shared-lock-test.cc` asserts. `MaxStale` bounds the
tickets that others draw during one attempt of `try_lock()`: an attempt compares
a head it loaded earlier with the tail, and if a half of the word came round in
between (2^16 tickets), it could enter a lock that is held. The bound is a guard
of `Draw`, so threads in the middle of an attempt may block one another there;
this is the bound and not the code, and deadlock is not checked in this run. A
thread blocked by it holds no ticket, so the liveness properties do not profit.

### ThreadPool

`thread_pool` on a `Conqueue`: workers that loop in `work()`, threads that
`submit()`, and managers of which `Main` creates and destroys the pool.
`close()` with its `fetch_or`, `shutdown()`, the guard on `join_lock_` and the
join of each thread are steps of their own. A task is the number of its push,
and to run it is one step. That a task can be moved out of the queue is taken
for granted here, although `task` fails at it (see the findings): the protocol
of the pool does not depend on how tasks move.

`Main` may destroy the pool at any moment, waited for or not. `queue_` goes
first (`alive`), with the step after it the virtual functions of `thread_pool`
(`Derived`), and then the base calls `stop()` and `wait()`. A thread that uses
what is gone by then has undefined behaviour: `UseGone` sets `fault`, and
nothing happens after that. `early` records whether the pool was destroyed
before any `wait()` had returned or with somebody else inside. No call begins
once the destructor has begun.

### QueueIterators

The input iterator (`pop_value()`, both increments, comparison with `end()`)
and the output iterator of `conqueue.h` on a `Conqueue`. Every reader runs a
loop from `begin()` to `end()` and chooses freely between the prefix and the
postfix increment.

### Task

`task` and `trivial_task`. An object records its helper, whether it would invoke
a target, what its memory holds and its allocator. Assignment and `swap()` call
each other through temporaries, so the calls under way are a stack that is
worked off one call at a time. A call that needs a temporary takes one that is
left (`TempLeft`, a bound). A construction may throw. `block` records the
allocator that a block came from and those that it was returned to.

### MC modules

`MCBoundedQueue`, `MCRingQueue`, `MCSynchQueue`, `MCTicketLock`, `MCClients`,
`MCThreadPool` and `MCTask` are instantiated by the configurations. Two of them
let the first state choose among clients that do not meet: `MCSynchQueue` runs
either `synch_queue` or the most general client of `FutexSynch`, with at most
`MaxAny` notifications; `MCClients` runs a thread pool, loops over iterators, or
a program that handles tasks. `MCThreadPool` and `MCTask` serve the runs that
end in a violation. `Symmetry` permutes threads of the same role and is used by the runs that check safety
only. `WordIsWide` states the room that a small word must leave, as 2^32 does:
less than half of it lies between two live tickets.

## Runs

| run | instance | states | shows |
|---|---|---|---|
| `ring_futex` | 2 producers, 2 consumers, 1 closer, futex slots, size 2, 3 tickets | 595,185 | `TypeOK`, `SlotExclusive`, `Delivery`, `ClosedRejects`, `NoLostWakeup`, `NothingLeftBehind` |
| `ring_try` | 2 producers, a consumer that also tries, another that only tries, 1 closer, spinning slots, throwing values | 206,573 | `SlotExclusive`, `Delivery`, `NoOverwrite`, `ObserversExact` |
| `ring_wrap` | 1 producer, 2 consumers, 1 closer, synch slots, a word of 8 values, 10 tickets | 173,144 | `SlotExclusive`, `Delivery`, `NoLostWakeup`, `NothingLeftBehind` across a wrap |
| `ring_live` | 2 producers, 1 consumer, 1 closer, futex slots, fair | 54,713 | `ImplementsConqueue`, `ConsumersReleased`, `PushCompletes` |
| `synch_queue` | 3 threads that make any call, 3 notifications; or 1 producer that also closes, 2 consumers of which one also tries, 2 pushes, 4 notifications, fair | 312,240 | `SynchTypeOK`, `MutualExclusion`, `LockWakesSleepers`, `NotifySeesWaiters` of both; `FifoDelivery`, `NobodyStranded`, `ClosedIsDrained`, `ImplementsConqueue`, `ConsumersReleased`, `ValuesConsumed` of the queue |
| `tickets` | 3 threads, a word of 16 values, unbounded acquisitions, fair | 226,000 | `WriterAlone`, `TicketsReturned`, `WritersServed`, `ReadersServed` |
| `clients` | a pool of 2 workers with 2 submitters, 2 managers, 2 tasks; or 2 writers, 2 readers, 3 values, both with capacity 1, fair; or 2 task objects, 2 targets, 2 allocators | 158,807 | `TornDownOnce`, `WaitMeansFinished`, `SafeAfterWait`, `WaitReturns`, `SubmitReturns`; `LoopsShareValues`, `LoopsEnd`; `OneOwner`, `BlocksFreedOnce` |
| `close_twice` | 2 closers | | violates `OnlyOneCloser` |
| `try_push_overwrites` | try_push next to push | | violates `NoOverwrite` |
| `task_moves` | 2 tasks | | violates `NoexceptMovable` |
| `destroy_running` | 1 worker, 1 submitter, 1 manager | | violates `QueueOutlivesUsers` |
| `task_allocator` | 2 tasks, 2 allocators | | violates `BlocksReturned` |

Bounds. A ring of two slots and three tickets has a full ring, a producer that
waits for a later lap, and two threads asleep on one slot; closing comes before,
between and after the pushes. Ten tickets on a word of eight wrap both counters,
and with a size of two each slot goes through five laps. Three threads on the
lock give a holder, a woken waiter and a requeued one; on the ticket lock they
give a writer between readers on both sides, and with a half of four values
three is the largest number of threads the code admits. Two consumers of the
synchronized queue, one of which may be at `try_pop()` when the other is
notified, are enough for a notification to reach a thread that finds nothing.
With a capacity of one and two tasks, a submitter stands in line while the other
one's task is in the queue and the pool is closed or destroyed; two managers
stop, wait and destroy in all orders. That more tasks make no difference to
safety is proved. Five temporaries are what one assignment of tasks needs until
it ends or fails, and two allocators show which one a block is returned to. Deadlock is not checked
where threads end (`done`) or stop at a bound.

Fairness. Every thread inside an operation and not asleep keeps running, and a
consumer calls `wait_pop()` again until it is told *closed*, as
`thread_pool::work()` and the consumers of `tests/queue-bench.cc` do. Nobody has
to push or close. Whoever holds a ticket lock unlocks it. In `synch_queue` a
thread receives finitely many signals: the lock is not a fair one, and a thread
that is interrupted for ever could keep it from others. In `clients` workers and readers keep running, a manager inside `stop()`,
`wait()` or the destructor goes on, and tasks end; nobody has to submit, stop,
wait, destroy or close.

### Findings

* `close()` is meant to let one caller pass, but compares its flag with a value
  that is never stored, so all pass (`close_twice`). `thread_pool` is not
  affected: its own flags let one caller through.
* `try_push()` advances `head_` instead of `tail_`; the next push overwrites the
  value (`try_push_overwrites`).
* The move assignment of `task` constructs a temporary and swaps, and `swap()`
  is `std::swap`, which constructs a temporary and assigns. They call each other
  until a move constructor is given a task that is already empty and calls its
  null helper (`task_moves`), although the class is said to be
  *noexcept-movable*. `wait_pop()` assigns a task in every round of
  `thread_pool::work()`. Move construction works, and `OneOwner` and
  `BlocksFreedOnce` hold of whatever is executed up to that call.
* A move of `task` leaves the allocator behind, where `task.h:63` says that it
  "moves along with the task data": a large task that was moved frees its block
  with a default-constructed allocator (`task_allocator`). For the stateless
  `std::allocator` the two are the same.
* The destructor of `thread_pool_base` calls `stop()` and `wait()`, but by then
  `thread_pool` and its queue are destroyed (`destroy_running`): unless somebody
  has waited, workers use a queue that is gone, or `close()` calls the pure
  virtual `shutdown()`. After a `wait()`, as in `tests/thread_pool-test.cc`, and
  with nobody inside, it is safe (`SafeAfterWait`).

Met while modelling and without a run of their own: a constructor of a target
that throws leaves the block of a large task allocated (`task.h:343`, the action
`ConstructThrows`), of which the documentation says nothing; after `close()` `is_empty()` of the
bounded queue is false of a queue without values, because `tail_` was advanced by
the size of the ring (`bounded_queue.h:315`); and `begin()` of
`generic_queue_front` and `generic_queue_back` passes `*this` to an iterator of
the underlying queue, which does not compile if it is instantiated.

## Proofs

All proofs hold for any sets of threads and any values of the constants that
satisfy the named assumptions (`RingAssumption`: the size is a multiple of the
unit and divides the word, as `create()` enforces; `RingQueueAssumption`: at
most one closer, nothing throws, nobody calls `try_push()`, and nobody who pops
pushes or closes;
`SynchAssumption`;
`TicketAssumption`: fewer threads than a half of the word can count;
`PoolAssumption`, `IteratorAssumption` and `ConqueueAssumption`: roles that
exclude one another and a positive capacity; `TaskAssumption`).

* `BoundedQueueProofs`: `TypeCorrect` and `NoLostWakeups`. `NoLostWakeup` is not
  inductive by itself: one must know that a thread asleep on a futex slot saw
  the waiting flag set (`MarkedInv`), so that whoever replaces the token finds
  the flag. No assumption on wraps is needed.
* `BoundedQueueProofs`, on the tickets: `RingExclusion`, `RingNeverOverwrites` and
  `RingDelivers`, that is `SlotExclusive`, `NoOverwrite` and `Delivery`, while
  fewer than `CountMod` tickets were drawn on either side (`NoWrap`). The
  invariant `RingInv` (`RingTickets`) says what a thread that was let in knows
  of its slot, that no ticket is drawn twice, that a slot at the turn of a push
  to come is empty, and that a filled slot holds the value of its ticket.
  Exclusion follows because slot and ticket determine the number of a ticket
  (`SameTicket`), and a slot cannot be empty for a producer and filled for a
  consumer. Whether it survives wraps is model-checked (`ring_wrap`).
* `BoundedQueueClosing`: `RingRejectsAfterClose`, `RingDrains` and
  `RingObservers`, that is `ClosedRejects`, `NothingLeftBehind` and
  `ObserversExact`, with any number of callers of `close()`. The first of them
  finds `tail_` at some L and takes the `Size` tickets from L on out of use.
  Each slot has exactly one of these, nobody ever holds it, and so the slot
  stays empty at that turn for ever (`GapInv`, and `EndInv` in `RingEnds`): a
  push with a later ticket never gets its turn. For the values before the gap
  one has to know that a head ticket, once drawn, is held until its slot is
  passed on (`Held`), and that nobody who pops is told *closed* before the head
  has reached L (`LeftInv`); so when the consumers have all left, every slot has
  passed its values on. Before `close()` the turn of a slot is at most a lap
  ahead of either counter and undelivered tickets are held by somebody
  (`OpenInv`), so that with nobody inside the occupied slots are those of the
  tickets between head and tail. `RingDrains` needs `NoHalfWrap`, fewer than
  2^31 tickets: `is_past_last()` takes the sign of a 32-bit difference. It also
  assumes a consumer, and consumers that neither push nor close: a thread that
  was told *closed* as a producer, or that has closed, stops calling without
  the queue being drained. `RingObservers` needs the tail a lap from its wrap
  (`Room`) and a ring of less than 2^31 slots, for the signed difference in
  `is_empty()`. All steps of the code are first reduced to the
  six things a step can do to the tickets (`Effect`), and the invariant is shown
  for these. `BoundedQueueSteps` has the definitions.
* `RingQueueProofs`: `RingImplements`, the ring implements `Conqueue` under the
  mapping of `RingQueue`, for any size of at most 2^31 and any producers,
  consumers and threads that try to pop, with at most one closer. It needs that
  nothing throws (an invalid slot has no counterpart in `Conqueue`) and that
  fewer than 2^31 tickets are drawn (`NoHalfWrap`). A second closer
  would move the end of the queue (see the findings). The difficulty is that one step of the ring may complete
  the operation of another thread: a push that draws ticket n may let in the
  consumer with ticket n, a pop that draws n the producer with n + `Size`. That
  such a thread is there follows from `Held` and `Filled`, that it is the only
  one from `RingInv`. The invariant `RefInv` adds to these that whoever was let
  into a slot has a ticket that the mapping counts as effective (`PassInv`), and
  that the closing goes through two phases: nobody was told anything
  (`OpenPhase`), or the one closer has found the tail at L and the mapping ends
  the queue there (`ClosedPhase`). `RingQueueViews` has the part of the argument
  that is the same in both phases: what the abstract queue does depends only on
  how many tickets are effective and where the last one is (`Shows`).
* `SynchProofs`, on the lock and the condition variable: `SynchTypeCorrect`, `LockExcludes`, `SleepersAreWoken`,
  `NotifiersSeeWaiters`. Exclusion is inductive together with *the word is 0
  exactly when nobody holds the lock* (`HeldInv`). `LockWakesSleepers` is
  inductive given the types and that sleepers are at one of the two calls of
  `futex_wait()` (`SleepInv`). `NotifySeesWaiters` follows from `WaitInv`:
  `count_` is the number of threads between its increment and its decrement.
* `SynchProofs`, on the queue: `SynchQueueImplements`, `SynchQueueFifo` and
  `SynchQueueDrained`. Every step of the queue is one of `FutexSynch` or leaves
  it alone, so the lock excludes. `QueueInv` says that a thread between taking
  the front and removing it holds the lock. Then there is one such thread at
  most, the front it took is the one it removes, and every step is a step of
  `Conqueue` or a stutter under the mapping `Abs`. `FifoInv` describes the queue
  as the latest pushes and what was got as the earlier ones. `SynchQueueDrained`
  assumes that no thread both pushes and pops: a producer that was told *closed*
  leaves values behind.
* `SynchProofs`, on the wake-ups: `SynchQueueStrandsNobody`, for finitely many threads. A
  push notifies one thread, which may be overtaken, so that no thread is tied to
  a value. The invariant counts: while somebody sleeps on the condition
  variable, the values in the queue are no more than the threads that will look
  at the queue before they sleep, hold a value to remove or are about to notify
  (`ComersInv`). A thread may be about to sleep only while the queue is empty
  and open (`PreparedInv`), and whoever still sleeps on a closed queue has a
  `notify_all()` to come (`CloseWakes`).
* `TicketLockProofs`: `TicketExclusion` and `TicketBalance`,
  without a bound on the acquisitions. The invariant `TicketInv` has two parts.
  `LineInv` gives every thread that holds a ticket a rank, the number of
  exclusive tickets before its own: `tail_` is `head_` advanced by the tickets
  that are out, both halves with their carry, the ranks of writers are distinct
  and without gaps, and each waiting thread's own word is `head_` advanced by
  its rank. Since there are fewer threads than a half can count, no half comes
  round between `head_` and `tail_`, so that a thread whose word equals that of
  `head_` has rank 0. `TryInv` covers `try_lock()`, which compares words of
  different moments: the tickets drawn since the load are too few for `tail_`
  to be equal by accident, so that equality means that nothing is out. That is
  where `MaxStale` is used. The ranks are an existential and not a variable of
  the model.
* `ClientProofs`: what a client may rely on when it uses a queue is `QueueInv`.
  Every value accepted is in the queue or was given to one thread, once, and
  pushes stand in line only at a full queue; so whoever finds the queue closed
  and empty finds it so for ever.
  `PoolTornDownOnce`, `PoolSafeAfterWait` and `PoolWaitMeansFinished` hold
  for any workers, submitters and managers, whenever the pool is destroyed.
  `PoolInv` says that whoever is about
  to close the queue is alone, that whoever holds `join_lock_` has joined all
  threads but those it has yet to join, that a thread joined has ended, and that
  unless the pool was destroyed too early only `Main` is still active once the
  queue is gone, and finds the flags set (`GoneInv`).
  `TaskInv` says that a worker has run what it was given but for one task, and
  ends only if the pool is stopped or the queue is closed and drained. The last
  theorem assumes a worker: without one `wait()` returns at once and leaves the
  tasks.
  `IteratorsShareValues` holds for any readers and writers. `LoopInv` says that
  a reader has dereferenced what it was given, in order, but for the one value
  that `value_` holds or a postfix increment has copied (`Pending`), and that an
  iterator forgets its queue only when the queue is drained. It assumes a
  reader, without which nobody sees the values.
* `TaskProofs`: `TasksHaveOneOwner` and `TasksFreeBlocksOnce`, for any number of
  objects, targets and temporaries. Ownership is inductive over the single
  calls (`OwnInv`) as long as each works on objects that exist and a move has
  two different ones. That in turn is a property of the stack of calls
  (`CallInv`): only the innermost call constructs an object, whatever is called
  later finds it, and nothing is called on an object after its destructor. The
  expansion of an assignment or of a swap into construct, call and destroy
  keeps it at any depth.

Only model-checked: all liveness properties (fairness and `ENABLED` are beyond
the prover), and what the ring keeps across a wrap of its counters other than
its types and wake-ups (`ring_wrap`).

## Not modelled

* `posix_mutex`, `posix_cond_var`, `std_synch`, `thread`, `basic`: thin wrappers
  of library and system calls.
* `spin_lock` and `tatas_lock`: one atomic flag each, whose exclusion is the
  atomicity of the `exchange` or `test_and_set` itself. A model would restate it.
* Backoff policies: they pause and count rounds locally. What others can observe
  is the decision to go round or to wait, which the models leave free.
* The single-threaded `counter`: with one thread on a side it does what the
  atomic counter does. Closing such a queue from another thread is a data race.
* Weaker memory orders than x86-64 gives.
* The comparing `futex_requeue()`, which nothing calls, and the nonblocking
  operations of `bounded_queue`, which are compiled out (`#if 0`).
* `is_empty()`, `is_full()` and `is_closed()` of `synch_queue`, which read under
  the lock and change nothing; constructors and moves of queues, which run
  before or after threads share them.
* Tasks that themselves submit to their pool.
* More than half the values of a word between two live tickets, and 2^32
  notifications during one wait. Attempts of `try_lock()` on a ticket lock that
  last until a half of the word comes round.
