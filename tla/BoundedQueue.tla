---------------------------- MODULE BoundedQueue ----------------------------
(***************************************************************************)
(* The ring of evenk/bounded_queue.h: a bounded concurrent queue in which  *)
(* producers and consumers draw tickets from two counters and then wait on *)
(* a slot of the ring until it is their turn.                              *)
(*                                                                         *)
(* Every atomic access of the code is one step here, and steps of          *)
(* different threads interleave freely (sequential consistency, which the  *)
(* x86-64 target gives to the locked instructions used on the tokens).     *)
(* Counters are kept as the number of increments made so far; everything   *)
(* the code computes from them it computes from the 32-bit word, which is  *)
(* that number modulo CountMod.                                            *)
(*                                                                         *)
(* The payload of a push is abstracted to the ticket it was given: the     *)
(* code never looks into a value, and the ticket names the push uniquely.  *)
(***************************************************************************)
EXTENDS Integers, FiniteSets

CONSTANTS
  Producers,    \* threads that call wait_push (push forwards to it)
  Consumers,    \* threads that call wait_pop (value_pop forwards to it)
  TryPoppers,   \* threads that call try_pop
  TryPushers,   \* threads that call try_push
  Closers,      \* threads that call close
  SlotKind,     \* the Slot template argument; "spin" stands for yield as well
  Size,         \* the number of slots, mask_ + 1
  Unit,         \* the ticket granularity, detail::min_size
  CountMod,     \* the number of values of count_t
  MayThrow,     \* whether assigning a value_type may throw
  MaxTail,      \* bound: no push draws a tail ticket from MaxTail on
  MaxHead       \* bound: no pop draws a head ticket from MaxHead on

Threads == Producers \cup Consumers \cup TryPoppers \cup TryPushers \cup Closers

\* create() rejects a size below min_size or not a power of two, so Unit
\* divides Size and Size divides 2^32.
ASSUME RingAssumption ==
  /\ SlotKind \in {"spin", "futex", "synch"}
  /\ Unit \in Nat \ {0}
  /\ \E k \in 1 .. CountMod : Size = k * Unit
  /\ CountMod \in Nat \ {0}
  /\ \E k \in 1 .. CountMod : CountMod = k * Size
  /\ MayThrow \in BOOLEAN
  /\ MaxTail \in Nat
  /\ MaxHead \in Nat

VARIABLES
  head, tail,   \* tickets drawn so far on either side
  closed, last, \* closed_ and last_
  slot,         \* the token of every slot
  val,          \* the value of every slot
  pc,           \* where every thread is
  op,           \* the operation it executes
  cnt,          \* its local count
  tok,          \* its local token t, while t is live
  idx           \* the loop index of close()

ring == <<head, tail, closed, last>>
mem == <<slot, val>>
vars == <<head, tail, closed, last, slot, val, pc, op, cnt, tok, idx>>

Slots == 0 .. Size - 1

\* Mutant: the ticket keeps only the bits of mask_, so laps look alike.
TicketNarrow(n) == ((n % Size) \div Unit) * Unit

\* count & ticket_mask, on the 32-bit word of count
Ticket(n) == ((n % CountMod) \div Unit) * Unit

\* count & mask_; Size divides CountMod, so the word has the same residue
Index(n) == n % Size

Token(ticket, status) ==
  [ticket |-> ticket, status |-> status, waiting |-> FALSE, closed |-> FALSE]

NoToken == Token(0, "none")

\* A value that was never written or was moved from.
Moved == -1

\* The slot a thread works on, bound when its operation computes slot.
At(t) == Index(cnt[t])

\* make_signed_t<count_t>(a - b) <= 0
SignedLeqZero(d) == LET w == d % CountMod IN w = 0 \/ w >= CountMod \div 2

\* Mutant: the queue ends one ticket early.
IsPastLastEarly(n) == closed = "closed" /\ SignedLeqZero(last - n - 1)

\* Mutant: < 0 for <= 0.
IsPastLastLate(n) == closed = "closed" /\ SignedLeqZero(last - n + 1)

\* Mutant: the words are compared without the signed difference.
IsPastLastUnsigned(n) == closed = "closed" /\ last % CountMod <= n % CountMod

is_past_last(n) == closed = "closed" /\ SignedLeqZero(last - n)

Init ==
  /\ head = 0
  /\ tail = 0
  /\ closed = "open"
  /\ last = 0
  /\ slot = [s \in Slots |-> Token(Ticket(s), "none")]
  /\ val = [s \in Slots |-> Moved]
  /\ pc = [t \in Threads |-> "idle"]
  /\ op = [t \in Threads |-> "none"]
  /\ cnt = [t \in Threads |-> 0]
  /\ tok = [t \in Threads |-> NoToken]
  /\ idx = [t \in Threads |-> 0]

-----------------------------------------------------------------------------
(* Control helpers.                                                        *)

\* The threads that sleep on slot s.
Sleepers(s) == {u \in Threads : pc[u] = "asleep" /\ At(u) = s}

\* Thread t moves to label l and every thread of W returns from its wait.
GotoWaking(t, l, W) ==
  pc' = [u \in Threads |-> IF u = t THEN l ELSE IF u \in W THEN "load" ELSE pc[u]]

Goto(t, l) == pc' = [pc EXCEPT ![t] = l]

\* Mutant: the loop of close() runs while i <= size.
ResumeOneMore(t) ==
  CASE op[t] = "again" -> "take"
    [] op[t] = "close" -> IF idx[t] <= Size THEN "close_slot" ELSE "done"
    [] OTHER -> "idle"

\* Where t continues once slot.wake() or slot.close() is through: the loop
\* of wait_pop after an invalid slot, the next slot of close(), or return.
\* A thread calls close() once.
Resume(t) ==
  CASE op[t] = "again" -> "take"
    [] op[t] = "close" -> IF idx[t] < Size THEN "close_slot" ELSE "done"
    [] OTHER -> "idle"

\* The locals of t die when its operation returns.
Forget(t) ==
  /\ op' = [op EXCEPT ![t] = "none"]
  /\ cnt' = [cnt EXCEPT ![t] = 0]
  /\ tok' = [tok EXCEPT ![t] = NoToken]
  /\ idx' = [idx EXCEPT ![t] = 0]

\* Continue at Resume(t), forgetting the locals if that is a return.
Settle(t) ==
  IF Resume(t) \in {"idle", "done"} THEN Forget(t)
  ELSE /\ tok' = [tok EXCEPT ![t] = NoToken]
       /\ UNCHANGED <<op, cnt, idx>>

\* An operation that returns without a further effect. A thread that was
\* told "closed" makes no further call, as the loops of the clients do.
Return(t, l) ==
  /\ Goto(t, l)
  /\ Forget(t)

-----------------------------------------------------------------------------
(* The loops of wait_tail and wait_head.                                   *)

\* Mutant: >= for = on tickets.
TicketSeenLoose(t, w) == op[t] = "fill" \/ w.ticket <= Ticket(cnt[t])

\* Mutant: wait_head skips its loop on the ticket.
TicketSeenByStatus(t, w) == op[t] # "push" \/ w.ticket = Ticket(cnt[t])

\* Whether the loop on the ticket is left with w as the current token. In
\* its second loop ("fill") wait_head looks at the status only.
TicketSeen(t, w) == op[t] = "fill" \/ w.ticket = Ticket(cnt[t])

\* Whether the loop that t is in goes round with w: it is not the turn of
\* t yet, or the slot that t is to pop from is not filled.
Stays(t, w) ==
  \/ ~TicketSeen(t, w)
  \/ op[t] # "push" /\ w.status = "none"

\* Thread t has read w from its slot and goes round its loop or leaves it.
Examine(t, w) ==
  /\ \/ /\ Stays(t, w)
        /\ Goto(t, "past")
        /\ tok' = [tok EXCEPT ![t] = w]
     \/ /\ ~Stays(t, w)
        /\ Goto(t, IF op[t] = "push" THEN "put"
                   ELSE IF w.status = "valid" THEN "get" ELSE "skip")
        /\ tok' = [tok EXCEPT ![t] = NoToken]
  /\ op' = [op EXCEPT ![t] = IF TicketSeen(t, w) /\ @ = "pop" THEN "fill" ELSE @]

\* slot.load(), on entry to the loops and after a sleep in slot.wait()
Load(t) ==
  /\ pc[t] = "load"
  /\ Examine(t, slot[At(t)])
  /\ UNCHANGED <<ring, mem, cnt, idx>>

\* is_past_last() in the loops: give up with "closed" or wait on the slot.
Past(t) ==
  /\ pc[t] = "past"
  /\ \/ is_past_last(cnt[t]) /\ Return(t, "done")
     \/ ~is_past_last(cnt[t]) /\ Goto(t, "wait") /\ UNCHANGED <<op, cnt, tok, idx>>
  /\ UNCHANGED <<ring, mem>>

\* The loop of wait_tail that takes a Backoff reloads without waiting until
\* the backoff reaches its ceiling.
Backoff(t) ==
  /\ pc[t] = "wait"
  /\ op[t] = "push"
  /\ Examine(t, slot[At(t)])
  /\ UNCHANGED <<ring, mem, cnt, idx>>

\* spin::wait() and yield::wait()
SpinWait(t) ==
  /\ SlotKind = "spin"
  /\ pc[t] = "wait"
  /\ Examine(t, slot[At(t)])
  /\ UNCHANGED <<ring, mem, cnt, idx>>

WithWaiting(w) == [w EXCEPT !.waiting = TRUE]

\* futex::wait(): the CAS that announces a waiter. It goes on to
\* futex_wait() if it succeeds, or if the flag was already set.
FutexMark(t) ==
  /\ SlotKind = "futex"
  /\ pc[t] = "wait"
  /\ LET x == WithWaiting(tok[t])
         w == slot[At(t)]
     IN  \/ /\ w \in {tok[t], x}
            /\ slot' = [slot EXCEPT ![At(t)] = x]
            /\ tok' = [tok EXCEPT ![t] = x]
            /\ Goto(t, "futex")
            /\ op' = op
         \/ /\ w \notin {tok[t], x}
            /\ Examine(t, w)
            /\ slot' = slot
  /\ UNCHANGED <<ring, val, cnt, idx>>

\* Mutant: futex_wait() does not compare.
FutexSleepBlind(t) ==
  /\ pc[t] = "futex"
  /\ Goto(t, "asleep")
  /\ UNCHANGED <<ring, mem, op, cnt, tok, idx>>

\* futex_wait(): the kernel compares and puts to sleep in one step, or
\* returns at once and futex::wait() reloads.
FutexSleep(t) ==
  /\ pc[t] = "futex"
  /\ Goto(t, IF slot[At(t)] = tok[t] THEN "asleep" ELSE "load")
  /\ UNCHANGED <<ring, mem, op, cnt, tok, idx>>

\* Mutant: synch::wait() does not look at the token under the lock.
SynchWaitBlind(t) ==
  /\ SlotKind = "synch"
  /\ pc[t] = "wait"
  /\ Goto(t, "asleep")
  /\ UNCHANGED <<ring, mem, op, cnt, tok, idx>>

\* synch::wait(): under the lock of the slot, wait on its condition variable
\* only if the token is still the one seen.
SynchWait(t) ==
  /\ SlotKind = "synch"
  /\ pc[t] = "wait"
  /\ \/ /\ slot[At(t)] = tok[t]
        /\ Goto(t, "asleep")
        /\ UNCHANGED <<op, tok>>
     \/ /\ slot[At(t)] # tok[t]
        /\ Examine(t, slot[At(t)])
  /\ UNCHANGED <<ring, mem, cnt, idx>>

\* A signal interrupts futex_wait(), or the condition variable wakes up
\* spuriously.
Interrupted(t) ==
  /\ pc[t] = "asleep"
  /\ Goto(t, "load")
  /\ UNCHANGED <<ring, mem, op, cnt, tok, idx>>

-----------------------------------------------------------------------------
(* slot.wake()                                                             *)

\* spin: a store. futex: an exchange, then futex_wake() if somebody
\* announced that it waits. synch: a store and notify_all under the lock.
Wake(t) ==
  /\ pc[t] = "wake"
  /\ slot' = [slot EXCEPT ![At(t)] = tok[t]]
  /\ \/ /\ SlotKind = "futex" /\ slot[At(t)].waiting
        /\ Goto(t, "signal")
        /\ UNCHANGED <<op, cnt, tok, idx>>
     \/ /\ SlotKind = "futex" => ~slot[At(t)].waiting
        /\ GotoWaking(t, Resume(t), IF SlotKind = "synch" THEN Sleepers(At(t)) ELSE {})
        /\ Settle(t)
  /\ UNCHANGED <<ring, val>>

\* Mutant: futex_wake(1).
SignalOne(t) ==
  /\ pc[t] = "signal"
  /\ \E W \in SUBSET Sleepers(At(t)) :
       /\ Cardinality(W) = IF Sleepers(At(t)) = {} THEN 0 ELSE 1
       /\ GotoWaking(t, Resume(t), W)
  /\ Settle(t)
  /\ UNCHANGED <<ring, mem>>

\* futex_wake(INT32_MAX), called from wake() and from close()
Signal(t) ==
  /\ pc[t] = "signal"
  /\ GotoWaking(t, Resume(t), Sleepers(At(t)))
  /\ Settle(t)
  /\ UNCHANGED <<ring, mem>>

-----------------------------------------------------------------------------
(* wait_push() and wait_pop()                                              *)

wait_push(t) ==
  /\ t \in Producers
  /\ pc[t] = "idle"
  /\ tail < MaxTail
  /\ tail' = tail + 1
  /\ cnt' = [cnt EXCEPT ![t] = tail]
  /\ op' = [op EXCEPT ![t] = "push"]
  /\ Goto(t, "load")
  /\ UNCHANGED <<head, closed, last, mem, tok, idx>>

\* Entered by the call, and again by its loop after an invalid slot.
wait_pop(t) ==
  /\ \/ t \in Consumers /\ pc[t] = "idle"
     \/ pc[t] = "take"
  /\ head < MaxHead
  /\ head' = head + 1
  /\ cnt' = [cnt EXCEPT ![t] = head]
  /\ op' = [op EXCEPT ![t] = "pop"]
  /\ Goto(t, "load")
  /\ UNCHANGED <<tail, closed, last, mem, tok, idx>>

\* The assignment in put_value(), which may throw and then leaves an
\* invalid slot behind. slot.wake() follows.
put_value(t) ==
  /\ pc[t] = "put"
  /\ \/ /\ val' = [val EXCEPT ![At(t)] = cnt[t]]
        /\ tok' = [tok EXCEPT ![t] = Token(Ticket(cnt[t]), "valid")]
     \/ /\ MayThrow
        /\ val' = [val EXCEPT ![At(t)] = Moved]
        /\ tok' = [tok EXCEPT ![t] = Token(Ticket(cnt[t]), "invalid")]
  /\ Goto(t, "wake")
  /\ UNCHANGED <<ring, slot, op, cnt, idx>>

\* token + mask_ + 1
NextLap(n) == Token((Ticket(n) + Size) % CountMod, "none")

\* The move out of the slot in get_value(). Whether or not it throws, the
\* slot is moved from and slot.wake() follows.
get_value(t) ==
  /\ pc[t] = "get"
  /\ val' = [val EXCEPT ![At(t)] = Moved]
  /\ tok' = [tok EXCEPT ![t] = NextLap(cnt[t])]
  /\ Goto(t, "wake")
  /\ UNCHANGED <<ring, slot, op, cnt, idx>>

\* Mutant: slot.wake(t + mask_ + 1), which keeps the status of t.
SkipKeepsStatus(t) ==
  /\ pc[t] = "skip"
  /\ tok' = [tok EXCEPT ![t] = [NextLap(cnt[t]) EXCEPT !.status = "invalid"]]
  /\ op' = [op EXCEPT ![t] = IF @ = "fill" THEN "again" ELSE @]
  /\ Goto(t, "wake")
  /\ UNCHANGED <<ring, mem, cnt, idx>>

\* An invalid slot: wait_pop() releases it and draws another ticket,
\* try_pop() releases it and returns "empty".
Skip(t) ==
  /\ pc[t] = "skip"
  /\ tok' = [tok EXCEPT ![t] = NextLap(cnt[t])]
  /\ op' = [op EXCEPT ![t] = IF @ = "fill" THEN "again" ELSE @]
  /\ Goto(t, "wake")
  /\ UNCHANGED <<ring, mem, cnt, idx>>

-----------------------------------------------------------------------------
(* try_pop() and try_push()                                                *)

\* head_.load()
try_pop(t) ==
  /\ t \in TryPoppers
  /\ pc[t] = "idle"
  /\ cnt' = [cnt EXCEPT ![t] = head]
  /\ op' = [op EXCEPT ![t] = "try_pop"]
  /\ Goto(t, "try_load")
  /\ UNCHANGED <<ring, mem, tok, idx>>

\* tail_.load()
try_push(t) ==
  /\ t \in TryPushers
  /\ pc[t] = "idle"
  /\ cnt' = [cnt EXCEPT ![t] = tail]
  /\ op' = [op EXCEPT ![t] = "try_push"]
  /\ Goto(t, "try_load")
  /\ UNCHANGED <<ring, mem, tok, idx>>

\* Mutant: try_pop() does not test the ticket.
TryLoadStatusOnly(t) ==
  /\ pc[t] = "try_load"
  /\ LET w == slot[At(t)]
         ready == w.status # "none"
     IN  /\ Goto(t, IF ready THEN "try_cas" ELSE "try_past")
         /\ tok' = [tok EXCEPT ![t] = IF ready THEN w ELSE NoToken]
  /\ UNCHANGED <<ring, mem, op, cnt, idx>>

\* slot.load() and the test on it
TryLoad(t) ==
  /\ pc[t] = "try_load"
  /\ LET w == slot[At(t)]
         ready == /\ w.ticket = Ticket(cnt[t])
                  /\ op[t] = "try_pop" => w.status # "none"
     IN  /\ Goto(t, IF ready THEN "try_cas" ELSE "try_past")
         /\ tok' = [tok EXCEPT ![t] = IF ready THEN w ELSE NoToken]
  /\ UNCHANGED <<ring, mem, op, cnt, idx>>

\* Not ready: "closed" if the ticket is past the last one, else "empty".
TryPast(t) ==
  /\ pc[t] = "try_past"
  /\ Return(t, IF is_past_last(cnt[t]) THEN "done" ELSE "idle")
  /\ UNCHANGED <<ring, mem>>

\* Mutant: a plain store of count + 1 for the CAS.
TryCasStore(t) ==
  /\ pc[t] = "try_cas"
  /\ head' = cnt[t] + 1
  /\ tok' = [tok EXCEPT ![t] = NoToken]
  /\ Goto(t, IF tok[t].status = "valid" THEN "get" ELSE "skip")
  /\ UNCHANGED <<tail, closed, last, mem, op, cnt, idx>>

\* head_.try_increment(count), which both try_pop() and try_push() call.
\* The comparison is on words, so t may own a later lap than it read.
TryCas(t) ==
  /\ pc[t] = "try_cas"
  /\ \/ /\ head % CountMod = cnt[t] % CountMod
        /\ head < MaxHead
        /\ head' = head + 1
        /\ cnt' = [cnt EXCEPT ![t] = IF op[t] = "try_pop" THEN head ELSE @]
        /\ tok' = [tok EXCEPT ![t] = NoToken]
        /\ Goto(t, IF op[t] = "try_push" THEN "put"
                   ELSE IF tok[t].status = "valid" THEN "get" ELSE "skip")
        /\ UNCHANGED <<op, idx>>
     \/ /\ head % CountMod # cnt[t] % CountMod
        /\ Return(t, "idle")
        /\ head' = head
  /\ UNCHANGED <<tail, closed, last, mem>>

-----------------------------------------------------------------------------
(* close()                                                                 *)

\* closed_.compare_exchange_strong(closing, open): the code returns if the
\* flag is "closing" and goes on otherwise.
CloseCas(t) ==
  /\ t \in Closers
  /\ pc[t] = "idle"
  /\ LET hit == closed = "closing"
     IN  /\ closed' = IF hit THEN "open" ELSE closed
         /\ Goto(t, IF hit THEN "idle" ELSE "close_tail")
         /\ op' = [op EXCEPT ![t] = IF hit THEN "none" ELSE "close"]
  /\ UNCHANGED <<head, tail, last, mem, cnt, tok, idx>>

\* Mutant: tail_.load(), without the gap of size tickets.
CloseTailLoad(t) ==
  /\ pc[t] = "close_tail"
  /\ cnt' = [cnt EXCEPT ![t] = tail]
  /\ Goto(t, "close_last")
  /\ UNCHANGED <<head, tail, closed, last, mem, op, tok, idx>>

\* tail_.fetch_add(size)
CloseTail(t) ==
  /\ pc[t] = "close_tail"
  /\ tail' = tail + Size
  /\ cnt' = [cnt EXCEPT ![t] = tail]
  /\ Goto(t, "close_last")
  /\ UNCHANGED <<head, closed, last, mem, op, tok, idx>>

\* The store to last_, which is not atomic
CloseLast(t) ==
  /\ pc[t] = "close_last"
  /\ last' = cnt[t]
  /\ Goto(t, "close_flag")
  /\ UNCHANGED <<head, tail, closed, mem, op, cnt, tok, idx>>

CloseFlag(t) ==
  /\ pc[t] = "close_flag"
  /\ closed' = "closed"
  /\ Goto(t, "close_slot")
  /\ UNCHANGED <<head, tail, last, mem, op, cnt, tok, idx>>

\* One round of the loop, slot.close(): nothing for spin, the closed flag
\* set atomically and a wake-up for futex and synch.
CloseSlot(t) ==
  /\ pc[t] = "close_slot"
  /\ LET n == last + idx[t]
         s == Index(n)
         i == idx[t] + 1
     IN  /\ slot' = IF SlotKind = "spin" THEN slot
                    ELSE [slot EXCEPT ![s].closed = TRUE]
         /\ \/ /\ SlotKind = "futex" /\ slot[s].waiting
               /\ Goto(t, "signal")
               /\ cnt' = [cnt EXCEPT ![t] = n]
               /\ idx' = [idx EXCEPT ![t] = i]
               /\ UNCHANGED <<op, tok>>
            \/ /\ SlotKind = "futex" => ~slot[s].waiting
               /\ i < Size
               /\ GotoWaking(t, "close_slot", IF SlotKind = "synch" THEN Sleepers(s) ELSE {})
               /\ cnt' = [cnt EXCEPT ![t] = n]
               /\ idx' = [idx EXCEPT ![t] = i]
               /\ UNCHANGED <<op, tok>>
            \/ /\ SlotKind = "futex" => ~slot[s].waiting
               /\ i = Size
               /\ GotoWaking(t, "done", IF SlotKind = "synch" THEN Sleepers(s) ELSE {})
               /\ Forget(t)
  /\ UNCHANGED <<ring, val>>

-----------------------------------------------------------------------------
\* The steps inside an operation.
Step(t) ==
  \/ Load(t) \/ Past(t) \/ Backoff(t) \/ SpinWait(t)
  \/ FutexMark(t) \/ FutexSleep(t) \/ SynchWait(t)
  \/ Wake(t) \/ Signal(t)
  \/ put_value(t) \/ get_value(t) \/ Skip(t)
  \/ TryLoad(t) \/ TryPast(t) \/ TryCas(t)
  \/ CloseTail(t) \/ CloseLast(t) \/ CloseFlag(t) \/ CloseSlot(t)

\* Every operation but try_push().
Next ==
  \E t \in Threads :
    \/ wait_push(t) \/ wait_pop(t) \/ try_pop(t) \/ CloseCas(t)
    \/ Step(t) \/ Interrupted(t)

Spec == Init /\ [][Next]_vars

\* With try_push() as the code has it.
NextTryPush == Next \/ \E t \in TryPushers : try_push(t)

SpecTryPush == Init /\ [][NextTryPush]_vars

\* The scheduler runs every thread that is inside an operation and not
\* asleep, and a consumer calls wait_pop() again until it is told "closed",
\* as the loops of thread_pool::work() and of tests/queue-bench.cc do.
\* Nothing makes a producer push or a closer close.
FairSpec ==
  /\ Spec
  /\ \A t \in Threads : WF_vars(Step(t))
  /\ \A t \in Consumers : WF_vars(wait_pop(t))

-----------------------------------------------------------------------------
(* Properties                                                              *)

Statuses == {"none", "valid", "invalid"}

Tokens == [ticket : Nat, status : Statuses, waiting : BOOLEAN, closed : BOOLEAN]

Labels ==
  {"idle", "done", "load", "past", "wait", "futex", "asleep", "wake", "signal",
   "put", "get", "skip", "take", "try_load", "try_past", "try_cas",
   "close_tail", "close_last", "close_flag", "close_slot"}

Ops == {"none", "push", "pop", "fill", "again", "try_pop", "try_push", "close"}

\* Every variable has its type; the index of close() stays within the ring,
\* and the flag never becomes "closing", which no store of the code writes.
TypeOK ==
  /\ head \in Nat
  /\ tail \in Nat
  /\ closed \in {"open", "closed"}
  /\ last \in Nat
  /\ slot \in [Slots -> Tokens]
  /\ val \in [Slots -> Nat \cup {Moved}]
  /\ pc \in [Threads -> Labels]
  /\ op \in [Threads -> Ops]
  /\ cnt \in [Threads -> Nat]
  /\ tok \in [Threads -> Tokens]
  /\ idx \in [Threads -> 0 .. Size]

\* t was let in by the token of its slot and has not passed the token on.
Owner(t) == pc[t] \in {"put", "get", "skip", "wake"}

\* No two threads are between the test of a slot's token and the store that
\* passes it on, so accesses to slot.value never race.
SlotExclusive ==
  \A t, u \in Threads : t # u /\ Owner(t) /\ Owner(u) => At(t) # At(u)

\* A consumer about to move the value out of its slot finds there the value
\* of the push that drew the same ticket number: nothing is lost, duplicated
\* or reordered.
Delivery ==
  \A t \in Threads : pc[t] = "get" => val[At(t)] = cnt[t]

\* A producer about to assign to a slot finds it empty, so it destroys no
\* value that was pushed with success.
NoOverwrite ==
  \A t \in Threads : pc[t] = "put" => slot[At(t)].status = "none"

\* Once closed_ is set no push whose ticket is past last_ gets into a slot:
\* the gap of size tickets that close() leaves in tail_ is never filled.
ClosedRejects ==
  closed = "closed" => \A t \in Threads : pc[t] = "put" => cnt[t] < last

\* A thread sleeps only on the token it saw, still marked for futex_wake(),
\* or a thread that replaced the token is about to wake it up.
NoLostWakeup ==
  \A t \in Threads : pc[t] = "asleep" =>
    \/ slot[At(t)] = tok[t]
    \/ \E u \in Threads : pc[u] = "signal" /\ At(u) = At(t)

Occupied == {s \in Slots : slot[s].status # "none"}

\* When every consumer was told "closed" and no thread is inside a slot, all
\* that was pushed has been popped.
NothingLeftBehind ==
  (\A c \in Consumers : pc[c] = "done") /\ (\A t \in Threads : ~Owner(t))
    => Occupied = {}

is_empty == SignedLeqZero(tail - head)

\* Mutant: >= for >.
IsFullEarly == (tail - head) % CountMod >= Size - 1

\* The signed difference is compared with the unsigned mask_.
is_full == (tail - head) % CountMod > Size - 1

\* With no operation in progress on an open queue, is_empty() and is_full()
\* tell exactly whether no slot or every slot is occupied.
ObserversExact ==
  (\A t \in Threads : pc[t] = "idle") /\ closed = "open"
    => /\ is_empty <=> Occupied = {}
       /\ is_full <=> Occupied = Slots

\* Only one thread gets beyond the CAS of close().
OnlyOneCloser ==
  \A t, u \in Threads : op[t] = "close" /\ op[u] = "close" => t = u

\* After close() every consumer gets its remaining values and then "closed".
ConsumersReleased ==
  (closed = "closed") ~> (\A c \in Consumers : pc[c] = "done")

\* With consumers at work, every push returns.
PushCompletes ==
  \A p \in Producers : (op[p] = "push") ~> (op[p] = "none")
=============================================================================
