------------------------- MODULE BoundedQueueProofs -------------------------
(***************************************************************************)
(* The types of the ring, its wake-ups and its ticket discipline, for      *)
(* every size, every word width and any sets of threads.                   *)
(*                                                                         *)
(* The index of close() is within the ring because the loop leaves it      *)
(* (IdxOK). NoLostWakeup is inductive once it is known that a thread that  *)
(* sleeps on a futex slot has seen its waiting flag set (MarkedInv): then  *)
(* whoever replaces the token finds the flag, and goes on to futex_wake(). *)
(*                                                                         *)
(* RingInv is the inductive invariant behind exclusion, delivery and the   *)
(* absence of overwrites.  It says of every thread what its slot looks     *)
(* like when it is let in (PushInv, PopInv, TryInv), that no ticket is     *)
(* drawn twice (PairInv), that a slot at the turn of a push still to come  *)
(* is empty (FreshInv), and that a filled slot holds the value of the push *)
(* with its ticket (StoredInv).                                            *)
(***************************************************************************)
EXTENDS BoundedQueue, TLAPS

\* What create() and the types of the counters guarantee of the constants.
LEMMA ConstantFacts ==
  /\ Size \in Nat \ {0}
  /\ Unit \in Nat \ {0}
  /\ CountMod \in Nat \ {0}
  /\ MaxTail \in Nat
  /\ MaxHead \in Nat
  BY RingAssumption

\* The order of the numbers, where it is needed next to the state of threads
LEMMA Ordered ==
  \A k, m, n \in Nat : /\ n <= n /\ ~(n < n) /\ n < n + 1 /\ n <= n + 1 /\ n >= n
                       /\ m <= n => ~(n < m)
                       /\ (m <= n \/ m < n) /\ n < k => m < k
                       /\ m < n => m < n + 1
  OBVIOUS

\* What follows a number is a number.
LEMMA FromNumber == \A m \in Nat, b \in Nat \ {0} : \A n \in m .. b - 1 : n \in Nat
  OBVIOUS

\* What is known of k after a counter went from m to n
Below(k, m, n) ==
  /\ k < m => k < n
  /\ k <= m => k <= n /\ (n = k => m = k)

\* A number below a counter stays below it when the counter grows.
LEMMA Monotone ==
  \A k, m, n \in Nat : m <= n => Below(k, m, n)
  BY DEF Below

\* The values of a word are numbers.
LEMMA BelowMod ==
  \A n \in 0 .. CountMod - 1 : n \in Nat /\ n < CountMod
  BY ConstantFacts

\* A number of tickets before the counters wrap
LEMMA BeforeWrap ==
  \A m, n \in Nat : m < CountMod /\ n < CountMod =>
    /\ n \in 0 .. CountMod - 1 /\ n % CountMod = n
    /\ m % CountMod = n % CountMod => m = n
  BY ConstantFacts

\* count & mask_ is the index of a slot.
LEMMA IndexType == \A n \in Nat : Index(n) \in Slots
  BY ConstantFacts DEF Index, Slots

\* count & ticket_mask is a number.
LEMMA TicketType == \A n \in Nat : Ticket(n) \in Nat
<1> SUFFICES ASSUME NEW n \in Nat PROVE Ticket(n) \in Nat
  OBVIOUS
<1>1. n % CountMod \in Nat
  BY ConstantFacts
<1>2. (n % CountMod) \div Unit \in Nat
  BY <1>1, ConstantFacts
<1> QED
  BY <1>2, ConstantFacts DEF Ticket

\* A multiple of s strictly between -s and s is 0.
LEMMA MultipleBound ==
  ASSUME NEW d \in Int, NEW s \in Nat \ {0}, d * s < s, -s < d * s
  PROVE  d = 0
<1>1. CASE d >= 1
  <2>1. (d - 1) * s >= 0
    BY <1>1
  <2> QED
    BY <2>1
<1>2. CASE d <= -1
  <2>1. (-1 - d) * s >= 0
    BY <1>2
  <2> QED
    BY <2>1
<1> QED
  BY <1>1, <1>2

\* Slot and ticket together determine a count below CountMod: the bits that
\* ticket_mask drops are among those that select the slot.
LEMMA SameTicket ==
  ASSUME NEW m \in Nat, NEW n \in Nat, m < CountMod, n < CountMod,
         Index(m) = Index(n), Ticket(m) = Ticket(n)
  PROVE  m = n
<1> DEFINE a == m \div Unit
           b == n \div Unit
           p == m \div Size
           q == n \div Size
<1>1. m % CountMod = m /\ n % CountMod = n
  BY ConstantFacts
<1>2. PICK k \in Nat : Size = k * Unit /\ k >= 1
  BY RingAssumption
<1>3. /\ m = a * Unit + (m % Unit) /\ m % Unit \in 0 .. Unit - 1
      /\ n = b * Unit + (n % Unit) /\ n % Unit \in 0 .. Unit - 1
      /\ a \in Nat /\ b \in Nat
  BY ConstantFacts
<1>4. /\ m = p * Size + (m % Size) /\ n = q * Size + (n % Size)
      /\ p \in Nat /\ q \in Nat
  BY ConstantFacts
<1>5. a * Unit = b * Unit
  BY <1>1 DEF Ticket
<1>6. m - n < Unit /\ n - m < Unit
  BY <1>3, <1>5, ConstantFacts
<1>7. Unit <= Size
  BY <1>2, ConstantFacts
<1>8. m - n = (p - q) * Size
  BY <1>4, ConstantFacts DEF Index
<1>9. p = q
  <2>1. p - q \in Int /\ (p - q) * Size < Size /\ -Size < (p - q) * Size
    BY <1>6, <1>7, <1>8, <1>4, ConstantFacts
  <2>2. p - q = 0
    BY <2>1, MultipleBound, ConstantFacts
  <2> QED
    BY <2>2, <1>4
<1> QED
  BY <1>8, <1>9, <1>4, ConstantFacts

IdxOK ==
  \A t \in Threads :
    /\ ~(pc[t] = "signal" /\ op[t] = "close") => idx[t] < Size
    /\ pc[t] \in {"close_tail", "close_last", "close_flag", "close_slot"} => op[t] = "close"

\* The inductive strengthening of TypeOK.
TypeInv == TypeOK /\ IdxOK

\* Token() makes tokens.
LEMMA TokenType ==
  \A n \in Nat, s \in Statuses : Token(n, s) \in Tokens
  BY DEF Token, Tokens

\* token + mask_ + 1 is a token.
LEMMA NextLapType == \A n \in Nat : NextLap(n) \in Tokens
<1> SUFFICES ASSUME NEW n \in Nat PROVE NextLap(n) \in Tokens
  OBVIOUS
<1>1. (Ticket(n) + Size) % CountMod \in Nat
  BY TicketType, ConstantFacts
<1> QED
  BY <1>1, TokenType DEF NextLap, Statuses

\* The constructor establishes the types.
LEMMA InitType == Init => TypeInv
<1> SUFFICES ASSUME Init PROVE TypeInv
  OBVIOUS
<1>1. \A s \in Slots : s \in Nat /\ Ticket(s) \in Nat
  BY TicketType, ConstantFacts DEF Slots
<1>2. slot \in [Slots -> Tokens]
  BY <1>1, TokenType DEF Init, Statuses
<1>3. NoToken \in Tokens
  BY TokenType DEF NoToken, Statuses
<1> QED
  BY <1>2, <1>3, ConstantFacts DEF Init, TypeInv, TypeOK, IdxOK, Labels, Ops, Moved

\* The types of what a round of wait_tail() or wait_head() changes, and what
\* it leaves alone.
LEMMA ExamineType ==
  ASSUME TypeInv, NEW t \in Threads, NEW w \in Tokens, Examine(t, w),
         pc[t] # "signal"
  PROVE  /\ pc' \in [Threads -> Labels]
         /\ tok' \in [Threads -> Tokens]
         /\ op' \in [Threads -> Ops]
         /\ \A u \in Threads : u # t => pc'[u] = pc[u] /\ op'[u] = op[u] /\ tok'[u] = tok[u]
         /\ pc'[t] \in {"past", "put", "get", "skip"}
<1>1. NoToken \in Tokens
  BY TokenType DEF NoToken, Statuses
<1>2. w.status \in Statuses
  BY DEF Tokens
<1> QED
  BY <1>1, <1>2 DEF Examine, TypeInv, TypeOK, Goto, Labels, Ops, Statuses

\* The types of what the end of slot.wake() changes: t goes on, sleepers of W
\* return from their wait, and every other thread stays where it is.
LEMMA SettleType ==
  ASSUME TypeInv, NEW t \in Threads, Settle(t), pc[t] \in {"wake", "signal"},
         NEW W \in SUBSET {u \in Threads : pc[u] = "asleep"},
         GotoWaking(t, Resume(t), W)
  PROVE  /\ pc' \in [Threads -> Labels]
         /\ op' \in [Threads -> Ops]
         /\ cnt' \in [Threads -> Nat]
         /\ tok' \in [Threads -> Tokens]
         /\ idx' \in [Threads -> 0 .. Size]
         /\ IdxOK'
<1>1. NoToken \in Tokens
  BY TokenType DEF NoToken, Statuses
<1>2. Resume(t) \in {"take", "close_slot", "done", "idle"}
  BY DEF Resume
<1>3. pc' \in [Threads -> Labels]
  BY <1>2, SMTT(30), SMTT(60) DEF GotoWaking, TypeInv, TypeOK, Labels
<1>4. CASE Resume(t) \in {"idle", "done"}
  BY <1>1, <1>2, <1>3, <1>4, ConstantFacts
  DEF Settle, Forget, GotoWaking, TypeInv, TypeOK, IdxOK, Ops
<1>5. CASE Resume(t) \notin {"idle", "done"}
  <2>1. idx[t] < Size
    BY <1>5 DEF Resume, TypeInv, IdxOK
  <2>2. Resume(t) = "close_slot" => op[t] = "close"
    BY DEF Resume
  <2> QED
    BY ZenonT(60), <1>1, <1>2, <1>3, <1>5, <2>1, <2>2 DEF Settle, GotoWaking, TypeInv, TypeOK, IdxOK
<1> QED
  BY <1>4, <1>5

\* Every step of every operation preserves the types.
LEMMA NextType == TypeInv /\ [Next]_vars => TypeInv'
<1> SUFFICES ASSUME TypeInv, [Next]_vars PROVE TypeInv'
  OBVIOUS
<1>z. NoToken \in Tokens
  BY TokenType DEF NoToken, Statuses
<1>x. CASE UNCHANGED vars
  BY <1>x DEF TypeInv, TypeOK, IdxOK, vars
<1>y. ASSUME NEW t \in Threads,
             \/ wait_push(t) \/ wait_pop(t) \/ try_pop(t) \/ CloseCas(t)
             \/ Step(t) \/ Interrupted(t)
      PROVE  TypeInv'
  <2>a. At(t) \in Slots /\ cnt[t] \in Nat /\ slot[At(t)] \in Tokens
    BY Zenon, IndexType DEF At, TypeInv, TypeOK
  <2>1. CASE wait_push(t)
    BY <2>1, SMTT(30), SMTT(60) DEF wait_push, Goto, mem, TypeInv, TypeOK, IdxOK, Labels, Ops
  <2>2. CASE wait_pop(t)
    BY <2>2 DEF wait_pop, Goto, mem, TypeInv, TypeOK, IdxOK, Labels, Ops
  <2>3. CASE try_pop(t)
    BY Zenon, <2>3 DEF try_pop, Goto, mem, ring, TypeInv, TypeOK, IdxOK, Labels, Ops
  <2>4. CASE CloseCas(t)
    BY Zenon, <2>4 DEF CloseCas, Goto, mem, TypeInv, TypeOK, IdxOK, Labels, Ops
  <2>5. CASE Interrupted(t)
    BY Zenon, <2>5 DEF Interrupted, Goto, mem, ring, TypeInv, TypeOK, IdxOK, Labels
  <2>6. CASE Load(t)
    BY ZenonT(60), <2>6, <2>a, ExamineType DEF Load, mem, ring, TypeInv, TypeOK, IdxOK
  <2>7. CASE Past(t)
    BY <2>7, <1>z, ConstantFacts, SMTT(30), SMTT(60)
    DEF Past, Return, Forget, Goto, mem, ring, TypeInv, TypeOK, IdxOK, Labels, Ops
  <2>8. CASE Backoff(t)
    BY ZenonT(60), <2>8, <2>a, ExamineType DEF Backoff, mem, ring, TypeInv, TypeOK, IdxOK
  <2>9. CASE SpinWait(t)
    BY ZenonT(60), <2>9, <2>a, ExamineType DEF SpinWait, mem, ring, TypeInv, TypeOK, IdxOK
  <2>10. CASE FutexMark(t)
    <3>1. WithWaiting(tok[t]) \in Tokens
      BY ZenonT(60) DEF WithWaiting, Tokens, TypeInv, TypeOK
    <3>2. CASE slot[At(t)] \in {tok[t], WithWaiting(tok[t])}
      BY <2>10, <2>a, <3>1, <3>2
      DEF FutexMark, Goto, ring, TypeInv, TypeOK, IdxOK, Labels
    <3>3. CASE slot[At(t)] \notin {tok[t], WithWaiting(tok[t])}
      BY ZenonT(60), <2>10, <2>a, <3>3, ExamineType DEF FutexMark, ring, TypeInv, TypeOK, IdxOK
    <3> QED
      BY <3>2, <3>3
  <2>11. CASE FutexSleep(t)
    BY <2>11 DEF FutexSleep, Goto, mem, ring, TypeInv, TypeOK, IdxOK, Labels
  <2>12. CASE SynchWait(t)
    <3>1. CASE slot[At(t)] = tok[t]
      BY <2>12, <3>1 DEF SynchWait, Goto, mem, ring, TypeInv, TypeOK, IdxOK, Labels
    <3>2. CASE slot[At(t)] # tok[t]
      BY ZenonT(60), <2>12, <2>a, <3>2, ExamineType DEF SynchWait, mem, ring, TypeInv, TypeOK, IdxOK
    <3> QED
      BY Zenon, <3>1, <3>2
  <2>13. CASE Wake(t)
    <3>1. slot' \in [Slots -> Tokens]
      BY <2>13, <2>a DEF Wake, TypeInv, TypeOK
    <3>2. CASE Goto(t, "signal") /\ UNCHANGED <<op, cnt, tok, idx>>
      BY Zenon, <2>13, <3>1, <3>2 DEF Wake, Goto, ring, TypeInv, TypeOK, IdxOK, Labels
    <3>3. ASSUME NEW W \in SUBSET {u \in Threads : pc[u] = "asleep"},
                 GotoWaking(t, Resume(t), W), Settle(t)
          PROVE  TypeInv'
      BY Zenon, <2>13, <3>1, <3>3, SettleType DEF Wake, ring, TypeInv, TypeOK
    <3> QED
      BY <2>13, <3>2, <3>3 DEF Wake, Sleepers
  <2>14. CASE Signal(t)
    BY Zenon, <2>14, SettleType DEF Signal, Sleepers, mem, ring, TypeInv, TypeOK
  <2>15. CASE put_value(t)
    <3>1. /\ Token(Ticket(cnt[t]), "valid") \in Tokens
          /\ Token(Ticket(cnt[t]), "invalid") \in Tokens
      BY Zenon, <2>a, TokenType, TicketType DEF Statuses
    <3> QED
      BY <2>15, <2>a, <3>1
      DEF put_value, Goto, ring, TypeInv, TypeOK, IdxOK, Labels
  <2>16. CASE get_value(t)
    BY Zenon, <2>16, <2>a, NextLapType
    DEF get_value, Goto, ring, TypeInv, TypeOK, IdxOK, Labels
  <2>17. CASE Skip(t)
    BY Zenon, <2>17, <2>a, NextLapType
    DEF Skip, Goto, ring, mem, TypeInv, TypeOK, IdxOK, Labels, Ops
  <2>18. CASE TryLoad(t)
    BY Zenon, <2>18, <2>a, <1>z DEF TryLoad, Goto, ring, mem, TypeInv, TypeOK, IdxOK, Labels
  <2>19. CASE TryPast(t)
    BY <2>19, <1>z, ConstantFacts, SMTT(30), SMTT(60)
    DEF TryPast, Return, Forget, Goto, mem, ring, TypeInv, TypeOK, IdxOK, Labels, Ops
  <2>20. CASE TryCas(t)
    BY <2>20, <1>z, ConstantFacts, SMTT(30), SMTT(60)
    DEF TryCas, Return, Forget, Goto, mem, TypeInv, TypeOK, IdxOK, Labels, Ops
  <2>21. CASE CloseTail(t)
    BY <2>21, ConstantFacts DEF CloseTail, Goto, mem, TypeInv, TypeOK, IdxOK, Labels
  <2>22. CASE CloseLast(t)
    BY <2>22 DEF CloseLast, Goto, mem, TypeInv, TypeOK, IdxOK, Labels
  <2>23. CASE CloseFlag(t)
    BY Zenon, <2>23 DEF CloseFlag, Goto, mem, TypeInv, TypeOK, IdxOK, Labels
  <2>24. CASE CloseSlot(t)
    <3> DEFINE n == last + idx[t]
    <3>1. n \in Nat /\ Index(n) \in Slots /\ slot[Index(n)] \in Tokens
      BY IndexType, SMTT(30), SMTT(60) DEF TypeInv, TypeOK
    <3>2. idx[t] + 1 \in 0 .. Size
      BY <2>24, ConstantFacts DEF CloseSlot, TypeInv, TypeOK, IdxOK
    <3>3. slot' \in [Slots -> Tokens]
      BY Zenon, <2>24, <3>1 DEF CloseSlot, TypeInv, TypeOK, Tokens
    <3>4. CASE Goto(t, "signal") /\ cnt' = [cnt EXCEPT ![t] = n]
               /\ idx' = [idx EXCEPT ![t] = idx[t] + 1] /\ UNCHANGED <<op, tok>>
      BY Zenon, <2>24, <3>1, <3>2, <3>3, <3>4
      DEF CloseSlot, Goto, ring, TypeInv, TypeOK, IdxOK, Labels
    <3>5. ASSUME NEW W \in SUBSET {u \in Threads : pc[u] = "asleep"},
                 GotoWaking(t, "close_slot", W), cnt' = [cnt EXCEPT ![t] = n],
                 idx[t] + 1 < Size,
                 idx' = [idx EXCEPT ![t] = idx[t] + 1], UNCHANGED <<op, tok>>
          PROVE  TypeInv'
      BY ZenonT(60), <2>24, <3>1, <3>2, <3>3, <3>5
      DEF CloseSlot, GotoWaking, ring, TypeInv, TypeOK, IdxOK, Labels
    <3>6. ASSUME NEW W \in SUBSET {u \in Threads : pc[u] = "asleep"},
                 GotoWaking(t, "done", W), Forget(t)
          PROVE  TypeInv'
      BY <2>24, <1>z, <3>3, <3>6, ConstantFacts, SMTT(30), SMTT(60)
      DEF CloseSlot, GotoWaking, Forget, ring, TypeInv, TypeOK, IdxOK, Labels, Ops
    <3> QED
      BY Zenon, <2>24, <3>4, <3>5, <3>6 DEF CloseSlot, Sleepers
  <2> QED
    BY Zenon, <1>y, <2>1, <2>2, <2>3, <2>4, <2>5, <2>6, <2>7, <2>8, <2>9, <2>10, <2>11, <2>12,
       <2>13, <2>14, <2>15, <2>16, <2>17, <2>18, <2>19, <2>20, <2>21, <2>22, <2>23, <2>24
    DEF Step
<1> QED
  BY <1>x, <1>y DEF Next

\* Every variable of the ring has its type in every behaviour of the code: in
\* particular the loop of close() stays within the ring and closed_ is never
\* "closing".
THEOREM TypeCorrect == Spec => []TypeOK
<1>1. TypeInv => TypeOK
  BY DEF TypeInv
<1> QED
  BY <1>1, InitType, NextType, PTL DEF Spec

-----------------------------------------------------------------------------
(* Wake-ups                                                                *)

\* A thread goes to futex_wait(), or sleeps in it, only with a token that
\* has the waiting flag.
MarkedInv ==
  \A t \in Threads :
    /\ pc[t] = "futex" => SlotKind = "futex" /\ tok[t].waiting
    /\ pc[t] = "asleep" => SlotKind # "spin" /\ (SlotKind = "futex" => tok[t].waiting)

\* The inductive strengthening of NoLostWakeup.
WakeInv == TypeInv /\ MarkedInv /\ NoLostWakeup

\* Initially nobody sleeps.
LEMMA InitWake == Init => WakeInv
  BY Zenon, InitType DEF Init, WakeInv, MarkedInv, NoLostWakeup

\* A step of t that leaves tokens of slots alone, and neither puts t to
\* sleep nor takes it away from futex_wake().
LEMMA QuietWake ==
  ASSUME WakeInv, NEW t \in Threads, slot' = slot,
         pc' \in [Threads -> Labels],
         pc[t] # "signal", pc'[t] \notin {"futex", "asleep"},
         \A u \in Threads \ {t} : /\ pc'[u] = pc[u]
                                 /\ cnt'[u] = cnt[u]
                                 /\ tok'[u] = tok[u]
  PROVE  MarkedInv' /\ NoLostWakeup'
  BY DEF WakeInv, MarkedInv, NoLostWakeup, At

\* A step of t that goes to sleep on the token it saw.
LEMMA SleepWake ==
  ASSUME WakeInv, NEW t \in Threads, slot[At(t)] = tok[t], pc[t] # "signal",
         SlotKind # "spin", SlotKind = "futex" => tok[t].waiting,
         Goto(t, "asleep"), UNCHANGED <<slot, cnt, tok>>
  PROVE  MarkedInv' /\ NoLostWakeup'
<1>1. pc'[t] = "asleep" /\ \A u \in Threads \ {t} : pc'[u] = pc[u]
  BY Zenon DEF Goto, WakeInv, TypeInv, TypeOK
<1>2. MarkedInv'
  BY ZenonT(60), <1>1 DEF WakeInv, MarkedInv
<1>3. \A u \in Threads : At(u)' = At(u)
  BY Zenon DEF At
<1>4. ASSUME NEW u \in Threads, pc'[u] = "asleep"
      PROVE  \/ slot'[At(u)'] = tok'[u]
             \/ \E v \in Threads : pc'[v] = "signal" /\ At(v)' = At(u)'
  <2>1. CASE u = t
    BY Zenon, <1>3, <2>1
  <2>2. CASE u # t
    <3>1. \/ slot[At(u)] = tok[u]
          \/ \E v \in Threads : pc[v] = "signal" /\ At(v) = At(u)
      BY Zenon, <1>1, <1>4, <2>2 DEF WakeInv, NoLostWakeup
    <3> QED
      BY ZenonT(60), <1>1, <1>3, <3>1
  <2> QED
    BY Zenon, <2>1, <2>2
<1> QED
  BY Zenon, <1>2, <1>4 DEF NoLostWakeup

\* A step of t that changes the token of slot s and is about to wake all who
\* sleep on s.
LEMMA SignalWake ==
  ASSUME WakeInv, NEW t \in Threads, NEW s \in Slots,
         \A r \in Slots \ {s} : slot'[r] = slot[r],
         pc[t] # "signal", pc'[t] = "signal", At(t)' = s,
         \A u \in Threads \ {t} : /\ pc'[u] = pc[u]
                                 /\ cnt'[u] = cnt[u]
                                 /\ tok'[u] = tok[u]
  PROVE  MarkedInv' /\ NoLostWakeup'
<1>1. MarkedInv'
  BY ZenonT(60) DEF WakeInv, MarkedInv
<1>2. ASSUME NEW u \in Threads, pc'[u] = "asleep"
      PROVE  \/ slot'[At(u)'] = tok'[u]
             \/ \E v \in Threads : pc'[v] = "signal" /\ At(v)' = At(u)'
  <2>1. u # t /\ pc[u] = "asleep" /\ tok'[u] = tok[u] /\ At(u)' = At(u) /\ At(u) \in Slots
    BY Zenon, <1>2, IndexType DEF At, WakeInv, TypeInv, TypeOK
  <2>2. CASE At(u) = s
    BY Zenon, <2>1, <2>2
  <2>3. CASE At(u) # s
    <3>1. \/ slot[At(u)] = tok[u]
          \/ \E v \in Threads : pc[v] = "signal" /\ At(v) = At(u)
      BY Zenon, <2>1 DEF WakeInv, NoLostWakeup
    <3>2. \A v \in Threads : pc[v] = "signal" => pc'[v] = "signal" /\ At(v)' = At(v)
      BY Zenon DEF At
    <3> QED
      BY ZenonT(60), <2>1, <2>3, <3>1, <3>2
  <2> QED
    BY Zenon, <2>2, <2>3
<1> QED
  BY Zenon, <1>1, <1>2 DEF NoLostWakeup

\* A step of t that changes the token of slot s and has nobody to wake, or
\* wakes all who sleep on s, in the same step.
LEMMA ReleaseWake ==
  ASSUME WakeInv, NEW t \in Threads, NEW s \in Slots,
         \A r \in Slots \ {s} : slot'[r] = slot[r],
         SlotKind = "futex" => ~slot[s].waiting,
         pc[t] \notin {"signal", "asleep"}, pc'[t] \notin {"futex", "asleep"},
         \A u \in Threads \ {t} :
           /\ cnt'[u] = cnt[u]
           /\ tok'[u] = tok[u]
           /\ pc'[u] = IF SlotKind = "synch" /\ pc[u] = "asleep" /\ At(u) = s
                       THEN "load" ELSE pc[u]
  PROVE  MarkedInv' /\ NoLostWakeup'
<1>1. MarkedInv'
  BY ZenonT(60) DEF WakeInv, MarkedInv
<1>2. ASSUME NEW u \in Threads, pc'[u] = "asleep"
      PROVE  \/ slot'[At(u)'] = tok'[u]
             \/ \E v \in Threads : pc'[v] = "signal" /\ At(v)' = At(u)'
  <2>1. u # t /\ pc[u] = "asleep" /\ tok'[u] = tok[u] /\ At(u)' = At(u) /\ At(u) \in Slots
    BY Zenon, <1>2, IndexType DEF At, WakeInv, TypeInv, TypeOK
  <2>2. CASE slot[At(u)] = tok[u]
    <3>1. At(u) # s
      BY Zenon, <1>2, <2>1, <2>2, RingAssumption DEF WakeInv, MarkedInv
    <3> QED
      BY ZenonT(60), <2>1, <2>2, <3>1
  <2>3. ASSUME NEW v \in Threads, pc[v] = "signal", At(v) = At(u)
        PROVE  pc'[v] = "signal" /\ At(v)' = At(u)'
    BY <2>1, <2>3 DEF At
  <2> QED
    BY ZenonT(60), <2>1, <2>2, <2>3 DEF WakeInv, NoLostWakeup
<1> QED
  BY Zenon, <1>1, <1>2 DEF NoLostWakeup

\* Every step of every operation preserves NoLostWakeup: a token that somebody
\* sleeps on is replaced only by a step that wakes the sleepers up or goes on
\* to futex_wake().
LEMMA NextWake == WakeInv /\ [Next]_vars => WakeInv'
<1> SUFFICES ASSUME WakeInv, [Next]_vars PROVE WakeInv'
  OBVIOUS
<1>t. TypeInv /\ TypeInv'
  BY NextType DEF WakeInv
<1>x. CASE UNCHANGED vars
  BY Zenon, <1>t, <1>x DEF WakeInv, MarkedInv, NoLostWakeup, vars, At
<1>y. ASSUME NEW t \in Threads,
             \/ wait_push(t) \/ wait_pop(t) \/ try_pop(t) \/ CloseCas(t)
             \/ Step(t) \/ Interrupted(t)
      PROVE  MarkedInv' /\ NoLostWakeup'
  <2> USE <1>t DEF TypeInv, TypeOK
  <2>a. At(t) \in Slots /\ cnt[t] \in Nat /\ slot[At(t)] \in Tokens
    BY Zenon, IndexType DEF At
  <2>e. \A w \in Tokens : Examine(t, w) /\ pc[t] # "signal" =>
          /\ pc'[t] \in {"past", "put", "get", "skip"}
          /\ \A u \in Threads \ {t} : pc'[u] = pc[u] /\ tok'[u] = tok[u]
    BY Zenon, ExamineType
  <2>1. CASE wait_push(t)
    BY Zenon, <2>1, QuietWake DEF wait_push, Goto, mem
  <2>2. CASE wait_pop(t)
    BY Zenon, <2>2, QuietWake DEF wait_pop, Goto, mem
  <2>3. CASE try_pop(t)
    BY Zenon, <2>3, QuietWake DEF try_pop, Goto, mem
  <2>4. CASE CloseCas(t)
    BY Zenon, <2>4, QuietWake DEF CloseCas, Goto, mem
  <2>5. CASE Interrupted(t)
    BY <2>5, QuietWake DEF Interrupted, Goto, mem
  <2>6. CASE Load(t)
    BY Zenon, <2>6, <2>a, <2>e, QuietWake DEF Load, mem
  <2>7. CASE Past(t)
    BY ZenonT(60), <2>7, QuietWake DEF Past, Return, Forget, Goto, mem
  <2>8. CASE Backoff(t)
    BY Zenon, <2>8, <2>a, <2>e, QuietWake DEF Backoff, mem
  <2>9. CASE SpinWait(t)
    BY Zenon, <2>9, <2>a, <2>e, QuietWake DEF SpinWait, mem
  <2>10. CASE FutexMark(t)
    <3> DEFINE x == WithWaiting(tok[t])
    <3>1. x \in Tokens /\ x.waiting /\ (tok[t].waiting => x = tok[t])
      BY ZenonT(120) DEF WithWaiting, Tokens
    <3>2. CASE slot[At(t)] \in {tok[t], x}
      <4>1. /\ SlotKind = "futex"
            /\ slot' = [slot EXCEPT ![At(t)] = x]
            /\ tok' = [tok EXCEPT ![t] = x]
            /\ pc' = [pc EXCEPT ![t] = "futex"]
            /\ cnt' = cnt
            /\ pc[t] = "wait"
        BY <2>10, <3>2 DEF FutexMark, Goto
      <4>2. MarkedInv'
        BY ZenonT(60), <4>1, <3>1 DEF WakeInv, MarkedInv
      <4>3. ASSUME NEW u \in Threads, pc'[u] = "asleep"
            PROVE  \/ slot'[At(u)'] = tok'[u]
                   \/ \E v \in Threads : pc'[v] = "signal" /\ At(v)' = At(u)'
        <5>1. u # t /\ pc[u] = "asleep" /\ tok'[u] = tok[u] /\ At(u)' = At(u)
          BY Zenon, <4>1, <4>3 DEF At
        <5>2. tok[u].waiting
          BY Zenon, <4>1, <5>1 DEF WakeInv, MarkedInv
        <5>3. CASE slot[At(u)] = tok[u] /\ At(u) = At(t)
          BY ZenonT(60), <2>a, <3>1, <3>2, <4>1, <5>1, <5>2, <5>3
        <5>4. CASE slot[At(u)] = tok[u] /\ At(u) # At(t)
          BY <4>1, <5>1, <5>4
        <5>5. ASSUME NEW v \in Threads, pc[v] = "signal", At(v) = At(u)
              PROVE  pc'[v] = "signal" /\ At(v)' = At(u)'
          BY Zenon, <4>1, <5>1, <5>5 DEF At
        <5> QED
          BY ZenonT(60), <5>1, <5>3, <5>4, <5>5 DEF WakeInv, NoLostWakeup
      <4> QED
        BY <4>2, <4>3 DEF NoLostWakeup
    <3>3. CASE slot[At(t)] \notin {tok[t], x}
      BY Zenon, <2>10, <2>a, <2>e, <3>3, QuietWake DEF FutexMark
    <3> QED
      BY <3>2, <3>3
  <2>11. CASE FutexSleep(t)
    <3>1. /\ pc[t] = "futex" /\ UNCHANGED <<slot, cnt, tok>>
          /\ Goto(t, IF slot[At(t)] = tok[t] THEN "asleep" ELSE "load")
      BY Zenon, <2>11 DEF FutexSleep, mem
    <3>2. SlotKind = "futex" /\ tok[t].waiting
      BY Zenon, <3>1 DEF WakeInv, MarkedInv
    <3>3. CASE slot[At(t)] = tok[t]
      BY Zenon, <3>1, <3>2, <3>3, SleepWake
    <3>4. CASE slot[At(t)] # tok[t]
      <4>1. pc' = [pc EXCEPT ![t] = "load"]
        BY Zenon, <3>1, <3>4 DEF Goto
      <4> QED
        BY ZenonT(60), <3>1, <4>1, QuietWake
    <3> QED
      BY Zenon, <3>3, <3>4
  <2>12. CASE SynchWait(t)
    <3>1. CASE slot[At(t)] = tok[t]
      BY ZenonT(60), <2>12, <3>1, SleepWake DEF SynchWait, mem
    <3>2. CASE slot[At(t)] # tok[t]
      BY ZenonT(60), <2>12, <2>a, <2>e, <3>2, QuietWake DEF SynchWait, mem
    <3> QED
      BY ZenonT(60), <3>1, <3>2
  <2>13. CASE Wake(t)
    <3>1. slot' = [slot EXCEPT ![At(t)] = tok[t]] /\ pc[t] = "wake"
      BY ZenonT(60), <2>13 DEF Wake
    <3>2. CASE /\ SlotKind = "futex"
               /\ Goto(t, "signal")
               /\ UNCHANGED <<op, cnt, tok, idx>>
      <4>1. /\ pc'[t] = "signal" /\ \A u \in Threads \ {t} : pc'[u] = pc[u]
            /\ cnt' = cnt /\ tok' = tok /\ At(t)' = At(t)
        BY Zenon, <3>2 DEF Goto, WakeInv, TypeInv, TypeOK, At
      <4>2. \A r \in Slots \ {At(t)} : slot'[r] = slot[r]
        BY Zenon, <3>1 DEF WakeInv, TypeInv, TypeOK
      <4> QED
        BY ZenonT(60), <2>a, <3>1, <4>1, <4>2, SignalWake
    <3>3. CASE /\ SlotKind = "futex" => ~slot[At(t)].waiting
               /\ GotoWaking(t, Resume(t), IF SlotKind = "synch" THEN Sleepers(At(t)) ELSE {})
               /\ Settle(t)
      <4>1. \A u \in Threads \ {t} :
              /\ cnt'[u] = cnt[u]
              /\ tok'[u] = tok[u]
              /\ pc'[u] = IF SlotKind = "synch" /\ pc[u] = "asleep" /\ At(u) = At(t)
                          THEN "load" ELSE pc[u]
        BY <3>3 DEF GotoWaking, Sleepers, Settle, Forget
      <4>2. pc'[t] \notin {"futex", "asleep"} /\ \A r \in Slots \ {At(t)} : slot'[r] = slot[r]
        BY ZenonT(60), <3>1, <3>3 DEF GotoWaking, Resume
      <4> QED
        BY ZenonT(60), <2>a, <3>1, <3>3, <4>1, <4>2, ReleaseWake
    <3> QED
      BY <2>13, <3>2, <3>3 DEF Wake
  <2>14. CASE Signal(t)
    <3>1. /\ pc'[t] \notin {"futex", "asleep"}
          /\ \A u \in Threads \ {t} : /\ cnt'[u] = cnt[u]
                                      /\ tok'[u] = tok[u]
                                      /\ pc'[u] = IF u \in Sleepers(At(t)) THEN "load" ELSE pc[u]
      BY Zenon, <2>14 DEF Signal, Settle, Forget, GotoWaking, Resume
    <3>2. slot' = slot /\ MarkedInv /\ NoLostWakeup
      BY Zenon, <2>14 DEF Signal, mem, WakeInv
    <3>3. MarkedInv'
      BY ZenonT(60), <3>1, <3>2 DEF MarkedInv
    <3>4. ASSUME NEW u \in Threads, pc'[u] = "asleep"
          PROVE  \/ slot'[At(u)'] = tok'[u]
                 \/ \E v \in Threads : pc'[v] = "signal" /\ At(v)' = At(u)'
      <4>1. /\ u # t /\ u \notin Sleepers(At(t)) /\ pc[u] = "asleep"
            /\ tok'[u] = tok[u] /\ At(u)' = At(u)
        BY ZenonT(60), <3>1, <3>4 DEF At
      <4>2. At(u) # At(t)
        BY Zenon, <4>1 DEF Sleepers
      <4>3. ASSUME NEW v \in Threads, pc[v] = "signal", At(v) = At(u)
            PROVE  pc'[v] = "signal" /\ At(v)' = At(u)'
        <5>1. v # t /\ v \notin Sleepers(At(t))
          BY Zenon, <4>2, <4>3 DEF Sleepers
        <5> QED
          BY Zenon, <3>1, <4>1, <4>3, <5>1 DEF At
      <4> QED
        BY ZenonT(60), <3>2, <4>1, <4>3 DEF NoLostWakeup
    <3> QED
      BY ZenonT(60), <3>3, <3>4 DEF NoLostWakeup
  <2>15. CASE put_value(t)
    BY Zenon, <2>15, QuietWake DEF put_value, Goto
  <2>16. CASE get_value(t)
    BY Zenon, <2>16, QuietWake DEF get_value, Goto
  <2>17. CASE Skip(t)
    BY Zenon, <2>17, QuietWake DEF Skip, Goto, mem
  <2>18. CASE TryLoad(t)
    BY Zenon, <2>18, QuietWake DEF TryLoad, Goto, mem
  <2>19. CASE TryPast(t)
    BY Zenon, <2>19, QuietWake DEF TryPast, Return, Forget, Goto, mem
  <2>20. CASE TryCas(t)
    BY ZenonT(60), <2>20, QuietWake DEF TryCas, Return, Forget, Goto, mem
  <2>21. CASE CloseTail(t)
    BY Zenon, <2>21, QuietWake DEF CloseTail, Goto, mem
  <2>22. CASE CloseLast(t)
    BY Zenon, <2>22, QuietWake DEF CloseLast, Goto, mem
  <2>23. CASE CloseFlag(t)
    BY Zenon, <2>23, QuietWake DEF CloseFlag, Goto, mem
  <2>24. CASE CloseSlot(t)
    <3> DEFINE n == last + idx[t]
               s == Index(n)
               W == IF SlotKind = "synch" THEN Sleepers(s) ELSE {}
    <3>1. /\ pc[t] = "close_slot"
          /\ s \in Slots
          /\ slot' = IF SlotKind = "spin" THEN slot ELSE [slot EXCEPT ![s].closed = TRUE]
      BY <2>24, IndexType DEF CloseSlot
    <3>2. CASE /\ SlotKind = "futex"
               /\ Goto(t, "signal")
               /\ cnt' = [cnt EXCEPT ![t] = n]
               /\ tok' = tok
      <4>1. /\ pc'[t] = "signal" /\ \A u \in Threads \ {t} : pc'[u] = pc[u]
            /\ At(t)' = s /\ \A u \in Threads \ {t} : cnt'[u] = cnt[u]
        BY Zenon, <3>2 DEF Goto, WakeInv, TypeInv, TypeOK, At
      <4>2. \A r \in Slots \ {s} : slot'[r] = slot[r]
        BY Zenon, <3>1, <3>2 DEF WakeInv, TypeInv, TypeOK
      <4> QED
        BY ZenonT(60), <3>1, <3>2, <4>1, <4>2, SignalWake
    <3>3. CASE /\ SlotKind = "futex" => ~slot[s].waiting
               /\ GotoWaking(t, "close_slot", W)
               /\ cnt' = [cnt EXCEPT ![t] = n]
               /\ tok' = tok
      <4>1. \A u \in Threads \ {t} :
              /\ cnt'[u] = cnt[u]
              /\ tok'[u] = tok[u]
              /\ pc'[u] = IF SlotKind = "synch" /\ pc[u] = "asleep" /\ At(u) = s
                          THEN "load" ELSE pc[u]
        BY Zenon, <3>3 DEF GotoWaking, Sleepers
      <4>2. pc'[t] \notin {"futex", "asleep"} /\ \A r \in Slots \ {s} : slot'[r] = slot[r]
        BY <3>1, <3>3 DEF GotoWaking
      <4> QED
        BY Zenon, <3>1, <3>3, <4>1, <4>2, ReleaseWake
    <3>4. CASE /\ SlotKind = "futex" => ~slot[s].waiting
               /\ GotoWaking(t, "done", W)
               /\ Forget(t)
      <4>1. \A u \in Threads \ {t} :
              /\ cnt'[u] = cnt[u]
              /\ tok'[u] = tok[u]
              /\ pc'[u] = IF SlotKind = "synch" /\ pc[u] = "asleep" /\ At(u) = s
                          THEN "load" ELSE pc[u]
        BY ZenonT(60), <3>4 DEF GotoWaking, Sleepers, Forget
      <4>2. pc'[t] \notin {"futex", "asleep"} /\ \A r \in Slots \ {s} : slot'[r] = slot[r]
        BY Zenon, <3>1, <3>4 DEF GotoWaking
      <4> QED
        BY ZenonT(60), <3>1, <3>4, <4>1, <4>2, ReleaseWake
    <3> QED
      BY Zenon, <2>24, <3>2, <3>3, <3>4 DEF CloseSlot
  <2> QED
    BY Zenon, <1>y, <2>1, <2>2, <2>3, <2>4, <2>5, <2>6, <2>7, <2>8, <2>9, <2>10, <2>11, <2>12,
       <2>13, <2>14, <2>15, <2>16, <2>17, <2>18, <2>19, <2>20, <2>21, <2>22, <2>23, <2>24
    DEF Step
<1> QED
  BY <1>t, <1>x, <1>y DEF Next, WakeInv

\* futex::wait() and wake(), and synch::wait() and wake(), lose no wake-up,
\* whatever the sizes, the numbers of threads and the wraps of the counters:
\* a thread sleeps on the token it saw or is about to be woken up.
THEOREM NoLostWakeups == Spec => []NoLostWakeup
<1>1. WakeInv => NoLostWakeup
  BY Zenon DEF WakeInv
<1> QED
  BY <1>1, InitWake, NextWake, PTL DEF Spec

-----------------------------------------------------------------------------
(* The ticket discipline                                                   *)

\* Fewer than CountMod tickets were drawn on either side.
NoWrap == head < CountMod /\ tail < CountMod

\* The labels of the loops of wait_tail() and wait_head().
Waiting == {"load", "past", "wait", "futex", "asleep"}

\* What a thread executes at a label.
PcOp(t) ==
  /\ pc[t] \in Waiting => op[t] \in {"push", "pop", "fill"}
  /\ pc[t] = "put" => op[t] = "push"
  /\ pc[t] \in {"get", "skip"} => op[t] \in {"fill", "try_pop"}
  /\ pc[t] = "wake" => op[t] \in {"push", "fill", "again", "try_pop"}
  /\ pc[t] \in {"try_load", "try_past", "try_cas"} => op[t] = "try_pop"

\* t holds a tail ticket, or a head ticket, and has not passed its slot on.
Pushing(t) == op[t] = "push" /\ pc[t] \in Waiting \cup {"put", "wake"}

Popping(t) ==
  \/ op[t] \in {"pop", "fill"} /\ pc[t] \in Waiting
  \/ op[t] # "push" /\ pc[t] \in {"get", "skip", "wake"}

\* The token of the slot is at the turn of ticket number n.
Turn(n) == slot[Index(n)].ticket = Ticket(n)

Status(n) == slot[Index(n)].status

\* What a producer knows of its slot.
PushInv(t) ==
  Pushing(t) =>
    /\ cnt[t] < tail
    /\ pc[t] \in {"put", "wake"} => Turn(cnt[t])
    /\ Turn(cnt[t]) => Status(cnt[t]) = "none"
    /\ pc[t] = "wake" => /\ tok[t].ticket = Ticket(cnt[t])
                         /\ tok[t].status = "valid" => val[At(t)] = cnt[t]

\* What a consumer knows of its slot.
PopInv(t) ==
  Popping(t) =>
    /\ cnt[t] < head
    /\ op[t] = "fill" => Turn(cnt[t])
    /\ pc[t] \in {"get", "skip", "wake"} => Turn(cnt[t]) /\ Status(cnt[t]) # "none"
    /\ pc[t] = "get" => Status(cnt[t]) = "valid"
    /\ pc[t] = "wake" => tok[t].status = "none"

\* What try_pop() knows of the slot if its CAS succeeds.
TryInv(t) ==
  /\ pc[t] \in {"try_load", "try_cas"} => cnt[t] <= head
  /\ pc[t] = "try_cas" /\ head = cnt[t] =>
       Turn(cnt[t]) /\ Status(cnt[t]) # "none" /\ Status(cnt[t]) = tok[t].status

LocalInv(t) == PcOp(t) /\ PushInv(t) /\ PopInv(t) /\ TryInv(t)

\* No two threads hold the same ticket.
PairInv ==
  \A t, u \in Threads : cnt[t] = cnt[u] =>
    /\ Pushing(t) /\ Pushing(u) => t = u
    /\ Popping(t) /\ Popping(u) => t = u

\* Tail tickets not drawn yet find their slot empty.
FreshInv == \A n \in tail .. CountMod - 1 : Turn(n) => Status(n) = "none"

Releasing(t) == op[t] # "push" /\ pc[t] = "wake"

\* A filled slot holds the value of its push until a consumer took it.
StoredInv ==
  \A n \in 0 .. CountMod - 1 :
    Turn(n) /\ Status(n) = "valid" =>
      val[Index(n)] = n \/ \E u \in Threads : Releasing(u) /\ At(u) = Index(n)

\* The inductive invariant of the ring.
RingInv ==
  TypeInv /\ (\A t \in Threads : LocalInv(t)) /\ PairInv /\ FreshInv /\ StoredInv

\* The constructor establishes the ticket discipline.
LEMMA InitRing == Init => RingInv
<1> SUFFICES ASSUME Init PROVE RingInv
  OBVIOUS
<1>1. \A n \in Nat : Status(n) = "none"
  BY Zenon, IndexType DEF Init, Status, Token
<1>2. FreshInv
  BY <1>1, ConstantFacts DEF FreshInv, Init
<1>3. StoredInv
  BY <1>1, ConstantFacts DEF StoredInv
<1> QED
  BY ZenonT(60), <1>2, <1>3, InitType
  DEF Init, RingInv, LocalInv, PairInv, PcOp, PushInv, PopInv, TryInv, Pushing, Popping, Waiting

\* Two live tickets of one slot that are both at their turn are the same.
LEMMA SameTurn ==
  ASSUME NoWrap, NEW m \in Nat, NEW n \in Nat,
         m < head \/ m < tail \/ m < CountMod, n < head \/ n < tail \/ n < CountMod,
         head \in Nat, tail \in Nat,
         Index(m) = Index(n), Turn(m), Turn(n)
  PROVE  m = n
<1>1. m < CountMod /\ n < CountMod
  BY ConstantFacts DEF NoWrap
<1>2. Ticket(m) = Ticket(n)
  BY Zenon DEF Turn
<1> QED
  BY Zenon, <1>1, <1>2, SameTicket

\* Two owners of one slot would both be at their turn, hence have the same
\* ticket number: one pushes and one pops, but the slot cannot be empty for
\* the one and filled for the other.
LEMMA RingExclusive == RingInv /\ NoWrap => SlotExclusive
<1> SUFFICES ASSUME RingInv, NoWrap,
                    NEW t \in Threads, NEW u \in Threads,
                    t # u, Owner(t), Owner(u), At(t) = At(u)
             PROVE  FALSE
  BY Zenon DEF SlotExclusive
<1>1. /\ Pushing(t) \/ Popping(t)
      /\ Pushing(u) \/ Popping(u)
  BY DEF RingInv, LocalInv, PcOp, Owner, Pushing, Popping, Waiting
<1>2. cnt[t] \in Nat /\ cnt[u] \in Nat /\ head \in Nat /\ tail \in Nat
  BY Zenon DEF RingInv, TypeInv, TypeOK
<1>3. Turn(cnt[t]) /\ Turn(cnt[u])
  BY <1>1, Zenon DEF RingInv, LocalInv, PushInv, PopInv, PcOp, Owner, Pushing, Popping, Waiting
<1>4. (cnt[t] < head \/ cnt[t] < tail) /\ (cnt[u] < head \/ cnt[u] < tail)
  BY <1>1, Zenon DEF RingInv, LocalInv, PushInv, PopInv
<1>5. cnt[t] = cnt[u]
  BY Zenon, <1>2, <1>3, <1>4, SameTurn DEF At
<1>6. Status(cnt[t]) = Status(cnt[u])
  BY <1>5
<1>7. CASE (Pushing(t) /\ Pushing(u)) \/ (Popping(t) /\ Popping(u))
  BY Zenon, <1>5, <1>7 DEF RingInv, PairInv
<1>8. CASE Pushing(t) /\ Popping(u)
  BY Zenon, <1>3, <1>6, <1>8
  DEF RingInv, LocalInv, PushInv, PopInv, PcOp, Owner, Pushing, Popping, Waiting
<1>9. CASE Popping(t) /\ Pushing(u)
  BY Zenon, <1>3, <1>6, <1>9
  DEF RingInv, LocalInv, PushInv, PopInv, PcOp, Owner, Pushing, Popping, Waiting
<1> QED
  BY Zenon, <1>1, <1>7, <1>8, <1>9

\* What a step of t leaves alone of the other threads: it may at most wake
\* them up.
OthersKeep(t) ==
  \A u \in Threads \ {t} :
    /\ op'[u] = op[u] /\ cnt'[u] = cnt[u] /\ tok'[u] = tok[u]
    /\ pc'[u] = pc[u] \/ (pc[u] = "asleep" /\ pc'[u] = "load")

\* t keeps its ticket or draws a new one.
TicketStep(t) ==
  /\ head <= head' /\ tail <= tail'
  /\ Pushing(t)' => (Pushing(t) /\ cnt'[t] = cnt[t]) \/ cnt'[t] >= tail
  /\ Popping(t)' => (Popping(t) /\ cnt'[t] = cnt[t]) \/ cnt'[t] >= head

\* Threads that a step leaves alone keep their roles.
LEMMA OthersRoles ==
  ASSUME NEW t \in Threads, OthersKeep(t), NEW u \in Threads \ {t}
  PROVE  /\ Pushing(u)' <=> Pushing(u)
         /\ Popping(u)' <=> Popping(u)
         /\ Releasing(u)' <=> Releasing(u)
         /\ At(u)' = At(u)
  BY Zenon DEF OthersKeep, Pushing, Popping, Releasing, Waiting, At

\* Tickets drawn from the counters are new, so no two pushes and no two pops
\* ever share one.
LEMMA PairStep ==
  ASSUME RingInv, TypeInv', NEW t \in Threads, OthersKeep(t), TicketStep(t)
  PROVE  PairInv'
<1> SUFFICES ASSUME NEW u \in Threads, NEW v \in Threads, u # v, cnt'[u] = cnt'[v]
             PROVE  ~(Pushing(u)' /\ Pushing(v)') /\ ~(Popping(u)' /\ Popping(v)')
  BY Zenon DEF PairInv
<1>1. /\ \A w \in Threads : Pushing(w) => cnt[w] < tail
      /\ \A w \in Threads : Popping(w) => cnt[w] < head
      /\ \A w \in Threads : cnt[w] \in Nat /\ cnt'[w] \in Nat
      /\ head \in Nat /\ tail \in Nat
  BY SMTT(30) DEF RingInv, LocalInv, PushInv, PopInv, TypeInv, TypeOK
<1>2. \A w \in Threads \ {t} :
        cnt'[w] = cnt[w] /\ (Pushing(w)' <=> Pushing(w)) /\ (Popping(w)' <=> Popping(w))
  BY OthersRoles, ZenonT(60) DEF OthersKeep
<1>3. /\ Pushing(u) /\ Pushing(v) => cnt[u] # cnt[v]
      /\ Popping(u) /\ Popping(v) => cnt[u] # cnt[v]
  BY ZenonT(60) DEF RingInv, PairInv
<1> QED
  BY <1>1, <1>2, <1>3 DEF TicketStep

\* A step of t that leaves tickets, statuses and values of slots alone.
LEMMA QuietRing ==
  ASSUME RingInv, TypeInv', NEW t \in Threads, OthersKeep(t), TicketStep(t),
         \A s \in Slots : /\ slot'[s].ticket = slot[s].ticket
                          /\ slot'[s].status = slot[s].status,
         val' = val, LocalInv(t)', pc[t] # "wake"
  PROVE  RingInv'
<1>1. \A n \in Nat : (Turn(n)' <=> Turn(n)) /\ Status(n)' = Status(n)
  BY Zenon, IndexType DEF Turn, Status
<1>2. ASSUME NEW u \in Threads \ {t} PROVE LocalInv(u)'
  <2>1. /\ cnt'[u] = cnt[u] /\ op'[u] = op[u] /\ tok'[u] = tok[u]
        /\ pc'[u] = pc[u] \/ (pc[u] = "asleep" /\ pc'[u] = "load")
        /\ cnt[u] \in Nat /\ head' \in Nat /\ tail' \in Nat /\ head \in Nat /\ tail \in Nat
        /\ head <= head' /\ tail <= tail'
    BY DEF OthersKeep, TicketStep, RingInv, TypeInv, TypeOK
  <2>2. Turn(cnt[u])' <=> Turn(cnt[u])
    BY Zenon, <1>1, <2>1 DEF Turn
  <2>3. Status(cnt[u])' = Status(cnt[u])
    BY Zenon, <1>1, <2>1 DEF Status
  <2>4. LocalInv(u)
    BY Zenon DEF RingInv
  <2>5. PcOp(u)'
    BY <2>1, <2>4, Zenon DEF LocalInv, PcOp, Waiting
  <2>6. (Pushing(u)' <=> Pushing(u)) /\ (Popping(u)' <=> Popping(u)) /\ At(u)' = At(u)
    BY OthersRoles, Zenon
  <2>7. /\ cnt[u] < tail => cnt'[u] < tail'
        /\ cnt[u] < head => cnt'[u] < head'
        /\ cnt[u] <= head => cnt'[u] <= head' /\ (head' = cnt'[u] => head = cnt[u])
    <3>1. PICK k \in Nat, h \in Nat, i \in Nat, m \in Nat, n \in Nat :
            k = cnt[u] /\ h = head /\ i = head' /\ m = tail /\ n = tail'
      BY <2>1, Zenon
    <3>2. h <= i /\ m <= n
      BY <2>1, <3>1, Zenon
    <3>3. Below(k, m, n) /\ Below(k, h, i)
      BY <3>2, Monotone, Zenon
    <3>4. cnt'[u] = k
      BY <2>1, <3>1, Zenon
    <3> QED
      BY <3>1, <3>3, <3>4, Zenon DEF Below
  <2>8. \A l \in {"put", "get", "skip", "wake", "try_load", "try_cas"} : pc'[u] = l <=> pc[u] = l
    BY <2>1, Zenon
  <2>9. PushInv(u)'
    BY <2>1, <2>2, <2>3, <2>4, <2>6, <2>7, <2>8, ZenonT(60) DEF LocalInv, PushInv
  <2>10. PopInv(u)'
    BY <2>1, <2>2, <2>3, <2>4, <2>6, <2>7, <2>8, ZenonT(60) DEF LocalInv, PopInv
  <2>11. TryInv(u)'
    BY <2>1, <2>2, <2>3, <2>4, <2>7, <2>8, ZenonT(60) DEF LocalInv, TryInv
  <2> QED
    BY ZenonT(60), <2>5, <2>9, <2>10, <2>11 DEF LocalInv
<1>3. PairInv'
  BY Zenon, PairStep
<1>4. FreshInv'
  BY <1>1, ConstantFacts DEF FreshInv, TicketStep, RingInv, TypeInv, TypeOK
<1>5. StoredInv'
  <2>1. \A u \in Threads : Releasing(u) => Releasing(u)' /\ At(u)' = At(u)
    BY OthersRoles, ZenonT(60) DEF Releasing
  <2>2. StoredInv /\ 0 .. CountMod - 1 \subseteq Nat
    BY ConstantFacts DEF RingInv
  <2> QED
    BY <1>1, <2>1, <2>2, ZenonT(60) DEF StoredInv
<1> QED
  BY <1>2, <1>3, <1>4, <1>5, ZenonT(60) DEF RingInv

\* After Examine a thread that left its loop is at its turn, and the slot is
\* empty for a producer and filled for a consumer.
LEMMA ExamineRing ==
  ASSUME RingInv, NoWrap, TypeInv', NEW t \in Threads, pc[t] \in {"load", "wait"},
         Examine(t, slot[At(t)]), UNCHANGED <<ring, mem, cnt>>
  PROVE  RingInv'
<1> DEFINE w == slot[At(t)]
<1>1. /\ cnt[t] \in Nat /\ At(t) \in Slots /\ w \in Tokens
      /\ w.status \in Statuses
      /\ pc' \in [Threads -> Labels]
  BY Zenon, IndexType DEF At, RingInv, TypeInv, TypeOK, Tokens
<1>2. OthersKeep(t)
  BY Zenon, <1>1, ExamineType DEF OthersKeep, RingInv
<1>3. /\ op[t] \in {"push", "pop", "fill"}
      /\ op[t] = "push" => PushInv(t) /\ Pushing(t)
      /\ op[t] # "push" => PopInv(t) /\ Popping(t)
  BY Zenon DEF RingInv, LocalInv, PcOp, Pushing, Popping, Waiting
<1>4. /\ Turn(cnt[t])' <=> Turn(cnt[t])
      /\ Status(cnt[t])' = Status(cnt[t])
      /\ w.ticket = Ticket(cnt[t]) <=> Turn(cnt[t])
      /\ w.status = Status(cnt[t])
      /\ head' = head /\ tail' = tail /\ cnt' = cnt
  BY DEF Turn, Status, At, ring, mem
<1>7. head <= head' /\ tail <= tail'
  BY <1>4, Ordered, Zenon DEF RingInv, TypeInv, TypeOK
<1>5. CASE Stays(t, w)
  <2>1. /\ pc'[t] = "past"
        /\ op'[t] = IF TicketSeen(t, w) /\ op[t] = "pop" THEN "fill" ELSE op[t]
    BY <1>5, Zenon DEF Examine, Goto, RingInv, TypeInv, TypeOK
  <2>2. TicketSeen(t, w) /\ op[t] # "push" => Turn(cnt[t])
    BY <1>3, <1>4, Zenon DEF TicketSeen, PopInv
  <2>3. LocalInv(t)'
    BY <1>3, <1>4, <2>1, <2>2, ZenonT(60)
    DEF LocalInv, PcOp, PushInv, PopInv, TryInv, Pushing, Popping, Waiting
  <2>4. TicketStep(t)
    BY <1>3, <1>4, <1>7, <2>1, ZenonT(60) DEF TicketStep, Pushing, Popping, Waiting
  <2> QED
    BY <1>2, <2>3, <2>4, QuietRing, Zenon DEF mem
<1>6. CASE ~Stays(t, w)
  <2>1. /\ pc'[t] = IF op[t] = "push" THEN "put" ELSE IF w.status = "valid" THEN "get" ELSE "skip"
        /\ op'[t] = IF op[t] = "pop" THEN "fill" ELSE op[t]
    BY <1>6, Zenon DEF Examine, Stays, Goto, RingInv, TypeInv, TypeOK
  <2>2. Turn(cnt[t]) /\ (op[t] # "push" => Status(cnt[t]) # "none")
    BY Zenon, <1>3, <1>4, <1>6 DEF Stays, TicketSeen, PopInv
  <2>3. LocalInv(t)'
    BY Zenon, <1>3, <1>4, <2>1, <2>2
    DEF LocalInv, PcOp, PushInv, PopInv, TryInv, Pushing, Popping, Waiting
  <2>4. TicketStep(t)
    BY <1>3, <1>4, <1>7, <2>1, ZenonT(60) DEF TicketStep, Pushing, Popping, Waiting
  <2> QED
    BY <1>2, <2>1, <2>3, <2>4, QuietRing, ZenonT(60) DEF mem
<1> QED
  BY Zenon, <1>5, <1>6

\* A step of t inside the loop on its slot.
LEMMA StayRing ==
  ASSUME RingInv, TypeInv', NEW t \in Threads, OthersKeep(t),
         pc[t] \in Waiting, pc'[t] \in Waiting, op'[t] = op[t], cnt'[t] = cnt[t],
         head' = head, tail' = tail, val' = val,
         \A s \in Slots : /\ slot'[s].ticket = slot[s].ticket
                          /\ slot'[s].status = slot[s].status
  PROVE  RingInv'
<1>1. cnt[t] \in Nat /\ Index(cnt[t]) \in Slots /\ head \in Nat /\ tail \in Nat
  BY IndexType, Zenon DEF RingInv, TypeInv, TypeOK
<1>2. (Turn(cnt[t])' <=> Turn(cnt[t])) /\ Status(cnt[t])' = Status(cnt[t])
  BY Zenon, <1>1 DEF Turn, Status
<1>3. /\ Pushing(t)' <=> Pushing(t)
      /\ Popping(t)' <=> Popping(t)
  BY ZenonT(60) DEF Pushing, Popping, Waiting
<1>4. LocalInv(t)
  BY DEF RingInv
<1>5. /\ pc'[t] \notin {"put", "get", "skip", "wake", "try_load", "try_past", "try_cas"}
      /\ pc[t] # "wake"
  BY Zenon DEF Waiting
<1>6. PcOp(t)'
  BY Zenon, <1>4, <1>5 DEF LocalInv, PcOp
<1>7. PushInv(t)'
  BY <1>2, <1>3, <1>4, <1>5, ZenonT(60) DEF LocalInv, PushInv
<1>8. PopInv(t)'
  BY <1>2, <1>3, <1>4, <1>5, ZenonT(60) DEF LocalInv, PopInv
<1>9. TryInv(t)'
  BY <1>5, Zenon DEF TryInv
<1>10. LocalInv(t)'
  BY Zenon, <1>6, <1>7, <1>8, <1>9 DEF LocalInv
<1>11. TicketStep(t)
  BY <1>1, <1>3, Ordered, Zenon DEF TicketStep
<1> QED
  BY Zenon, <1>5, <1>10, <1>11, QuietRing

\* A step of t to a label outside the ring.
LEMMA IdleRing ==
  ASSUME RingInv, TypeInv', NEW t \in Threads, OthersKeep(t),
         pc[t] # "wake", head' = head, tail <= tail', val' = val,
         \A s \in Slots : /\ slot'[s].ticket = slot[s].ticket
                          /\ slot'[s].status = slot[s].status,
         pc'[t] \in {"idle", "done", "take", "signal",
                     "close_tail", "close_last", "close_flag", "close_slot"}
  PROVE  RingInv'
<1>1. ~Pushing(t)' /\ ~Popping(t)'
  BY Zenon DEF Pushing, Popping, Waiting
<1>2. PcOp(t)' /\ TryInv(t)'
  BY Zenon DEF PcOp, TryInv, Waiting
<1>3. LocalInv(t)'
  BY Zenon, <1>1, <1>2 DEF LocalInv, PushInv, PopInv
<1>4. TicketStep(t)
  BY <1>1, Ordered, Zenon DEF TicketStep, RingInv, TypeInv, TypeOK
<1> QED
  BY Zenon, <1>3, <1>4, QuietRing

-----------------------------------------------------------------------------
(* Safety: every action preserves the ticket discipline, those that assign *)
(* to a value, move out of it or pass a slot on with slot.wake() included, *)
(* and the ticket discipline implies exclusion, delivery and no            *)
(* overwriting.                                                            *)

\* put_value() and get_value() change the value of a slot that t owns.
LEMMA ValueRing ==
  ASSUME RingInv, NoWrap, TypeInv', NEW t \in Threads, Owner(t),
         OthersKeep(t), slot' = slot, head' = head, tail' = tail, cnt' = cnt, op' = op,
         \A s \in Slots \ {At(t)} : val'[s] = val[s],
         pc[t] # "wake", pc'[t] = "wake", LocalInv(t)'
  PROVE  RingInv'
<1>1. \A n \in Nat : (Turn(n)' <=> Turn(n)) /\ Status(n)' = Status(n)
  BY Zenon DEF Turn, Status
<1>2. SlotExclusive
  BY Zenon, RingExclusive
<1>t. head \in Nat /\ tail \in Nat /\ \A u \in Threads : cnt[u] \in Nat /\ At(u) \in Slots
  BY Zenon, IndexType DEF At, RingInv, TypeInv, TypeOK
<1>3. ASSUME NEW u \in Threads \ {t} PROVE LocalInv(u)'
  <2>1. /\ cnt'[u] = cnt[u] /\ op'[u] = op[u] /\ tok'[u] = tok[u]
        /\ pc'[u] = pc[u] \/ (pc[u] = "asleep" /\ pc'[u] = "load")
    BY Zenon DEF OthersKeep
  <2>2. Turn(cnt[u])' <=> Turn(cnt[u])
    BY Zenon, <1>1, <1>t, <2>1 DEF Turn
  <2>3. Status(cnt[u])' = Status(cnt[u])
    BY Zenon, <1>1, <1>t, <2>1 DEF Status
  <2>4. LocalInv(u)
    BY Zenon DEF RingInv
  <2>5. pc[u] = "wake" => val'[At(u)] = val[At(u)]
    BY Zenon, <1>2, <1>t DEF SlotExclusive, Owner
  <2>6. PcOp(u)'
    BY Zenon, <2>1, <2>4 DEF LocalInv, PcOp, Waiting
  <2>7. PushInv(u)'
    BY Zenon, <2>1, <2>2, <2>3, <2>4, <2>5, OthersRoles DEF LocalInv, PushInv
  <2>8. PopInv(u)'
    BY Zenon, <2>1, <2>2, <2>3, <2>4, OthersRoles DEF LocalInv, PopInv
  <2>9. TryInv(u)'
    BY Zenon, <2>1, <2>2, <2>3, <2>4 DEF LocalInv, TryInv
  <2> QED
    BY Zenon, <2>6, <2>7, <2>8, <2>9 DEF LocalInv
<1>4. TicketStep(t)
  <2>1. LocalInv(t)
    BY Zenon DEF RingInv
  <2>2. (Pushing(t)' => Pushing(t)) /\ (Popping(t)' => Popping(t))
    BY <2>1, Zenon DEF LocalInv, PcOp, Pushing, Popping, Waiting, Owner
  <2> QED
    BY <1>t, <2>2, Ordered, Zenon DEF TicketStep
<1>5. PairInv'
  BY ZenonT(60), <1>4, PairStep
<1>6. FreshInv'
  <2>1. \A n \in tail .. CountMod - 1 : n \in Nat
    BY <1>t, ConstantFacts, FromNumber, Zenon
  <2> QED
    BY <1>1, <2>1, ZenonT(60) DEF FreshInv, RingInv
<1>7. StoredInv'
  <2> SUFFICES ASSUME NEW n \in 0 .. CountMod - 1, Turn(n), Status(n) = "valid"
               PROVE  val'[Index(n)] = n \/ \E u \in Threads : Releasing(u)' /\ At(u)' = Index(n)
    BY <1>1, BelowMod, Zenon DEF StoredInv
  <2>0. n \in Nat /\ n < CountMod /\ Index(n) \in Slots
    BY BelowMod, IndexType, Zenon
  <2>1. \A u \in Threads : Releasing(u) => Releasing(u)' /\ At(u)' = At(u)
    BY Zenon, OthersRoles DEF Releasing
  <2>2. CASE Index(n) # At(t)
    BY Zenon, <2>0, <2>1, <2>2 DEF RingInv, StoredInv
  <2>3. CASE Index(n) = At(t)
    <3>1. op[t] # "push"
      <4> SUFFICES ASSUME op[t] = "push" PROVE FALSE
        BY Zenon
      <4>1. Pushing(t)
        BY Zenon DEF RingInv, LocalInv, PcOp, Owner, Pushing
      <4>2. cnt[t] < tail /\ Turn(cnt[t]) /\ Status(cnt[t]) = "none"
        BY Zenon, <4>1 DEF RingInv, LocalInv, PcOp, PushInv, Owner
      <4>3. cnt[t] = n
        BY Zenon, <1>t, <2>0, <2>3, <4>2, SameTurn DEF At
      <4> QED
        BY Zenon, <4>2, <4>3
    <3>2. Releasing(t)' /\ At(t)' = At(t)
      BY Zenon, <3>1 DEF Releasing, At
    <3> QED
      BY Zenon, <2>3, <3>2
  <2> QED
    BY Zenon, <2>2, <2>3
<1> QED
  BY Zenon, <1>3, <1>5, <1>6, <1>7 DEF RingInv

\* slot.wake(): t passes its slot on.
LEMMA WakeRing ==
  ASSUME RingInv, NoWrap, TypeInv', NEW t \in Threads, pc[t] = "wake",
         OthersKeep(t), slot' = [slot EXCEPT ![At(t)] = tok[t]],
         head' = head, tail' = tail, val' = val,
         pc'[t] \in {"signal", "take", "close_slot", "done", "idle"}
  PROVE  RingInv'
<1>t. /\ head \in Nat /\ tail \in Nat
      /\ \A u \in Threads : cnt[u] \in Nat /\ At(u) \in Slots
      /\ slot \in [Slots -> Tokens] /\ tok[t] \in Tokens
      /\ \A n \in Nat : Index(n) \in Slots
  BY Zenon, IndexType DEF At, RingInv, TypeInv, TypeOK
<1>1. \A n \in Nat : Index(n) # At(t) => (Turn(n)' <=> Turn(n)) /\ Status(n)' = Status(n)
  BY Zenon, <1>t DEF Turn, Status
<1>2. SlotExclusive
  BY Zenon, RingExclusive
<1>3. /\ ~Pushing(t)' /\ ~Popping(t)' /\ ~Releasing(t)' /\ LocalInv(t)'
  BY Zenon DEF LocalInv, PcOp, PushInv, PopInv, TryInv, Pushing, Popping, Releasing, Waiting
<1>4. /\ Pushing(t) \/ Popping(t)
      /\ Turn(cnt[t])
      /\ cnt[t] < head \/ cnt[t] < tail
      /\ Pushing(t) => /\ Status(cnt[t]) = "none" /\ tok[t].ticket = Ticket(cnt[t])
                       /\ tok[t].status = "valid" => val[At(t)] = cnt[t]
                       /\ cnt[t] < tail
      /\ Popping(t) => Status(cnt[t]) # "none" /\ tok[t].status = "none" /\ cnt[t] < head
  BY Zenon DEF RingInv, LocalInv, PcOp, PushInv, PopInv, Pushing, Popping, Waiting
<1>5. ASSUME NEW n \in Nat, Index(n) = At(t)
      PROVE  Status(n)' = tok[t].status /\ (Turn(n)' <=> tok[t].ticket = Ticket(n))
  BY Zenon, <1>t, <1>5 DEF Turn, Status
<1>6. ASSUME NEW u \in Threads \ {t} PROVE LocalInv(u)'
  <2>1. /\ cnt'[u] = cnt[u] /\ op'[u] = op[u] /\ tok'[u] = tok[u]
        /\ pc'[u] = pc[u] \/ (pc[u] = "asleep" /\ pc'[u] = "load")
    BY Zenon DEF OthersKeep
  <2>2. /\ Pushing(u)' <=> Pushing(u)
        /\ Popping(u)' <=> Popping(u)
        /\ At(u)' = At(u)
    BY Zenon, OthersRoles
  <2>3. LocalInv(u)
    BY Zenon DEF RingInv
  <2>4. PcOp(u)'
    BY Zenon, <2>1, <2>3 DEF LocalInv, PcOp, Waiting
  <2>5. CASE At(u) # At(t)
    <3>1. Turn(cnt[u])' <=> Turn(cnt[u])
      BY Zenon, <1>1, <1>t, <2>1, <2>5 DEF Turn, At
    <3>2. Status(cnt[u])' = Status(cnt[u])
      BY Zenon, <1>1, <1>t, <2>1, <2>5 DEF Status, At
    <3>3. PushInv(u)'
      BY Zenon, <2>1, <2>2, <2>3, <3>1, <3>2 DEF LocalInv, PushInv
    <3>4. PopInv(u)'
      BY Zenon, <2>1, <2>2, <2>3, <3>1, <3>2 DEF LocalInv, PopInv
    <3>5. TryInv(u)'
      BY ZenonT(60), <2>1, <2>2, <2>3, <3>1, <3>2 DEF LocalInv, TryInv
    <3> QED
      BY Zenon, <2>4, <3>3, <3>4, <3>5 DEF LocalInv
  <2>6. CASE At(u) = At(t)
    <3>1. ~Owner(u)
      BY Zenon, <1>2, <2>6 DEF SlotExclusive, Owner
    <3>2. /\ Status(cnt[u])' = tok[t].status
          /\ Turn(cnt[u])' <=> tok[t].ticket = Ticket(cnt[u])
          /\ Index(cnt[u]) = Index(cnt[t])
      BY Zenon, <1>5, <1>t, <2>1, <2>6 DEF Turn, Status, At
    <3>3. Turn(cnt[u]) /\ (cnt[u] < head \/ cnt[u] < tail) => cnt[u] = cnt[t]
      BY Zenon, <1>t, <1>4, <3>2, SameTurn
    <3>4. PushInv(u)'
      <4> SUFFICES ASSUME Pushing(u), tok[t].ticket = Ticket(cnt[u]), tok[t].status # "none"
                   PROVE  FALSE
        BY Zenon, <2>1, <2>2, <2>3, <3>1, <3>2 DEF LocalInv, PushInv, Owner
      <4>1. Pushing(t) /\ Ticket(cnt[u]) = Ticket(cnt[t])
        BY Zenon, <1>4
      <4>2. cnt[u] < tail
        BY Zenon, <2>3 DEF LocalInv, PushInv
      <4>3. Turn(cnt[u])
        BY Zenon, <1>4, <3>2, <4>1 DEF Turn
      <4> QED
        BY Zenon, <3>3, <4>1, <4>2, <4>3 DEF RingInv, PairInv
    <3>5. PopInv(u)'
      <4> SUFFICES ASSUME Popping(u), op[u] = "fill"
                   PROVE  tok[t].ticket = Ticket(cnt[u])
        BY Zenon, <2>1, <2>2, <2>3, <3>1, <3>2 DEF LocalInv, PopInv, Owner
      <4>1. Turn(cnt[u]) /\ cnt[u] < head
        BY Zenon, <2>3 DEF LocalInv, PopInv
      <4>2. cnt[u] = cnt[t]
        BY Zenon, <3>3, <4>1
      <4> QED
        BY Zenon, <1>4, <4>2 DEF RingInv, PairInv
    <3>6. TryInv(u)'
      <4> SUFFICES ASSUME pc[u] = "try_cas", head = cnt[u] PROVE FALSE
        BY Zenon, <2>1, <2>3 DEF LocalInv, TryInv
      <4>1. Turn(cnt[u]) /\ Status(cnt[u]) # "none"
        BY Zenon, <2>3 DEF LocalInv, TryInv
      <4>2. Ticket(cnt[u]) = Ticket(cnt[t]) /\ Status(cnt[u]) = Status(cnt[t])
        BY Zenon, <1>4, <3>2, <4>1 DEF Turn, Status
      <4>3. Popping(t)
        BY Zenon, <1>4, <4>1, <4>2
      <4>4. cnt[t] < head /\ cnt[u] < CountMod
        BY Zenon, <1>4, <4>3 DEF NoWrap
      <4>5. cnt[t] = cnt[u]
        BY Zenon, <1>t, <1>4, <3>2, <4>1, <4>4, SameTurn
      <4> QED
        BY <1>t, <4>4, <4>5, Ordered, ZenonT(60)
    <3> QED
      BY <2>4, <3>4, <3>5, <3>6, ZenonT(60) DEF LocalInv
  <2> QED
    BY Zenon, <2>5, <2>6
<1>7. PairInv'
  <2>1. TicketStep(t)
    BY <1>3, <1>t, Ordered, Zenon DEF TicketStep
  <2> QED
    BY <2>1, PairStep, Zenon
<1>8. FreshInv'
  <2> SUFFICES ASSUME NEW n \in tail .. CountMod - 1, Turn(n)'
               PROVE  Status(n)' = "none"
    BY Zenon DEF FreshInv
  <2>1. n \in Nat /\ n < CountMod /\ tail <= n
    BY <1>t, ConstantFacts
  <2>2. CASE Index(n) # At(t)
    BY Zenon, <1>1, <2>1, <2>2 DEF RingInv, FreshInv
  <2>3. CASE Index(n) = At(t)
    <3>1. CASE Popping(t)
      BY Zenon, <1>4, <1>5, <2>1, <2>3, <3>1
    <3>2. CASE Pushing(t)
      <4>1. Ticket(n) = Ticket(cnt[t])
        BY Zenon, <1>4, <1>5, <2>1, <2>3, <3>2
      <4>2. Turn(n)
        BY Zenon, <1>4, <2>3, <4>1 DEF Turn, At
      <4>3. n = cnt[t]
        BY Zenon, <1>4, <1>t, <2>1, <2>3, <4>2, SameTurn DEF At
      <4> QED
        BY <1>4, <1>t, <2>1, <3>2, <4>3, Ordered, Zenon
    <3> QED
      BY Zenon, <1>4, <3>1, <3>2
  <2> QED
    BY Zenon, <2>2, <2>3
<1>9. StoredInv'
  <2> SUFFICES ASSUME NEW n \in 0 .. CountMod - 1, Turn(n)', Status(n)' = "valid"
               PROVE  val[Index(n)] = n \/ \E u \in Threads : Releasing(u)' /\ At(u)' = Index(n)
    BY Zenon DEF StoredInv
  <2>1. n \in Nat /\ n < CountMod
    BY BelowMod, Zenon
  <2>2. CASE Index(n) # At(t)
    <3>1. Turn(n) /\ Status(n) = "valid"
      BY Zenon, <1>1, <2>1, <2>2
    <3>2. val[Index(n)] = n \/ \E u \in Threads : Releasing(u) /\ At(u) = Index(n)
      BY Zenon, <3>1 DEF RingInv, StoredInv
    <3> QED
      BY Zenon, <2>2, <3>2, OthersRoles
  <2>3. CASE Index(n) = At(t)
    <3>1. tok[t].status = "valid" /\ tok[t].ticket = Ticket(n)
      BY Zenon, <1>5, <2>1, <2>3
    <3>2. Pushing(t) /\ Ticket(cnt[t]) = Ticket(n)
      BY Zenon, <1>4, <3>1
    <3>3. n = cnt[t]
      <4>1. Turn(n)
        BY Zenon, <1>4, <2>3, <3>2 DEF Turn, At
      <4> QED
        BY Zenon, <1>4, <1>t, <2>1, <2>3, <4>1, SameTurn DEF At
    <3> QED
      BY Zenon, <1>4, <2>3, <3>1, <3>2, <3>3
  <2> QED
    BY Zenon, <2>2, <2>3
<1> QED
  BY Zenon, <1>3, <1>6, <1>7, <1>8, <1>9 DEF RingInv

-----------------------------------------------------------------------------
(* All actions                                                             *)

\* Every step of every operation preserves the ticket discipline, as long as
\* neither counter has wrapped.
LEMMA NextRing == RingInv /\ NoWrap /\ NoWrap' /\ [Next]_vars => RingInv'
<1> SUFFICES ASSUME RingInv, NoWrap, NoWrap', [Next]_vars PROVE RingInv'
  OBVIOUS
<1>t. TypeInv'
  BY NextType DEF RingInv
<1>x. CASE UNCHANGED vars
  <2>1. \A n : (Turn(n)' <=> Turn(n)) /\ Status(n)' = Status(n)
    BY <1>x DEF vars, Turn, Status
  <2>2. \A t \in Threads : /\ Pushing(t)' <=> Pushing(t)
                           /\ Popping(t)' <=> Popping(t)
                           /\ Releasing(t)' <=> Releasing(t)
                           /\ At(t)' = At(t)
    BY <1>x, Zenon DEF vars, Pushing, Popping, Releasing, At
  <2>3. \A t \in Threads : LocalInv(t)'
    BY ZenonT(60), <1>x DEF vars, RingInv, LocalInv, PcOp, PushInv, PopInv, TryInv, Pushing, Popping,
                At, Turn, Status
  <2>4. PairInv' /\ FreshInv' /\ StoredInv'
    BY <1>x, <2>1, <2>2 DEF vars, RingInv, PairInv, FreshInv, StoredInv
  <2> QED
    BY Zenon, <1>t, <2>3, <2>4 DEF RingInv
<1>y. ASSUME NEW t \in Threads,
             \/ wait_push(t) \/ wait_pop(t) \/ try_pop(t) \/ CloseCas(t)
             \/ Step(t) \/ Interrupted(t)
      PROVE  RingInv'
  <2>t. /\ head \in Nat /\ tail \in Nat /\ cnt[t] \in Nat
        /\ At(t) \in Slots /\ slot[At(t)] \in Tokens
        /\ slot \in [Slots -> Tokens] /\ val \in [Slots -> Nat \cup {Moved}]
        /\ pc \in [Threads -> Labels] /\ op \in [Threads -> Ops]
        /\ cnt \in [Threads -> Nat] /\ tok \in [Threads -> Tokens]
        /\ idx \in [Threads -> 0 .. Size]
    BY IndexType DEF RingInv, TypeInv, TypeOK, At
  <2>l. PcOp(t) /\ PushInv(t) /\ PopInv(t) /\ TryInv(t)
    BY DEF RingInv, LocalInv
  <2>1. CASE wait_push(t)
    <3>1. OthersKeep(t)
      BY Zenon, <2>1, <2>t DEF wait_push, Goto, OthersKeep
    <3>2. /\ pc'[t] = "load" /\ op'[t] = "push" /\ cnt'[t] = tail /\ tail' = tail + 1
          /\ head' = head /\ slot' = slot /\ val' = val /\ pc[t] = "idle"
      BY Zenon, <2>1, <2>t DEF wait_push, Goto, mem
    <3>3. Turn(tail) => Status(tail) = "none"
      BY <2>t, ConstantFacts DEF RingInv, FreshInv, NoWrap
    <3>4. (Turn(cnt[t])' <=> Turn(tail)) /\ Status(cnt[t])' = Status(tail)
      BY Zenon, <3>2 DEF Turn, Status
    <3>5. ~Popping(t)'
      BY <3>2 DEF Popping
    <3>6. PcOp(t)' /\ PopInv(t)' /\ TryInv(t)'
      BY Zenon, <3>2, <3>5 DEF PcOp, PopInv, TryInv, Waiting
    <3>7. PushInv(t)'
      BY <2>t, <3>2, <3>3, <3>4, Ordered, Zenon DEF PushInv
    <3>8. TicketStep(t)
      BY <2>t, <3>2, <3>5, Ordered, Zenon DEF TicketStep
    <3> QED
      BY Zenon, <3>1, <3>2, <3>6, <3>7, <3>8, <1>t, QuietRing DEF LocalInv
  <2>2. CASE wait_pop(t)
    <3>1. OthersKeep(t)
      BY Zenon, <2>2, <2>t DEF wait_pop, Goto, OthersKeep
    <3>2. /\ pc'[t] = "load" /\ op'[t] = "pop" /\ cnt'[t] = head /\ head' = head + 1
          /\ tail' = tail /\ slot' = slot /\ val' = val /\ pc[t] \in {"idle", "take"}
      BY Zenon, <2>2, <2>t DEF wait_pop, Goto, mem
    <3>3. ~Pushing(t)'
      BY Zenon, <3>2 DEF Pushing
    <3>4. PcOp(t)' /\ PushInv(t)' /\ TryInv(t)'
      BY <3>2, <3>3, Zenon DEF PcOp, PushInv, TryInv, Waiting
    <3>5. PopInv(t)'
      BY <2>t, <3>2, Ordered, Zenon DEF PopInv
    <3>6. TicketStep(t)
      BY <2>t, <3>2, <3>3, Ordered, Zenon DEF TicketStep
    <3> QED
      BY Zenon, <3>1, <3>2, <3>4, <3>5, <3>6, <1>t, QuietRing DEF LocalInv
  <2>3. CASE try_pop(t)
    <3>1. OthersKeep(t)
      BY Zenon, <2>3, <2>t DEF try_pop, Goto, OthersKeep
    <3>2. /\ pc'[t] = "try_load" /\ op'[t] = "try_pop" /\ cnt'[t] = head
          /\ head' = head /\ tail' = tail /\ slot' = slot /\ val' = val /\ pc[t] = "idle"
      BY <2>3, <2>t, SMTT(30), SMTT(60) DEF try_pop, Goto, mem, ring
    <3>3. ~Pushing(t)' /\ ~Popping(t)'
      BY Zenon, <3>2 DEF Pushing, Popping, Waiting
    <3>4. LocalInv(t)'
      <4>1. PcOp(t)' /\ PushInv(t)' /\ PopInv(t)'
        BY <3>2, <3>3, Zenon DEF PcOp, PushInv, PopInv, Waiting
      <4>2. TryInv(t)'
        BY <2>t, <3>2, Ordered, Zenon DEF TryInv
      <4> QED
        BY <4>1, <4>2, Zenon DEF LocalInv
    <3>5. TicketStep(t)
      <4>1. head <= head' /\ tail <= tail'
        BY <2>t, <3>2, Ordered, Zenon
      <4> QED
        BY <3>3, <4>1, Zenon DEF TicketStep
    <3> QED
      BY Zenon, <3>1, <3>2, <3>4, <3>5, <1>t, QuietRing
  <2>4. CASE CloseCas(t)
    <3>1. OthersKeep(t)
      BY ZenonT(60), <2>4, <2>t DEF CloseCas, Goto, mem, OthersKeep
    <3>2. /\ pc[t] # "wake" /\ head' = head /\ tail <= tail' /\ slot' = slot /\ val' = val
          /\ pc'[t] \in {"idle", "close_tail"}
      BY <2>4, <2>t, SMTT(30), SMTT(60) DEF CloseCas, Goto, mem
    <3> QED
      BY Zenon, <3>1, <3>2, <1>t, IdleRing
  <2>5. CASE Interrupted(t)
    <3>1. OthersKeep(t)
      BY Zenon, <2>5, <2>t DEF Interrupted, Goto, OthersKeep
    <3>2. /\ pc[t] \in Waiting /\ pc'[t] \in Waiting
          /\ UNCHANGED <<head, tail, slot, val, op, cnt>>
      BY Zenon, <2>5, <2>t DEF Interrupted, Goto, mem, ring, Waiting
    <3> QED
      BY Zenon, <3>1, <3>2, <1>t, StayRing
  <2>6. CASE Load(t)
    BY Zenon, <2>6, <1>t, ExamineRing DEF Load
  <2>7. CASE Past(t)
    <3>1. CASE Return(t, "done")
      <4>1. OthersKeep(t)
        BY Zenon, <2>7, <2>t, <3>1 DEF Past, Return, Forget, Goto, OthersKeep
      <4>2. /\ pc[t] # "wake" /\ head' = head /\ tail <= tail' /\ slot' = slot /\ val' = val
            /\ pc'[t] = "done"
        BY <2>7, <2>t, <3>1, SMTT(30), SMTT(60) DEF Past, Return, Goto, mem, ring
      <4> QED
        BY ZenonT(60), <4>1, <4>2, <1>t, IdleRing
    <3>2. CASE Goto(t, "wait") /\ UNCHANGED <<op, cnt, tok, idx>>
      <4>1. OthersKeep(t)
        BY Zenon, <2>7, <2>t, <3>2 DEF Past, Goto, OthersKeep
      <4>2. /\ pc[t] \in Waiting /\ pc'[t] \in Waiting
            /\ UNCHANGED <<head, tail, slot, val, op, cnt>>
        BY Zenon, <2>7, <2>t, <3>2 DEF Past, Goto, mem, ring, Waiting
      <4> QED
        BY <4>1, <4>2, <1>t, StayRing, SMTT(30), SMTT(60)
    <3> QED
      BY Zenon, <2>7, <3>1, <3>2 DEF Past
  <2>8. CASE Backoff(t)
    BY Zenon, <2>8, <1>t, ExamineRing DEF Backoff
  <2>9. CASE SpinWait(t)
    BY Zenon, <2>9, <1>t, ExamineRing DEF SpinWait
  <2>10. CASE FutexMark(t)
    <3> DEFINE x == WithWaiting(tok[t])
    <3>1. CASE slot[At(t)] \in {tok[t], x}
      <4>1. x.ticket = tok[t].ticket /\ x.status = tok[t].status
        BY Zenon, <2>t DEF WithWaiting, Tokens
      <4>2. OthersKeep(t)
        BY Zenon, <2>10, <2>t, <3>1 DEF FutexMark, Goto, OthersKeep
      <4>3. /\ pc[t] \in Waiting /\ pc'[t] \in Waiting
            /\ slot' = [slot EXCEPT ![At(t)] = x]
            /\ UNCHANGED <<head, tail, val, op, cnt>>
        BY Zenon, <2>10, <2>t, <3>1 DEF FutexMark, Goto, ring, Waiting
      <4>4. \A s \in Slots : /\ slot'[s].ticket = slot[s].ticket
                             /\ slot'[s].status = slot[s].status
        BY Zenon, <2>t, <3>1, <4>1, <4>3
      <4> QED
        BY Zenon, <4>2, <4>3, <4>4, <1>t, StayRing
    <3>2. CASE slot[At(t)] \notin {tok[t], x}
      BY Zenon, <2>10, <3>2, <1>t, ExamineRing DEF FutexMark, mem
    <3> QED
      BY Zenon, <3>1, <3>2
  <2>11. CASE FutexSleep(t)
    <3>1. OthersKeep(t)
      BY Zenon, <2>11, <2>t DEF FutexSleep, Goto, OthersKeep
    <3>2. /\ pc[t] \in Waiting /\ pc'[t] \in Waiting
          /\ UNCHANGED <<head, tail, slot, val, op, cnt>>
      BY Zenon, <2>11, <2>t DEF FutexSleep, Goto, mem, ring, Waiting
    <3> QED
      BY <3>1, <3>2, <1>t, StayRing
  <2>12. CASE SynchWait(t)
    <3>1. CASE slot[At(t)] = tok[t]
      <4>1. OthersKeep(t)
        BY Zenon, <2>12, <2>t, <3>1 DEF SynchWait, Goto, OthersKeep
      <4>2. /\ pc[t] \in Waiting /\ pc'[t] \in Waiting
            /\ UNCHANGED <<head, tail, slot, val, op, cnt>>
        BY Zenon, <2>12, <2>t, <3>1 DEF SynchWait, Goto, mem, ring, Waiting
      <4> QED
        BY <4>1, <4>2, <1>t, StayRing
    <3>2. CASE slot[At(t)] # tok[t]
      BY Zenon, <2>12, <3>2, <1>t, ExamineRing DEF SynchWait
    <3> QED
      BY Zenon, <3>1, <3>2
  <2>13. CASE Wake(t)
    <3>1. OthersKeep(t)
      <4>1. \A u \in Threads \ {t} : op'[u] = op[u] /\ cnt'[u] = cnt[u] /\ tok'[u] = tok[u]
        BY <2>13, <2>t, ZenonT(60) DEF Wake, Settle, Forget
      <4>2. \A u \in Threads \ {t} : pc'[u] = pc[u] \/ (pc[u] = "asleep" /\ pc'[u] = "load")
        BY <2>13, <2>t, ZenonT(60) DEF Wake, Goto, GotoWaking, Sleepers
      <4> QED
        BY <4>1, <4>2, ZenonT(60) DEF OthersKeep
    <3>2. pc'[t] \in {"signal", "take", "close_slot", "done", "idle"}
      BY Zenon, <2>13, <2>t DEF Wake, Goto, GotoWaking, Resume
    <3>3. /\ pc[t] = "wake" /\ slot' = [slot EXCEPT ![At(t)] = tok[t]]
          /\ head' = head /\ tail' = tail /\ val' = val
      BY Zenon, <2>13 DEF Wake, ring
    <3> QED
      BY ZenonT(20), <3>1, <3>2, <3>3, <1>t, WakeRing
  <2>14. CASE Signal(t)
    <3>1. OthersKeep(t)
      BY <2>14, <2>t, SMTT(30), SMTT(60) DEF Signal, GotoWaking, Settle, Forget, Sleepers, OthersKeep
    <3>2. /\ pc[t] # "wake" /\ head' = head /\ tail <= tail' /\ slot' = slot /\ val' = val
          /\ pc'[t] \in {"take", "close_slot", "done", "idle"}
      BY <2>14, <2>t, SMTT(30), SMTT(60) DEF Signal, GotoWaking, Resume, ring, mem
    <3> QED
      BY Zenon, <3>1, <3>2, <1>t, IdleRing
  <2>15. CASE put_value(t)
    <3>1. OthersKeep(t)
      BY Zenon, <2>15, <2>t DEF put_value, Goto, OthersKeep
    <3>2. /\ pc[t] = "put" /\ pc'[t] = "wake" /\ Owner(t)
          /\ UNCHANGED <<head, tail, slot, op, cnt>>
          /\ \A s \in Slots \ {At(t)} : val'[s] = val[s]
      BY Zenon, <2>15, <2>t DEF put_value, Goto, ring, Owner
    <3>3. /\ tok'[t].ticket = Ticket(cnt[t])
          /\ tok'[t].status = "valid" => val'[At(t)] = cnt[t]
      <4>1. CASE /\ val' = [val EXCEPT ![At(t)] = cnt[t]]
                 /\ tok' = [tok EXCEPT ![t] = Token(Ticket(cnt[t]), "valid")]
        BY Zenon, <2>t, <4>1 DEF Token
      <4>2. CASE tok' = [tok EXCEPT ![t] = Token(Ticket(cnt[t]), "invalid")]
        BY Zenon, <2>t, <4>2 DEF Token
      <4> QED
        BY Zenon, <2>15, <4>1, <4>2 DEF put_value
    <3>4. op[t] = "push" /\ Turn(cnt[t]) /\ Status(cnt[t]) = "none" /\ cnt[t] < tail
      BY <2>l, <3>2, Zenon DEF PcOp, PushInv, Pushing
    <3>5. (Turn(cnt[t])' <=> Turn(cnt[t])) /\ Status(cnt[t])' = Status(cnt[t]) /\ At(t)' = At(t)
      BY Zenon, <3>2 DEF Turn, Status, At
    <3>6. PcOp(t)' /\ PopInv(t)' /\ TryInv(t)'
      BY Zenon, <3>2, <3>4 DEF PcOp, PopInv, TryInv, Popping, Waiting
    <3>7. PushInv(t)'
      BY <3>2, <3>3, <3>4, <3>5, ZenonT(60) DEF PushInv
    <3> QED
      BY <3>1, <3>2, <3>6, <3>7, <1>t, ValueRing, ZenonT(60) DEF LocalInv
  <2>16. CASE get_value(t)
    <3>1. OthersKeep(t)
      BY Zenon, <2>16, <2>t DEF get_value, Goto, OthersKeep
    <3>2. /\ pc[t] = "get" /\ pc'[t] = "wake" /\ Owner(t)
          /\ UNCHANGED <<head, tail, slot, op, cnt>>
          /\ \A s \in Slots \ {At(t)} : val'[s] = val[s]
          /\ tok'[t].status = "none"
      BY Zenon, <2>16, <2>t DEF get_value, NextLap, Goto, ring, Owner, Token
    <3>3. /\ op[t] \in {"fill", "try_pop"}
          /\ Turn(cnt[t]) /\ Status(cnt[t]) # "none" /\ cnt[t] < head
      BY <2>l, <3>2, ZenonT(60) DEF PcOp, PopInv, Popping
    <3>4. (Turn(cnt[t])' <=> Turn(cnt[t])) /\ Status(cnt[t])' = Status(cnt[t])
      BY <3>2, Zenon DEF Turn, Status
    <3>5. PcOp(t)' /\ PushInv(t)' /\ TryInv(t)'
      BY <3>2, <3>3, ZenonT(60) DEF PcOp, PushInv, TryInv, Pushing, Waiting
    <3>6. PopInv(t)'
      BY <3>2, <3>3, <3>4, ZenonT(60) DEF PopInv
    <3> QED
      BY <3>1, <3>2, <3>5, <3>6, <1>t, ValueRing, ZenonT(60) DEF LocalInv
  <2>17. CASE Skip(t)
    <3>1. OthersKeep(t)
      BY Zenon, <2>17, <2>t DEF Skip, Goto, OthersKeep
    <3>2. /\ pc[t] = "skip" /\ pc'[t] = "wake"
          /\ UNCHANGED <<head, tail, slot, val, cnt>>
          /\ tok'[t].status = "none"
          /\ op'[t] = IF op[t] = "fill" THEN "again" ELSE op[t]
      BY Zenon, <2>17, <2>t DEF Skip, NextLap, Goto, ring, mem, Token
    <3>3. /\ op[t] \in {"fill", "try_pop"} /\ Popping(t)
          /\ Turn(cnt[t]) /\ Status(cnt[t]) # "none" /\ cnt[t] < head
      BY ZenonT(60), <2>l, <3>2 DEF PcOp, PopInv, Popping
    <3>4. (Turn(cnt[t])' <=> Turn(cnt[t])) /\ Status(cnt[t])' = Status(cnt[t])
      BY <3>2 DEF Turn, Status
    <3>5. ~Pushing(t)'
      BY <3>2, <3>3, Zenon DEF Pushing
    <3>6. PcOp(t)' /\ PushInv(t)' /\ TryInv(t)'
      BY Zenon, <3>2, <3>3, <3>5 DEF PcOp, PushInv, TryInv, Waiting
    <3>7. PopInv(t)'
      BY <3>2, <3>3, <3>4, Zenon DEF PopInv
    <3>8. TicketStep(t)
      BY Ordered, Zenon, <2>t, <3>2, <3>3, <3>5 DEF TicketStep
    <3> QED
      BY <3>1, <3>2, <3>6, <3>7, <3>8, <1>t, QuietRing, Zenon DEF LocalInv
  <2>18. CASE TryLoad(t)
    <3>1. OthersKeep(t)
      BY Zenon, <2>18, <2>t DEF TryLoad, Goto, OthersKeep
    <3>2. /\ pc[t] = "try_load" /\ pc'[t] \in {"try_cas", "try_past"}
          /\ UNCHANGED <<head, tail, slot, val, op, cnt>>
      BY Zenon, <2>18, <2>t DEF TryLoad, Goto, ring, mem
    <3>3. op[t] = "try_pop" /\ cnt[t] <= head
      BY <2>l, <3>2, Zenon DEF PcOp, TryInv
    <3>4. pc'[t] = "try_cas" =>
            Turn(cnt[t]) /\ Status(cnt[t]) # "none" /\ Status(cnt[t]) = tok'[t].status
      BY ZenonT(60), <2>18, <2>t, <3>3 DEF TryLoad, Goto, Turn, Status, At
    <3>5. (Turn(cnt[t])' <=> Turn(cnt[t])) /\ Status(cnt[t])' = Status(cnt[t])
      BY <3>2 DEF Turn, Status
    <3>6. ~Pushing(t)' /\ ~Popping(t)'
      BY <3>2, <3>3, Zenon DEF Pushing, Popping, Waiting
    <3>7. PcOp(t)' /\ PushInv(t)' /\ PopInv(t)'
      BY Zenon, <3>2, <3>3, <3>6 DEF PcOp, PushInv, PopInv, Waiting
    <3>8. TryInv(t)'
      BY Zenon, <3>2, <3>3, <3>4, <3>5 DEF TryInv
    <3>9. TicketStep(t)
      BY <2>t, <3>2, <3>6, Ordered, Zenon DEF TicketStep
    <3> QED
      BY <3>1, <3>2, <3>7, <3>8, <3>9, <1>t, QuietRing, ZenonT(60) DEF LocalInv
  <2>19. CASE TryPast(t)
    <3>1. OthersKeep(t)
      BY Zenon, <2>19, <2>t DEF TryPast, Return, Forget, Goto, ring, mem, OthersKeep
    <3>2. /\ pc[t] # "wake" /\ head' = head /\ tail <= tail' /\ slot' = slot /\ val' = val
          /\ pc'[t] \in {"idle", "done"}
      BY <2>19, <2>t DEF TryPast, Return, Forget, Goto, ring, mem
    <3> QED
      BY Zenon, <3>1, <3>2, <1>t, IdleRing
  <2>20. CASE TryCas(t)
    <3>1. OthersKeep(t)
      BY ZenonT(60), <2>20, <2>t DEF TryCas, Return, Forget, Goto, OthersKeep
    <3>2. CASE head % CountMod = cnt[t] % CountMod
      <4>1. op[t] = "try_pop" /\ pc[t] = "try_cas" /\ cnt[t] <= head
        BY Zenon, <2>20, <2>l DEF TryCas, PcOp, TryInv
      <4>2. head = cnt[t]
        <5>1. head < CountMod /\ CountMod \in Nat
          BY ConstantFacts DEF NoWrap
        <5>2. cnt[t] < CountMod
          BY <2>t, <4>1, <5>1, Ordered, Zenon
        <5> QED
          BY <2>t, <3>2, <5>1, <5>2, BeforeWrap, Zenon
      <4>3. /\ head' = head + 1 /\ cnt'[t] = head /\ op'[t] = "try_pop"
            /\ UNCHANGED <<tail, slot, val>>
            /\ pc'[t] = IF tok[t].status = "valid" THEN "get" ELSE "skip"
        BY Zenon, <2>20, <2>t, <3>2, <4>1 DEF TryCas, Goto, mem
      <4>4. Turn(cnt[t]) /\ Status(cnt[t]) # "none" /\ Status(cnt[t]) = tok[t].status
        BY Zenon, <2>l, <4>1, <4>2 DEF TryInv
      <4>5. (Turn(cnt[t])' <=> Turn(cnt[t])) /\ Status(cnt[t])' = Status(cnt[t])
        BY <4>2, <4>3 DEF Turn, Status
      <4>6. ~Pushing(t)'
        BY Zenon, <4>3 DEF Pushing
      <4>7. PcOp(t)' /\ PushInv(t)' /\ TryInv(t)'
        BY Zenon, <4>3, <4>6 DEF PcOp, PushInv, TryInv, Waiting
      <4>8. PopInv(t)'
        <5>1. cnt'[t] < head'
          BY <2>t, <4>3
        <5> QED
          BY <4>2, <4>3, <4>4, <4>5, <5>1, ZenonT(60) DEF PopInv
      <4>9. TicketStep(t)
        <5>1. head <= head' /\ tail <= tail' /\ cnt'[t] >= head
          BY <2>t, <4>3, Ordered, ZenonT(60)
        <5> QED
          BY <4>6, <5>1, Zenon DEF TicketStep
      <4> QED
        BY <3>1, <4>1, <4>3, <4>7, <4>8, <4>9, <1>t, QuietRing, ZenonT(60) DEF LocalInv
    <3>3. CASE head % CountMod # cnt[t] % CountMod
      <4>1. /\ pc[t] # "wake" /\ head' = head /\ tail <= tail' /\ slot' = slot /\ val' = val
            /\ pc'[t] = "idle"
        <5>1. /\ pc[t] = "try_cas" /\ Goto(t, "idle")
              /\ head' = head /\ tail' = tail /\ slot' = slot /\ val' = val
          BY <2>20, <3>3, Zenon DEF TryCas, Return, mem
        <5> QED
          BY <2>t, <5>1 DEF Goto
      <4> QED
        BY Zenon, <3>1, <4>1, <1>t, IdleRing
    <3> QED
      BY Zenon, <3>2, <3>3
  <2>21. CASE CloseTail(t)
    <3>1. OthersKeep(t)
      BY Zenon, <2>21, <2>t DEF CloseTail, Goto, mem, OthersKeep
    <3>2. /\ pc[t] # "wake" /\ head' = head /\ tail <= tail' /\ slot' = slot /\ val' = val
          /\ pc'[t] \in {"close_last"}
      BY <2>21, <2>t, ConstantFacts, SMTT(30), SMTT(60) DEF CloseTail, Goto, mem
    <3> QED
      BY Zenon, <3>1, <3>2, <1>t, IdleRing
  <2>22. CASE CloseLast(t)
    <3>1. OthersKeep(t)
      BY Zenon, <2>22, <2>t DEF CloseLast, Goto, mem, OthersKeep
    <3>2. /\ pc[t] # "wake" /\ head' = head /\ tail <= tail' /\ slot' = slot /\ val' = val
          /\ pc'[t] \in {"close_flag"}
      BY <2>22, <2>t DEF CloseLast, Goto, mem
    <3> QED
      BY Zenon, <3>1, <3>2, <1>t, IdleRing
  <2>23. CASE CloseFlag(t)
    <3>1. OthersKeep(t)
      BY Zenon, <2>23, <2>t DEF CloseFlag, Goto, mem, OthersKeep
    <3>2. /\ pc[t] # "wake" /\ head' = head /\ tail <= tail' /\ slot' = slot /\ val' = val
          /\ pc'[t] \in {"close_slot"}
      BY <2>23, <2>t DEF CloseFlag, Goto, mem
    <3> QED
      BY Zenon, <3>1, <3>2, <1>t, IdleRing
  <2>24. CASE CloseSlot(t)
    <3>1. OthersKeep(t)
      BY ZenonT(60), <2>24, <2>t DEF CloseSlot, Goto, GotoWaking, Forget, Sleepers, OthersKeep
    <3>2. /\ pc[t] # "wake" /\ pc'[t] \in {"signal", "close_slot", "done"}
          /\ head' = head /\ tail <= tail' /\ val' = val
      BY <2>24, <2>t DEF CloseSlot, Goto, GotoWaking, ring
    <3>3. \A s \in Slots : /\ slot'[s].ticket = slot[s].ticket
                           /\ slot'[s].status = slot[s].status
      BY ZenonT(60), <2>24, <2>t, IndexType DEF CloseSlot, Tokens
    <3> QED
      BY Zenon, <3>1, <3>2, <3>3, <1>t, IdleRing
  <2> QED
    BY Zenon, <1>y, <2>1, <2>2, <2>3, <2>4, <2>5, <2>6, <2>7, <2>8, <2>9, <2>10, <2>11, <2>12,
       <2>13, <2>14, <2>15, <2>16, <2>17, <2>18, <2>19, <2>20, <2>21, <2>22, <2>23, <2>24
    DEF Step
<1> QED
  BY Zenon, <1>x, <1>y DEF Next

\* A producer that was let in finds its slot empty.
LEMMA RingNoOverwrite == RingInv => NoOverwrite
  BY Zenon DEF RingInv, NoOverwrite, LocalInv, PcOp, PushInv, Pushing, Status, At

\* A consumer that was let in finds the value of the push with its ticket.
LEMMA RingDelivery == RingInv /\ NoWrap => Delivery
<1> SUFFICES ASSUME RingInv, NoWrap, NEW t \in Threads, pc[t] = "get"
             PROVE  val[At(t)] = cnt[t]
  BY Zenon DEF Delivery
<1>1. Turn(cnt[t]) /\ Status(cnt[t]) = "valid" /\ cnt[t] < head
  BY DEF RingInv, LocalInv, PcOp, PopInv, Popping
<1>2. cnt[t] \in 0 .. CountMod - 1
  <2>1. head < CountMod /\ CountMod \in Nat /\ head \in Nat /\ cnt[t] \in Nat
    BY ConstantFacts, Zenon DEF NoWrap, RingInv, TypeInv, TypeOK
  <2>2. cnt[t] < CountMod
    BY <1>1, <2>1, Ordered, Zenon
  <2> QED
    BY <2>1, <2>2, BeforeWrap, Zenon
<1>3. \A u \in Threads : ~(Releasing(u) /\ At(u) = At(t))
  BY RingExclusive DEF SlotExclusive, Owner, Releasing
<1> QED
  BY Zenon, <1>1, <1>2, <1>3 DEF RingInv, StoredInv, At

\* The ticket discipline holds until 2^32 tickets were drawn on one side, for
\* every size of the ring, kind of slot and any sets of producers, consumers,
\* try_pop() callers and closers, with values that may throw.
THEOREM RingTickets == Spec /\ []NoWrap => []RingInv
BY InitRing, NextRing, PTL DEF Spec

\* Until then no two threads are inside one slot.
THEOREM RingExclusion == Spec /\ []NoWrap => []SlotExclusive
BY RingTickets, RingExclusive, PTL

\* Until then no push overwrites a value that was not popped.
THEOREM RingNeverOverwrites == Spec /\ []NoWrap => []NoOverwrite
BY RingTickets, RingNoOverwrite, PTL

\* Until then every pop gets the value of the push with its own ticket.
THEOREM RingDelivers == Spec /\ []NoWrap => []Delivery
BY RingTickets, RingDelivery, PTL
=============================================================================
