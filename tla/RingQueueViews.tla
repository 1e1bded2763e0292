--------------------------- MODULE RingQueueViews ---------------------------
(***************************************************************************)
(* What the threads of the ring look like to a user of the queue.          *)
(*                                                                         *)
(* The mapping of RingQueue is expressed by two numbers: how many tickets  *)
(* are accepted, and where the tickets that will be filled end (Shows).    *)
(* What a step does to the abstract queue then depends on what it does to  *)
(* these numbers and to the tickets, whether the queue is open or closed.  *)
(* A step that draws a ticket may let in a thread of the other side, which *)
(* drew its own long before.                                               *)
(***************************************************************************)
EXTENDS BoundedQueueSteps, RingQueue

-----------------------------------------------------------------------------
(* What is known of a thread                                               *)

\* Nothing was thrown, so no slot is invalid and no pop skips one.
ThrowFree ==
  /\ \A s \in Slots : slot[s].status # "invalid"
  /\ \A t \in Threads : /\ tok[t].status # "invalid"
                        /\ pc[t] \notin {"skip", "take"} /\ op[t] # "again"

\* An operation that has drawn a ticket holds it until it has passed its slot
\* on and only futex_wake() is left.
CallInv(t) ==
  /\ op[t] = "push" => Pushing(t) \/ pc[t] = "signal"
  /\ op[t] \in {"pop", "fill"} => Popping(t) \/ pc[t] = "signal"
  /\ op[t] = "try_pop" => t \in TryPoppers

\* Whoever was let into a slot has a ticket that has taken effect.
PassInv ==
  \A t \in Threads : Owner(t) \/ (pc[t] = "signal" /\ op[t] # "close") => cnt[t] < Accepted

\* t has closed the queue and visits the slots.
Announced(t) == pc[t] = "close_slot" \/ (pc[t] = "signal" /\ op[t] = "close")

\* What a step of t does beyond its effect on the tickets
Detail(t) ==
  /\ pc[t] # "done"
  /\ pc'[t] = "wake" /\ op'[t] # "push" => pc[t] = "get"
  /\ pc[t] = "get" => pc'[t] = "wake" /\ op'[t] # "push"
  /\ pc'[t] = "signal" /\ op'[t] # "close" => pc[t] = "wake" /\ cnt'[t] = cnt[t]
  /\ Announced(t) => pc'[t] = "done" \/ Announced(t)'
  /\ Announced(t)' => pc[t] = "close_flag" \/ Announced(t)
  /\ pc'[t] \in {"put", "wake"} /\ op'[t] = "push" => Pushing(t)
  /\ pc[t] = "wake" => ~Pushing(t)' /\ ~Popping(t)'

\* What it leaves of ThrowFree and CallInv
LocalStep(t) ==
  /\ \A s \in Slots : slot'[s].status \in {slot[s].status, tok[t].status}
  /\ tok'[t].status # "invalid"
  /\ pc'[t] \notin {"skip", "take"} /\ op'[t] # "again"
  /\ CallInv(t)' /\ Detail(t)

-----------------------------------------------------------------------------
(* What every action leaves of ThrowFree, CallInv and Detail               *)

\* The tokens that are not read from a slot carry no status of a value.
LEMMA NoTokenStatus == NoToken.status = "none" /\ \A n : NextLap(n).status = "none"
  BY DEF NoToken, NextLap, Token

\* A step inside the loops that wait for a slot
LEMMA WaitingLocal ==
  ASSUME NEW t \in Threads, PcOp(t),
         \A s \in Slots : slot'[s].status = slot[s].status,
         tok'[t].status # "invalid",
         pc[t] \in Waiting, pc'[t] \in Waiting \cup {"put", "get"},
         op'[t] = op[t] \/ (op[t] = "pop" /\ op'[t] = "fill"),
         pc'[t] = "put" => op[t] = "push",
         pc'[t] = "get" => op[t] # "push"
  PROVE  LocalStep(t)
<1>1. op[t] \in {"push", "pop", "fill"} /\ op'[t] \in {"push", "pop", "fill"}
  BY Zenon DEF PcOp
<1>2. /\ pc[t] \notin {"done", "wake", "get", "close_slot", "signal"}
      /\ pc'[t] \notin {"skip", "take", "wake", "signal", "close_slot"}
  BY Zenon DEF Waiting
<1>3. CallInv(t)'
  BY <1>1, Zenon DEF CallInv, Pushing, Popping
<1>4. Detail(t)
  BY <1>1, <1>2, Zenon DEF Detail, Announced, Pushing
<1> QED
  BY <1>1, <1>2, <1>3, <1>4, Zenon DEF LocalStep

\* A step of t that holds no ticket
LEMMA FreeLocal ==
  ASSUME NEW t \in Threads,
         \A s \in Slots : slot'[s].status \in {slot[s].status, tok[t].status},
         tok'[t].status # "invalid",
         pc[t] \notin {"done", "get", "close_slot"},
         pc'[t] \notin {"skip", "take", "wake", "put", "get", "signal", "close_slot"} \cup Waiting,
         op'[t] \in {"none", "close", "try_pop"},
         op'[t] = "try_pop" => t \in TryPoppers,
         pc[t] = "signal" => op[t] # "close"
  PROVE  LocalStep(t)
<1>1. CallInv(t)'
  BY Zenon DEF CallInv
<1>2. ~Pushing(t)' /\ ~Popping(t)'
  BY Zenon DEF Pushing, Popping
<1>3. Detail(t)
  BY <1>2, Zenon DEF Detail, Announced
<1> QED
  BY <1>1, <1>3, Zenon DEF LocalStep

\* A thread that has loaded the token of its slot and looks at it
LEMMA ExamineLocal ==
  ASSUME RingInv, ThrowFree, NEW t \in Threads, pc[t] \in {"load", "wait"},
         Examine(t, slot[At(t)]), UNCHANGED <<ring, mem, cnt>>
  PROVE  LocalStep(t)
<1>1. /\ cnt[t] \in Nat /\ At(t) \in Slots /\ slot \in [Slots -> Tokens] /\ PcOp(t)
      /\ pc \in [Threads -> Labels] /\ op \in [Threads -> Ops] /\ tok \in [Threads -> Tokens]
  BY IndexType, Zenon DEF At, RingInv, LocalInv, TypeInv, TypeOK
<1>2. slot[At(t)].status \in {"none", "valid"}
  <2>1. slot[At(t)].status \in Statuses
    BY Zenon, <1>1 DEF Tokens
  <2> QED
    BY <1>1, <2>1, Zenon DEF ThrowFree, Statuses
<1>3. slot' = slot
  BY Zenon DEF mem
<1>4. tok'[t] \in {slot[At(t)], NoToken}
  BY <1>1, Zenon DEF Examine
<1>5. tok'[t].status # "invalid"
  BY <1>2, <1>4, NoTokenStatus, Zenon
<1>6. /\ pc'[t] \in {"past", "put", "get"}
      /\ pc'[t] = "put" => op[t] = "push"
      /\ pc'[t] = "get" => op[t] # "push"
      /\ op'[t] = op[t] \/ (op[t] = "pop" /\ op'[t] = "fill")
  BY <1>1, <1>2, ZenonT(60) DEF Examine, Goto, Stays
<1> QED
  BY <1>1, <1>3, <1>5, <1>6, WaitingLocal, ZenonT(60) DEF Waiting

\* Without exceptions every operation goes from its call to its return, and
\* holds its ticket on the way.
LEMMA LocalSteps ==
  ASSUME RingInv, NoWrap, Roles, ThrowFree, NEW t \in Threads, CallInv(t), Acts(t)
  PROVE  LocalStep(t)
<1>1. wait_push(t) \/ wait_pop(t) \/ try_pop(t) \/ CloseCas(t) \/ Step(t) \/ Interrupted(t)
  BY Zenon DEF Acts
<1>t. /\ head \in Nat /\ cnt[t] \in Nat /\ closed \in {"open", "closed"}
      /\ At(t) \in Slots /\ slot \in [Slots -> Tokens]
      /\ pc \in [Threads -> Labels] /\ op \in [Threads -> Ops]
      /\ cnt \in [Threads -> Nat] /\ tok \in [Threads -> Tokens]
      /\ idx \in [Threads -> 0 .. Size]
  BY IndexType, Zenon DEF RingInv, TypeInv, TypeOK, At
<1>l. PcOp(t) /\ TryInv(t) /\ CallInv(t)
  BY Zenon DEF RingInv, LocalInv
<1>f. /\ tok[t].status # "invalid" /\ pc[t] \notin {"skip", "take"} /\ op[t] # "again"
      /\ ~MayThrow
  BY RingQueueAssumption, Zenon DEF ThrowFree
<1>s. slot' = slot => \A s \in Slots : /\ slot'[s].status = slot[s].status
                                       /\ slot'[s].status \in {slot[s].status, tok[t].status}
  BY Zenon
<1>c. pc[t] \in {"close_tail", "close_last", "close_flag", "close_slot"} => op[t] = "close"
  BY Zenon DEF RingInv, TypeInv, IdxOK
<1>2. CASE wait_push(t)
  <2>1. /\ pc[t] = "idle" /\ pc'[t] = "load" /\ op'[t] = "push" /\ slot' = slot /\ tok'[t] = tok[t]
    BY <1>2, <1>t, Zenon DEF wait_push, Goto, mem
  <2>2. CallInv(t)' /\ Detail(t)
    BY <2>1, Zenon DEF CallInv, Detail, Announced, Pushing, Waiting
  <2> QED
    BY <1>f, <1>s, <2>1, <2>2, ZenonT(60) DEF LocalStep
<1>3. CASE wait_pop(t)
  <2>1. /\ pc[t] = "idle" /\ pc'[t] = "load" /\ op'[t] = "pop" /\ slot' = slot /\ tok'[t] = tok[t]
    BY <1>3, <1>f, <1>t, Zenon DEF wait_pop, Goto, mem
  <2>2. CallInv(t)' /\ Detail(t)
    BY <2>1, Zenon DEF CallInv, Detail, Announced, Popping, Waiting
  <2> QED
    BY <1>f, <1>s, <2>1, <2>2, Zenon DEF LocalStep
<1>4. CASE try_pop(t)
  <2>1. /\ pc[t] = "idle" /\ pc'[t] = "try_load" /\ op'[t] = "try_pop" /\ t \in TryPoppers
        /\ slot' = slot /\ tok'[t] = tok[t]
    BY <1>4, <1>t, Zenon DEF try_pop, Goto, mem
  <2> QED
    BY <1>f, <1>s, <2>1, FreeLocal, Zenon DEF Waiting
<1>5. CASE CloseCas(t)
  <2>1. /\ pc[t] = "idle" /\ pc'[t] = "close_tail" /\ op'[t] = "close"
        /\ slot' = slot /\ tok'[t] = tok[t]
    BY <1>5, <1>t, Zenon DEF CloseCas, Goto, mem
  <2> QED
    BY <1>f, <1>s, <2>1, FreeLocal, ZenonT(60) DEF Waiting
<1>6. CASE Interrupted(t)
  <2>1. /\ pc[t] = "asleep" /\ pc'[t] = "load" /\ op'[t] = op[t] /\ slot' = slot /\ tok'[t] = tok[t]
    BY <1>6, <1>t, Zenon DEF Interrupted, Goto, mem
  <2> QED
    BY <1>f, <1>l, <1>s, <2>1, WaitingLocal, Zenon DEF Waiting
<1>7. CASE Load(t)
  BY <1>7, ExamineLocal, Zenon DEF Load
<1>8. CASE Past(t)
  <2>1. CASE is_past_last(cnt[t])
    <3>1. /\ pc[t] = "past" /\ pc'[t] = "done" /\ op'[t] = "none" /\ slot' = slot
          /\ tok'[t] = NoToken
      BY <1>8, <1>t, <2>1, ZenonT(60) DEF Past, Return, Forget, Goto, mem
    <3> QED
      BY <1>s, <3>1, FreeLocal, NoTokenStatus, ZenonT(60) DEF Waiting
  <2>2. CASE ~is_past_last(cnt[t])
    <3>1. /\ pc[t] = "past" /\ pc'[t] = "wait" /\ op'[t] = op[t] /\ slot' = slot
          /\ tok'[t] = tok[t]
      BY <1>8, <1>t, <2>2, Zenon DEF Past, Goto, mem
    <3> QED
      BY <1>f, <1>l, <1>s, <3>1, WaitingLocal, Zenon DEF Waiting
  <2> QED
    BY <2>1, <2>2, Zenon
<1>9. CASE Backoff(t)
  BY <1>9, ExamineLocal, Zenon DEF Backoff
<1>10. CASE SpinWait(t)
  BY <1>10, ExamineLocal, Zenon DEF SpinWait
<1>11. CASE FutexMark(t)
  <2> DEFINE x == WithWaiting(tok[t])
  <2>1. CASE slot[At(t)] \in {tok[t], x}
    <3>1. x.status = tok[t].status
      BY <1>t DEF WithWaiting, Tokens
    <3>2. /\ pc[t] = "wait" /\ pc'[t] = "futex" /\ op'[t] = op[t] /\ tok'[t] = x
          /\ slot' = [slot EXCEPT ![At(t)] = x]
      BY <1>11, <1>t, <2>1, Zenon DEF FutexMark, Goto
    <3>3. \A s \in Slots : slot'[s].status = slot[s].status
      BY <1>t, <2>1, <3>1, <3>2, Zenon
    <3> QED
      BY <1>f, <1>l, <3>1, <3>2, <3>3, WaitingLocal, ZenonT(60) DEF Waiting
  <2>2. CASE slot[At(t)] \notin {tok[t], x}
    BY <1>11, <2>2, ExamineLocal, ZenonT(60) DEF FutexMark, mem
  <2> QED
    BY <2>1, <2>2, Zenon
<1>12. CASE FutexSleep(t)
  <2>1. /\ pc[t] = "futex" /\ pc'[t] \in {"asleep", "load"} /\ op'[t] = op[t]
        /\ slot' = slot /\ tok'[t] = tok[t]
    BY <1>12, <1>t, Zenon DEF FutexSleep, Goto, mem
  <2> QED
    BY <1>f, <1>l, <1>s, <2>1, WaitingLocal, ZenonT(60) DEF Waiting
<1>13. CASE SynchWait(t)
  <2>1. CASE slot[At(t)] = tok[t]
    <3>1. /\ pc[t] = "wait" /\ pc'[t] = "asleep" /\ op'[t] = op[t]
          /\ slot' = slot /\ tok'[t] = tok[t]
      BY <1>13, <1>t, <2>1, Zenon DEF SynchWait, Goto, mem
    <3> QED
      BY <1>f, <1>l, <1>s, <3>1, WaitingLocal, Zenon DEF Waiting
  <2>2. CASE slot[At(t)] # tok[t]
    BY <1>13, <2>2, ExamineLocal, Zenon DEF SynchWait
  <2> QED
    BY <2>1, <2>2, Zenon
<1>14. CASE Wake(t)
  <2>1. /\ pc[t] = "wake" /\ slot' = [slot EXCEPT ![At(t)] = tok[t]]
        /\ op[t] \in {"push", "fill", "try_pop"}
    BY <1>14, <1>f, <1>l, Zenon DEF Wake, PcOp
  <2>2. \/ /\ pc'[t] = "signal" /\ op'[t] = op[t] /\ cnt'[t] = cnt[t] /\ tok'[t] = tok[t]
        \/ /\ pc'[t] = "idle" /\ op'[t] = "none" /\ tok'[t] = NoToken
    BY <1>14, <1>t, <2>1, ZenonT(60) DEF Wake, Goto, GotoWaking, Resume, Settle, Forget
  <2>3. \A s \in Slots : slot'[s].status \in {slot[s].status, tok[t].status}
    BY <1>t, <2>1, Zenon
  <2>4. CASE pc'[t] = "idle"
    BY <2>1, <2>2, <2>3, <2>4, FreeLocal, NoTokenStatus, Zenon DEF Waiting
  <2>5. CASE pc'[t] = "signal"
    <3>1. CallInv(t)'
      BY <1>l, <2>1, <2>2, <2>5, Zenon DEF CallInv
    <3>2. ~Pushing(t)' /\ ~Popping(t)'
      BY <2>5, Zenon DEF Pushing, Popping, Waiting
    <3>3. Detail(t)
      BY <2>1, <2>2, <2>5, <3>2, Zenon DEF Detail, Announced
    <3> QED
      BY <1>f, <2>1, <2>2, <2>3, <2>5, <3>1, <3>3, Zenon DEF LocalStep
  <2> QED
    BY <2>2, <2>4, <2>5, Zenon
<1>15. CASE Signal(t)
  <2>1. /\ pc[t] = "signal" /\ slot' = slot /\ tok'[t] = NoToken
        /\ \/ pc'[t] = "close_slot" /\ op'[t] = op[t] /\ op[t] = "close"
           \/ pc'[t] = "done" /\ op'[t] = "none" /\ op[t] = "close"
           \/ pc'[t] = "idle" /\ op'[t] = "none" /\ op[t] # "close"
    BY <1>15, <1>f, <1>t, ZenonT(60) DEF Signal, GotoWaking, Resume, Settle, Forget, mem
  <2>2. CallInv(t)'
    BY <2>1, Zenon DEF CallInv
  <2>3. Detail(t)
    BY <2>1, Zenon DEF Detail, Announced
  <2> QED
    BY <1>s, <2>1, <2>2, <2>3, NoTokenStatus, ZenonT(60) DEF LocalStep
<1>16. CASE put_value(t)
  <2>1. /\ pc[t] = "put" /\ pc'[t] = "wake" /\ op'[t] = op[t] /\ slot' = slot
        /\ tok'[t] = Token(Ticket(cnt[t]), "valid") /\ op[t] = "push"
    BY <1>16, <1>f, <1>l, <1>t, ZenonT(60) DEF put_value, Goto, PcOp
  <2>2. tok'[t].status # "invalid"
    BY <2>1, SMTT(30), SMTT(60) DEF Token
  <2>3. CallInv(t)' /\ Detail(t)
    BY <2>1, Zenon DEF CallInv, Detail, Announced, Pushing
  <2> QED
    BY <1>s, <2>1, <2>2, <2>3, ZenonT(60) DEF LocalStep
<1>17. CASE get_value(t)
  <2>1. /\ pc[t] = "get" /\ pc'[t] = "wake" /\ op'[t] = op[t] /\ slot' = slot
        /\ tok'[t] = NextLap(cnt[t]) /\ op[t] \in {"fill", "try_pop"}
    BY <1>17, <1>l, <1>t, Zenon DEF get_value, Goto, PcOp
  <2>2. tok'[t].status # "invalid"
    BY <2>1, NoTokenStatus, Zenon
  <2>3. CallInv(t)' /\ Detail(t)
    BY <1>l, <2>1, Zenon DEF CallInv, Detail, Announced, Popping
  <2> QED
    BY <1>s, <2>1, <2>2, <2>3, Zenon DEF LocalStep
<1>18. CASE Skip(t)
  BY <1>18, <1>f, Zenon DEF Skip
<1>19. CASE TryLoad(t)
  <2>1. /\ pc[t] = "try_load" /\ pc'[t] \in {"try_cas", "try_past"} /\ slot' = slot
        /\ op'[t] = op[t] /\ tok'[t] \in {slot[At(t)], NoToken} /\ op[t] = "try_pop"
    BY <1>19, <1>l, <1>t, ZenonT(60) DEF TryLoad, Goto, mem, PcOp
  <2>2. tok'[t].status # "invalid"
    BY <1>t, <2>1, NoTokenStatus, ZenonT(60) DEF ThrowFree
  <2>3. t \in TryPoppers
    BY <1>l, <2>1, Zenon DEF CallInv
  <2> QED
    BY <1>s, <2>1, <2>2, <2>3, FreeLocal, Zenon DEF Waiting
<1>20. CASE TryPast(t)
  <2>1. /\ pc[t] = "try_past" /\ pc'[t] \in {"done", "idle"} /\ slot' = slot
        /\ op'[t] = "none" /\ tok'[t] = NoToken
    BY <1>20, <1>t, Zenon DEF TryPast, Return, Forget, Goto, mem
  <2> QED
    BY <1>s, <2>1, FreeLocal, NoTokenStatus, ZenonT(60) DEF Waiting
<1>21. CASE TryCas(t)
  <2>1. op[t] = "try_pop" /\ pc[t] = "try_cas" /\ t \in TryPoppers
    BY <1>21, <1>l, Zenon DEF TryCas, PcOp, CallInv
  <2>2. CASE head % CountMod = cnt[t] % CountMod
    <3>1. head = cnt[t]
      <4>1. cnt[t] <= head
        BY <1>l, <2>1, Zenon DEF TryInv
      <4>2. head < CountMod /\ cnt[t] < CountMod
        BY <1>t, <4>1, ConstantFacts, SMTT(30), SMTT(60) DEF NoWrap
      <4> QED
        BY <1>t, <2>2, <4>2, BeforeWrap, Zenon
    <3>2. tok[t].status = "valid"
      <4>1. tok[t].status # "none"
        BY <1>l, <2>1, <3>1, Zenon DEF TryInv
      <4>2. tok[t].status \in Statuses
        BY <1>t, SMTT(30), SMTT(60) DEF Tokens
      <4> QED
        BY <1>f, <4>1, <4>2, Zenon DEF Statuses
    <3>3. /\ pc'[t] = "get" /\ op'[t] = "try_pop" /\ slot' = slot /\ tok'[t] = NoToken
      BY <1>21, <1>t, <2>1, <2>2, <3>2, ZenonT(60) DEF TryCas, Goto, mem
    <3>4. CallInv(t)' /\ Detail(t)
      BY <2>1, <3>3, Zenon DEF CallInv, Detail, Announced
    <3> QED
      BY <1>s, <3>3, <3>4, NoTokenStatus, ZenonT(60) DEF LocalStep
  <2>3. CASE head % CountMod # cnt[t] % CountMod
    <3>1. /\ pc'[t] = "idle" /\ op'[t] = "none" /\ slot' = slot /\ tok'[t] = NoToken
      BY <1>21, <1>t, <2>3, ZenonT(60) DEF TryCas, Return, Forget, Goto, mem
    <3> QED
      BY <1>s, <2>1, <3>1, FreeLocal, NoTokenStatus, Zenon DEF Waiting
  <2> QED
    BY <2>2, <2>3, Zenon
<1>22. CASE CloseTail(t) \/ CloseLast(t)
  <2>1. /\ pc[t] \in {"close_tail", "close_last"} /\ pc'[t] \in {"close_last", "close_flag"}
        /\ op'[t] = op[t] /\ slot' = slot /\ tok'[t] = tok[t]
    BY <1>22, <1>t, Zenon DEF CloseTail, CloseLast, Goto, mem
  <2> QED
    BY <1>c, <1>f, <1>s, <2>1, FreeLocal, Zenon DEF Waiting
<1>23. CASE CloseFlag(t)
  <2>1. /\ pc[t] = "close_flag" /\ pc'[t] = "close_slot" /\ op'[t] = "close"
        /\ slot' = slot /\ tok'[t] = tok[t]
    BY <1>23, <1>c, <1>t, Zenon DEF CloseFlag, Goto, mem
  <2>2. CallInv(t)' /\ Detail(t)
    BY <2>1, Zenon DEF CallInv, Detail, Announced
  <2> QED
    BY <1>f, <1>s, <2>1, <2>2, Zenon DEF LocalStep
<1>24. CASE CloseSlot(t)
  <2>1. /\ pc[t] = "close_slot" /\ op[t] = "close"
        /\ \/ pc'[t] \in {"signal", "close_slot"} /\ op'[t] = op[t] /\ tok'[t] = tok[t]
           \/ pc'[t] = "done" /\ op'[t] = "none" /\ tok'[t] = NoToken
    BY <1>24, <1>c, <1>t, ZenonT(60) DEF CloseSlot, Goto, GotoWaking, Forget
  <2>2. \A s \in Slots : slot'[s].status \in {slot[s].status, tok[t].status}
    BY <1>24, <1>t, IndexType, ZenonT(60) DEF CloseSlot, Tokens
  <2>3. CallInv(t)' /\ Detail(t)
    BY <2>1, Zenon DEF CallInv, Detail, Announced
  <2> QED
    BY <1>f, <2>1, <2>2, <2>3, NoTokenStatus, ZenonT(60) DEF LocalStep
<1> QED
  BY <1>1, <1>2, <1>3, <1>4, <1>5, <1>6, <1>7, <1>8, <1>9, <1>10, <1>11, <1>12, <1>13, <1>14, <1>15,
     <1>16, <1>17, <1>18, <1>19, <1>20, <1>21, <1>22, <1>23, <1>24, Zenon
  DEF Step

-----------------------------------------------------------------------------
(* The queue of values                                                     *)

\* Sequences of the same length and elements are equal.
LEMMA SameSeq ==
  ASSUME NEW s \in Seq(Nat), NEW r \in Seq(Nat), Len(s) = Len(r), \A i \in 1 .. Len(s) : s[i] = r[i]
  PROVE  s = r
  BY SMTT(30), SMTT(60)

\* The elements of a tail
LEMMA TailIs ==
  ASSUME NEW s \in Seq(Nat), s # <<>>
  PROVE  /\ Tail(s) \in Seq(Nat) /\ Len(Tail(s)) = Len(s) - 1
         /\ \A i \in 1 .. Len(s) - 1 : Tail(s)[i] = s[i + 1]
  OBVIOUS

\* The queue has a value for each accepted ticket from head_ on.
LEMMA BetweenLength ==
  ASSUME NEW m \in Nat, NEW n \in Nat
  PROVE  /\ Between(m, n) \in Seq(Nat)
         /\ n <= m => Between(m, n) = <<>>
         /\ m < n => Between(m, n) # <<>> /\ Len(Between(m, n)) = n - m
<1>1. CASE n <= m
  <2>1. Between(m, n) = [i \in 1 .. 0 |-> m + i]
    BY <1>1 DEF Between
  <2> QED
    BY <1>1, <2>1
<1>2. CASE m < n
  <2>1. Between(m, n) = [i \in 1 .. n - m |-> m + i] /\ n - m \in Nat /\ n - m # 0
    BY <1>2 DEF Between
  <2>2. Between(m, n) \in Seq(Nat) /\ Len(Between(m, n)) = n - m
    BY <2>1
  <2> QED
    BY <1>2, <2>1, <2>2
<1> QED
  BY <1>1, <1>2

\* Accepting a ticket appends its value.
LEMMA BetweenAppend ==
  ASSUME NEW m \in Nat, NEW n \in Nat, m <= n
  PROVE  Between(m, n + 1) = Append(Between(m, n), n + 1)
<1>1. Between(m, n + 1) = [i \in 1 .. n + 1 - m |-> m + i] /\ n + 1 - m \in Nat
  BY DEF Between
<1>2. Between(m, n) = [i \in 1 .. n - m |-> m + i] /\ n - m \in Nat
  <2>1. CASE m < n
    BY <2>1, SMTT(30), SMTT(60) DEF Between
  <2>2. CASE m = n
    <3>1. n - m = 0
      BY <2>2, SMTT(30), SMTT(60)
    <3> QED
      BY <2>2, <3>1, SMTT(30), SMTT(60) DEF Between
  <2> QED
    BY <2>1, <2>2, SMTT(30), SMTT(60)
<1>3. Between(m, n) \in Seq(Nat) /\ Len(Between(m, n)) = n - m
  BY <1>2
<1>4. Between(m, n + 1) \in Seq(Nat) /\ Len(Between(m, n + 1)) = n - m + 1
  BY <1>1, SMTT(30), SMTT(60)
<1>5. /\ Append(Between(m, n), n + 1) \in Seq(Nat)
      /\ Len(Append(Between(m, n), n + 1)) = n - m + 1
  BY <1>3, SMTT(30), SMTT(60)
<1>6. ASSUME NEW i \in 1 .. n - m + 1
      PROVE  Between(m, n + 1)[i] = Append(Between(m, n), n + 1)[i]
  <2>1. CASE i \in 1 .. n - m
    BY <1>1, <1>2, <1>3, <2>1, SMTT(30), SMTT(60)
  <2>2. CASE i = n - m + 1
    BY <1>1, <1>3, <2>2, SMTT(30), SMTT(60)
  <2> QED
    BY <1>2, <2>1, <2>2, SMTT(30), SMTT(60)
<1> QED
  BY <1>4, <1>5, <1>6, SameSeq, Zenon

\* Drawing a head ticket takes the first value.
LEMMA BetweenTail ==
  ASSUME NEW m \in Nat, NEW n \in Nat, m < n
  PROVE  Head(Between(m, n)) = m + 1 /\ Tail(Between(m, n)) = Between(m + 1, n)
<1>1. Between(m, n) = [i \in 1 .. n - m |-> m + i] /\ n - m \in Nat \ {0}
  BY DEF Between
<1>2. Between(m + 1, n) = [i \in 1 .. n - (m + 1) |-> m + 1 + i] /\ n - (m + 1) \in Nat
  <2>1. CASE m + 1 < n
    BY <2>1, SMTT(30), SMTT(60) DEF Between
  <2>2. CASE m + 1 = n
    <3>1. n - (m + 1) = 0
      BY <2>2, SMTT(30), SMTT(60)
    <3> QED
      BY <2>2, <3>1, SMTT(30), SMTT(60) DEF Between
  <2> QED
    BY <2>1, <2>2, SMTT(30), SMTT(60)
<1>3. Between(m, n) \in Seq(Nat) /\ Len(Between(m, n)) = n - m /\ Between(m, n) # <<>>
  BY <1>1, SMTT(30), SMTT(60)
<1>4. Between(m + 1, n) \in Seq(Nat) /\ Len(Between(m + 1, n)) = n - m - 1
  BY <1>2, SMTT(30), SMTT(60)
<1>5. Head(Between(m, n)) = m + 1
  BY <1>1, <1>3, SMTT(30), SMTT(60)
<1>6. /\ Tail(Between(m, n)) \in Seq(Nat) /\ Len(Tail(Between(m, n))) = n - m - 1
      /\ \A i \in 1 .. n - m - 1 : Tail(Between(m, n))[i] = Between(m, n)[i + 1]
  BY <1>3, TailIs, ZenonT(60)
<1>7. ASSUME NEW i \in 1 .. n - m - 1 PROVE Tail(Between(m, n))[i] = Between(m + 1, n)[i]
  BY <1>1, <1>2, <1>6, SMTT(30), SMTT(60)
<1> QED
  BY <1>4, <1>5, <1>6, <1>7, SameSeq, Zenon

-----------------------------------------------------------------------------
(* What the mapping shows of a thread                                      *)

\* With a accepted out of e tickets that will be filled
CallView(t, a, e) ==
  IF pc[t] = "done" THEN "done"
  ELSE IF Pushing(t) /\ a <= cnt[t] /\ cnt[t] < e THEN "push"
  ELSE IF Popping(t) /\ a <= cnt[t] THEN "pop" ELSE "none"

GotView(t, a) ==
  IF Popping(t) /\ pc[t] # "wake" /\ cnt[t] < a THEN Append(got[t], cnt[t] + 1) ELSE got[t]

Shows(a, e) ==
  /\ Accepted = a /\ End = e
  /\ \A t \in Threads : AbsCall(t) = CallView(t, a, e) /\ AbsGot(t) = GotView(t, a)

\* A number is on one side of another.
LEMMA Sides == \A m, n \in Nat : m <= n <=> ~(n < m)
  OBVIOUS

\* Under the invariant the mapping shows of a thread what CallView and GotView
\* say.
LEMMA Views ==
  ASSUME RingInv, ThrowFree, PassInv, \A t \in Threads : CallInv(t),
         NEW a \in Nat, NEW e \in Nat, Accepted = a, End = e
  PROVE  Shows(a, e)
<1> SUFFICES ASSUME NEW t \in Threads
             PROVE  AbsCall(t) = CallView(t, a, e) /\ AbsGot(t) = GotView(t, a)
  BY Zenon DEF Shows
<1>1. PcOp(t) /\ CallInv(t) /\ cnt[t] \in Nat
  BY Zenon DEF RingInv, LocalInv, TypeInv, TypeOK
<1>2. pc[t] \in {"put", "get", "skip", "wake"} => ~(a <= cnt[t])
  BY <1>1, Sides, Zenon DEF PassInv, Owner
<1>3. pc[t] = "signal" /\ op[t] # "close" => ~(a <= cnt[t])
  BY <1>1, Sides, ZenonT(60) DEF PassInv
<1>4. pc[t] \notin {"skip", "take"} /\ op[t] # "again"
  BY Zenon DEF ThrowFree
<1>5. op[t] = "push" /\ a <= cnt[t] <=> Pushing(t) /\ a <= cnt[t]
  BY <1>1, <1>3, Zenon DEF CallInv, Pushing
<1>6. op[t] \in {"pop", "fill"} /\ a <= cnt[t] <=> Popping(t) /\ a <= cnt[t]
  BY <1>1, <1>2, <1>3, Zenon DEF CallInv, Popping
<1>7. Taking(t) <=> Popping(t) /\ pc[t] # "wake"
  BY <1>1, <1>4, ZenonT(60) DEF CallInv, Popping, PcOp, Taking, Waiting
<1>8. Pushing(t) \/ Popping(t) => pc[t] # "done"
  BY Zenon DEF Pushing, Popping, Waiting
<1>9. ~(Pushing(t) /\ Popping(t))
  BY Zenon DEF Pushing, Popping, Waiting
<1>10. AbsGot(t) = GotView(t, a)
  BY <1>7, Zenon DEF AbsGot, GotView
<1>11. CASE pc[t] = "done"
  <2>1. ~(op[t] = "push" /\ a <= cnt[t]) /\ ~(op[t] \in {"pop", "fill"} /\ a <= cnt[t])
    BY <1>5, <1>6, <1>8, <1>11, ZenonT(60)
  <2>2. AbsCall(t) = "done"
    BY Zenon, <1>11, <2>1 DEF AbsCall
  <2> QED
    BY <1>10, <1>11, <2>2, Zenon DEF CallView
<1>12. CASE pc[t] # "done" /\ Pushing(t) /\ a <= cnt[t] /\ cnt[t] < e
  <2>1. op[t] = "push"
    BY <1>12, Zenon DEF Pushing
  <2>2. AbsCall(t) = "push"
    BY Zenon, <1>12, <2>1 DEF AbsCall
  <2> QED
    BY <1>10, <1>12, <2>2, Zenon DEF CallView
<1>13. CASE pc[t] # "done" /\ Popping(t) /\ a <= cnt[t]
  <2>1. op[t] \in {"pop", "fill"}
    BY <1>6, <1>13, ZenonT(60)
  <2>2. AbsCall(t) = "pop"
    BY Zenon, <1>13, <2>1 DEF AbsCall
  <2> QED
    BY <1>9, <1>10, <1>13, <2>2, Zenon DEF CallView
<1>14. CASE /\ pc[t] # "done" /\ ~(Pushing(t) /\ a <= cnt[t] /\ cnt[t] < e)
            /\ ~(Popping(t) /\ a <= cnt[t])
  <2>1. ~(op[t] = "push" /\ a <= cnt[t] /\ cnt[t] < e) /\ ~(op[t] \in {"pop", "fill"} /\ a <= cnt[t])
    BY <1>5, <1>6, <1>14, Zenon
  <2>2. AbsCall(t) = "none"
    BY Zenon, <1>14, <2>1 DEF AbsCall
  <2> QED
    BY <1>10, <1>14, <2>2, Zenon DEF CallView
<1> QED
  BY <1>11, <1>12, <1>13, <1>14, ZenonT(60)

\* The same after a step.
LEMMA ViewsNext ==
  ASSUME RingInv', ThrowFree', PassInv', \A t \in Threads : CallInv(t)',
         NEW a \in Nat, NEW e \in Nat, Accepted' = a, End' = e
  PROVE  Shows(a, e)'
<1> SUFFICES ASSUME NEW t \in Threads
             PROVE  AbsCall(t)' = CallView(t, a, e)' /\ AbsGot(t)' = GotView(t, a)'
  BY Zenon DEF Shows
<1>1. PcOp(t)' /\ CallInv(t)' /\ cnt'[t] \in Nat
  BY Zenon DEF RingInv, LocalInv, TypeInv, TypeOK
<1>2. pc'[t] \in {"put", "get", "skip", "wake"} => ~(a <= cnt'[t])
  BY <1>1, Sides, Zenon DEF PassInv, Owner
<1>3. pc'[t] = "signal" /\ op'[t] # "close" => ~(a <= cnt'[t])
  BY <1>1, Sides, ZenonT(60) DEF PassInv
<1>4. pc'[t] \notin {"skip", "take"} /\ op'[t] # "again"
  BY Zenon DEF ThrowFree
<1>5. op'[t] = "push" /\ a <= cnt'[t] <=> Pushing(t)' /\ a <= cnt'[t]
  BY <1>1, <1>3, ZenonT(60) DEF CallInv, Pushing
<1>6. op'[t] \in {"pop", "fill"} /\ a <= cnt'[t] <=> Popping(t)' /\ a <= cnt'[t]
  BY <1>1, <1>2, <1>3, ZenonT(60) DEF CallInv, Popping
<1>7. Taking(t)' <=> Popping(t)' /\ pc'[t] # "wake"
  BY <1>1, <1>4, ZenonT(60) DEF CallInv, Popping, PcOp, Taking, Waiting
<1>8. Pushing(t)' \/ Popping(t)' => pc'[t] # "done"
  BY Zenon DEF Pushing, Popping, Waiting
<1>9. ~(Pushing(t)' /\ Popping(t)')
  BY Zenon DEF Pushing, Popping, Waiting
<1>10. AbsGot(t)' = GotView(t, a)'
  BY <1>7, ZenonT(60) DEF AbsGot, GotView
<1>11. CASE pc'[t] = "done"
  <2>1. ~(op'[t] = "push" /\ a <= cnt'[t]) /\ ~(op'[t] \in {"pop", "fill"} /\ a <= cnt'[t])
    BY <1>5, <1>6, <1>8, <1>11, ZenonT(60)
  <2>2. AbsCall(t)' = "done"
    BY <1>11, <2>1, Zenon DEF AbsCall
  <2> QED
    BY <1>10, <1>11, <2>2, ZenonT(60) DEF CallView
<1>12. CASE pc'[t] # "done" /\ Pushing(t)' /\ a <= cnt'[t] /\ cnt'[t] < e
  <2>1. op'[t] = "push"
    BY <1>12, ZenonT(60) DEF Pushing
  <2>2. AbsCall(t)' = "push"
    BY Zenon, <1>12, <2>1 DEF AbsCall
  <2> QED
    BY <1>10, <1>12, <2>2, ZenonT(60) DEF CallView
<1>13. CASE pc'[t] # "done" /\ Popping(t)' /\ a <= cnt'[t]
  <2>1. op'[t] \in {"pop", "fill"}
    BY <1>6, <1>13, Zenon
  <2>2. AbsCall(t)' = "pop"
    BY Zenon, <1>13, <2>1 DEF AbsCall
  <2> QED
    BY <1>9, <1>10, <1>13, <2>2, ZenonT(60) DEF CallView
<1>14. CASE /\ pc'[t] # "done" /\ ~(Pushing(t)' /\ a <= cnt'[t] /\ cnt'[t] < e)
            /\ ~(Popping(t)' /\ a <= cnt'[t])
  <2>1. ~(op'[t] = "push" /\ a <= cnt'[t] /\ cnt'[t] < e) /\ ~(op'[t] \in {"pop", "fill"} /\ a <= cnt'[t])
    BY <1>5, <1>6, <1>14, Zenon
  <2>2. AbsCall(t)' = "none"
    BY Zenon, <1>14, <2>1 DEF AbsCall
  <2> QED
    BY <1>10, <1>14, <2>2, ZenonT(60) DEF CallView
<1> QED
  BY <1>11, <1>12, <1>13, <1>14, Zenon

\* As many tickets are accepted, out of e, as are less than a lap ahead of h.
Meet(h, e) == IF h + Size < e THEN h + Size ELSE e

\* The counters decide how many tickets are accepted.
LEMMA AcceptedIs ==
  ASSUME head \in Nat, NEW e \in Nat, End = e
  PROVE  /\ Accepted \in Nat
         /\ Accepted = IF head + Size < e THEN head + Size ELSE e
  BY ConstantFacts, SMTT(30), SMTT(60) DEF Accepted

\* The same after a step.
LEMMA AcceptedNext ==
  ASSUME head' \in Nat, NEW e \in Nat, End' = e
  PROVE  /\ Accepted' \in Nat
         /\ Accepted' = IF head' + Size < e THEN head' + Size ELSE e
<1>1. Accepted' = IF head' + Size < e THEN head' + Size ELSE e
  BY Zenon DEF Accepted
<1>2. \A h \in Nat : h + Size \in Nat
  BY ConstantFacts, SMTT(30), SMTT(60)
<1> QED
  BY <1>1, <1>2, ZenonT(60)

\* More tickets are accepted as the counters advance.
LEMMA MeetGrows == \A h, e, g, f \in Nat : h <= g /\ e <= f => Meet(h, e) <= Meet(g, f)
  BY ConstantFacts, SMTT(30), SMTT(60) DEF Meet

\* What the mapping shows before a step and after it
LEMMA ShowsNow ==
  ASSUME RingInv, ThrowFree, PassInv, \A u \in Threads : CallInv(u),
         NEW h \in Nat, NEW e \in Nat, h = head, End = e
  PROVE  \E a \in Nat : a = Meet(h, e) /\ Shows(a, e)
<1>1. Accepted \in Nat /\ Accepted = Meet(h, e)
  BY AcceptedIs, Zenon DEF Meet
<1>2. PICK a \in Nat : a = Accepted
  BY <1>1, Zenon
<1>3. Shows(a, e)
  BY <1>2, Views, ZenonT(60)
<1> QED
  BY <1>1, <1>2, <1>3, ZenonT(60)

\* The tickets whose turn it is have taken effect.
TurnsAccepted ==
  \A k \in Nat :
    /\ k < CountMod /\ Turn(k)
    /\ Status(k) # "none" \/ \E u \in Threads : Pushing(u) /\ cnt[u] = k
    => k < Accepted

\* So whoever is let into a slot has a ticket that has taken effect.
LEMMA PassStep ==
  ASSUME RingInv, RingInv', NoWrap, NoWrap', PassInv, NEW t \in Threads, Effect(t), Detail(t),
         Accepted \in Nat, Accepted' \in Nat, Accepted <= Accepted',
         \A k \in Nat :
           /\ k < CountMod /\ Turn(k)
           /\ Status(k) # "none" \/ \E u \in Threads : Pushing(u) /\ cnt[u] = k
           => k < Accepted
  PROVE  PassInv'
<1>0. /\ OthersKeep(t) /\ CountMod \in Nat /\ head' \in Nat /\ tail' \in Nat
      /\ \A u \in Threads : cnt[u] \in Nat /\ cnt'[u] \in Nat
  BY ConstantFacts, Zenon DEF Effect, RingInv, TypeInv, TypeOK
<1> SUFFICES ASSUME NEW u \in Threads, Owner(u)' \/ (pc'[u] = "signal" /\ op'[u] # "close")
             PROVE  cnt'[u] < Accepted'
  BY Zenon DEF PassInv
<1>1. SUFFICES cnt'[u] < Accepted
  BY <1>0, SMTT(30), SMTT(60)
<1>2. CASE u # t
  <2>1. Owner(u) \/ (pc[u] = "signal" /\ op[u] # "close")
    BY <1>0, <1>2, ZenonT(60) DEF OthersKeep, Owner
  <2> QED
    BY <1>0, <1>2, <2>1, ZenonT(60) DEF OthersKeep, PassInv
<1>3. CASE u = t /\ pc'[t] = "signal" /\ op'[t] # "close"
  BY <1>3, Zenon DEF Detail, PassInv, Owner
<1>4. CASE u = t /\ Owner(t)'
  <2>1. /\ PcOp(t)' /\ PushInv(t)' /\ PopInv(t)'
    BY Zenon DEF RingInv, LocalInv
  <2>2. PICK k \in Nat : k = cnt'[t]
    BY <1>0, Zenon
  <2>3. /\ Pushing(t)' \/ Popping(t)'
        /\ Pushing(t)' => pc'[t] \in {"put", "wake"} /\ op'[t] = "push"
        /\ Popping(t)' => pc'[t] \in {"get", "skip", "wake"}
    BY <1>4, <2>1, Zenon DEF PcOp, Owner, Pushing, Popping, Waiting
  <2>4. /\ Turn(k)' /\ (Pushing(t)' => k < tail')
        /\ Popping(t)' => k < head' /\ Status(k)' # "none"
    BY <2>1, <2>2, <2>3, ZenonT(60) DEF PushInv, PopInv, Turn, Status
  <2>5. k < CountMod
    BY <1>0, <2>3, <2>4, SMTT(30), SMTT(60) DEF NoWrap
  <2>6. CASE Pushing(t)'
    <3>1. Pushing(t) /\ pc[t] # "wake"
      BY <2>3, <2>6, Zenon DEF Detail
    <3>2. TurnsKept /\ cnt'[t] = cnt[t]
      BY <2>6, <3>1, Zenon DEF Effect, DrawsPush, DrawsPop, Continues, GivesUp, Passes, Closing
    <3> QED
      BY <1>4, <2>2, <2>4, <2>5, <3>1, <3>2, Zenon DEF TurnsKept
  <2>7. CASE Popping(t)'
    <3>1. TurnsKept
      BY <2>7, Zenon DEF Effect, DrawsPush, DrawsPop, Continues, GivesUp, Passes, Closing
    <3> QED
      BY <1>4, <2>2, <2>4, <2>5, <2>7, <3>1, Zenon DEF TurnsKept
  <2> QED
    BY <2>3, <2>6, <2>7, Zenon
<1> QED
  BY <1>2, <1>3, <1>4, ZenonT(60)

\* After it, whoever is let into a slot still has a ticket that has taken
\* effect.
LEMMA ShowsNext ==
  ASSUME RingInv, RingInv', NoWrap, NoWrap', PassInv, TurnsAccepted,
         ThrowFree', \A u \in Threads : CallInv(u)', NEW t \in Threads, Effect(t), Detail(t),
         NEW h \in Nat, NEW e \in Nat, h = head, End = e,
         NEW g \in Nat, NEW f \in Nat, g = head', End' = f, h <= g, e <= f
  PROVE  PassInv' /\ \E b \in Nat : b = Meet(g, f) /\ Shows(b, f)'
<1>1. Accepted \in Nat /\ Accepted = Meet(h, e)
  BY AcceptedIs, Zenon DEF Meet
<1>2. Accepted' \in Nat /\ Accepted' = Meet(g, f)
  BY AcceptedNext, Zenon DEF Meet
<1>3. Meet(h, e) <= Meet(g, f)
  BY MeetGrows, Zenon
<1>4. Accepted <= Accepted'
  BY <1>1, <1>2, <1>3, ZenonT(60)
<1>5. PassInv'
  BY <1>1, <1>2, <1>4, PassStep, Zenon DEF TurnsAccepted
<1>6. PICK b \in Nat : b = Accepted'
  BY <1>2, Zenon
<1>7. Shows(b, f)'
  BY <1>5, <1>6, ViewsNext, ZenonT(60)
<1> QED
  BY <1>2, <1>5, <1>6, <1>7, ZenonT(60)

-----------------------------------------------------------------------------
(* Steps of the abstract queue                                             *)

\* The threads at either end of Conqueue
LEMMA UsersAreThreads == Abs!Users = Threads
  BY RingQueueAssumption, Zenon DEF Abs!Users, Threads

\* With a accepted out of e tickets a thread looks as with b out of f.
Agree(u, a, e, b, f) ==
  /\ Pushing(u) => (a <= cnt[u] /\ cnt[u] < e <=> b <= cnt[u] /\ cnt[u] < f)
  /\ Popping(u) => (a <= cnt[u] <=> b <= cnt[u]) /\ (cnt[u] < a <=> cnt[u] < b)

\* A step of t seen at another thread
LEMMA OthersView ==
  ASSUME NEW t \in Threads, OthersKeep(t), Record, NEW u \in Threads \ {t},
         NEW a \in Nat, NEW e \in Nat, NEW b \in Nat, NEW f \in Nat, Agree(u, a, e, b, f)
  PROVE  CallView(u, b, f)' = CallView(u, a, e) /\ GotView(u, b)' = GotView(u, a)
<1>1. /\ Pushing(u)' <=> Pushing(u)
      /\ Popping(u)' <=> Popping(u)
      /\ cnt'[u] = cnt[u]
      /\ pc'[u] = "done" <=> pc[u] = "done"
      /\ pc'[u] = "wake" <=> pc[u] = "wake"
  BY OthersRoles, Zenon DEF OthersKeep
<1>2. ~Moves(u)
  BY Zenon DEF OthersKeep, Moves
<1>3. got'[u] = got[u]
  BY <1>2, Zenon DEF Record
<1>4. CallView(u, b, f)' = CallView(u, a, e)
  BY <1>1, Zenon DEF CallView, Agree
<1>5. GotView(u, b)' = GotView(u, a)
  BY <1>1, <1>3, ZenonT(60) DEF GotView, Agree
<1> QED
  BY <1>4, <1>5, Zenon

\* Functions of the mapping that change at most at one thread
LEMMA CallsChange ==
  /\ (\A u \in Threads : AbsCall(u)' = AbsCall(u)) => Calls' = Calls
  /\ \A t \in Threads, v \in {"none", "push", "pop", "done"} :
       AbsCall(t)' = v /\ (\A u \in Threads \ {t} : AbsCall(u)' = AbsCall(u))
         => Calls' = [Calls EXCEPT ![t] = v]
<1>1. (\A u \in Threads : AbsCall(u)' = AbsCall(u)) => Calls' = Calls
  BY Zenon DEF Calls
<1>2. ASSUME NEW t \in Threads, NEW v \in {"none", "push", "pop", "done"},
             AbsCall(t)' = v, \A u \in Threads \ {t} : AbsCall(u)' = AbsCall(u)
      PROVE  Calls' = [Calls EXCEPT ![t] = v]
  <2>1. \A u \in Threads : AbsCall(u)' = IF u = t THEN v ELSE Calls[u]
    BY <1>2, Zenon DEF Calls
  <2>2. Calls' = [u \in Threads |-> IF u = t THEN v ELSE Calls[u]]
    BY <2>1, Zenon DEF Calls
  <2>3. Calls = [u \in Threads |-> Calls[u]]
    BY Zenon DEF Calls
  <2> QED
    BY <2>2, <2>3, ZenonT(60)
<1> QED
  BY <1>1, <1>2, Zenon

\* The same of the values that were given to the threads
LEMMA GivenChange ==
  /\ (\A u \in Threads : AbsGot(u)' = AbsGot(u)) => Given' = Given
  /\ \A t \in Threads, n \in Nat :
       AbsGot(t)' = Append(AbsGot(t), n) /\ (\A u \in Threads \ {t} : AbsGot(u)' = AbsGot(u))
         => Given' = [Given EXCEPT ![t] = Append(@, n)]
<1>1. (\A u \in Threads : AbsGot(u)' = AbsGot(u)) => Given' = Given
  BY Zenon DEF Given
<1>2. ASSUME NEW t \in Threads, NEW n \in Nat,
             AbsGot(t)' = Append(AbsGot(t), n), \A u \in Threads \ {t} : AbsGot(u)' = AbsGot(u)
      PROVE  Given' = [Given EXCEPT ![t] = Append(@, n)]
  <2>1. \A u \in Threads : AbsGot(u)' = IF u = t THEN Append(Given[t], n) ELSE Given[u]
    BY <1>2, Zenon DEF Given
  <2>2. Given' = [u \in Threads |-> IF u = t THEN Append(Given[t], n) ELSE Given[u]]
    BY <2>1, Zenon DEF Given
  <2>3. Given = [u \in Threads |-> Given[u]]
    BY Zenon DEF Given
  <2> QED
    BY <2>2, <2>3, Zenon
<1> QED
  BY <1>1, <1>2, ZenonT(60)

\* AbsClosed is a truth value.
LEMMA ClosedKept == (AbsClosed' <=> AbsClosed) => AbsClosed' = AbsClosed
  BY DEF AbsClosed

\* A step that changes no thread, no number and not the flag
LEMMA Rests ==
  ASSUME head' = head, Accepted' = Accepted, AbsClosed' <=> AbsClosed,
         \A u \in Threads : AbsCall(u)' = AbsCall(u) /\ AbsGot(u)' = AbsGot(u)
  PROVE  UNCHANGED Abs!conqueue
<1>1. Calls' = Calls /\ Given' = Given
  BY CallsChange, GivenChange, Zenon
<1>2. Queued' = Queued
  BY Zenon DEF Queued, Between
<1>3. AbsClosed' = AbsClosed
  BY Zenon, ClosedKept
<1> QED
  BY <1>1, <1>2, <1>3, Zenon DEF Abs!conqueue

\* Tickets that are held were drawn.
LEMMA Drawn ==
  ASSUME RingInv
  PROVE  /\ head \in Nat /\ tail \in Nat
         /\ \A u \in Threads : /\ cnt[u] \in Nat
                               /\ Pushing(u) => cnt[u] < tail
                               /\ Popping(u) => cnt[u] < head
  BY Zenon DEF RingInv, TypeInv, TypeOK, LocalInv, PushInv, PopInv

\* Who draws a ticket, or gives one up, is neither done nor moving a value.
LEMMA NotMoving ==
  ASSUME RingInv, NEW t \in Threads, ~Popping(t), Detail(t)
  PROVE  pc[t] \notin {"done", "get"}
  BY Zenon DEF Detail, RingInv, LocalInv, PcOp, Popping

\* A thread that goes on with its operation or passes its slot on: a value
\* that it moves out it was already given.
LEMMA GoesOn ==
  ASSUME RingInv, NoWrap, PassInv, NEW t \in Threads, OthersKeep(t), Detail(t), Record,
         Continues(t) \/ Passes(t),
         NEW a \in Nat, NEW e \in Nat, Shows(a, e), Shows(a, e)', AbsClosed' <=> AbsClosed
  PROVE  UNCHANGED Abs!conqueue
<1>1. PcOp(t) /\ cnt[t] \in Nat
  BY Zenon DEF RingInv, LocalInv, TypeInv, TypeOK
<1>2. pc[t] # "done" /\ pc'[t] # "done"
  BY Zenon DEF Detail, Continues, Passes
<1>3. Owner(t) => cnt[t] < a /\ ~(a <= cnt[t])
  BY <1>1, Sides, Zenon DEF PassInv, Shows
<1>4. pc[t] # "get" => got'[t] = got[t]
  BY Zenon DEF Record, Moves
<1>5. CallView(t, a, e)' = CallView(t, a, e) /\ GotView(t, a)' = GotView(t, a)
  <2>1. CASE Passes(t)
    <3>1. pc[t] = "wake" /\ ~Pushing(t)' /\ ~Popping(t)'
      BY <2>1, Zenon DEF Passes
    <3> QED
      BY <1>2, <1>3, <1>4, <3>1, Zenon DEF CallView, GotView, Owner
  <2>2. CASE Continues(t)
    <3>0. /\ Pushing(t)' <=> Pushing(t)
          /\ Popping(t)' <=> Popping(t)
          /\ Pushing(t) \/ Popping(t) => cnt'[t] = cnt[t]
      BY <2>2, Zenon DEF Continues
    <3>1. CallView(t, a, e)' = CallView(t, a, e)
      BY <1>2, <3>0, Zenon DEF CallView
    <3>2. CASE pc[t] = "get"
      <4>1. Popping(t) /\ pc[t] # "wake" /\ cnt[t] < a
        BY <1>1, <1>3, <3>2, Zenon DEF PcOp, Popping, Owner
      <4>2. pc'[t] = "wake" /\ Moves(t)
        BY <3>2, Zenon DEF Detail, Moves
      <4>3. val[At(t)] = cnt[t]
        BY <3>2, RingDelivery, Zenon DEF Delivery
      <4>4. got'[t] = Append(got[t], cnt[t] + 1)
        BY <4>2, <4>3, Zenon DEF Record
      <4>5. GotView(t, a) = Append(got[t], cnt[t] + 1) /\ GotView(t, a)' = got'[t]
        BY <4>1, <4>2, Zenon DEF GotView
      <4> QED
        BY <3>1, <4>4, <4>5, Zenon
    <3>3. CASE pc[t] # "get"
      <4>1. Popping(t) => pc[t] # "wake" /\ pc'[t] # "wake"
        BY <3>0, <3>3, Zenon DEF Detail, Popping, Waiting
      <4>2. GotView(t, a)' = GotView(t, a)
        BY <1>4, <3>0, <3>3, <4>1, Zenon DEF GotView
      <4> QED
        BY <3>1, <4>2, Zenon
    <3> QED
      BY <3>2, <3>3, Zenon
  <2> QED
    BY <2>1, <2>2, Zenon
<1>6. \A u \in Threads \ {t} : CallView(u, a, e)' = CallView(u, a, e) /\ GotView(u, a)' = GotView(u, a)
  BY OthersView, ZenonT(60) DEF Agree
<1>7. \A u \in Threads : AbsCall(u)' = AbsCall(u) /\ AbsGot(u)' = AbsGot(u)
  BY <1>5, <1>6, Zenon DEF Shows
<1>8. head' = head /\ Accepted' = Accepted
  BY Zenon DEF Continues, Passes, Shows
<1> QED
  BY <1>7, <1>8, Rests, Zenon

\* A thread without a ticket that draws none and is not told "closed".
LEMMA StaysOut ==
  ASSUME NEW t \in Threads, OthersKeep(t), Record, ~Pushing(t), ~Popping(t), pc[t] \notin {"done", "get"},
         NEW a \in Nat, NEW e \in Nat, Shows(a, e), Shows(a, e)',
         ~Popping(t)', pc'[t] # "done", Pushing(t)' => ~(cnt'[t] < e)
  PROVE  \A u \in Threads : AbsCall(u)' = AbsCall(u) /\ AbsGot(u)' = AbsGot(u)
<1>1. got'[t] = got[t]
  BY Zenon DEF Record, Moves
<1>2. CallView(t, a, e)' = CallView(t, a, e) /\ GotView(t, a)' = GotView(t, a)
  BY <1>1, Zenon DEF CallView, GotView
<1>3. \A u \in Threads \ {t} : CallView(u, a, e)' = CallView(u, a, e) /\ GotView(u, a)' = GotView(u, a)
  BY OthersView, ZenonT(60) DEF Agree
<1> QED
  BY <1>2, <1>3, Zenon DEF Shows

\* A thread that is told "closed".
LEMMA Told ==
  ASSUME NEW t \in Threads, OthersKeep(t), Record, pc[t] \notin {"done", "get"}, pc'[t] = "done",
         ~Pushing(t)', ~Popping(t)', head' = head, AbsClosed, AbsClosed',
         NEW a \in Nat, NEW e \in Nat, Shows(a, e), Shows(a, e)',
         Pushing(t) => ~(cnt[t] < e),
         Popping(t) => ~(cnt[t] < a),
         \/ t \in Producers \cup Closers /\ ~Popping(t)
         \/ t \in Consumers \cup TryPoppers /\ ~Pushing(t) /\ Queued = <<>>
  PROVE  Abs!ConqueueNext
<1>1. got'[t] = got[t]
  BY Zenon DEF Record, Moves
<1>2. /\ CallView(t, a, e)' = "done" /\ GotView(t, a)' = GotView(t, a)
      /\ CallView(t, a, e) \in {"none", "pop"}
      /\ ~Popping(t) => CallView(t, a, e) = "none"
  BY <1>1, Zenon DEF CallView, GotView
<1>3. \A u \in Threads \ {t} : CallView(u, a, e)' = CallView(u, a, e) /\ GotView(u, a)' = GotView(u, a)
  BY OthersView, ZenonT(60) DEF Agree
<1>8. /\ \A u \in Threads : AbsGot(u)' = AbsGot(u)
      /\ AbsCall(t)' = "done" /\ \A u \in Threads \ {t} : AbsCall(u)' = AbsCall(u)
  BY <1>2, <1>3, Zenon DEF Shows
<1>4. Given' = Given /\ Calls' = [Calls EXCEPT ![t] = "done"]
  BY <1>8, CallsChange, GivenChange, Zenon
<1>5. Calls[t] \in {"none", "pop"} /\ (~Popping(t) => Calls[t] = "none")
  BY <1>2, Zenon DEF Shows, Calls
<1>6. Queued' = Queued /\ Accepted' = Accepted /\ AbsClosed' = AbsClosed
  BY ClosedKept, Zenon DEF Shows, Queued, Between
<1>7. Abs!ToldClosed(t)
  BY <1>4, <1>5, <1>6, ZenonT(60) DEF Abs!ToldClosed
<1> QED
  BY <1>7, UsersAreThreads, Zenon DEF Abs!ConqueueNext

\* Hence what the mapping shows of the other threads stays as it is where the
\* numbers agree.
LEMMA Others ==
  ASSUME NEW t \in Threads, OthersKeep(t), Record,
         NEW a \in Nat, NEW e \in Nat, NEW b \in Nat, NEW f \in Nat, Shows(a, e), Shows(b, f)'
  PROVE  \A u \in Threads \ {t} :
           Agree(u, a, e, b, f) => AbsCall(u)' = AbsCall(u) /\ AbsGot(u)' = AbsGot(u)
<1> SUFFICES ASSUME NEW u \in Threads \ {t}, Agree(u, a, e, b, f)
             PROVE  AbsCall(u)' = AbsCall(u) /\ AbsGot(u)' = AbsGot(u)
  BY Zenon
<1>1. CallView(u, b, f)' = CallView(u, a, e) /\ GotView(u, b)' = GotView(u, a)
  BY OthersView, Zenon
<1>2. /\ AbsCall(u) = CallView(u, a, e) /\ AbsGot(u) = GotView(u, a)
      /\ AbsCall(u)' = CallView(u, b, f)' /\ AbsGot(u)' = GotView(u, b)'
  BY Zenon DEF Shows
<1> QED
  BY <1>1, <1>2, Zenon

\* A push on the open queue: it is accepted at once and meets a consumer in
\* line or finds room, or it stands in line because the ring is full.
LEMMA Pushes ==
  ASSUME RingInv, PassInv, Roles', ~AbsClosed, ~AbsClosed',
         NEW t \in Threads, OthersKeep(t), Record, DrawsPush(t), pc[t] \notin {"done", "get"},
         NEW h \in Nat, NEW n \in Nat, NEW m \in Nat,
         h = head, n = tail, m = n + 1,
         NEW a \in Nat, NEW b \in Nat, Shows(a, n), Shows(b, m)',
         a = Meet(h, n),
         b = Meet(h, m),
         n < h => \E c \in Threads : Popping(c) /\ cnt[c] = n
  PROVE  Abs!ConqueueNext
<1>0. Size \in Nat \ {0}
  BY Zenon, ConstantFacts
<1>1. /\ head' = h /\ ~Pushing(t) /\ ~Popping(t) /\ Pushing(t)' /\ ~Popping(t)' /\ cnt'[t] = n
      /\ pc'[t] # "done"
  BY Zenon DEF DrawsPush
<1>2. t \in Producers \cup Closers
  BY <1>1, Zenon DEF Roles, RoleInv, Pushing
<1>3. \A u \in Threads : /\ cnt[u] \in Nat
                         /\ Pushing(u) => cnt[u] < n
                         /\ Popping(u) => cnt[u] < h
  BY Drawn, Zenon
<1>4. Accepted = a /\ Accepted' = b /\ AbsClosed' = AbsClosed
  BY ClosedKept, Zenon DEF Shows
<1>5. got'[t] = got[t]
  BY Zenon DEF Record, Moves
<1>6. /\ CallView(t, a, n) = "none" /\ GotView(t, a) = got[t] /\ GotView(t, b)' = got[t]
      /\ Calls[t] = "none" /\ AbsCall(t) = "none"
  BY <1>1, <1>5, Zenon DEF CallView, GotView, Shows, Calls
<1>7. Queued = Between(h, a) /\ Queued' = Between(h, b)
  BY <1>1, <1>4, Zenon DEF Queued, Between
<1>12. \A u \in Threads : /\ AbsCall(u) = CallView(u, a, n) /\ AbsCall(u)' = CallView(u, b, m)'
                         /\ AbsGot(u) = GotView(u, a) /\ AbsGot(u)' = GotView(u, b)'
  BY Zenon DEF Shows
<1>13. \A u \in Threads \ {t} :
         Agree(u, a, n, b, m) => AbsCall(u)' = AbsCall(u) /\ AbsGot(u)' = AbsGot(u)
  BY Others, SMTT(30), SMTT(60)
<1>8. SUFFICES Abs!wait_push(t)
  BY UsersAreThreads, ZenonT(60) DEF Abs!ConqueueNext
<1>9. CASE n < h
  <2>1. a = n /\ b = m /\ ~(m <= n) /\ n < m /\ n <= n /\ ~(n < n)
    BY <1>0, <1>9, SMTT(30), SMTT(60) DEF Meet
  <2>2. PICK c \in Threads : Popping(c) /\ cnt[c] = n
    BY <1>9, Zenon
  <2>3. c # t /\ ~Owner(c) /\ pc[c] # "wake" /\ pc[c] # "done"
    BY <1>1, <1>4, <2>1, <2>2, ZenonT(60) DEF PassInv, Owner, Popping, Waiting
  <2>4. /\ Popping(c)' /\ ~Pushing(c)' /\ cnt'[c] = n /\ pc'[c] # "wake" /\ pc'[c] # "done"
        /\ got'[c] = got[c] /\ ~Pushing(c)
    <3>1. ~Moves(c) /\ ~Pushing(c)
      BY <2>2, <2>3, Zenon DEF OthersKeep, Moves, Pushing, Popping, Waiting
    <3> QED
      BY <2>2, <2>3, <3>1, OthersRoles, ZenonT(60) DEF OthersKeep, Record
  <2>5. CallView(c, a, n) = "pop" /\ CallView(c, b, m)' = "none"
    BY <2>1, <2>2, <2>3, <2>4, Zenon DEF CallView
  <2>6. GotView(c, a) = got[c] /\ GotView(c, b)' = Append(got[c], m)
    BY <2>1, <2>2, <2>4, ZenonT(60) DEF GotView
  <2>7. CallView(t, b, m)' = "none"
    BY <1>1, <2>1, Zenon DEF CallView
  <2>8. ASSUME NEW u \in Threads, u # t, u # c
        PROVE  AbsCall(u)' = AbsCall(u) /\ AbsGot(u)' = AbsGot(u)
    <3>0. u \in Threads \ {t} /\ u # c
      BY <2>8, Zenon
    <3>1. Popping(u) => cnt[u] # n
      BY <3>0, <2>2, ZenonT(60) DEF RingInv, PairInv
    <3>2. Agree(u, a, n, b, m)
      BY <1>3, <2>1, <3>1, SMTT(30), SMTT(60) DEF Agree
    <3> QED
      BY <3>0, <3>2, <1>13, Zenon
  <2>9. Calls[c] = "pop" /\ AbsGot(c)' = Append(AbsGot(c), m)
    BY <2>5, <2>6, <1>12, Zenon DEF Calls
  <2>10. ASSUME NEW u \in Threads \ {c}
         PROVE  AbsCall(u)' = AbsCall(u) /\ AbsGot(u)' = AbsGot(u)
    <3>1. CASE u = t
      BY <1>6, <2>7, <3>1, <1>12, ZenonT(60)
    <3>2. CASE u # t
      BY <2>8, <3>2, Zenon
    <3> QED
      BY <3>1, <3>2, Zenon
  <2>11. AbsCall(c)' = "none"
    BY <2>5, <1>12, Zenon
  <2>12. Calls' = [Calls EXCEPT ![c] = "none"]
    BY <2>10, <2>11, CallsChange, ZenonT(60)
  <2>13. Given' = [Given EXCEPT ![c] = Append(@, m)]
    BY <1>0, <2>9, <2>10, GivenChange, ZenonT(60)
  <2>14. Queued' = Queued
    <3>1. n <= h /\ m <= h
      BY <1>9, SMTT(30), SMTT(60)
    <3>2. Between(h, n) = <<>> /\ Between(h, m) = <<>>
      BY <3>1, BetweenLength, Zenon
    <3> QED
      BY <1>7, <2>1, <3>2, ZenonT(60)
  <2>15. c \in Abs!InLine("pop")
    BY <2>9, UsersAreThreads, Zenon DEF Abs!InLine
  <2>16. Accepted' = Accepted + 1 /\ m = Accepted + 1
    BY <1>4, <2>1, Zenon
  <2>17. Abs!Give(c, Accepted + 1)
    BY <2>13, <2>16, Zenon DEF Abs!Give
  <2>18. Abs!try_push(t)
    BY <1>2, <1>4, <1>6, <2>12, <2>14, <2>15, <2>16, <2>17, Zenon DEF Abs!try_push
  <2> QED
    BY <2>18, Zenon DEF Abs!wait_push
<1>10. CASE h <= n /\ n < h + Size
  <2>1. a = n /\ b = m /\ ~(m <= n) /\ n < m
    BY <1>0, <1>10, SMTT(30), SMTT(60) DEF Meet
  <2>2. CallView(t, b, m)' = "none"
    BY <1>1, <2>1, Zenon DEF CallView
  <2>3. ASSUME NEW u \in Threads \ {t}
        PROVE  AbsCall(u)' = AbsCall(u) /\ AbsGot(u)' = AbsGot(u)
    <3>1. Agree(u, a, n, b, m)
      BY <1>3, <1>10, <2>1, SMTT(30), SMTT(60) DEF Agree
    <3> QED
      BY <3>1, <1>13, Zenon
  <2>4. \A u \in Threads : AbsCall(u)' = AbsCall(u) /\ AbsGot(u)' = AbsGot(u)
    BY <1>6, <2>2, <2>3, <1>12, ZenonT(60)
  <2>5. Calls' = Calls /\ Given' = Given
    BY <2>4, CallsChange, GivenChange, ZenonT(60)
  <2>6. Queued' = Append(Queued, m)
    <3>1. n \in Nat /\ m \in Nat /\ h <= n /\ m = n + 1
      BY Zenon, <1>10
    <3>2. Between(h, n + 1) = Append(Between(h, n), n + 1)
      BY <3>1, BetweenAppend, Zenon
    <3> QED
      BY <1>7, <2>1, <3>1, <3>2, ZenonT(60)
  <2>7. Len(Queued) < Size
    <3>1. CASE h < n
      <4>1. Len(Between(h, n)) = n - h
        BY <3>1, BetweenLength, Zenon
      <4>2. n - h < Size
        BY <1>0, <1>10, SMTT(30), SMTT(60)
      <4> QED
        BY <1>7, <2>1, <4>1, <4>2, Zenon
    <3>2. CASE h = n
      <4>1. Queued = <<>>
        <5>1. a <= h
          BY <2>1, <3>2, SMTT(30), SMTT(60)
        <5> QED
          BY <1>7, <5>1, BetweenLength, ZenonT(60)
      <4> QED
        BY <1>0, <4>1, SMTT(30), SMTT(60)
    <3> QED
      BY <1>10, <3>1, <3>2, SMTT(30), SMTT(60)
  <2>8. Abs!InLine("pop") = {}
    <3>1. ASSUME NEW u \in Threads PROVE CallView(u, a, n) # "pop"
      <4>1. ~(Popping(u) /\ a <= cnt[u])
        BY <1>3, <1>10, <2>1, SMTT(30), SMTT(60)
      <4> QED
        BY <4>1, Zenon DEF CallView
    <3>2. \A u \in Threads : Calls[u] # "pop"
      BY <3>1, <1>12, Zenon DEF Calls
    <3> QED
      BY <3>2, UsersAreThreads, Zenon DEF Abs!InLine
  <2>9. Accepted' = Accepted + 1 /\ m = Accepted + 1
    BY <1>4, <2>1, Zenon
  <2>10. Queued' = Append(Queued, Accepted + 1)
    BY <2>6, <2>9, Zenon
  <2>11. Abs!try_push(t)
    BY <1>2, <1>4, <1>6, <2>5, <2>7, <2>8, <2>9, <2>10, Zenon DEF Abs!try_push
  <2> QED
    BY <2>11, Zenon DEF Abs!wait_push
<1>11. CASE h + Size <= n
  <2>1. a = h + Size /\ b = h + Size /\ b <= n /\ n < m /\ h < a
    BY <1>0, <1>11, SMTT(30), SMTT(60) DEF Meet
  <2>2. CallView(t, b, m)' = "push"
    BY <1>1, <2>1, ZenonT(60) DEF CallView
  <2>3. ASSUME NEW u \in Threads \ {t}
        PROVE  AbsCall(u)' = AbsCall(u) /\ AbsGot(u)' = AbsGot(u)
    <3>1. Agree(u, a, n, b, m)
      BY <1>3, <2>1, SMTT(30), SMTT(60) DEF Agree
    <3> QED
      BY <3>1, <1>13, Zenon
  <2>4. AbsCall(t)' = "push"
    BY <2>2, <1>12, Zenon
  <2>8. \A u \in Threads \ {t} : AbsCall(u)' = AbsCall(u)
    BY <2>3, Zenon
  <2>9. \A u \in Threads : AbsGot(u)' = AbsGot(u)
    BY <1>6, <2>3, <1>12, Zenon
  <2>5. Calls' = [Calls EXCEPT ![t] = "push"] /\ Given' = Given
    BY <2>4, <2>8, <2>9, CallsChange, GivenChange, Zenon
  <2>6. Queued' = Queued /\ Accepted' = Accepted
    BY <1>4, <1>7, <2>1, Zenon
  <2>7. Len(Queued) = Size
    <3>1. a - h = Size
      BY <1>0, <2>1, SMTT(30), SMTT(60)
    <3> QED
      BY <1>7, <2>1, <3>1, BetweenLength, ZenonT(60)
  <2> QED
    BY <1>2, <1>4, <1>6, <2>5, <2>6, <2>7, ZenonT(60) DEF Abs!wait_push
<1> QED
  BY <1>0, <1>9, <1>10, <1>11, SMTT(30), SMTT(60)

\* A pop: it takes the oldest value at once, and lets in a producer if one
\* stands in line, or it stands in line because there is no value.
LEMMA Pops ==
  ASSUME RingInv, RingInv', Roles', ThrowFree',
         NEW t \in Threads, OthersKeep(t), Record, DrawsPop(t), Detail(t), CallInv(t)',
         NEW h \in Nat, NEW k \in Nat, NEW w \in Nat, h = head, k = h + 1, w = h + Size,
         NEW e \in Nat, NEW a \in Nat, NEW b \in Nat, Shows(a, e), Shows(b, e)',
         a = Meet(h, e), b = Meet(k, e), AbsClosed' <=> AbsClosed,
         w < e => \E p \in Threads : Pushing(p) /\ cnt[p] = w
  PROVE  Abs!ConqueueNext
<1>0. Size \in Nat \ {0}
  BY ConstantFacts
<1>1. /\ head' = k /\ ~Pushing(t) /\ ~Popping(t) /\ Popping(t)' /\ ~Pushing(t)' /\ cnt'[t] = h
      /\ pc'[t] # "done" /\ pc[t] # "done"
  BY Zenon DEF DrawsPop, Detail
<1>2. t \in Consumers \cup TryPoppers
  <2>1. op'[t] \in {"pop", "fill", "try_pop"}
    BY <1>1, Zenon DEF Popping, RingInv, LocalInv, PcOp, ThrowFree
  <2> QED
    BY <2>1, Zenon DEF Roles, RoleInv, CallInv
<1>3. \A u \in Threads : /\ cnt[u] \in Nat
                         /\ Pushing(u) => cnt[u] < tail
                         /\ Popping(u) => cnt[u] < h
  BY Drawn, Zenon
<1>4. Accepted = a /\ Accepted' = b /\ AbsClosed' = AbsClosed
  BY ClosedKept, Zenon DEF Shows
<1>5. pc[t] # "get" /\ pc'[t] # "wake"
  BY <1>1, Zenon DEF Popping, Detail, RingInv, LocalInv, PcOp
<1>6. got'[t] = got[t]
  BY <1>5, Zenon DEF Record, Moves
<1>7. CallView(t, a, e) = "none" /\ GotView(t, a) = got[t]
  BY <1>1, Zenon DEF CallView, GotView
<1>8. Queued = Between(h, a) /\ Queued' = Between(k, b)
  BY <1>1, <1>4, Zenon DEF Queued, Between
<1>9. \A u \in Threads : /\ AbsCall(u) = CallView(u, a, e) /\ AbsCall(u)' = CallView(u, b, e)'
                         /\ AbsGot(u) = GotView(u, a) /\ AbsGot(u)' = GotView(u, b)'
  BY Zenon DEF Shows
<1>10. \A u \in Threads \ {t} :
         Agree(u, a, e, b, e) => AbsCall(u)' = AbsCall(u) /\ AbsGot(u)' = AbsGot(u)
  BY Others, SMTT(30), SMTT(60)
<1>11. Calls[t] = "none" /\ AbsCall(t) = "none" /\ AbsGot(t) = got[t]
  BY <1>7, <1>9, Zenon DEF Calls
<1>12. SUFFICES Abs!wait_pop(t)
  BY UsersAreThreads, Zenon DEF Abs!ConqueueNext
<1>13. CASE w < e
  <2>1. a = w /\ b = w + 1 /\ w + 1 \in Nat /\ h < a /\ h < b /\ ~(b <= h) /\ a <= w /\ ~(b <= w) /\ h <= a
    BY <1>0, <1>13, SMTT(30), SMTT(60) DEF Meet
  <2>2. PICK p \in Threads : Pushing(p) /\ cnt[p] = w
    BY <1>13, Zenon
  <2>3. p # t /\ pc[p] # "done" /\ ~Popping(p)
    BY <1>1, <2>2, Zenon DEF Pushing, Popping, Waiting
  <2>4. /\ ~Popping(p)' /\ cnt'[p] = w /\ pc'[p] # "done" /\ got'[p] = got[p]
    <3>1. ~Moves(p)
      BY <2>3, Zenon DEF OthersKeep, Moves
    <3> QED
      BY <2>2, <2>3, <3>1, OthersRoles, Zenon DEF OthersKeep, Record
  <2>5. CallView(p, a, e) = "push" /\ GotView(p, a) = got[p]
    BY <1>13, <2>1, <2>2, <2>3, Zenon DEF CallView, GotView
  <2>6. CallView(p, b, e)' = "none" /\ GotView(p, b)' = got[p]
    BY <2>1, <2>4, Zenon DEF CallView, GotView
  <2>7. CallView(t, b, e)' = "none" /\ GotView(t, b)' = Append(got[t], k)
    BY <1>1, <1>5, <1>6, <2>1, Zenon DEF CallView, GotView
  <2>8. ASSUME NEW u \in Threads, u # t, u # p
        PROVE  AbsCall(u)' = AbsCall(u) /\ AbsGot(u)' = AbsGot(u)
    <3>0. u \in Threads \ {t} /\ u # p
      BY <2>8, Zenon
    <3>1. Pushing(u) => cnt[u] # w
      BY <2>2, <3>0, Zenon DEF RingInv, PairInv
    <3>2. Agree(u, a, e, b, e)
      BY <1>3, <2>1, <3>1, SMTT(30), SMTT(60) DEF Agree
    <3> QED
      BY <1>10, <3>0, <3>2, Zenon
  <2>9. AbsCall(p)' = "none" /\ AbsGot(p)' = AbsGot(p) /\ Calls[p] = "push"
    BY <1>9, <2>5, <2>6, Zenon DEF Calls
  <2>10. AbsCall(t)' = AbsCall(t) /\ AbsGot(t)' = Append(AbsGot(t), k)
    BY <1>9, <1>11, <2>7, Zenon
  <2>11. \A u \in Threads \ {p} : AbsCall(u)' = AbsCall(u)
    BY <2>8, <2>10, Zenon
  <2>12. \A u \in Threads \ {t} : AbsGot(u)' = AbsGot(u)
    BY <2>8, <2>9, Zenon
  <2>13. Calls' = [Calls EXCEPT ![p] = "none"]
    BY <2>9, <2>11, CallsChange, Zenon
  <2>14. Given' = [Given EXCEPT ![t] = Append(@, k)]
    BY <2>10, <2>12, GivenChange, Zenon
  <2>15. Head(Queued) = k /\ Tail(Queued) = Between(k, a) /\ Queued # <<>>
    BY <1>8, <2>1, BetweenTail, BetweenLength, Zenon
  <2>16. Between(k, b) = Append(Between(k, a), w + 1)
    <3>1. k <= w
      BY <1>0
    <3>2. Between(k, w + 1) = Append(Between(k, w), w + 1)
      BY <3>1, BetweenAppend, Zenon
    <3> QED
      BY <2>1, <3>2, Zenon
  <2>17. Accepted' = Accepted + 1 /\ w + 1 = Accepted + 1
    BY <1>4, <2>1, Zenon
  <2>18. Queued' = Append(Tail(Queued), Accepted + 1)
    BY <1>8, <2>15, <2>16, <2>17, Zenon
  <2>19. p \in Abs!InLine("push")
    BY <2>9, UsersAreThreads, Zenon DEF Abs!InLine
  <2>20. Abs!Give(t, Head(Queued))
    BY <2>14, <2>15, Zenon DEF Abs!Give
  <2>21. Abs!try_pop(t)
    BY <1>2, <1>4, <1>11, <2>13, <2>15, <2>17, <2>18, <2>19, <2>20, Zenon DEF Abs!try_pop
  <2> QED
    BY <2>21, Zenon DEF Abs!wait_pop
<1>14. CASE h < e /\ ~(w < e)
  <2>1. a = e /\ b = e /\ h < a /\ h < b /\ ~(b <= h)
    BY <1>0, <1>14, SMTT(30), SMTT(60) DEF Meet
  <2>2. CallView(t, b, e)' = "none" /\ GotView(t, b)' = Append(got[t], k)
    BY <1>1, <1>5, <1>6, <2>1, Zenon DEF CallView, GotView
  <2>3. ASSUME NEW u \in Threads \ {t}
        PROVE  AbsCall(u)' = AbsCall(u) /\ AbsGot(u)' = AbsGot(u)
    <3>1. Agree(u, a, e, b, e)
      BY <2>1, Zenon DEF Agree
    <3> QED
      BY <1>10, <3>1, Zenon
  <2>4. AbsCall(t)' = AbsCall(t) /\ AbsGot(t)' = Append(AbsGot(t), k)
    BY <1>9, <1>11, <2>2, Zenon
  <2>5. Calls' = Calls
    BY <2>3, <2>4, CallsChange, Zenon
  <2>6. Given' = [Given EXCEPT ![t] = Append(@, k)]
    BY <2>3, <2>4, GivenChange, Zenon
  <2>7. Head(Queued) = k /\ Tail(Queued) = Between(k, a) /\ Queued # <<>>
    BY <1>8, <2>1, BetweenTail, BetweenLength, Zenon
  <2>8. Queued' = Tail(Queued) /\ Accepted' = Accepted
    BY <1>4, <1>8, <2>1, <2>7, Zenon
  <2>9. Abs!InLine("push") = {}
    <3>1. ASSUME NEW u \in Threads PROVE CallView(u, a, e) # "push"
      <4>1. ~(a <= cnt[u] /\ cnt[u] < e)
        BY <1>3, <2>1, SMTT(30), SMTT(60)
      <4> QED
        BY <4>1, Zenon DEF CallView
    <3>2. \A u \in Threads : Calls[u] # "push"
      BY <1>9, <3>1, Zenon DEF Calls
    <3> QED
      BY <3>2, UsersAreThreads, Zenon DEF Abs!InLine
  <2>10. Abs!Give(t, Head(Queued))
    BY <2>6, <2>7, Zenon DEF Abs!Give
  <2>11. Abs!try_pop(t)
    BY <1>2, <1>4, <1>11, <2>5, <2>7, <2>8, <2>9, <2>10, Zenon DEF Abs!try_pop
  <2> QED
    BY <2>11, Zenon DEF Abs!wait_pop
<1>15. CASE ~(h < e)
  <2>1. a = e /\ b = e /\ a <= h /\ b <= h /\ ~(h < b) /\ b <= k
    BY <1>0, <1>15, SMTT(30), SMTT(60) DEF Meet
  <2>2. CallView(t, b, e)' = "pop" /\ GotView(t, b)' = got[t]
    BY <1>1, <1>6, <2>1, Zenon DEF CallView, GotView
  <2>3. ASSUME NEW u \in Threads \ {t}
        PROVE  AbsCall(u)' = AbsCall(u) /\ AbsGot(u)' = AbsGot(u)
    <3>1. Agree(u, a, e, b, e)
      BY <2>1, Zenon DEF Agree
    <3> QED
      BY <1>10, <3>1, Zenon
  <2>4. AbsCall(t)' = "pop" /\ AbsGot(t)' = AbsGot(t)
    BY <1>9, <1>11, <2>2, Zenon
  <2>5. Calls' = [Calls EXCEPT ![t] = "pop"]
    BY <2>3, <2>4, CallsChange, Zenon
  <2>6. Given' = Given
    BY <2>3, <2>4, GivenChange, Zenon
  <2>7. Queued = <<>> /\ Queued' = <<>> /\ Accepted' = Accepted
    BY <1>4, <1>8, <2>1, BetweenLength, Zenon
  <2> QED
    BY <1>2, <1>4, <1>11, <2>5, <2>6, <2>7, ZenonT(60) DEF Abs!wait_pop
<1> QED
  BY <1>13, <1>14, <1>15, Zenon
=============================================================================
