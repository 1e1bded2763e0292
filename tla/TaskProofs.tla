----------------------------- MODULE TaskProofs -----------------------------
(***************************************************************************)
(* Proofs about task and trivial_task of evenk/task.h, for any number of   *)
(* objects, targets and allocators.                                        *)
(*                                                                         *)
(* The moves of a task are made of calls that construct a temporary, swap  *)
(* with it and destroy it.  Between any two of them every object holds one *)
(* target or nothing (OwnInv), so that a destructor destroys what nobody   *)
(* else holds.  The calls are right on their part because they work on     *)
(* objects that exist (CallInv): a temporary is constructed by the first   *)
(* call of its stack and nothing is called on it after its destructor.     *)
(***************************************************************************)
EXTENDS Task, TLAPS

Objects == Names \cup Temps

Calls == [op : {"move", "assign", "swap", "destroy"}, x : Objects, y : Objects]

Records == [exists : BOOLEAN, helper : {"none", "small", "large"}, invoke : BOOLEAN,
            memory : 0 .. MaxMake, alloc : Allocs]

HandlingType ==
  /\ class \in {"task", "trivial_task"}
  /\ object \in [Objects -> Records]
  /\ target \in [Made -> {"none", "live", "dead", "thrown"}]
  /\ block \in [Made -> Seq(Allocs)]
  /\ made \in 0 .. MaxMake
  /\ crashed \in BOOLEAN

\* An object holds a target or nothing.
ObjectInv(x) ==
  /\ ~object[x].exists => object[x] = Absent
  /\ object[x].invoke <=> object[x].memory # 0
  /\ object[x].helper # "none" <=> class = "task" /\ object[x].memory # 0

\* A live target is held once. Its block, if it has one, is not freed before it.
TargetInv(k) ==
  /\ target[k] = "live" <=> \E x \in Objects : object[x].memory = k
  /\ \A x, y \in Objects : object[x].memory = k /\ object[y].memory = k => x = y
  /\ k > made <=> target[k] = "none"
  /\ target[k] = "none" => block[k] = <<>>
  /\ target[k] = "thrown" /\ block[k] # <<>> => Len(block[k]) = 1
  /\ target[k] = "dead" /\ block[k] # <<>> => Len(block[k]) = 2
  /\ \A x \in Objects : object[x].memory = k =>
       IF object[x].helper = "large" THEN Len(block[k]) = 1 ELSE block[k] = <<>>

\* The calls under way work on objects that exist, and nothing is called on an
\* object after its destructor. Only the first call constructs an object.
CallInv ==
  /\ stack \in Seq(Calls)
  /\ \A i \in 1 .. Len(stack) :
       /\ stack[i].op = "move" => i = 1 /\ stack[i].x # stack[i].y
       /\ stack[i].op = "destroy" =>
            \A j \in i + 1 .. Len(stack) : stack[i].x \notin {stack[j].x, stack[j].y}
  /\ ~crashed => \A i \in 1 .. Len(stack) : \A z \in {stack[i].x, stack[i].y} :
       object[z].exists <=> ~(stack[1].op = "move" /\ z = stack[1].x)

OwnInv ==
  /\ HandlingType
  /\ \A x \in Objects : ObjectInv(x)
  /\ \A k \in Made : TargetInv(k)

HandlingInv == OwnInv /\ CallInv

\* The number of the next target
LEMMA NextTarget ==
  \A m, b \in Nat : m < b =>
    /\ m + 1 \in 1 .. b /\ m + 1 \in 0 .. b /\ m + 1 # 0 /\ ~(m + 1 > m + 1)
    /\ \A k \in 1 .. b : k > m + 1 <=> k # m + 1 /\ k > m
  OBVIOUS

\* A block that is freed
LEMMA FreedBlock ==
  ASSUME NEW b \in Seq(Allocs), NEW a \in Allocs
  PROVE  /\ Append(b, a) \in Seq(Allocs)
         /\ Len(b) = 1 => Len(Append(b, a)) = 2
<1>1. Append(b, a) \in Seq(Allocs) /\ Len(Append(b, a)) = Len(b) + 1 /\ Len(b) \in Nat
  OBVIOUS
<1>2. Len(b) = 1 => Len(b) + 1 = 2
  OBVIOUS
<1> QED
  BY <1>1, <1>2, Zenon

\* The indices of a sequence of n elements without the first one
LEMMA TailIndex ==
  \A n \in Nat \ {0} : \A l : l = n - 1 =>
    /\ \A i \in 1 .. l : i + 1 \in 2 .. n /\ i + 1 \in 1 .. n /\ i + 1 # 1 /\ 1 \in 1 .. l
    /\ \A i \in 1 .. l : \A j \in i + 1 .. l : j \in 1 .. l /\ j + 1 \in (i + 1) + 1 .. n
  OBVIOUS

\* The indices of a sequence of m elements with n others for the first one
LEMMA BackIndex ==
  \A n, m \in Nat \ {0} : \A l : l = n + m - 1 =>
    /\ 1 \in 1 .. n /\ 1 \in 1 .. m /\ \A i \in 1 .. n : i = 1 \/ i \in 2 .. n
    /\ \A i \in 1 .. l : i \in 1 .. n \/ i \in n + 1 .. l
    /\ \A i \in n + 1 .. l : i - n + 1 \in 1 .. m /\ i - n + 1 # 1
    /\ \A i \in n + 1 .. l : \A j \in i + 1 .. l :
         j \in n + 1 .. l /\ j - n + 1 \in (i - n + 1) + 1 .. m
  OBVIOUS

\* A call on objects
LEMMA CallType ==
  ASSUME NEW op \in {"move", "assign", "swap", "destroy"}, NEW x \in Objects, NEW y \in Objects
  PROVE  /\ Call(op, x, y) \in Calls
         /\ Call(op, x, y).op = op /\ Call(op, x, y).x = x /\ Call(op, x, y).y = y
  BY DEF Call, Calls

\* Sequences of one, three and four calls
LEMMA FewCalls ==
  /\ \A a \in Calls : /\ <<a>> \in Seq(Calls) /\ Len(<<a>>) = 1 /\ <<a>>[1] = a
                      /\ \A i \in 1 .. 1 : i = 1 /\ \A j \in i + 1 .. 1 : FALSE
  /\ \A a, b, c \in Calls : <<a, b, c>> \in Seq(Calls)
  /\ \A a, b, c, d \in Calls : <<a, b, c, d>> \in Seq(Calls)
  OBVIOUS

\* Their indices
LEMMA FewIndices ==
  /\ 3 > 0 /\ \A i \in 1 .. 3 : i = 1 \/ i = 2 \/ i = 3
  /\ 4 > 0 /\ \A i \in 1 .. 4 : i = 1 \/ i = 2 \/ i = 3 \/ i = 4
  /\ \A i \in 2 .. 3 : i = 2 \/ i = 3
  /\ \A i \in 2 .. 4 : i = 2 \/ i = 3 \/ i = 4
  OBVIOUS

\* The calls s, made for a call on x with the argument y, construct a temporary
\* t first and destroy it last.
TempCalls(s, x, y, t) ==
  /\ s \in Seq(Calls) /\ Len(s) > 0
  /\ s[1].op = "move" /\ s[1].x = t /\ s[1].y # t
  /\ \A i \in 2 .. Len(s) : s[i].op # "move"
  /\ \A i \in 1 .. Len(s) : /\ {s[i].x, s[i].y} \subseteq {x, y, t}
                            /\ s[i].op = "destroy" => i = Len(s) /\ s[i].x = t

\* The calls of operator= are such.
LEMMA AssignTemp ==
  ASSUME NEW t \in Objects, NEW x \in Objects, NEW y \in Objects, y # t,
         NEW s, s = <<Call("move", t, y), Call("swap", t, x), Call("destroy", t, t)>>
  PROVE  TempCalls(s, x, y, t)
<1>1. s \in Seq(Calls)
  BY Zenon, CallType, FewCalls
<1>2. /\ s[1] = Call("move", t, y) /\ s[2] = Call("swap", t, x) /\ s[3] = Call("destroy", t, t)
      /\ Len(s) = 3
  BY Zenon
<1>3. /\ s[1].op = "move" /\ s[1].x = t /\ s[1].y = y
      /\ s[2].op = "swap" /\ s[2].x = t /\ s[2].y = x
      /\ s[3].op = "destroy" /\ s[3].x = t /\ s[3].y = t
  BY <1>2 DEF Call
<1>4. \A i \in 2 .. Len(s) : s[i].op # "move"
  BY Zenon, <1>2, <1>3, FewIndices
<1>5. ASSUME NEW i \in 1 .. Len(s)
      PROVE  /\ {s[i].x, s[i].y} \subseteq {x, y, t}
             /\ s[i].op = "destroy" => i = Len(s) /\ s[i].x = t
  <2>1. i = 1 \/ i = 2 \/ i = 3
    BY Zenon, <1>2, FewIndices
  <2>2. CASE i = 1
    BY Zenon, <1>3, <2>2
  <2>3. CASE i = 2
    BY Zenon, <1>3, <2>3
  <2>4. CASE i = 3
    BY Zenon, <1>2, <1>3, <2>4
  <2> QED
    BY Zenon, <2>1, <2>2, <2>3, <2>4
<1> QED
  BY Zenon, <1>1, <1>2, <1>3, <1>4, <1>5, FewIndices DEF TempCalls

\* And so are the calls of std::swap.
LEMMA SwapTemp ==
  ASSUME NEW t \in Objects, NEW x \in Objects, NEW y \in Objects, x # t,
         NEW s, s = <<Call("move", t, x), Call("assign", x, y), Call("assign", y, t),
                      Call("destroy", t, t)>>
  PROVE  TempCalls(s, x, y, t)
<1>1. s \in Seq(Calls)
  BY Zenon, CallType, FewCalls
<1>2. /\ s[1] = Call("move", t, x) /\ s[2] = Call("assign", x, y)
      /\ s[3] = Call("assign", y, t) /\ s[4] = Call("destroy", t, t)
      /\ Len(s) = 4
  BY Zenon
<1>3. /\ s[1].op = "move" /\ s[1].x = t /\ s[1].y = x
      /\ s[2].op = "assign" /\ s[2].x = x /\ s[2].y = y
      /\ s[3].op = "assign" /\ s[3].x = y /\ s[3].y = t
      /\ s[4].op = "destroy" /\ s[4].x = t /\ s[4].y = t
  BY <1>2 DEF Call
<1>4. \A i \in 2 .. Len(s) : s[i].op # "move"
  BY Zenon, <1>2, <1>3, FewIndices
<1>5. ASSUME NEW i \in 1 .. Len(s)
      PROVE  /\ {s[i].x, s[i].y} \subseteq {x, y, t}
             /\ s[i].op = "destroy" => i = Len(s) /\ s[i].x = t
  <2>1. i = 1 \/ i = 2 \/ i = 3 \/ i = 4
    BY Zenon, <1>2, FewIndices
  <2>2. CASE i = 1
    BY Zenon, <1>3, <2>2
  <2>3. CASE i = 2
    BY Zenon, <1>3, <2>3
  <2>4. CASE i = 3
    BY Zenon, <1>3, <2>4
  <2>5. CASE i = 4
    BY Zenon, <1>2, <1>3, <2>5
  <2> QED
    BY Zenon, <2>1, <2>2, <2>3, <2>4, <2>5
<1> QED
  BY Zenon, <1>1, <1>2, <1>3, <1>4, <1>5, FewIndices DEF TempCalls

\* A step that leaves the objects, the targets and the blocks alone
LEMMA SameOwn ==
  ASSUME OwnInv, UNCHANGED <<class, object, target, block, made>>,
         crashed' \in {crashed, TRUE}
  PROVE  OwnInv'
<1>1. HandlingType'
  BY ZenonT(60) DEF OwnInv, HandlingType
<1>2. ASSUME NEW x \in Objects PROVE ObjectInv(x)'
  <2>1. ObjectInv(x)
    BY Zenon DEF OwnInv
  <2> QED
    BY <2>1, ZenonT(60) DEF ObjectInv
<1>3. ASSUME NEW k \in Made PROVE TargetInv(k)'
  <2>1. TargetInv(k)
    BY Zenon DEF OwnInv
  <2>2. TargetInv(k)' <=> TargetInv(k)
    BY DEF TargetInv
  <2> QED
    BY <2>1, <2>2, Zenon
<1> QED
  BY <1>1, <1>2, <1>3, Zenon DEF OwnInv

\* What a default-constructed object is, and one that does not exist
LEMMA EmptyFacts ==
  /\ Empty \in Records /\ Empty.exists = TRUE
  /\ Absent \in Records /\ Absent.exists = FALSE
  /\ \A r \in {Empty, Absent} : r.memory = 0 /\ r.invoke = FALSE /\ r.helper = "none"
<1>1. Default \in Allocs /\ 0 \in 0 .. MaxMake
  BY TaskAssumption
<1>2. Empty \in Records
  BY <1>1 DEF Empty, Records
<1>3. Absent \in Records
  BY <1>1, Zenon DEF Absent, Empty, Records
<1>4. Empty.exists = TRUE /\ Empty.memory = 0 /\ Empty.invoke = FALSE /\ Empty.helper = "none"
  BY DEF Empty
<1>5. Absent.exists = FALSE /\ Absent.memory = 0 /\ Absent.invoke = FALSE /\ Absent.helper = "none"
  BY DEF Absent, Empty
<1> QED
  BY <1>2, <1>3, <1>4, <1>5

\* An object that becomes what another one was
LEMMA ObjectKept ==
  ASSUME NEW z \in Objects, NEW u \in Objects, ObjectInv(u), object'[z] = object[u], class' = class
  PROVE  ObjectInv(z)'
BY DEF ObjectInv

\* The record of an object that holds a target, or nothing
LEMMA RecordFacts ==
  ASSUME OwnInv, NEW x \in Objects
  PROVE  /\ object[x] \in Records
         /\ object[x].memory \in 0 .. MaxMake
         /\ object[x].memory = 0 \/ object[x].memory \in Made
         /\ ~object[x].exists => object[x].memory = 0
         /\ ObjectInv(x)
<1>1. object[x] \in Records /\ ObjectInv(x)
  BY DEF OwnInv, HandlingType
<1>2. MaxMake \in Nat
  BY TaskAssumption
<1>3. object[x].memory \in 0 .. MaxMake
  BY <1>1 DEF Records
<1>4. object[x].memory = 0 \/ object[x].memory \in Made
  BY <1>2, <1>3 DEF Made
<1>5. ~object[x].exists => object[x].memory = 0
  BY <1>1, EmptyFacts DEF ObjectInv
<1> QED
  BY <1>1, <1>3, <1>4, <1>5

\* The move constructor: x takes over what y holds, with the default allocator.
LEMMA MoveOwn ==
  ASSUME OwnInv, NEW x \in Objects, NEW y \in Objects, x # y, ~object[x].exists,
         class = "task" => object[y].helper # "none",
         object' = [object EXCEPT ![x] = MoveFrom(y),
                                  ![y] = [Empty EXCEPT !.alloc = object[y].alloc]],
         crashed' = crashed, UNCHANGED <<class, target, block, made>>
  PROVE  /\ OwnInv'
         /\ \A z \in Objects : object'[z].exists <=> z = x \/ z = y \/ object[z].exists
<1> USE TaskAssumption
<1>1. /\ object[x].memory = 0
      /\ object[y] \in Records /\ ObjectInv(y)
      /\ object \in [Objects -> Records]
  BY RecordFacts DEF OwnInv, HandlingType
<1>2. /\ object'[x] = MoveFrom(y)
      /\ object'[y] = [Empty EXCEPT !.alloc = object[y].alloc]
      /\ \A z \in Objects : z # x /\ z # y => object'[z] = object[z]
  BY <1>1
<1>3. /\ object'[x].exists = TRUE /\ object'[x].helper = object[y].helper
      /\ object'[x].invoke = object[y].invoke /\ object'[x].memory = object[y].memory
      /\ object'[x].alloc = Default /\ object'[x] \in Records
  BY <1>1, <1>2, ZenonT(60) DEF MoveFrom, Empty, Records
<1>4. /\ object'[y].exists = TRUE /\ object'[y].helper = "none"
      /\ object'[y].invoke = FALSE /\ object'[y].memory = 0
      /\ object'[y] \in Records
  BY <1>1, <1>2, Zenon DEF Empty, Records
<1>5. HandlingType'
  <2>1. object' \in [Objects -> Records]
    BY <1>1, <1>2, <1>3, <1>4
  <2> QED
    BY <2>1 DEF OwnInv, HandlingType
<1>6. ASSUME NEW z \in Objects PROVE ObjectInv(z)'
  <2>1. CASE z = x
    BY <1>1, <1>3, <2>1 DEF ObjectInv
  <2>2. CASE z = y
    BY <1>4, <2>2 DEF ObjectInv
  <2>3. CASE z # x /\ z # y
    BY <1>2, <2>3, ObjectKept, Zenon DEF OwnInv
  <2> QED
    BY <2>1, <2>2, <2>3
<1>7. ASSUME NEW k \in Made PROVE TargetInv(k)'
  <2>0. k # 0 /\ TargetInv(k)
    BY DEF Made, OwnInv
  <2>1. \A z \in Objects : object'[z].memory = k <=>
          (z = x /\ object[y].memory = k) \/ (z # y /\ object[z].memory = k)
    BY <1>1, <1>2, <1>3, <1>4, <2>0
  <2>2. target'[k] = "live" <=> \E z \in Objects : object'[z].memory = k
    BY <1>1, <2>0, <2>1 DEF TargetInv
  <2>3. \A z, u \in Objects : object'[z].memory = k /\ object'[u].memory = k => z = u
    BY <1>1, <2>0, <2>1 DEF TargetInv
  <2>4. ASSUME NEW z \in Objects, object'[z].memory = k
        PROVE  IF object'[z].helper = "large" THEN Len(block[k]) = 1 ELSE block[k] = <<>>
    <3>1. CASE z = x
      BY <1>3, <2>0, <2>1, <2>4, <3>1 DEF TargetInv
    <3>2. CASE z # x
      BY <1>2, <2>0, <2>1, <2>4, <3>2, ZenonT(60) DEF TargetInv
    <3> QED
      BY Zenon, <3>1, <3>2
  <2> QED
    BY <2>0, <2>2, <2>3, <2>4, Zenon DEF TargetInv
<1>8. \A z \in Objects : object'[z].exists <=> z = x \/ z = y \/ object[z].exists
  BY <1>2, <1>3, <1>4, Zenon
<1> QED
  BY <1>5, <1>6, <1>7, <1>8, Zenon DEF OwnInv

\* trivial_task::swap(): the objects exchange what they hold.
LEMMA SwapOwn ==
  ASSUME OwnInv, NEW x \in Objects, NEW y \in Objects, class = "trivial_task",
         object[x].exists, object[y].exists, SwapMembers(x, y),
         crashed' = crashed, UNCHANGED <<class, target, block, made>>
  PROVE  /\ OwnInv'
         /\ \A z \in Objects : object'[z].exists = object[z].exists
<1>1. /\ object \in [Objects -> Records] /\ object[x] \in Records /\ object[y] \in Records
      /\ \A z \in Objects : ObjectInv(z)
  BY DEF OwnInv, HandlingType
<1>2. \A z \in Objects : object'[z] = IF z = y THEN object[x] ELSE IF z = x THEN object[y] ELSE object[z]
  BY <1>1 DEF SwapMembers
<1>3. HandlingType'
  <2>1. object' \in [Objects -> Records]
    BY <1>1 DEF SwapMembers
  <2> QED
    BY <2>1 DEF OwnInv, HandlingType
<1>4. ASSUME NEW z \in Objects PROVE ObjectInv(z)'
  <2>1. PICK u \in Objects : object'[z] = object[u]
    BY <1>2
  <2> QED
    BY <1>1, <2>1, ObjectKept
<1>5. ASSUME NEW k \in Made PROVE TargetInv(k)'
  <2>1. TargetInv(k)
    BY DEF OwnInv
  <2>2. target'[k] = "live" <=> \E z \in Objects : object'[z].memory = k
    BY <1>2, <2>1 DEF TargetInv
  <2>3. \A z, u \in Objects : object'[z].memory = k /\ object'[u].memory = k => z = u
    BY <1>2, <2>1 DEF TargetInv
  <2>4. ASSUME NEW z \in Objects, object'[z].memory = k
        PROVE  IF object'[z].helper = "large" THEN Len(block[k]) = 1 ELSE block[k] = <<>>
    <3>1. PICK u \in Objects : object'[z] = object[u]
      BY <1>2
    <3> QED
      BY <2>1, <2>4, <3>1 DEF TargetInv
  <2> QED
    BY <2>1, <2>2, <2>3, <2>4 DEF TargetInv
<1>6. \A z \in Objects : object'[z].exists = object[z].exists
  <2>1. object[x].exists = object[y].exists
    BY <1>1 DEF Records
  <2> QED
    BY <1>2, <2>1, Zenon
<1> QED
  BY <1>3, <1>4, <1>5, <1>6 DEF OwnInv

\* The destructor: the target and its block go with the object.
LEMMA DestructOwn ==
  ASSUME OwnInv, NEW x \in Objects, Destruct(x), crashed' = crashed, UNCHANGED <<class, made>>
  PROVE  /\ OwnInv'
         /\ \A z \in Objects : object'[z].exists <=> z # x /\ object[z].exists
<1> USE TaskAssumption
<1>1. /\ object \in [Objects -> Records] /\ object[x] \in Records
      /\ \A z \in Objects : ObjectInv(z)
      /\ target \in [Made -> {"none", "live", "dead", "thrown"}]
      /\ block \in [Made -> Seq(Allocs)]
  BY DEF OwnInv, HandlingType
<1>2. /\ object'[x] = Absent
      /\ \A z \in Objects : z # x => object'[z] = object[z]
  BY <1>1 DEF Destruct
<1>3. /\ object'[x].exists = FALSE /\ object'[x].memory = 0 /\ object'[x].invoke = FALSE
      /\ object'[x].helper = "none" /\ object'[x] \in Records
  BY <1>2, EmptyFacts
<1>4. \A k \in Made :
        /\ target'[k] = IF object[x].invoke /\ object[x].memory = k THEN "dead" ELSE target[k]
        /\ block'[k] = IF object[x].helper = "large" /\ object[x].memory = k
                       THEN Append(block[k], object[x].alloc) ELSE block[k]
  BY DEF Destruct
<1>5. HandlingType'
  <2>1. object' \in [Objects -> Records]
    BY <1>1, <1>2, <1>3 DEF Destruct
  <2>2. target' \in [Made -> {"none", "live", "dead", "thrown"}]
    BY <1>1 DEF Destruct
  <2>3. block' \in [Made -> Seq(Allocs)]
    <3>1. \A k \in Made : Append(block[k], object[x].alloc) \in Seq(Allocs)
      BY <1>1, FreedBlock, Zenon DEF Records
    <3> QED
      BY <1>1, <3>1, Zenon DEF Destruct
  <2> QED
    BY <2>1, <2>2, <2>3 DEF OwnInv, HandlingType
<1>6. ASSUME NEW z \in Objects PROVE ObjectInv(z)'
  <2>1. CASE z = x
    BY <1>2, <1>3, <2>1 DEF ObjectInv
  <2>2. CASE z # x
    BY <1>1, <1>2, <2>2, ObjectKept
  <2> QED
    BY <2>1, <2>2, SMTT(30), SMTT(60)
<1>7. ASSUME NEW k \in Made PROVE TargetInv(k)'
  <2>0. k # 0 /\ TargetInv(k)
    BY DEF Made, OwnInv
  <2>1. \A z \in Objects : object'[z].memory = k <=> z # x /\ object[z].memory = k
    BY Zenon, <1>2, <1>3, <2>0
  <2>2. CASE object[x].memory = k
    <3>1. object[x].invoke /\ target'[k] = "dead" /\ target[k] = "live"
      BY <1>1, <1>4, <2>0, <2>2 DEF ObjectInv, TargetInv
    <3>2. \A z \in Objects : object'[z].memory # k
      BY <2>0, <2>1, <2>2 DEF TargetInv
    <3>3. block'[k] # <<>> => Len(block'[k]) = 2
      <4>1. CASE object[x].helper = "large"
        <5>1. block[k] \in Seq(Allocs) /\ Len(block[k]) = 1 /\ object[x].alloc \in Allocs
          BY <1>1, <2>0, <2>2, <4>1 DEF TargetInv, Records
        <5>2. block'[k] = Append(block[k], object[x].alloc)
          BY <1>4, <2>2, <4>1, Zenon
        <5>3. Len(Append(block[k], object[x].alloc)) = 2
          BY <5>1, FreedBlock, ZenonT(60)
        <5> QED
          BY <5>2, <5>3, Zenon
      <4>2. CASE object[x].helper # "large"
        BY <1>4, <2>0, <2>2, <4>2 DEF TargetInv
      <4> QED
        BY <4>1, <4>2
    <3>4. ~(k > made)
      BY Zenon, <2>0, <3>1 DEF TargetInv
    <3> QED
      BY Zenon, <3>1, <3>2, <3>3, <3>4 DEF TargetInv
  <2>3. CASE object[x].memory # k
    <3>1. target'[k] = target[k] /\ block'[k] = block[k]
      BY Zenon, <1>4, <2>3
    <3>2. \A z \in Objects : object'[z].memory = k <=> object[z].memory = k
      BY <2>1, <2>3
    <3>3. \A z \in Objects : object'[z].memory = k => object'[z] = object[z]
      BY <1>2, <2>1
    <3> QED
      BY ZenonT(60), <2>0, <3>1, <3>2, <3>3 DEF TargetInv
  <2> QED
    BY <2>2, <2>3
<1>8. \A z \in Objects : object'[z].exists <=> z # x /\ object[z].exists
  BY <1>2, <1>3
<1> QED
  BY <1>5, <1>6, <1>7, <1>8 DEF OwnInv

\* A constructor: target made + 1 is new, and so is its block.
LEMMA ConstructOwn ==
  ASSUME OwnInv, NEW x \in Objects, ~object[x].exists,
         NEW adapter \in Adapters, NEW a \in Allocators,
         Construct(x, adapter, a) \/ ConstructThrows(x, adapter, a)
  PROVE  OwnInv'
<1> USE TaskAssumption
<1> DEFINE n == made + 1
<1>1. /\ object \in [Objects -> Records] /\ object[x].memory = 0
      /\ \A z \in Objects : ObjectInv(z)
      /\ target \in [Made -> {"none", "live", "dead", "thrown"}]
      /\ block \in [Made -> Seq(Allocs)]
      /\ made \in 0 .. MaxMake /\ made < MaxMake /\ MaxMake \in Nat
      /\ class \in {"task", "trivial_task"} /\ crashed \in BOOLEAN
  BY RecordFacts DEF OwnInv, HandlingType, Construct, ConstructThrows
<1>2. n \in Made /\ n # 0 /\ n \in 0 .. MaxMake /\ \A k \in Made : k > n <=> k # n /\ k > made
  <2>1. made \in Nat
    BY <1>1
  <2> QED
    BY <1>1, <2>1, NextTarget, Zenon DEF Made
<1>3. adapter \in {"small", "large"} /\ a \in Allocs /\ (class = "trivial_task" => adapter = "small")
  BY <1>1 DEF Adapters, Allocators
<1>4. target[n] = "none" /\ block[n] = <<>> /\ \A z \in Objects : object[z].memory # n
  BY <1>1, <1>2, SMTT(30), SMTT(60) DEF OwnInv, TargetInv
<1>5. /\ made' = n /\ UNCHANGED <<class, crashed>>
      /\ block'[n] = IF adapter = "large" THEN <<a>> ELSE <<>>
      /\ \A k \in Made : k # n => block'[k] = block[k]
      /\ block' \in [Made -> Seq(Allocs)]
  <2>1. <<a>> \in Seq(Allocs) /\ <<>> \in Seq(Allocs)
    BY <1>3
  <2>2. /\ made' = n /\ UNCHANGED <<class, crashed>>
        /\ block' = [block EXCEPT ![n] = IF adapter = "large" THEN <<a>> ELSE <<>>]
    BY Zenon DEF Construct, ConstructThrows, Allocate
  <2> QED
    BY <1>1, <1>2, <2>1, <2>2
<1>6. /\ block'[n] = <<>> \/ Len(block'[n]) = 1
      /\ adapter = "large" => Len(block'[n]) = 1
  BY <1>3, <1>5
<1>7. CASE Construct(x, adapter, a)
  <2> DEFINE new == [exists |-> TRUE, helper |-> IF class = "task" THEN adapter ELSE "none",
                     invoke |-> TRUE, memory |-> n, alloc |-> a]
  <2>1. /\ target'[n] = "live" /\ \A k \in Made : k # n => target'[k] = target[k]
        /\ target' \in [Made -> {"none", "live", "dead", "thrown"}]
    BY <1>1, <1>2, <1>7 DEF Construct
  <2>2. new \in Records
    BY Zenon, <1>2, <1>3 DEF Records
  <2>3. object'[x] = new /\ \A z \in Objects : z # x => object'[z] = object[z]
    BY <1>1, <1>7, SMTT(30), SMTT(60) DEF Construct
  <2>4. object' \in [Objects -> Records]
    BY <1>1, <1>7, <2>2 DEF Construct
  <2>5. HandlingType'
    BY <1>1, <1>2, <1>5, <2>1, <2>4 DEF HandlingType
  <2>6. ASSUME NEW z \in Objects PROVE ObjectInv(z)'
    <3>1. CASE z = x
      BY <1>1, <1>2, <1>3, <1>5, <2>3, <3>1, SMTT(30), SMTT(60) DEF ObjectInv
    <3>2. CASE z # x
      BY <1>1, <1>5, <2>3, <3>2, ObjectKept
    <3> QED
      BY Zenon, <3>1, <3>2
  <2>7. ASSUME NEW k \in Made PROVE TargetInv(k)'
    <3>0. TargetInv(k) /\ k # 0
      BY DEF OwnInv, Made
    <3>1. CASE k = n
      <4>1. \A z \in Objects : object'[z].memory = n <=> z = x
        BY <1>4, <2>3, SMTT(30), SMTT(60)
      <4>2. \A z \in Objects : object'[z].memory = n =>
              IF object'[z].helper = "large" THEN Len(block'[n]) = 1 ELSE block'[n] = <<>>
        BY <1>1, <1>3, <1>5, <1>6, <2>3, <4>1, SMTT(30), SMTT(60)
      <4>3. ~(n > made')
        BY <1>1, <1>5, SMTT(30), SMTT(60)
      <4> QED
        BY ZenonT(60), <1>5, <2>1, <3>1, <4>1, <4>2, <4>3 DEF TargetInv
    <3>2. CASE k # n
      <4>1. \A z \in Objects : object'[z].memory = k <=> object[z].memory = k
        <5>1. object[x].memory = 0
          BY <1>1, Zenon
        <5>2. object'[x].memory = n
          BY <2>3
        <5>3. \A z \in Objects : z # x => object'[z] = object[z]
          BY <2>3, Zenon
        <5> QED
          BY <3>0, <3>2, <5>1, <5>2, <5>3, Zenon
      <4>2. \A z \in Objects : object'[z].memory = k => object'[z] = object[z]
        BY <2>3, <3>2, SMTT(30), SMTT(60)
      <4>3. target'[k] = target[k] /\ block'[k] = block[k] /\ (k > made' <=> k > made)
        BY <1>2, <1>5, <2>1, <3>2
      <4> QED
        BY <3>0, <4>1, <4>2, <4>3 DEF TargetInv
    <3> QED
      BY <3>1, <3>2
  <2> QED
    BY Zenon, <2>5, <2>6, <2>7 DEF OwnInv
<1>8. CASE ConstructThrows(x, adapter, a)
  <2>1. /\ target'[n] = "thrown" /\ \A k \in Made : k # n => target'[k] = target[k]
        /\ target' \in [Made -> {"none", "live", "dead", "thrown"}]
        /\ object' = object
    BY <1>1, <1>2, <1>8, SMTT(30), SMTT(60) DEF ConstructThrows
  <2>2. HandlingType'
    BY <1>1, <1>2, <1>5, <2>1, SMTT(30), SMTT(60) DEF HandlingType
  <2>3. \A z \in Objects : ObjectInv(z)'
    BY <1>1, <1>5, <2>1, ObjectKept
  <2>4. ASSUME NEW k \in Made PROVE TargetInv(k)'
    <3>0. TargetInv(k)
      BY Zenon DEF OwnInv
    <3>1. CASE k = n
      <4>1. ~(n > made')
        BY <1>1, <1>5, SMTT(30), SMTT(60)
      <4> QED
        BY Zenon, <1>4, <1>5, <1>6, <2>1, <3>1, <4>1 DEF TargetInv
    <3>2. CASE k # n
      <4>1. target'[k] = target[k] /\ block'[k] = block[k] /\ (k > made' <=> k > made)
        BY <1>2, <1>5, <2>1, <3>2, SMTT(30), SMTT(60)
      <4> QED
        BY ZenonT(60), <2>1, <3>0, <4>1 DEF TargetInv
    <3> QED
      BY <3>1, <3>2
  <2> QED
    BY Zenon, <2>2, <2>3, <2>4 DEF OwnInv
<1> QED
  BY Zenon, <1>7, <1>8

\* The calls after a step that pushes the calls s for the innermost one, or
\* none: each is one of s or one of the others.
LEMMA PushCalls ==
  ASSUME NEW s \in Seq(Calls), stack \in Seq(Calls), stack # <<>>, stack' = s \o Tail(stack)
  PROVE  /\ stack' \in Seq(Calls)
         /\ Len(stack') = Len(s) + Len(stack) - 1
         /\ \A i \in 1 .. Len(s) : i \in 1 .. Len(stack') /\ stack'[i] = s[i]
         /\ \A i \in Len(s) + 1 .. Len(stack') :
              /\ i - Len(s) + 1 \in 2 .. Len(stack)
              /\ stack'[i] = stack[i - Len(s) + 1]
<1>1. /\ Tail(stack) \in Seq(Calls)
      /\ Len(Tail(stack)) = Len(stack) - 1
      /\ Len(stack) \in Nat \ {0} /\ Len(s) \in Nat
      /\ \A i \in 1 .. Len(stack) - 1 : Tail(stack)[i] = stack[i + 1]
  OBVIOUS
<1>2. /\ stack' \in Seq(Calls)
      /\ Len(stack') = Len(s) + Len(Tail(stack))
      /\ \A i \in 1 .. Len(s) + Len(Tail(stack)) :
           stack'[i] = IF i <= Len(s) THEN s[i] ELSE Tail(stack)[i - Len(s)]
  BY <1>1
<1>3. \A i \in Len(s) + 1 .. Len(s) + Len(stack) - 1 :
        /\ i - Len(s) \in 1 .. Len(stack) - 1
        /\ i - Len(s) + 1 \in 2 .. Len(stack)
        /\ ~(i <= Len(s))
  BY <1>1
<1> QED
  BY <1>1, <1>2, <1>3, SMTT(30), SMTT(60)

\* task() and trivial_task()
LEMMA DefaultOwn ==
  ASSUME OwnInv, NEW x \in Objects, ~object[x].exists, object' = [object EXCEPT ![x] = Empty],
         UNCHANGED <<class, target, block, made, crashed>>
  PROVE  OwnInv'
<1>1. /\ object \in [Objects -> Records] /\ object[x].memory = 0
      /\ \A z \in Objects : ObjectInv(z)
  BY RecordFacts DEF OwnInv, HandlingType
<1>2. object'[x] = Empty /\ \A z \in Objects : z # x => object'[z] = object[z]
  BY <1>1
<1>3. HandlingType'
  BY <1>1, EmptyFacts DEF OwnInv, HandlingType
<1>4. ASSUME NEW z \in Objects PROVE ObjectInv(z)'
  <2>1. CASE z = x
    BY <1>2, <2>1, EmptyFacts DEF ObjectInv
  <2>2. CASE z # x
    BY Zenon, <1>1, <1>2, <2>2, ObjectKept
  <2> QED
    BY <2>1, <2>2
<1>5. ASSUME NEW k \in Made PROVE TargetInv(k)'
  <2>1. k # 0 /\ TargetInv(k)
    BY DEF Made, OwnInv
  <2>2. \A z \in Objects : object'[z].memory = k <=> object[z].memory = k
    BY <1>1, <1>2, <2>1, EmptyFacts, SMTT(30), SMTT(60)
  <2>3. \A z \in Objects : object'[z].memory = k => object'[z] = object[z]
    BY <1>2, <2>1, EmptyFacts
  <2> QED
    BY <2>1, <2>2, <2>3 DEF TargetInv
<1> QED
  BY <1>3, <1>4, <1>5 DEF OwnInv

\* The calls under way are calls on objects.
LEMMA CallFacts ==
  ASSUME CallInv, stack # <<>>
  PROVE  /\ stack \in Seq(Calls) /\ Head(stack) = stack[1] /\ Len(stack) \in Nat \ {0}
         /\ 1 \in 1 .. Len(stack)
         /\ \A i \in 1 .. Len(stack) :
              stack[i] \in Calls /\ stack[i].x \in Objects /\ stack[i].y \in Objects
<1>1. /\ stack \in Seq(Calls) /\ Len(stack) \in Nat \ {0} /\ Head(stack) = stack[1]
      /\ \A i \in 1 .. Len(stack) : stack[i] \in Calls
  BY DEF CallInv
<1>2. 1 \in 1 .. Len(stack)
  BY <1>1
<1>3. \A d \in Calls : d.x \in Objects /\ d.y \in Objects
  BY DEF Calls
<1> QED
  BY Zenon, <1>1, <1>2, <1>3

\* While the innermost call is no constructor, everything mentioned exists.
LEMMA AllExist ==
  ASSUME CallInv, ~crashed, stack # <<>>, stack[1].op # "move"
  PROVE  \A i \in 1 .. Len(stack) : object[stack[i].x].exists /\ object[stack[i].y].exists
BY Zenon DEF CallInv

\* A call returns: what the others work on must be there.
LEMMA PopCalls ==
  ASSUME CallInv, stack # <<>>, stack' = Tail(stack),
         crashed' \/ \A i \in 2 .. Len(stack) :
                       object'[stack[i].x].exists /\ object'[stack[i].y].exists
  PROVE  CallInv'
<1>1. /\ stack' \in Seq(Calls) /\ Len(stack) \in Nat \ {0}
      /\ Len(stack') = Len(stack) - 1
      /\ \A i \in 1 .. Len(stack) - 1 : stack'[i] = stack[i + 1]
  BY DEF CallInv
<1>2. \A i \in 1 .. Len(stack) - 1 : i + 1 \in 2 .. Len(stack) /\ i + 1 \in 1 .. Len(stack) /\ i + 1 # 1
  BY <1>1, TailIndex, ZenonT(60)
<1>3. ASSUME NEW i \in 1 .. Len(stack') PROVE stack'[i].op # "move"
  <2>1. i + 1 \in 1 .. Len(stack) /\ i + 1 # 1 /\ stack'[i] = stack[i + 1]
    BY <1>1, <1>2, Zenon
  <2> QED
    BY <2>1, Zenon DEF CallInv
<1>4. ASSUME NEW i \in 1 .. Len(stack'), stack'[i].op = "destroy", NEW j \in i + 1 .. Len(stack')
      PROVE  stack'[i].x \notin {stack'[j].x, stack'[j].y}
  <2>1. j \in 1 .. Len(stack) - 1 /\ j + 1 \in (i + 1) + 1 .. Len(stack) /\ i \in 1 .. Len(stack) - 1
    BY <1>1, TailIndex, Zenon
  <2>2. stack'[i] = stack[i + 1] /\ stack'[j] = stack[j + 1] /\ i + 1 \in 1 .. Len(stack)
    BY Zenon, <1>1, <1>2, <2>1
  <2> QED
    <3>1. stack[i + 1].op = "destroy" => stack[i + 1].x \notin {stack[j + 1].x, stack[j + 1].y}
      BY <2>1, <2>2, ZenonT(60) DEF CallInv
    <3> QED
      BY <1>4, <2>2, <3>1, Zenon
<1>5. ASSUME ~crashed', NEW i \in 1 .. Len(stack')
      PROVE  object'[stack'[i].x].exists /\ object'[stack'[i].y].exists
  BY ZenonT(60), <1>1, <1>2, <1>5
<1>6. \A i \in 1 .. Len(stack') : stack'[1].op # "move"
  BY <1>1, <1>3, TailIndex, Zenon
<1> QED
  BY ZenonT(60), <1>1, <1>3, <1>4, <1>5, <1>6 DEF CallInv

\* An assignment or a swap is replaced by the calls s that it makes.
LEMMA MakeCalls ==
  ASSUME CallInv, ~crashed, stack # <<>>, stack[1].op # "move",
         UNCHANGED <<object, crashed>>,
         NEW t \in Objects, ~object[t].exists,
         NEW s, stack' = s \o Tail(stack), TempCalls(s, stack[1].x, stack[1].y, t)
  PROVE  CallInv'
<1> DEFINE n == Len(s)
           back(i) == i - n + 1
<1>0. /\ s \in Seq(Calls) /\ n > 0
      /\ s[1].op = "move" /\ s[1].x = t /\ s[1].y # t
      /\ \A i \in 2 .. n : s[i].op # "move"
      /\ \A i \in 1 .. n : /\ {s[i].x, s[i].y} \subseteq {stack[1].x, stack[1].y, t}
                           /\ s[i].op = "destroy" => i = n /\ s[i].x = t
  BY Zenon DEF TempCalls
<1>1. stack \in Seq(Calls) /\ Len(stack) \in Nat \ {0} /\ n \in Nat \ {0} /\ 1 \in 1 .. Len(stack)
  BY <1>0 DEF CallInv
<1>2. /\ stack' \in Seq(Calls)
      /\ Len(stack') = n + Len(stack) - 1
      /\ \A i \in 1 .. n : i \in 1 .. Len(stack') /\ stack'[i] = s[i]
      /\ \A i \in n + 1 .. Len(stack') : back(i) \in 2 .. Len(stack) /\ stack'[i] = stack[back(i)]
  BY Zenon, <1>0, <1>1, PushCalls
<1>3. \A i \in 1 .. Len(stack) :
        /\ object[stack[i].x].exists /\ object[stack[i].y].exists
        /\ stack[i].x # t /\ stack[i].y # t
  BY Zenon, AllExist
<1>4. \A i \in 1 .. Len(stack') : i \in 1 .. n \/ i \in n + 1 .. Len(stack')
  BY <1>1, <1>2, BackIndex, Zenon
<1>5. 1 \in 1 .. n /\ stack'[1] = s[1]
  BY <1>1, <1>2, BackIndex, Zenon
<1>6. ASSUME NEW i \in 1 .. Len(stack'), stack'[i].op = "move"
      PROVE  i = 1 /\ stack'[i].x # stack'[i].y
  <2>1. CASE i \in 1 .. n
    <3>1. s[i].op = "move" /\ (i = 1 \/ i \in 2 .. n)
      BY <1>1, <1>2, <1>6, <2>1, BackIndex, Zenon
    <3> QED
      BY ZenonT(60), <1>0, <1>5, <3>1
  <2>2. CASE i \in n + 1 .. Len(stack')
    <3>1. back(i) \in 1 .. Len(stack) /\ back(i) # 1 /\ stack[back(i)].op = "move"
      BY <1>1, <1>2, <1>6, <2>2, BackIndex, ZenonT(60)
    <3> QED
      BY Zenon, <3>1 DEF CallInv
  <2> QED
    BY Zenon, <1>4, <2>1, <2>2
<1>7. ASSUME NEW i \in 1 .. Len(stack'), stack'[i].op = "destroy", NEW j \in i + 1 .. Len(stack')
      PROVE  stack'[i].x \notin {stack'[j].x, stack'[j].y}
  <2>1. CASE i \in 1 .. n
    <3>1. i = n /\ stack'[i].x = t
      <4>1. s[i].op = "destroy" => i = n /\ s[i].x = t
        BY Zenon, <1>0, <2>1
      <4>2. stack'[i] = s[i]
        BY Zenon, <1>2, <2>1
      <4> QED
        BY Zenon, <1>7, <4>1, <4>2
    <3>2. back(j) \in 1 .. Len(stack) /\ stack'[j] = stack[back(j)]
      <4>1. j \in n + 1 .. Len(stack')
        BY <3>1, Zenon
      <4> QED
        BY <1>1, <1>2, <4>1, BackIndex, Zenon
    <3> QED
      BY ZenonT(60), <1>3, <3>1, <3>2
  <2>2. CASE i \in n + 1 .. Len(stack')
    <3>1. /\ back(i) \in 1 .. Len(stack) /\ stack'[i] = stack[back(i)]
          /\ j \in n + 1 .. Len(stack')
      BY <1>1, <1>2, <2>2, BackIndex, Zenon
    <3>2. back(j) \in back(i) + 1 .. Len(stack) /\ stack'[j] = stack[back(j)]
      BY <1>1, <1>2, <2>2, <3>1, BackIndex, Zenon
    <3> QED
      BY <1>7, <3>1, <3>2, ZenonT(60) DEF CallInv
  <2> QED
    BY Zenon, <1>4, <2>1, <2>2
<1>8. ASSUME NEW i \in 1 .. Len(stack'), NEW z \in {stack'[i].x, stack'[i].y}
      PROVE  object[z].exists <=> z # t
  <2>1. CASE i \in 1 .. n
    <3>1. z \in {stack[1].x, stack[1].y, t}
      <4>1. {s[i].x, s[i].y} \subseteq {stack[1].x, stack[1].y, t}
        BY Zenon, <1>0, <2>1
      <4>2. stack'[i] = s[i]
        BY Zenon, <1>2, <2>1
      <4> QED
        BY Zenon, <1>8, <4>1, <4>2
    <3> QED
      BY Zenon, <1>1, <1>3, <3>1
  <2>2. CASE i \in n + 1 .. Len(stack')
    <3>1. back(i) \in 1 .. Len(stack) /\ stack'[i] = stack[back(i)]
      BY <1>1, <1>2, <2>2, BackIndex, Zenon
    <3> QED
      BY <1>3, <3>1, Zenon
  <2> QED
    BY <1>4, <2>1, <2>2, Zenon
<1>9. ASSUME NEW i \in 1 .. Len(stack'), NEW z \in {stack'[i].x, stack'[i].y}
      PROVE  object'[z].exists <=> ~(stack'[1].op = "move" /\ z = stack'[1].x)
  <2>1. object[z].exists <=> z # t
    BY <1>8, Zenon
  <2> QED
    BY Zenon, <1>0, <1>5, <2>1
<1> QED
  BY <1>2, <1>6, <1>7, <1>9, ZenonT(60) DEF CallInv

\* The first step of an assignment or a swap
LEMMA CallsStep ==
  ASSUME CallInv, ~crashed, stack # <<>>, TempLeft, UNCHANGED <<object, crashed>>,
         \/ /\ stack[1].op = "assign"
            /\ stack' = AssignCalls(stack[1].x, stack[1].y) \o Tail(stack)
         \/ /\ stack[1].op = "swap"
            /\ stack' = SwapCalls(stack[1].x, stack[1].y) \o Tail(stack)
  PROVE  CallInv'
<1> DEFINE x == stack[1].x
           y == stack[1].y
<1>1. PICK t \in Objects : t = Temp /\ ~object[t].exists
  <2>1. Temp \in Temps /\ ~object[Temp].exists
    BY ZenonT(60) DEF Temp, TempLeft
  <2> QED
    BY Zenon, <2>1 DEF Objects
<1>2. stack[1] \in Calls /\ x \in Objects /\ y \in Objects
  BY Zenon, CallFacts
<1>3. x # t /\ y # t
  <2>1. stack[1].op # "move" /\ 1 \in 1 .. Len(stack)
    BY CallFacts, Zenon
  <2>2. object[x].exists /\ object[y].exists
    BY <2>1, AllExist, Zenon
  <2> QED
    BY Zenon, <1>1, <2>2
<1>4. CASE stack[1].op = "assign" /\ stack' = AssignCalls(x, y) \o Tail(stack)
  <2>1. AssignCalls(x, y) = <<Call("move", t, y), Call("swap", t, x), Call("destroy", t, t)>>
    BY <1>1, Zenon DEF AssignCalls
  <2>2. TempCalls(AssignCalls(x, y), x, y, t)
    BY <1>2, <1>3, <2>1, AssignTemp, Zenon
  <2> QED
    BY <1>1, <1>4, <2>2, MakeCalls, ZenonT(60)
<1>5. CASE stack[1].op = "swap" /\ stack' = SwapCalls(x, y) \o Tail(stack)
  <2>1. SwapCalls(x, y) = <<Call("move", t, x), Call("assign", x, y), Call("assign", y, t),
                            Call("destroy", t, t)>>
    BY <1>1, Zenon DEF SwapCalls
  <2>2. TempCalls(SwapCalls(x, y), x, y, t)
    BY <1>2, <1>3, <2>1, SwapTemp, Zenon
  <2> QED
    BY <1>1, <1>5, <2>2, MakeCalls, ZenonT(60)
<1> QED
  BY Zenon, <1>4, <1>5

\* A step of the innermost call
LEMMA StepTasks ==
  ASSUME HandlingInv, Step
  PROVE  HandlingInv'
<1> DEFINE c == stack[1]
<1>0. stack # <<>> /\ ~crashed /\ OwnInv /\ CallInv /\ UNCHANGED <<class, made>>
  BY Zenon DEF HandlingInv, Step
<1>1. /\ stack \in Seq(Calls) /\ stack # <<>> /\ ~crashed /\ Head(stack) = c
      /\ 1 \in 1 .. Len(stack) /\ c \in Calls /\ c.x \in Objects /\ c.y \in Objects
      /\ OwnInv /\ CallInv /\ UNCHANGED <<class, made>>
  BY <1>0, CallFacts
<1>2. \A i \in 2 .. Len(stack) : i \in 1 .. Len(stack) /\ i \in 1 + 1 .. Len(stack)
                                 /\ stack[i].x \in Objects /\ stack[i].y \in Objects
  <2>1. \A i \in 2 .. Len(stack) : i \in 1 .. Len(stack) /\ i \in 1 + 1 .. Len(stack)
    BY <1>1
  <2> QED
    BY <1>0, <2>1, CallFacts
<1>3. CASE c.op = "move" /\ MoveConstruct(c.x, c.y) /\ stack' = Tail(stack) /\ UNCHANGED <<target, block>>
  <2>1. c.x # c.y /\ ~object[c.x].exists /\ object[c.y].exists
    BY <1>1, <1>3 DEF CallInv
  <2>2. CASE crashed' = TRUE /\ object' = object
    <3>1. OwnInv'
      BY <1>1, <1>3, <2>2, SameOwn, Zenon
    <3>2. CallInv'
      BY <1>1, <1>3, <2>2, PopCalls
    <3> QED
      BY Zenon, <3>1, <3>2 DEF HandlingInv
  <2>3. CASE /\ class = "task" => object[c.y].helper # "none"
             /\ object' = [object EXCEPT ![c.x] = MoveFrom(c.y),
                                         ![c.y] = [Empty EXCEPT !.alloc = object[c.y].alloc]]
             /\ crashed' = crashed
    <3>1. /\ OwnInv'
          /\ \A z \in Objects : object'[z].exists <=> z = c.x \/ z = c.y \/ object[z].exists
      BY <1>1, <1>3, <2>1, <2>3, MoveOwn, Zenon
    <3>2. \A i \in 2 .. Len(stack) :
            object'[stack[i].x].exists /\ object'[stack[i].y].exists
      BY Zenon, <1>1, <1>2, <3>1 DEF CallInv
    <3>3. CallInv'
      BY <1>1, <1>3, <3>2, PopCalls
    <3> QED
      BY <3>1, <3>3 DEF HandlingInv
  <2> QED
    BY <1>3, <2>2, <2>3, Zenon DEF MoveConstruct
<1>4. CASE c.op = "destroy" /\ Destruct(c.x) /\ stack' = Tail(stack) /\ crashed' = crashed
  <2>1. /\ OwnInv'
        /\ \A z \in Objects : object'[z].exists <=> z # c.x /\ object[z].exists
    BY ZenonT(60), <1>1, <1>4, DestructOwn
  <2>2. \A i \in 2 .. Len(stack) : /\ object[stack[i].x].exists /\ object[stack[i].y].exists
                                   /\ stack[i].x # c.x /\ stack[i].y # c.x
    BY <1>1, <1>2, <1>4, AllExist DEF CallInv
  <2>3. CallInv'
    BY <1>1, <1>2, <1>4, <2>1, <2>2, PopCalls, ZenonT(60)
  <2> QED
    BY Zenon, <2>1, <2>3 DEF HandlingInv
<1>5. CASE /\ \/ c.op = "assign" /\ stack' = AssignCalls(c.x, c.y) \o Tail(stack)
              \/ c.op = "swap" /\ stack' = SwapCalls(c.x, c.y) \o Tail(stack)
           /\ TempLeft
           /\ UNCHANGED <<object, target, block, crashed>>
  <2>1. OwnInv'
    BY <1>1, <1>5, SameOwn, Zenon DEF HandlingInv
  <2>2. CallInv'
    BY Zenon, <1>1, <1>5, CallsStep
  <2> QED
    BY <2>1, <2>2 DEF HandlingInv
<1>6. CASE /\ c.op = "swap" /\ class = "trivial_task" /\ SwapMembers(c.x, c.y)
           /\ stack' = Tail(stack) /\ UNCHANGED <<target, block, crashed>>
  <2>1. \A i \in 1 .. Len(stack) : object[stack[i].x].exists /\ object[stack[i].y].exists
    BY Zenon, <1>1, <1>6, AllExist
  <2>2. /\ OwnInv'
        /\ \A z \in Objects : object'[z].exists = object[z].exists
    BY Zenon, <1>1, <1>6, <2>1, SwapOwn
  <2>3. CallInv'
    BY Zenon, <1>1, <1>2, <1>6, <2>1, <2>2, PopCalls
  <2> QED
    BY Zenon, <2>2, <2>3 DEF HandlingInv
<1> QED
  BY <1>1, <1>3, <1>4, <1>5, <1>6, ZenonT(60) DEF Step

\* Every step keeps the invariant.
LEMMA NextTasks == HandlingInv /\ [TaskNext]_tasks => HandlingInv'
<1> SUFFICES ASSUME HandlingInv, [TaskNext]_tasks PROVE HandlingInv'
  OBVIOUS
<1>1. OwnInv /\ CallInv /\ \A x \in Names : x \in Objects
  BY Zenon DEF HandlingInv, Objects
<1>2. ASSUME stack = <<>>, stack' = <<>> PROVE CallInv'
  BY <1>2 DEF CallInv
<1>3. ASSUME NEW x \in Names, DefaultConstruct(x) PROVE HandlingInv'
  BY <1>1, <1>2, <1>3, DefaultOwn, Zenon DEF DefaultConstruct, Ready, HandlingInv
<1>4. ASSUME NEW x \in Names, NEW adapter \in Adapters, NEW a \in Allocators,
             Construct(x, adapter, a) \/ ConstructThrows(x, adapter, a)
      PROVE  HandlingInv'
  <2>1. ~object[x].exists /\ stack = <<>> /\ stack' = stack
    BY <1>4 DEF Construct, ConstructThrows, Ready
  <2> QED
    BY Zenon, <1>1, <1>2, <1>4, <2>1, ConstructOwn DEF HandlingInv
<1>5. ASSUME NEW x \in Names, NEW y \in Names, Operate(x, y) PROVE HandlingInv'
  <2>1. /\ object[y].exists /\ UNCHANGED <<class, object, target, block, made, crashed>>
        /\ x \in Objects /\ y \in Objects
    BY Zenon, <1>1, <1>5 DEF Operate
  <2>2. PICK op \in {"move", "assign", "swap", "destroy"} :
          /\ object[x].exists <=> op # "move"
          /\ op \in {"move", "swap"} => x # y
          /\ op = "destroy" => x = y
          /\ stack' = <<Call(op, x, y)>>
    BY Zenon, <1>5 DEF Operate
  <2> DEFINE c == Call(op, x, y)
  <2>3. c \in Calls /\ stack' = <<c>> /\ c.op = op /\ c.x = x /\ c.y = y
    <3>1. c \in Calls /\ c.op = op /\ c.x = x /\ c.y = y
      BY <2>1, <2>2, CallType, SMTT(30)
    <3> QED
      BY <2>2, <3>1, Zenon
  <2> HIDE DEF c
  <2>4. /\ stack' \in Seq(Calls) /\ stack'[1] = c
        /\ \A i \in 1 .. Len(stack') : i = 1 /\ \A j \in i + 1 .. Len(stack') : FALSE
    BY <2>3, FewCalls, Zenon
  <2>5. CallInv'
    <3>1. ASSUME NEW i \in 1 .. Len(stack')
          PROVE  /\ stack'[i] = c
                 /\ stack'[i].op = "move" => i = 1 /\ stack'[i].x # stack'[i].y
                 /\ \A j \in i + 1 .. Len(stack') : stack'[i].x \notin {stack'[j].x, stack'[j].y}
      BY <2>2, <2>3, <2>4, Zenon
    <3>2. \A z \in {x, y} : object'[z].exists <=> ~(op = "move" /\ z = x)
      BY <2>1, <2>2, Zenon
    <3> QED
      <4>1. \A i \in 1 .. Len(stack') : \A z \in {stack'[i].x, stack'[i].y} :
              object'[z].exists <=> ~(stack'[1].op = "move" /\ z = stack'[1].x)
        BY <2>3, <2>4, <3>1, <3>2, ZenonT(60)
      <4> QED
        BY <2>4, <3>1, <4>1, ZenonT(60) DEF CallInv
  <2>6. OwnInv'
    BY <1>1, <2>1, SameOwn, Zenon
  <2> QED
    BY Zenon, <2>5, <2>6 DEF HandlingInv
<1>6. CASE UNCHANGED tasks
  <2>1. OwnInv'
    BY <1>1, <1>6, SameOwn, Zenon DEF tasks
  <2>2. CallInv'
    BY <1>1, <1>6 DEF CallInv, tasks
  <2> QED
    BY Zenon, <2>1, <2>2 DEF HandlingInv
<1> QED
  BY <1>3, <1>4, <1>5, <1>6, StepTasks DEF TaskNext

\* Initially there are no objects.
LEMMA InitTasks == TaskInit => HandlingInv
<1> SUFFICES ASSUME TaskInit PROVE HandlingInv
  OBVIOUS
<1>1. \A x \in Objects : object[x] = Absent
  BY DEF TaskInit, Objects
<1>2. HandlingType
  <2>1. 0 \in 0 .. MaxMake
    BY TaskAssumption
  <2>2. object \in [Objects -> Records]
    BY EmptyFacts DEF TaskInit, Objects
  <2>3. block \in [Made -> Seq(Allocs)]
    BY DEF TaskInit
  <2> QED
    BY <1>1, <2>1, <2>2, <2>3, EmptyFacts, Zenon DEF TaskInit, HandlingType
<1>3. \A x \in Objects : ObjectInv(x)
  BY Zenon, <1>1, EmptyFacts DEF ObjectInv
<1>4. ASSUME NEW k \in Made PROVE TargetInv(k)
  <2>1. target[k] = "none" /\ block[k] = <<>> /\ made = 0 /\ k > 0
    BY DEF TaskInit, Made
  <2>2. \A x \in Objects : object[x].memory # k
    BY <1>1, <2>1, EmptyFacts
  <2> QED
    BY <2>1, <2>2 DEF TargetInv
<1>5. CallInv
  BY DEF TaskInit, CallInv
<1> QED
  BY <1>2, <1>3, <1>4, <1>5 DEF HandlingInv, OwnInv

\* Through every step of moves, assignments and swaps, for any number of objects
\* and any depth of calls, a live target has one owner, a target that is gone
\* has none, and exactly the owners call a target.
THEOREM TasksHaveOneOwner == TaskSpec => []OneOwner
<1>1. HandlingInv => OneOwner
  <2> SUFFICES ASSUME HandlingInv PROVE OneOwner
    BY Zenon
  <2>1. OwnInv /\ DOMAIN object = Objects
    BY Zenon DEF HandlingInv, OwnInv, HandlingType
  <2>2. ASSUME NEW k \in Made, NEW x \in Objects
        PROVE  x \in Owners(k) <=> object[x].memory = k
    <3>1. k # 0
      BY DEF Made
    <3>2. /\ ~object[x].exists => object[x].memory = 0
          /\ ObjectInv(x)
      BY Zenon, <2>1, RecordFacts
    <3> QED
      BY <2>1, <3>1, <3>2 DEF Owners, ObjectInv
  <2>3. ASSUME NEW k \in Made
        PROVE  IF target[k] = "live" THEN \E x \in Objects : Owners(k) = {x} ELSE Owners(k) = {}
    <3>1. TargetInv(k) /\ Owners(k) \subseteq Objects
      BY <2>1 DEF OwnInv, Owners
    <3>2. CASE target[k] = "live"
      <4>1. PICK x \in Objects : object[x].memory = k
        BY Zenon, <3>1, <3>2 DEF TargetInv
      <4>2. Owners(k) = {x}
        BY <2>2, <3>1, <4>1 DEF TargetInv
      <4> QED
        BY Zenon, <3>2, <4>2
    <3>3. CASE target[k] # "live"
      <4>1. Owners(k) = {}
        BY ZenonT(60), <2>2, <3>1, <3>3 DEF TargetInv
      <4> QED
        BY Zenon, <3>3, <4>1
    <3> QED
      BY Zenon, <3>2, <3>3
  <2>4. ASSUME NEW x \in Objects PROVE object[x].invoke <=> \E k \in Made : x \in Owners(k)
    <3>1. /\ object[x].memory = 0 \/ object[x].memory \in Made
          /\ ObjectInv(x)
      BY <2>1, RecordFacts
    <3>2. 0 \notin Made
      BY DEF Made
    <3> QED
      BY <2>2, <3>1, <3>2, SMTT(30), SMTT(60) DEF ObjectInv
  <2> QED
    BY <2>1, <2>3, <2>4 DEF OneOwner
<1> QED
  BY <1>1, InitTasks, NextTasks, PTL DEF TaskSpec

\* Through nested moves, assignments and swaps of any number of tasks the block
\* of a large target stays allocated while the target lives, and is freed once,
\* with it.
THEOREM TasksFreeBlocksOnce == TaskSpec => []BlocksFreedOnce
<1>1. HandlingInv => BlocksFreedOnce
  <2> SUFFICES ASSUME HandlingInv, NEW k \in Made, block[k] # <<>>
               PROVE  /\ target[k] = "live" => Len(block[k]) = 1
                      /\ target[k] = "dead" => Len(block[k]) = 2
    BY DEF BlocksFreedOnce
  <2>1. TargetInv(k)
    BY DEF HandlingInv, OwnInv
  <2> QED
    BY <2>1, Zenon DEF TargetInv
<1> QED
  BY <1>1, InitTasks, NextTasks, PTL DEF TaskSpec

=============================================================================
