-------------------------------- MODULE Task --------------------------------
(***************************************************************************)
(* The tasks of evenk/task.h: task, which owns a target of any type, in    *)
(* place if it is small and in a block of its allocator if it is large,    *)
(* and trivial_task, which holds a trivially-copyable target in place.     *)
(*                                                                         *)
(* The program works on a few named objects, of one of the two classes.    *)
(* The move assignment and the swap of the two classes call one another    *)
(* through temporaries, so an operation is a stack of calls that is worked *)
(* off one call at a time.  A target is the number of its construction,    *)
(* and the same number names the block of a large one.                     *)
(***************************************************************************)
EXTENDS Naturals, Sequences

CONSTANTS
  Names,    \* the objects of the program
  Temps,    \* temporaries of assignments and swaps
  Allocs,   \* instances of the allocator
  Default,  \* the one a default-constructed wrapper_ holds
  MaxMake   \* bound: the number of constructions from a callable

ASSUME TaskAssumption ==
  /\ Default \in Allocs
  /\ Names \cap Temps = {}
  /\ MaxMake \in Nat

VARIABLES
  class,    \* "task" or "trivial_task"
  object,   \* every object
  target,   \* "none", "live" or "dead"; "thrown" if its constructor threw
  block,    \* the allocator that allocated a block, then those that freed it
  made,     \* the number of constructions so far
  stack,    \* the calls under way, the innermost first
  crashed   \* whether a null helper_ was called

tasks == <<class, object, target, block, made, stack, crashed>>

Made == 1 .. MaxMake

\* What the default constructor leaves: invoke says whether invoke_ would call
\* a target; memory is the target or the block in memory_, 0 if neither.
Empty == [exists |-> TRUE, helper |-> "none", invoke |-> FALSE, memory |-> 0, alloc |-> Default]

Absent == [Empty EXCEPT !.exists = FALSE]

TaskInit ==
  /\ class \in {"task", "trivial_task"}
  /\ object = [x \in Names \cup Temps |-> Absent]
  /\ target = [k \in Made |-> "none"]
  /\ block = [k \in Made |-> <<>>]
  /\ made = 0
  /\ stack = <<>>
  /\ crashed = FALSE

Ready == stack = <<>> /\ ~crashed

-----------------------------------------------------------------------------
(* Constructors                                                            *)

\* task() and trivial_task()
DefaultConstruct(x) ==
  /\ Ready /\ ~object[x].exists
  /\ object' = [object EXCEPT ![x] = Empty]
  /\ UNCHANGED <<class, target, block, made, stack, crashed>>

\* The adapter of a target: a small one lives in memory_, a large one in a
\* block. A trivial_task refuses large targets when it is compiled, and has no
\* allocator.
Adapters == IF class = "task" THEN {"small", "large"} ELSE {"small"}

Allocators == IF class = "task" THEN Allocs ELSE {Default}

Allocate(k, adapter, a) ==
  block' = [block EXCEPT ![k] = IF adapter = "large" THEN <<a>> ELSE <<>>]

\* The constructor from a callable
Construct(x, adapter, a) ==
  /\ Ready /\ ~object[x].exists
  /\ made < MaxMake
  /\ made' = made + 1
  /\ Allocate(made + 1, adapter, a)
  /\ target' = [target EXCEPT ![made + 1] = "live"]
  /\ object' = [object EXCEPT ![x] =
                  [exists |-> TRUE, helper |-> IF class = "task" THEN adapter ELSE "none",
                   invoke |-> TRUE, memory |-> made + 1, alloc |-> a]]
  /\ UNCHANGED <<class, stack, crashed>>

\* The constructor of the target throws: there is no object, and nothing
\* frees the block.
ConstructThrows(x, adapter, a) ==
  /\ Ready /\ ~object[x].exists
  /\ made < MaxMake
  /\ made' = made + 1
  /\ Allocate(made + 1, adapter, a)
  /\ target' = [target EXCEPT ![made + 1] = "thrown"]
  /\ UNCHANGED <<class, object, stack, crashed>>

-----------------------------------------------------------------------------
(* The calls of an operation. Every call is a record [op, x, y] at the top *)
(* of the stack: x is the object it is made on and y its argument.         *)

Call(op, x, y) == [op |-> op, x |-> x, y |-> y]

\* The temporary that a call creates, and the bound: there is one left
Temp == CHOOSE x \in Temps : ~object[x].exists

TempLeft == \E x \in Temps : ~object[x].exists

\* helper(), as the constructor of x from y calls it: the adapter moves the
\* target, or the pointer to its block, from y to x.
MoveFrom(y) == [Empty EXCEPT !.helper = object[y].helper,
                             !.invoke = object[y].invoke,
                             !.memory = object[y].memory]

\* Mutant: helper_ is not swapped, so that both objects own the target.
MoveConstructCopies(x, y) ==
  /\ object' = [object EXCEPT ![x] = MoveFrom(y), ![y].invoke = FALSE]
  /\ UNCHANGED crashed

\* The move constructors. The one of task calls the helper_ of y even if y is
\* empty; the one of trivial_task swaps y with a new object. The allocator of
\* y stays where it is.
MoveConstruct(x, y) ==
  \/ /\ class = "task" /\ object[y].helper = "none"
     /\ crashed' = TRUE
     /\ UNCHANGED object
  \/ /\ class = "task" => object[y].helper # "none"
     /\ object' = [object EXCEPT ![x] = MoveFrom(y),
                                 ![y] = [Empty EXCEPT !.alloc = object[y].alloc]]
     /\ UNCHANGED crashed

\* Mutant: the block of a large target is not deallocated.
DestructKeep(x) ==
  /\ object' = [object EXCEPT ![x] = Absent]
  /\ target' = [k \in Made |-> IF object[x].invoke /\ object[x].memory = k THEN "dead" ELSE target[k]]
  /\ UNCHANGED block

\* The destructor: helper() destroys the target and gives a block to the
\* allocator of x. The target of a trivial_task just ceases to be.
Destruct(x) ==
  /\ object' = [object EXCEPT ![x] = Absent]
  /\ target' = [k \in Made |-> IF object[x].invoke /\ object[x].memory = k THEN "dead" ELSE target[k]]
  /\ block' = [k \in Made |-> IF object[x].helper = "large" /\ object[x].memory = k
                              THEN Append(block[k], object[x].alloc) ELSE block[k]]

\* trivial_task::swap()
SwapMembers(x, y) ==
  object' = [object EXCEPT ![x] = object[y], ![y] = object[x]]

\* operator=: task(std::move(y)).swap(*x)
AssignCalls(x, y) ==
  <<Call("move", Temp, y), Call("swap", Temp, x), Call("destroy", Temp, Temp)>>

\* task::swap() is std::swap, which is a construction and two assignments.
SwapCalls(x, y) ==
  <<Call("move", Temp, x), Call("assign", x, y), Call("assign", y, Temp),
    Call("destroy", Temp, Temp)>>

-----------------------------------------------------------------------------
(* Operations                                                              *)

\* The program moves y into a new object x, assigns y to x, swaps or destroys.
Operate(x, y) ==
  /\ Ready /\ object[y].exists
  /\ \E op \in {"move", "assign", "swap", "destroy"} :
       /\ object[x].exists <=> op # "move"
       /\ op \in {"move", "swap"} => x # y
       /\ op = "destroy" => x = y
       /\ stack' = <<Call(op, x, y)>>
  /\ UNCHANGED <<class, object, target, block, made, crashed>>

\* The innermost call is carried out, or replaced by the calls it makes.
Step ==
  /\ stack # <<>> /\ ~crashed
  /\ LET c == Head(stack) IN
     \/ /\ c.op = "move"
        /\ MoveConstruct(c.x, c.y)
        /\ stack' = Tail(stack)
        /\ UNCHANGED <<target, block>>
     \/ /\ c.op = "destroy"
        /\ Destruct(c.x)
        /\ stack' = Tail(stack)
        /\ UNCHANGED crashed
     \/ /\ c.op = "assign" /\ TempLeft
        /\ stack' = AssignCalls(c.x, c.y) \o Tail(stack)
        /\ UNCHANGED <<object, target, block, crashed>>
     \/ /\ c.op = "swap" /\ class = "task" /\ TempLeft
        /\ stack' = SwapCalls(c.x, c.y) \o Tail(stack)
        /\ UNCHANGED <<object, target, block, crashed>>
     \/ /\ c.op = "swap" /\ class = "trivial_task"
        /\ SwapMembers(c.x, c.y)
        /\ stack' = Tail(stack)
        /\ UNCHANGED <<target, block, crashed>>
  /\ UNCHANGED <<class, made>>

TaskNext ==
  \/ \E x \in Names :
       \/ DefaultConstruct(x)
       \/ \E adapter \in Adapters, a \in Allocators :
            Construct(x, adapter, a) \/ ConstructThrows(x, adapter, a)
       \/ \E y \in Names : Operate(x, y)
  \/ Step

TaskSpec == TaskInit /\ [][TaskNext]_tasks
-----------------------------------------------------------------------------
(* Properties                                                              *)

Owners(k) == {x \in DOMAIN object : object[x].exists /\ object[x].memory = k
                                     /\ (class = "task" => object[x].helper # "none")}

\* "There is only one current owner of the task" (task.h:41-43): through every
\* step of moves, assignments and swaps a live target has one owner, a target
\* that is gone has none, and an object calls a target exactly if it owns one:
\* an empty one throws bad_function_call (task.h:80-82).
OneOwner ==
  /\ \A k \in Made : IF target[k] = "live" THEN \E x \in DOMAIN object : Owners(k) = {x}
                                           ELSE Owners(k) = {}
  /\ \A x \in DOMAIN object : object[x].invoke <=> \E k \in Made : x \in Owners(k)

\* "Memory should only be allocated when the task is constructed from a target
\* callable object and deallocated when the task is destructed"
\* (task.h:47-49): through all moves a block stays allocated as long as its
\* target lives, and is freed once, with it.
BlocksFreedOnce ==
  \A k \in Made : block[k] # <<>> =>
    /\ target[k] = "live" => Len(block[k]) = 1
    /\ target[k] = "dead" => Len(block[k]) = 2

\* "The task allocator might be polymorphic (pmr). In such a case it moves along
\* with the task data" (task.h:63-64): a block is returned to the allocator that
\* it came from.
BlocksReturned == \A k \in Made : Len(block[k]) = 2 => block[k][2] = block[k][1]

\* A task "is noexcept-movable" (task.h:52): an assignment or a swap whose
\* first temporary has taken over a target never calls a null helper_.
NoexceptMovable == crashed => \A x \in Temps : ~object[x].exists
=============================================================================
