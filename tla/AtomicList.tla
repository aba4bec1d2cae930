----------------------------- MODULE AtomicList -----------------------------
(***************************************************************************)
(* The atomic list unit (utils/atomiclist.c) under the interrupts that use *)
(* it.  The handler lists of the CRIT and SOFT interrupts are such lists.  *)
(* A handler is queued by code of some interrupt level; the list is        *)
(* drained at one level, Drain, by CritInterrupt() or SoftInterrupt().     *)
(* Code of a level is interrupted by code of a higher level only, and goes *)
(* on when that has returned: the running operations form a stack.         *)
(*                                                                         *)
(* Each step is one access to the shared words.  On a 64 bit PC the double *)
(* word of DoubleCompareAndSwap is the pointer alone, so the pop counter   *)
(* takes no part in the comparison and is left out.                        *)
(***************************************************************************)
EXTENDS Lists, Links

CONSTANTS
  Level,       \* the level of the code that queues each handler
  Drain        \* the level that drains the list

ASSUME LevelAssumption ==
  /\ Drain \in Nat
  /\ Level \in [Node -> Nat]
  /\ \A n \in Node : Level[n] >= Drain

VARIABLES
  Pointer,     \* list->Head.Tuple.Pointer
  Next,        \* node->Next
  queued,      \* the handlers whose State is HANDLER_QUEUED
  stack,       \* the operations in progress, the running one last
  order,       \* what the list should be: the completed pushes and pops
  assertFailed \* HandlerRun's ASSERT failed

atomicVars == <<Pointer, Next, queued, stack, order, assertFailed>>

AtomicListInit ==
  /\ Pointer = NULL
  /\ Next = [n \in Node |-> NULL]
  /\ queued = {}
  /\ stack = <<>>
  /\ order = <<>>
  /\ assertFailed = FALSE

-----------------------------------------------------------------------------

Top == stack[Len(stack)]

Interruptible(level) == stack # <<>> => Top.level < level

Running(op, at) == stack # <<>> /\ Top.op = op /\ Top.at = at

Proceed(at) == stack' = [stack EXCEPT ![Len(stack)].at = at]

Return == stack' = SubSeq(stack, 1, Len(stack) - 1)

(* The Register functions of the two interrupt units: HandlerRegister,     *)
(* then AtomicListPush.                                                    *)
RegisterHandler(n) ==
  /\ ~ assertFailed
  /\ n \notin queued
  /\ \A i \in 1..Len(stack) : stack[i].node # n
  /\ Interruptible(Level[n])
  /\ queued' = queued \cup {n}
  /\ stack' = Append(stack, [op |-> "push", level |-> Level[n], node |-> n,
                             at |-> "link", old |-> NULL])
  /\ UNCHANGED <<Pointer, Next, order, assertFailed>>

(* node->Next = list->Head.Tuple.Pointer                                   *)
PushLink ==
  /\ Running("push", "link")
  /\ Next' = [Next EXCEPT ![Top.node] = Pointer]
  /\ Proceed("compare")
  /\ UNCHANGED <<Pointer, queued, order, assertFailed>>

(* The second read of the head, for the compare and swap.                  *)
PushCompare ==
  /\ Running("push", "compare")
  /\ stack' = [stack EXCEPT ![Len(stack)].at = "swap", ![Len(stack)].old = Pointer]
  /\ UNCHANGED <<Pointer, Next, queued, order, assertFailed>>

(* The swap returns what the head was; the loop ends when that is what     *)
(* node->Next was given by the first read.                                 *)
PushSwap ==
  /\ Running("push", "swap")
  /\ Pointer' = IF Pointer = Top.old THEN Top.node ELSE Pointer
  /\ \/ Next[Top.node] = Pointer /\ Return /\ order' = LinkedListPush(Top.node, order)
     \/ Next[Top.node] # Pointer /\ Proceed("link") /\ UNCHANGED order
  /\ UNCHANGED <<Next, queued, assertFailed>>

(* CritInterrupt() or SoftInterrupt() calls AtomicListPop.                 *)
DrainStart ==
  /\ ~ assertFailed
  /\ Interruptible(Drain)
  /\ stack' = Append(stack, [op |-> "pop", level |-> Drain, node |-> NULL,
                             at |-> "read", old |-> NULL])
  /\ UNCHANGED <<Pointer, Next, queued, order, assertFailed>>

PopRead ==
  /\ Running("pop", "read")
  /\ \/ Pointer = NULL /\ Return
     \/ /\ Pointer # NULL
        /\ stack' = [stack EXCEPT ![Len(stack)].at = "link", ![Len(stack)].node = Pointer]
  /\ UNCHANGED <<Pointer, Next, queued, order, assertFailed>>

PopLink ==
  /\ Running("pop", "link")
  /\ stack' = [stack EXCEPT ![Len(stack)].at = "swap", ![Len(stack)].old = Next[Top.node]]
  /\ UNCHANGED <<Pointer, Next, queued, order, assertFailed>>

(* Bug: a plain store instead of the swap.                                 *)
BugPopSwap ==
  /\ Running("pop", "swap")
  /\ Pointer' = Top.old
  /\ Return
  /\ order' = SubSeq(order, 2, Len(order))
  /\ assertFailed' = (Top.node \notin queued)
  /\ queued' = queued \ {Top.node}
  /\ UNCHANGED Next

(* When the swap succeeds the handler is run and finished: its ASSERT      *)
(* wants it to be QUEUED.                                                  *)
PopSwap ==
  /\ Running("pop", "swap")
  /\ \/ /\ Pointer = Top.node
        /\ Pointer' = Top.old
        /\ Return
        /\ order' = SubSeq(order, 2, Len(order))
        /\ assertFailed' = (Top.node \notin queued)
        /\ queued' = queued \ {Top.node}
     \/ /\ Pointer # Top.node
        /\ Proceed("read")
        /\ UNCHANGED <<Pointer, queued, order, assertFailed>>
  /\ UNCHANGED Next

AtomicNext ==
  \/ \E n \in Node : RegisterHandler(n)
  \/ PushLink \/ PushCompare \/ PushSwap
  \/ DrainStart
  \/ PopRead \/ PopLink \/ PopSwap

AtomicSpec == AtomicListInit /\ [][AtomicNext]_atomicVars

-----------------------------------------------------------------------------

(* The nodes that pops would find: the least set with the head in it that  *)
(* is closed under Next.                                                   *)
InList ==
  {n \in Node : \A S \in SUBSET Node :
     ({Pointer} \cup {Next[m] : m \in S}) \cap Node \subseteq S => n \in S}

(* The words in memory are the stack of the completed operations, even     *)
(* between two accesses of an interrupted one.  When no operation is in    *)
(* progress a handler is in the list exactly when it is QUEUED: each one   *)
(* that was registered is going to be run.                                 *)
SoftListSound ==
  /\ Pointer = IF order = <<>> THEN NULL ELSE order[1]
  /\ \A i \in 1..Len(order) : Next[order[i]] = IF i = Len(order) THEN NULL ELSE order[i + 1]
  /\ stack = <<>> => queued = InList

(* A handler that is taken from the list is QUEUED, as HandlerRun asserts. *)
OnlyQueuedRun == ~ assertFailed
=============================================================================
