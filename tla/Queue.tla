--------------------------------- MODULE Queue ---------------------------------
(***************************************************************************)
(* The message queue of Common/Queue.c under the spinlock of                *)
(* Common/Spinlock.h: a doubly linked list, pushed and popped at both ends  *)
(* by several threads.  The next link of a message leads towards the top,   *)
(* the prev link towards the bottom.                                        *)
(*                                                                         *)
(* A step is what a thread does between two places where another thread     *)
(* can see it: the start of a call, the exchange that takes the lock, the   *)
(* change of the links, the change of nMsg, the release, and the clearing   *)
(* of the popped message, which comes after the release.                    *)
(***************************************************************************)
EXTENDS Integers, FiniteSets, Functions

CONSTANTS
  Threads, Messages,
  Calls,      \* the operations each thread uses
  NULL,
  PENDING     \* the local msg of a pop before it is assigned

Pushes == {"push_back", "push_front"}
Pops   == {"pop_back", "pop_front"}

ASSUME CallAssumption == Calls \in [Threads -> SUBSET (Pushes \cup Pops)]
ASSUME FiniteMessages == IsFiniteSet(Messages)
ASSUME NullAssumption == NULL \notin Messages /\ PENDING \notin Messages /\ NULL # PENDING

VARIABLES
  top, bottom, nMsg, lock,     \* struct queue_s
  next, prev,                  \* header_s of every message
  pc, op, new_msg, msg,        \* each thread: where it is, its call, its locals
  held                         \* the messages each thread owns, by the callers' contract

queue == <<top, bottom, nMsg, next, prev>>
local == <<op, new_msg, msg>>
vars  == <<queue, lock, pc, local, held>>

NullLinks == [m \in Messages |-> NULL]

Init ==
  /\ top = NULL /\ bottom = NULL /\ nMsg = 0 /\ lock = 0
  /\ next = NullLinks /\ prev = NullLinks
  /\ pc = [t \in Threads |-> "idle"]
  /\ op = [t \in Threads |-> "none"]
  /\ new_msg = [t \in Threads |-> NULL]
  /\ msg = [t \in Threads |-> NULL]
  /\ held \in [Threads -> SUBSET Messages]
  /\ \A m \in Messages : \E t \in Threads : m \in held[t]
  /\ \A t, u \in Threads : t # u => held[t] \cap held[u] = {}

Goto(t, place) == pc' = [pc EXCEPT ![t] = place]

\* push_back and push_front clear the links of their message before the lock.
StartPush(t, o, m) ==
  /\ pc[t] = "idle" /\ o \in Calls[t] \cap Pushes
  /\ m \in held[t]
  /\ next' = [next EXCEPT ![m] = NULL] /\ prev' = [prev EXCEPT ![m] = NULL]
  /\ op' = [op EXCEPT ![t] = o]
  /\ new_msg' = [new_msg EXCEPT ![t] = m]
  /\ Goto(t, "acquire")
  /\ UNCHANGED <<top, bottom, nMsg, lock, msg, held>>

StartPopFront(t) ==
  /\ pc[t] = "idle" /\ "pop_front" \in Calls[t]
  /\ op' = [op EXCEPT ![t] = "pop_front"]
  /\ msg' = [msg EXCEPT ![t] = PENDING]
  /\ Goto(t, "acquire")
  /\ UNCHANGED <<queue, lock, new_msg, held>>

\* Mutant: no look at bottom before the lock.
StartPopBackBlind(t) ==
  /\ pc[t] = "idle" /\ "pop_back" \in Calls[t]
  /\ op' = [op EXCEPT ![t] = "pop_back"]
  /\ msg' = [msg EXCEPT ![t] = PENDING]
  /\ Goto(t, "acquire")
  /\ UNCHANGED <<queue, lock, new_msg, held>>

\* Mutant: pop_back looks at nMsg.
StartPopBackByCount(t) ==
  /\ pc[t] = "idle" /\ "pop_back" \in Calls[t]
  /\ \/ nMsg = 0 /\ msg' = [msg EXCEPT ![t] = NULL] /\ UNCHANGED <<pc, op>>
     \/ /\ nMsg # 0
        /\ op' = [op EXCEPT ![t] = "pop_back"]
        /\ msg' = [msg EXCEPT ![t] = PENDING]
        /\ Goto(t, "acquire")
  /\ UNCHANGED <<queue, lock, new_msg, held>>

\* pop_back looks at bottom before it takes the lock, and not again.
StartPopBack(t) ==
  /\ pc[t] = "idle" /\ "pop_back" \in Calls[t]
  /\ \/ /\ bottom = NULL
        /\ msg' = [msg EXCEPT ![t] = NULL]
        /\ UNCHANGED <<pc, op>>
     \/ /\ bottom # NULL
        /\ op' = [op EXCEPT ![t] = "pop_back"]
        /\ msg' = [msg EXCEPT ![t] = PENDING]
        /\ Goto(t, "acquire")
  /\ UNCHANGED <<queue, lock, new_msg, held>>

\* xchg_8 finds the lock free; a thread that finds it BUSY spins.
Acquire(t) ==
  /\ pc[t] = "acquire"
  /\ lock = 0
  /\ lock' = 1
  /\ Goto(t, "body")
  /\ UNCHANGED <<queue, local, held>>

PushBack(t) ==
  /\ pc[t] = "body" /\ op[t] = "push_back"
  /\ LET m == new_msg[t] IN
       /\ bottom' = m
       /\ \/ bottom = NULL /\ top' = m /\ UNCHANGED <<next, prev>>
          \/ /\ bottom # NULL
             /\ prev' = [prev EXCEPT ![bottom] = m]
             /\ next' = [next EXCEPT ![m] = bottom]
             /\ UNCHANGED top
       /\ held' = [held EXCEPT ![t] = @ \ {m}]
  /\ Goto(t, "count")
  /\ UNCHANGED <<nMsg, lock, local>>

\* Mutant: push_front links its message below the bottom.
PushFrontAtBottom(t) ==
  /\ pc[t] = "body" /\ op[t] = "push_front"
  /\ LET m == new_msg[t] IN
       /\ bottom' = m
       /\ \/ bottom = NULL /\ top' = m /\ UNCHANGED <<next, prev>>
          \/ /\ bottom # NULL
             /\ prev' = [prev EXCEPT ![bottom] = m]
             /\ next' = [next EXCEPT ![m] = bottom]
             /\ UNCHANGED top
       /\ held' = [held EXCEPT ![t] = @ \ {m}]
  /\ Goto(t, "count")
  /\ UNCHANGED <<nMsg, lock, local>>

PushFront(t) ==
  /\ pc[t] = "body" /\ op[t] = "push_front"
  /\ LET m == new_msg[t] IN
       /\ top' = m
       /\ \/ top = NULL /\ bottom' = m /\ UNCHANGED <<next, prev>>
          \/ /\ top # NULL
             /\ next' = [next EXCEPT ![top] = m]
             /\ prev' = [prev EXCEPT ![m] = top]
             /\ UNCHANGED bottom
       /\ held' = [held EXCEPT ![t] = @ \ {m}]
  /\ Goto(t, "count")
  /\ UNCHANGED <<nMsg, lock, local>>

\* The message leaves the list and belongs to the thread.
Returned(t, m) == /\ msg' = [msg EXCEPT ![t] = m]
                  /\ held' = [held EXCEPT ![t] = @ \cup {m}]

\* Mutant: bottom still points at the last message after it was popped.
PopFrontKeepsBottom(t) ==
  /\ pc[t] = "body" /\ op[t] = "pop_front" /\ top # NULL
  /\ LET below == prev[top] IN
       /\ next' = IF below = NULL THEN next ELSE [next EXCEPT ![below] = NULL]
       /\ top' = below
  /\ Returned(t, top)
  /\ Goto(t, "count")
  /\ UNCHANGED <<bottom, nMsg, lock, prev, op, new_msg>>

PopFront(t) ==
  /\ pc[t] = "body" /\ op[t] = "pop_front" /\ top # NULL
  /\ LET below == prev[top] IN
       /\ \/ below # NULL /\ next' = [next EXCEPT ![below] = NULL] /\ UNCHANGED bottom
          \/ below = NULL /\ bottom' = NULL /\ UNCHANGED next
       /\ top' = below
  /\ Returned(t, top)
  /\ Goto(t, "count")
  /\ UNCHANGED <<nMsg, lock, prev, op, new_msg>>

\* Mutant: the early return forgets the lock.
PopFrontEmptyLocked(t) ==
  /\ pc[t] = "body" /\ op[t] = "pop_front" /\ top = NULL
  /\ msg' = [msg EXCEPT ![t] = NULL]
  /\ Goto(t, "idle")
  /\ UNCHANGED <<queue, lock, op, new_msg, held>>

PopFrontEmpty(t) ==
  /\ pc[t] = "body" /\ op[t] = "pop_front" /\ top = NULL
  /\ msg' = [msg EXCEPT ![t] = NULL]
  /\ Goto(t, "unlock")
  /\ UNCHANGED <<queue, lock, op, new_msg, held>>

PopBack(t) ==
  /\ pc[t] = "body" /\ op[t] = "pop_back" /\ bottom # NULL
  /\ LET above == next[bottom] IN
       /\ \/ above # NULL /\ prev' = [prev EXCEPT ![above] = NULL] /\ UNCHANGED top
          \/ above = NULL /\ top' = NULL /\ UNCHANGED prev
       /\ bottom' = above
  /\ Returned(t, bottom)
  /\ Goto(t, "count")
  /\ UNCHANGED <<nMsg, lock, next, op, new_msg>>

\* The list has emptied since StartPopBack: msg->header.next reads address
\* 0, and the process dies.
NullDeref(t) == pc[t] = "body" /\ op[t] = "pop_back" /\ bottom = NULL

Crash(t) ==
  /\ NullDeref(t)
  /\ pc' = [u \in Threads |-> "crashed"]
  /\ UNCHANGED <<queue, lock, local, held>>

\* Mutant: pops do not count.
CountPushes(t) ==
  /\ pc[t] = "count"
  /\ nMsg' = IF op[t] \in Pushes THEN nMsg + 1 ELSE nMsg
  /\ Goto(t, "unlock")
  /\ UNCHANGED <<top, bottom, next, prev, lock, local, held>>

Count(t) ==
  /\ pc[t] = "count"
  /\ nMsg' = IF op[t] \in Pushes THEN nMsg + 1 ELSE nMsg - 1
  /\ Goto(t, "unlock")
  /\ UNCHANGED <<top, bottom, next, prev, lock, local, held>>

Unlock(t) ==
  /\ pc[t] = "unlock"
  /\ lock' = 0
  /\ Goto(t, IF op[t] \in Pops /\ msg[t] # NULL THEN "clear" ELSE "idle")
  /\ UNCHANGED <<queue, local, held>>

\* A pop clears the links of the message it returns, without the lock.
Clear(t) ==
  /\ pc[t] = "clear"
  /\ next' = [next EXCEPT ![msg[t]] = NULL] /\ prev' = [prev EXCEPT ![msg[t]] = NULL]
  /\ Goto(t, "idle")
  /\ UNCHANGED <<top, bottom, nMsg, lock, local, held>>

\* A call that has begun goes on.
Run(t) == \/ Acquire(t)
          \/ PushBack(t) \/ PushFront(t)
          \/ PopFront(t) \/ PopFrontEmpty(t) \/ PopBack(t) \/ Crash(t)
          \/ Count(t) \/ Unlock(t) \/ Clear(t)

Start(t) == \/ \E o \in Pushes, m \in Messages : StartPush(t, o, m)
            \/ StartPopFront(t) \/ StartPopBack(t)

Next == \E t \in Threads : Start(t) \/ Run(t)

Spec == Init /\ [][Next]_vars

\* The operating system runs every thread: a thread that can always take its
\* next step takes it.  Nothing makes the spinlock fair.
FairSpec == Spec /\ \A t \in Threads : WF_vars(Run(t))
================================================================================
