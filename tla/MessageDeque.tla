----------------------------- MODULE MessageDeque -----------------------------
(***************************************************************************)
(* What the message queue of Common/Queue.h promises its callers: a         *)
(* double-ended queue whose operations each happen at one instant between   *)
(* the call and the return, at the end of the queue their name says, from   *)
(* which a message comes out once for every time it was put in, and which   *)
(* answers NULL only when it is empty.                                      *)
(***************************************************************************)
EXTENDS Sequences, SequencesExt

CONSTANTS Threads, Messages, NULL, PENDING

VARIABLES items,     \* the messages queued, from the bottom to the top
          held,      \* the messages each thread owns
          call,      \* the operation of each thread that has yet to happen
          new_msg,   \* what each thread's last push was given
          msg        \* what each thread's last pop answered

vars == <<items, held, call, new_msg, msg>>

Init == /\ items = <<>>
        /\ held \in [Threads -> SUBSET Messages]
        /\ \A m \in Messages : \E t \in Threads : m \in held[t]
        /\ \A t, u \in Threads : t # u => held[t] \cap held[u] = {}
        /\ call = [t \in Threads |-> "none"]
        /\ new_msg = [t \in Threads |-> NULL]
        /\ msg = [t \in Threads |-> NULL]

CallPush(t, o, m) == /\ call[t] = "none" /\ m \in held[t]
                     /\ call' = [call EXCEPT ![t] = o]
                     /\ new_msg' = [new_msg EXCEPT ![t] = m]
                     /\ UNCHANGED <<items, held, msg>>

CallPop(t, o) == /\ call[t] = "none"
                 /\ call' = [call EXCEPT ![t] = o]
                 /\ msg' = [msg EXCEPT ![t] = PENDING]
                 /\ UNCHANGED <<items, held, new_msg>>

Happened(t) == call' = [call EXCEPT ![t] = "none"]

\* "Back" is the bottom of the queue, "front" its top.
Push(t) == LET m == new_msg[t] IN
  /\ \/ call[t] = "push_back"  /\ items' = <<m>> \o items
     \/ call[t] = "push_front" /\ items' = Append(items, m)
  /\ m \in held[t]
  /\ held' = [held EXCEPT ![t] = @ \ {m}]
  /\ Happened(t)
  /\ UNCHANGED <<new_msg, msg>>

Take(t, m, rest) ==
  /\ items # <<>>
  /\ items' = rest
  /\ held' = [held EXCEPT ![t] = @ \cup {m}]
  /\ msg' = [msg EXCEPT ![t] = m]
  /\ Happened(t)
  /\ UNCHANGED new_msg

Pop(t) == \/ call[t] = "pop_back"  /\ Take(t, Head(items), Tail(items))
          \/ call[t] = "pop_front" /\ Take(t, Last(items), Front(items))

\* A pop of an empty queue; it may be called and happen at once.
PopNothing(t) == /\ call[t] \in {"pop_back", "pop_front", "none"}
                 /\ items = <<>>
                 /\ msg' = [msg EXCEPT ![t] = NULL]
                 /\ Happened(t)
                 /\ UNCHANGED <<items, held, new_msg>>

\* The process may die, and then no call that has yet to happen does.
Die == /\ call' = [t \in Threads |-> "none"]
       /\ UNCHANGED <<items, held, new_msg, msg>>

Next == \/ \E t \in Threads :
             \/ \E o \in {"push_back", "push_front"}, m \in Messages : CallPush(t, o, m)
             \/ \E o \in {"pop_back", "pop_front"} : CallPop(t, o)
             \/ Push(t) \/ Pop(t) \/ PopNothing(t)
        \/ Die

Spec == Init /\ [][Next]_vars
================================================================================
