---------------------------- MODULE QueueProperties ----------------------------
(* The properties of the message queue.                                     *)
EXTENDS Queue, SequencesExt

Link == Messages \cup {NULL}

\* Every variable has its type, and a call works on the message it was given
\* or, once past its look at the list, on what it found there.
TypeOK ==
  /\ top \in Link /\ bottom \in Link /\ nMsg \in Int /\ lock \in {0, 1}
  /\ next \in [Messages -> Link] /\ prev \in [Messages -> Link]
  /\ pc \in [Threads -> {"idle", "acquire", "body", "count", "unlock", "clear", "crashed"}]
  /\ op \in [Threads -> Pushes \cup Pops \cup {"none"}]
  /\ new_msg \in [Threads -> Link]
  /\ msg \in [Threads -> Link \cup {PENDING}]
  /\ held \in [Threads -> SUBSET Messages]
  /\ \A t \in Threads :
       /\ pc[t] \in {"acquire", "body"} => op[t] # "none"
       /\ pc[t] \in {"acquire", "body"} /\ op[t] \in Pushes => new_msg[t] \in Messages
       /\ pc[t] \in {"count", "clear"} /\ op[t] \in Pops => msg[t] \in Messages
       /\ pc[t] = "unlock" /\ op[t] \in Pops => msg[t] \in Link
       /\ pc[t] = "clear" => op[t] \in Pops

InCritical(t) == pc[t] \in {"body", "count", "unlock"}

\* spin_lock lets one thread at a time between it and spin_unlock, and the
\* lock byte is set exactly then, whichever way the call leaves.
MutualExclusion ==
  /\ \A t, u \in Threads : InCritical(t) /\ InCritical(u) => t = u
  /\ (\A t \in Threads : pc[t] # "crashed") =>
       (lock = 1 <=> \E t \in Threads : InCritical(t))

\* s is the list: it starts at bottom, ends at top, and the two kinds of link
\* agree on every neighbour.
IsList(s) ==
  /\ \A i, j \in DOMAIN s : s[i] = s[j] => i = j
  /\ IF s = <<>> THEN bottom = NULL /\ top = NULL
     ELSE /\ bottom = s[1] /\ prev[s[1]] = NULL
          /\ top = Last(s) /\ next[Last(s)] = NULL
          /\ \A i \in 1 .. Len(s) - 1 : next[s[i]] = s[i + 1] /\ prev[s[i + 1]] = s[i]

Lists == {s \in SeqOf(Messages, Cardinality(Messages)) : IsList(s)}
Items == CHOOSE s \in Lists : TRUE
Queued == ToSet(Items)

\* Whatever the pushes and pops at both ends do, the links form one list from
\* bottom to top that reads the same in both directions (Queue.c:27-34,
\* 46-53, 70-77 and 97-103).
WellLinked == Lists # {}

\* A message is in the list or belongs to one thread, never both, never lost:
\* the links a pop clears after spin_unlock (Queue.c:83-84, 109-110) are no
\* longer the list's.
OnePlace ==
  /\ WellLinked
  /\ \A m \in Messages : (m \in Queued) <=> (\A t \in Threads : m \notin held[t])
  /\ \A t, u \in Threads : t # u => held[t] \cap held[u] = {}
  /\ \A t \in Threads : pc[t] = "clear" => msg[t] \in held[t]

\* nMsg, which is_enough_queue reads without the lock, is the length of the
\* list whenever nobody is between the change of the links and that of nMsg.
CountExact ==
  (\A t \in Threads : pc[t] # "count") => WellLinked /\ nMsg = Len(Items)

\* pop_back never reads a NULL message: what its look at bottom before the
\* lock (Queue.c:90) is there for.
NoNullDeref == \A t \in Threads : ~NullDeref(t)

\* The call of each thread that has yet to change the list.
Pending == [t \in Threads |-> IF pc[t] \in {"acquire", "body"} THEN op[t] ELSE "none"]

\* The queue is a double-ended queue whose operations are atomic: each happens
\* at one instant of its call, at the end of the list its name says, with the
\* message it was given.
DEQUE == INSTANCE MessageDeque WITH items <- Items, call <- Pending
IsDeque == DEQUE!Spec

\* While somebody waits for the lock, somebody gets it, again and again: every
\* way out of the four operations gives the lock back.  (Not everybody: the
\* exchange of one thread may lose for ever.)
SomeoneEnters ==
  (\E t \in Threads : pc[t] = "acquire") ~> (\E t \in Threads : pc[t] \in {"body", "crashed"})
================================================================================
