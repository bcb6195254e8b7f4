------------------------------ MODULE QueueProofs ------------------------------
(***************************************************************************)
(* Theorems about the message queue, for any threads, messages and calls.   *)
(* One step lemma per invariant, with one step per action of a thread.      *)
(***************************************************************************)
EXTENDS QueueProperties, FiniteSetTheorems, SequenceTheorems, TLAPS

\* Starting and running a call keeps the types, and what each place of the
\* code knows of the locals.
LEMMA TypeInit == Init => TypeOK
  BY NullAssumption DEF Init, TypeOK, NullLinks, Link

LEMMA TypeStep == TypeOK /\ [Next]_vars => TypeOK'
<1> SUFFICES ASSUME TypeOK, [Next]_vars PROVE TypeOK'
  OBVIOUS
<1> USE NullAssumption
<1>1. CASE UNCHANGED vars
  BY <1>1 DEF TypeOK, vars, queue, local
<1>2. ASSUME NEW t \in Threads, NEW o \in Pushes, NEW m \in Messages, StartPush(t, o, m)
      PROVE  TypeOK'
  BY <1>2 DEF StartPush, TypeOK, Goto, Link, Pushes, Pops
<1>3. ASSUME NEW t \in Threads, StartPopFront(t) PROVE TypeOK'
  BY <1>3 DEF StartPopFront, TypeOK, Goto, queue, Link, Pushes, Pops
<1>4. ASSUME NEW t \in Threads, StartPopBack(t) PROVE TypeOK'
  BY <1>4 DEF StartPopBack, TypeOK, Goto, queue, Link, Pushes, Pops
<1>5. ASSUME NEW t \in Threads, Acquire(t) PROVE TypeOK'
  BY <1>5 DEF Acquire, TypeOK, Goto, queue, local, Link, Pushes, Pops
<1>6. ASSUME NEW t \in Threads, PushBack(t) PROVE TypeOK'
  BY <1>6 DEF PushBack, TypeOK, Goto, local, Link, Pushes, Pops
<1>7. ASSUME NEW t \in Threads, PushFront(t) PROVE TypeOK'
  BY <1>7 DEF PushFront, TypeOK, Goto, local, Link, Pushes, Pops
<1>8. ASSUME NEW t \in Threads, PopFront(t) PROVE TypeOK'
  BY <1>8 DEF PopFront, Returned, TypeOK, Goto, Link, Pushes, Pops
<1>9. ASSUME NEW t \in Threads, PopFrontEmpty(t) PROVE TypeOK'
  BY <1>9 DEF PopFrontEmpty, TypeOK, Goto, queue, Link, Pushes, Pops
<1>10. ASSUME NEW t \in Threads, PopBack(t) PROVE TypeOK'
  BY <1>10 DEF PopBack, Returned, TypeOK, Goto, Link, Pushes, Pops
<1>11. ASSUME NEW t \in Threads, Crash(t) PROVE TypeOK'
  BY <1>11 DEF Crash, TypeOK, queue, local
<1>12. ASSUME NEW t \in Threads, Count(t) PROVE TypeOK'
  BY <1>12 DEF Count, TypeOK, Goto, local, Link, Pushes, Pops
<1>13. ASSUME NEW t \in Threads, Unlock(t) PROVE TypeOK'
  BY <1>13 DEF Unlock, TypeOK, Goto, queue, local, Link, Pushes, Pops
<1>14. ASSUME NEW t \in Threads, Clear(t) PROVE TypeOK'
  BY <1>14 DEF Clear, TypeOK, Goto, local, Link, Pushes, Pops
<1> QED
  BY <1>1, <1>2, <1>3, <1>4, <1>5, <1>6, <1>7, <1>8, <1>9, <1>10, <1>11, <1>12,
     <1>13, <1>14 DEF Next, Start, Run

\* The variables of the queue keep their types, and no call uses a local
\* before it has assigned it (Queue.c:21-112).
THEOREM QueueTypeCorrect == Spec => []TypeOK
  BY TypeInit, TypeStep, PTL DEF Spec

--------------------------------------------------------------------------------
\* What MutualExclusion needs besides to be inductive: a crash takes all
\* threads with it.
DeadTogether == \A t, u \in Threads : pc[t] = "crashed" => pc[u] = "crashed"

LEMMA DeadStep == TypeOK /\ DeadTogether /\ [Next]_vars => DeadTogether'
<1> SUFFICES ASSUME TypeOK, DeadTogether, [Next]_vars PROVE DeadTogether'
  OBVIOUS
<1>1. CASE UNCHANGED vars
  BY <1>1 DEF DeadTogether, vars
<1>2. ASSUME NEW t \in Threads, Start(t) PROVE DeadTogether'
  BY <1>2 DEF Start, StartPush, StartPopFront, StartPopBack, Goto, DeadTogether, TypeOK
<1>3. ASSUME NEW t \in Threads, Run(t), ~Crash(t) PROVE DeadTogether'
  BY <1>3 DEF Run, Acquire, PushBack, PushFront, PopFront, PopFrontEmpty, PopBack, Count,
              Unlock, Clear, Goto, DeadTogether, TypeOK
<1>4. ASSUME NEW t \in Threads, Crash(t) PROVE DeadTogether'
  BY <1>4 DEF Crash, DeadTogether, TypeOK
<1> QED
  BY <1>1, <1>2, <1>3, <1>4 DEF Next

LEMMA LockStep ==
  TypeOK /\ DeadTogether /\ MutualExclusion /\ [Next]_vars => MutualExclusion'
<1> SUFFICES ASSUME TypeOK, DeadTogether, MutualExclusion, [Next]_vars
             PROVE  MutualExclusion'
  OBVIOUS
<1>1. CASE UNCHANGED vars
  BY <1>1 DEF MutualExclusion, InCritical, vars
\* A step of one thread that neither enters nor leaves the critical section.
<1>a. ASSUME NEW t \in Threads, UNCHANGED lock,
             \A u \in Threads : u # t => pc'[u] = pc[u],
             InCritical(t)' <=> InCritical(t),
             pc[t] # "crashed"
      PROVE  MutualExclusion'
  <2>1. \A u \in Threads : InCritical(u)' <=> InCritical(u)
    BY <1>a DEF InCritical
  <2>2. (\A u \in Threads : pc'[u] # "crashed") => \A u \in Threads : pc[u] # "crashed"
    BY <1>a
  <2> QED
    BY <1>a, <2>1, <2>2 DEF MutualExclusion
<1>2. ASSUME NEW t \in Threads, Start(t) PROVE MutualExclusion'
  <2>1. CASE UNCHANGED pc
    BY <1>2, <2>1 DEF Start, StartPush, StartPopFront, StartPopBack, MutualExclusion, InCritical
  <2>2. CASE pc' = [pc EXCEPT ![t] = "acquire"]
    BY <1>2, <1>a, <2>2 DEF Start, StartPush, StartPopFront, StartPopBack, InCritical, TypeOK
  <2> QED
    BY <1>2, <2>1, <2>2 DEF Start, StartPush, StartPopFront, StartPopBack, Goto
<1>3. ASSUME NEW t \in Threads, Acquire(t) PROVE MutualExclusion'
  <2>1. \A u \in Threads : pc[u] # "crashed"
    BY <1>3 DEF Acquire, DeadTogether
  <2>2. \A u \in Threads : ~InCritical(u)
    BY <1>3, <2>1 DEF Acquire, MutualExclusion
  <2>3. lock' = 1 /\ \A u \in Threads : InCritical(u)' <=> u = t
    BY <1>3, <2>2 DEF Acquire, Goto, InCritical, TypeOK
  <2> QED
    BY <2>3 DEF MutualExclusion
<1>4. ASSUME NEW t \in Threads,
             PushBack(t) \/ PushFront(t) \/ PopFront(t) \/ PopFrontEmpty(t)
               \/ PopBack(t) \/ Count(t) \/ Clear(t)
      PROVE  MutualExclusion'
  BY <1>4, <1>a DEF PushBack, PushFront, PopFront, PopFrontEmpty, PopBack, Count,
                    Clear, Goto, InCritical, TypeOK
<1>5. ASSUME NEW t \in Threads, Unlock(t) PROVE MutualExclusion'
  BY <1>5 DEF Unlock, Goto, MutualExclusion, InCritical, TypeOK
<1>6. ASSUME NEW t \in Threads, Crash(t) PROVE MutualExclusion'
  BY <1>6 DEF Crash, MutualExclusion, InCritical, TypeOK
<1> QED
  BY <1>1, <1>2, <1>3, <1>4, <1>5, <1>6 DEF Next, Run

\* The spinlock admits one thread at a time to the list, and its byte is set
\* exactly while one is there (Spinlock.h:35-50, every path of Queue.c).
THEOREM QueueMutualExclusion == Spec => []MutualExclusion
<1>1. Init => MutualExclusion
  BY DEF Init, MutualExclusion, InCritical
<1>2. Init => DeadTogether
  BY DEF Init, DeadTogether
<1> QED
  BY <1>1, <1>2, QueueTypeCorrect, DeadStep, LockStep, PTL DEF Spec

--------------------------------------------------------------------------------
\* At most one thread pops.
OneConsumer ==
  \A t, u \in Threads : Calls[t] \cap Pops # {} /\ Calls[u] \cap Pops # {} => t = u

\* What makes NoNullDeref inductive: the list stays non-empty from the look
\* of pop_back to its read, because only its own thread can empty it.
StillThere ==
  \A t \in Threads : pc[t] \in {"acquire", "body"} =>
    /\ op[t] \in Calls[t]
    /\ op[t] = "pop_back" => bottom # NULL

LEMMA StillThereStep ==
  ASSUME OneConsumer, TypeOK, StillThere, [Next]_vars
  PROVE  StillThere'
<1> USE NullAssumption, CallAssumption
<1>1. CASE UNCHANGED vars
  BY <1>1 DEF StillThere, vars, queue, local
\* A step of t that leaves bottom non-empty if it was.
<1>a. ASSUME NEW t \in Threads,
             \A u \in Threads : u # t => pc'[u] = pc[u] /\ op'[u] = op[u],
             bottom # NULL => bottom' # NULL,
             pc'[t] \in {"acquire", "body"} =>
               op'[t] \in Calls[t] /\ (op'[t] = "pop_back" => bottom' # NULL)
      PROVE  StillThere'
  BY <1>a DEF StillThere
<1>2. ASSUME NEW t \in Threads, Start(t) PROVE StillThere'
  BY <1>2, <1>a DEF Start, StartPush, StartPopFront, StartPopBack, Goto, queue, Pushes,
                    TypeOK, StillThere
<1>3. ASSUME NEW t \in Threads, Acquire(t) PROVE StillThere'
  BY <1>3, <1>a DEF Acquire, Goto, queue, local, TypeOK, StillThere
<1>4. ASSUME NEW t \in Threads, PushBack(t) PROVE StillThere'
  BY <1>4, <1>a DEF PushBack, Goto, local, TypeOK, Pushes
<1>5. ASSUME NEW t \in Threads, PushFront(t) PROVE StillThere'
  BY <1>5, <1>a DEF PushFront, Goto, local, TypeOK, Pushes
\* A pop may empty the list, but no other thread has a pop under way.
<1>6. ASSUME NEW t \in Threads, PopFront(t) \/ PopBack(t) PROVE StillThere'
  <2>1. op[t] \in Calls[t] \cap Pops
    BY <1>6 DEF PopFront, PopBack, StillThere, Pops
  <2>2. ASSUME NEW u \in Threads, pc'[u] \in {"acquire", "body"}
        PROVE  op'[u] \in Calls[u] /\ op'[u] # "pop_back"
    <3>1. u # t /\ pc'[u] = pc[u] /\ op' = op
      BY <1>6, <2>2 DEF PopFront, PopBack, Goto, TypeOK
    <3>2. op[u] \in Calls[u]
      BY <2>2, <3>1 DEF StillThere
    <3> QED
      BY <2>1, <3>1, <3>2 DEF OneConsumer, Pops
  <2> QED
    BY <2>2 DEF StillThere
<1>7. ASSUME NEW t \in Threads, PopFrontEmpty(t) \/ Count(t) \/ Unlock(t) \/ Clear(t)
      PROVE  StillThere'
  BY <1>7, <1>a DEF PopFrontEmpty, Count, Unlock, Clear, Goto, queue, local, TypeOK
<1>8. ASSUME NEW t \in Threads, Crash(t) PROVE StillThere'
  BY <1>8 DEF Crash, StillThere
<1> QED
  BY <1>1, <1>2, <1>3, <1>4, <1>5, <1>6, <1>7, <1>8 DEF Next, Run

\* With one consumer, what pop_back saw before the lock is still true under
\* it, and it never reads a NULL message (Queue.c:90 and 98).
THEOREM OneConsumerNoNullDeref ==
  ASSUME OneConsumer
  PROVE  Spec => []NoNullDeref
<1>1. Init => StillThere
  BY DEF Init, StillThere
<1>2. TypeOK /\ StillThere /\ [Next]_vars => StillThere'
  BY StillThereStep
<1>3. StillThere => NoNullDeref
  BY DEF StillThere, NoNullDeref, NullDeref
<1> QED
  BY <1>1, <1>2, <1>3, QueueTypeCorrect, PTL DEF Spec
--------------------------------------------------------------------------------
\* Every set of naturals has a least element: what stands for induction here.
LEMMA LeastNat ==
  ASSUME NEW T \in SUBSET Nat, T # {}
  PROVE  \E x \in T : \A y \in T : x <= y
<1> DEFINE Below(n) == 1 .. n
           Family == {Below(n) : n \in T}
<1>1. IsWellFoundedOn(StrictSubsetOrdering(Nat), FiniteSubsetsOf(Nat))
  BY FS_StrictSubsetOrderingWellFounded
<1>2. Family \subseteq FiniteSubsetsOf(Nat) /\ Family # {}
  <2>1. \A n \in T : Below(n) \subseteq Nat /\ IsFiniteSet(Below(n))
    BY FS_Interval
  <2>2. \A n \in T : Below(n) \in FiniteSubsetsOf(Nat)
    <3> HIDE DEF Below
    <3> QED BY <2>1 DEF FiniteSubsetsOf
  <2> HIDE DEF Below
  <2> QED BY <2>2
<1>3. \E B \in Family : \A C \in Family : <<C, B>> \notin StrictSubsetOrdering(Nat)
  <2> HIDE DEF Family
  <2> QED
    BY <1>1, <1>2, WFMin
<1>4. PICK x \in T : \A y \in T : <<Below(y), Below(x)>> \notin StrictSubsetOrdering(Nat)
  BY <1>3
<1>5. ASSUME NEW y \in T, y < x PROVE FALSE
  <2>1. Below(y) \subseteq Below(x) /\ Below(x) \subseteq Nat /\ x \in Below(x) /\ x \notin Below(y)
    BY <1>5
  <2>2. <<Below(y), Below(x)>> \in StrictSubsetOrdering(Nat)
    BY <2>1, Zenon DEF StrictSubsetOrdering
  <2> QED
    BY <1>4, <2>2
<1> QED
  BY <1>5

\* IsList as a relation between a sequence and any values of the pointers.
Chain(s, b, u, nx, pv) ==
  /\ \A i, j \in 1 .. Len(s) : s[i] = s[j] => i = j
  /\ IF Len(s) = 0 THEN b = NULL /\ u = NULL
     ELSE /\ b = s[1] /\ pv[s[1]] = NULL
          /\ u = s[Len(s)] /\ nx[s[Len(s)]] = NULL
          /\ \A i \in 1 .. Len(s) - 1 : nx[s[i]] = s[i + 1] /\ pv[s[i + 1]] = s[i]

LEMMA ChainIsList ==
  ASSUME NEW s \in Seq(Messages)
  PROVE  /\ IsList(s) <=> Chain(s, bottom, top, next, prev)
         /\ IsList(s)' <=> Chain(s, bottom', top', next', prev')
<1>1. DOMAIN s = 1 .. Len(s) /\ Len(s) \in Nat /\ (s = <<>> <=> Len(s) = 0)
  BY EmptySeq, LenProperties
<1> QED
  BY <1>1 DEF IsList, Chain, Last

\* The links determine the list: two sequences they chain agree at every
\* place, for want of a first place where they differ, and end together.
LEMMA ChainUnique ==
  ASSUME NEW b, NEW u, NEW nx, NEW pv,
         NEW s \in Seq(Messages), NEW t \in Seq(Messages),
         Chain(s, b, u, nx, pv), Chain(t, b, u, nx, pv)
  PROVE  s = t
<1> USE NullAssumption
<1>1. Len(s) \in Nat /\ Len(t) \in Nat
  BY LenProperties
<1>2. /\ \A i \in 1 .. Len(s) : s[i] \in Messages
      /\ \A i \in 1 .. Len(t) : t[i] \in Messages
  BY ElementOfSeq
<1>3. ASSUME NEW i \in 1 .. Len(s), i <= Len(t) PROVE s[i] = t[i]
  <2> DEFINE Differ == {j \in 1 .. Len(s) : j <= Len(t) /\ s[j] # t[j]}
  <2>1. SUFFICES ASSUME Differ # {} PROVE FALSE
    BY <1>3
  <2>2. PICK j \in Differ : \A k \in Differ : j <= k
    <3>1. Differ \in SUBSET Nat
      BY <1>1
    <3> HIDE DEF Differ
    <3> QED BY <2>1, <3>1, LeastNat
  <2>3. j # 1
    BY <1>1, <2>2 DEF Chain
  <2>4. s[j - 1] = t[j - 1]
    BY <1>1, <2>2, <2>3
  <2>5. nx[s[j - 1]] = s[j] /\ nx[t[j - 1]] = t[j]
    <3>1. j - 1 \in 1 .. Len(s) - 1 /\ j - 1 \in 1 .. Len(t) - 1 /\ (j - 1) + 1 = j
      BY <1>1, <2>2, <2>3
    <3> QED BY <1>1, <3>1 DEF Chain
  <2> QED BY <2>2, <2>4, <2>5
<1>4. ~(Len(s) < Len(t))
  <2>1. SUFFICES ASSUME Len(s) < Len(t) PROVE FALSE
    OBVIOUS
  <2>2. Len(s) # 0
    BY <1>1, <1>2, <2>1 DEF Chain
  <2>3. nx[s[Len(s)]] = NULL /\ s[Len(s)] = t[Len(s)]
    BY <1>1, <1>3, <2>1, <2>2 DEF Chain
  <2>4. nx[t[Len(s)]] = t[Len(s) + 1]
    BY <1>1, <2>1, <2>2 DEF Chain
  <2> QED BY <1>1, <1>2, <2>1, <2>3, <2>4
<1>5. ~(Len(t) < Len(s))
  <2>1. SUFFICES ASSUME Len(t) < Len(s) PROVE FALSE
    OBVIOUS
  <2>2. Len(t) # 0
    BY <1>1, <1>2, <2>1 DEF Chain
  <2>3. nx[t[Len(t)]] = NULL /\ s[Len(t)] = t[Len(t)]
    BY <1>1, <1>3, <2>1, <2>2 DEF Chain
  <2>4. nx[s[Len(t)]] = s[Len(t) + 1]
    BY <1>1, <2>1, <2>2 DEF Chain
  <2> QED BY <1>1, <1>2, <2>1, <2>3, <2>4
<1> QED
  BY <1>1, <1>3, <1>4, <1>5, SeqEqual

\* A list of distinct messages is no longer than there are messages.
LEMMA ChainBounded ==
  ASSUME NEW b, NEW u, NEW nx, NEW pv, NEW s \in Seq(Messages), Chain(s, b, u, nx, pv)
  PROVE  s \in SeqOf(Messages, Cardinality(Messages))
<1>1. Len(s) \in Nat /\ s \in [1 .. Len(s) -> Messages]
  BY LenProperties
<1>2. s \in Injection(1 .. Len(s), Messages)
  BY <1>1 DEF Chain, Injection, IsInjective
<1>3. Cardinality(1 .. Len(s)) <= Cardinality(Messages)
  BY <1>2, FiniteMessages, FS_Injection
<1>4. Len(s) <= Cardinality(Messages) /\ Cardinality(Messages) \in Nat
  BY <1>1, <1>3, FS_Interval, FiniteMessages, FS_CardinalityType
<1>5. Len(s) \in 0 .. Cardinality(Messages)
  BY <1>1, <1>4
<1> QED
  BY <1>1, <1>5 DEF SeqOf

\* So Items is the list whenever there is one.
LEMMA ItemsIs ==
  ASSUME NEW s \in Seq(Messages)
  PROVE  /\ IsList(s) => Items = s /\ Lists = {s}
         /\ IsList(s)' => Items' = s /\ Lists' = {s}
<1> DEFINE ListsOf(b, u, nx, pv) ==
             {r \in SeqOf(Messages, Cardinality(Messages)) : Chain(r, b, u, nx, pv)}
<1>1. \A r \in SeqOf(Messages, Cardinality(Messages)) : r \in Seq(Messages)
  <2>1. 0 .. Cardinality(Messages) \subseteq Nat
    BY FiniteMessages, FS_CardinalityType
  <2> QED BY <2>1, SeqDef, Zenon DEF SeqOf
<1>2. ASSUME NEW b, NEW u, NEW nx, NEW pv, Chain(s, b, u, nx, pv)
      PROVE  ListsOf(b, u, nx, pv) = {s}
  BY <1>1, <1>2, ChainUnique, ChainBounded
<1>3. Lists = ListsOf(bottom, top, next, prev)
  BY <1>1, ChainIsList DEF Lists
<1>4. Lists' = ListsOf(bottom', top', next', prev')
  BY <1>1, ChainIsList DEF Lists
<1> HIDE DEF ListsOf
<1>5. IsList(s) => Lists = {s}
  BY <1>2, <1>3, ChainIsList
<1>6. IsList(s)' => Lists' = {s}
  BY <1>2, <1>4, ChainIsList
<1> QED
  BY <1>5, <1>6 DEF Items

--------------------------------------------------------------------------------
\* The list is its own links': what the others do to theirs leaves it alone.
LEMMA ChainFrame ==
  ASSUME NEW b, NEW u, NEW nx, NEW pv, NEW nx2, NEW pv2, NEW s \in Seq(Messages),
         Chain(s, b, u, nx, pv),
         \A m \in ToSet(s) : nx2[m] = nx[m] /\ pv2[m] = pv[m]
  PROVE  Chain(s, b, u, nx2, pv2)
<1>1. Len(s) \in Nat /\ DOMAIN s = 1 .. Len(s)
  BY LenProperties
<1>2. \A i \in 1 .. Len(s) : nx2[s[i]] = nx[s[i]] /\ pv2[s[i]] = pv[s[i]]
  BY <1>1 DEF ToSet
<1> QED
  BY <1>1, <1>2 DEF Chain

\* The change of the links that each operation makes, message by message.
LinkedBelow(m, b, u, nx, pv, u2, nx2, pv2) ==
  /\ u2 = IF b = NULL THEN m ELSE u
  /\ \A x \in Messages : /\ nx2[x] = IF b # NULL /\ x = m THEN b ELSE nx[x]
                         /\ pv2[x] = IF x = b THEN m ELSE pv[x]

LinkedAbove(m, b, u, nx, pv, b2, nx2, pv2) ==
  /\ b2 = IF u = NULL THEN m ELSE b
  /\ \A x \in Messages : /\ nx2[x] = IF x = u THEN m ELSE nx[x]
                         /\ pv2[x] = IF u # NULL /\ x = m THEN u ELSE pv[x]

BottomCut(b, u, nx, pv, u2, pv2) ==
  /\ u2 = IF nx[b] = NULL THEN NULL ELSE u
  /\ \A x \in Messages : pv2[x] = IF x = nx[b] THEN NULL ELSE pv[x]

TopCut(b, u, nx, pv, b2, nx2) ==
  /\ b2 = IF pv[u] = NULL THEN NULL ELSE b
  /\ \A x \in Messages : nx2[x] = IF x = pv[u] THEN NULL ELSE nx[x]

\* push_back: the message becomes the bottom, below what was the bottom.
LEMMA ChainPushBack ==
  ASSUME NEW b, NEW u, NEW nx \in [Messages -> Link], NEW pv \in [Messages -> Link],
         NEW s \in Seq(Messages), NEW m \in Messages,
         Chain(s, b, u, nx, pv), m \notin ToSet(s), nx[m] = NULL, pv[m] = NULL,
         NEW u2, NEW nx2, NEW pv2, LinkedBelow(m, b, u, nx, pv, u2, nx2, pv2)
  PROVE  /\ <<m>> \o s \in Seq(Messages)
         /\ Chain(<<m>> \o s, m, u2, nx2, pv2)
         /\ ToSet(<<m>> \o s) = ToSet(s) \cup {m}
         /\ Len(<<m>> \o s) = Len(s) + 1
<1> DEFINE r == <<m>> \o s
<1>1. Len(s) \in Nat /\ DOMAIN s = 1 .. Len(s) /\ \A i \in 1 .. Len(s) : s[i] \in Messages
  BY LenProperties, ElementOfSeq
<1>0. /\ u2 = IF b = NULL THEN m ELSE u
      /\ \A x \in Messages : /\ nx2[x] = IF b # NULL /\ x = m THEN b ELSE nx[x]
                             /\ pv2[x] = IF x = b THEN m ELSE pv[x]
  BY DEF LinkedBelow
<1>2. /\ r \in Seq(Messages) /\ Len(r) = Len(s) + 1
      /\ DOMAIN r = 1 .. Len(s) + 1
      /\ r[1] = m /\ \A i \in 2 .. Len(s) + 1 : r[i] = s[i - 1]
  <2>1. <<m>> \in Seq(Messages) /\ Len(<<m>>) = 1 /\ <<m>>[1] = m
    OBVIOUS
  <2>2. /\ r \in Seq(Messages) /\ Len(r) = Len(s) + 1
        /\ \A i \in 1 .. 1 + Len(s) : r[i] = IF i <= 1 THEN <<m>>[i] ELSE s[i - 1]
    BY <2>1, ConcatProperties
  <2> QED
    BY <1>1, <2>1, <2>2, LenProperties
<1> HIDE DEF r
<1>3. \A i \in 1 .. Len(s) : r[i + 1] = s[i] /\ s[i] # m
  BY <1>1, <1>2 DEF ToSet
<1>4. ToSet(r) = ToSet(s) \cup {m}
  <2>1. \A i \in 1 .. Len(s) + 1 : r[i] \in ToSet(s) \cup {m}
    <3>1. \A i \in 2 .. Len(s) + 1 : i - 1 \in DOMAIN s /\ r[i] = s[i - 1]
      BY <1>1, <1>2
    <3>2. \A i \in 2 .. Len(s) + 1 : r[i] \in ToSet(s)
      BY <3>1 DEF ToSet
    <3> QED BY <1>1, <1>2, <3>2
  <2>2. m \in ToSet(r)
    BY <1>1, <1>2 DEF ToSet
  <2>3. \A x \in ToSet(s) : x \in ToSet(r)
    <3>1. \A i \in 1 .. Len(s) : i + 1 \in DOMAIN r /\ r[i + 1] = s[i]
      BY <1>1, <1>2, <1>3
    <3> QED BY <1>1, <3>1 DEF ToSet
  <2>4. ToSet(r) \subseteq ToSet(s) \cup {m}
    BY <1>2, <2>1 DEF ToSet
  <2> QED BY <2>2, <2>3, <2>4
<1>5. Chain(r, m, u2, nx2, pv2)
  <2>1. \A i, j \in 1 .. Len(r) : r[i] = r[j] => i = j
    <3> SUFFICES ASSUME NEW i \in 1 .. Len(r), NEW j \in 1 .. Len(r), r[i] = r[j]
                 PROVE  i = j
      OBVIOUS
    <3>1. CASE i = 1 \/ j = 1
      BY <1>1, <1>2, <1>3, <3>1 DEF ToSet
    <3>2. CASE i # 1 /\ j # 1
      <4>1. i - 1 \in 1 .. Len(s) /\ j - 1 \in 1 .. Len(s) /\ s[i - 1] = s[j - 1]
        BY <1>1, <1>2, <3>2
      <4> QED BY <1>1, <4>1 DEF Chain
    <3> QED BY <3>1, <3>2
  <2>2. CASE b = NULL
    <3>1. Len(s) = 0
      BY <1>1, <2>2, NullAssumption DEF Chain
    <3> QED BY <1>0, <1>1, <1>2, <2>1, <2>2, <3>1 DEF Chain
  <2>3. CASE b # NULL
    <3>1. Len(s) > 0 /\ b = s[1] /\ b \in Messages /\ b # m /\ pv2[b] = m /\ nx2[m] = b
      BY <1>0, <1>1, <1>3, <2>3 DEF Chain
    <3>2. \A i \in 1 .. Len(s) : nx2[s[i]] = nx[s[i]]
      BY <1>0, <1>1, <1>3, <2>3, <3>1
    <3>3. \A i \in 2 .. Len(s) : pv2[s[i]] = pv[s[i]]
      <4>1. \A i \in 2 .. Len(s) : s[i] # b
        BY <1>1, <3>1 DEF Chain
      <4> QED BY <1>0, <1>1, <2>3, <4>1
    <3>4. pv2[m] = NULL
      BY <1>0, <2>3, <3>1
    <3>5. nx2[r[Len(r)]] = NULL /\ u2 = r[Len(r)]
      BY <1>0, <1>1, <1>2, <2>3, <3>1, <3>2 DEF Chain
    <3>6. ASSUME NEW i \in 1 .. Len(r) - 1
          PROVE  nx2[r[i]] = r[i + 1] /\ pv2[r[i + 1]] = r[i]
      <4>1. CASE i = 1
        BY <1>1, <1>2, <1>3, <3>1, <4>1
      <4>2. CASE i # 1
        <5>1. i - 1 \in 1 .. Len(s) - 1 /\ i \in 2 .. Len(s) /\ r[i] = s[i - 1] /\ r[i + 1] = s[i]
          BY <1>1, <1>2, <1>3, <4>2
        <5>2. nx[s[i - 1]] = s[i] /\ pv[s[i]] = s[i - 1]
          BY <1>1, <5>1 DEF Chain
        <5> QED BY <1>1, <3>2, <3>3, <5>1, <5>2
      <4> QED BY <4>1, <4>2
    <3> QED BY <1>1, <1>2, <2>1, <3>4, <3>5, <3>6 DEF Chain
  <2> QED BY <2>2, <2>3
<1> QED
  BY <1>2, <1>4, <1>5 DEF r

\* push_front: the message becomes the top, above what was the top.
LEMMA ChainPushFront ==
  ASSUME NEW b, NEW u, NEW nx \in [Messages -> Link], NEW pv \in [Messages -> Link],
         NEW s \in Seq(Messages), NEW m \in Messages,
         Chain(s, b, u, nx, pv), m \notin ToSet(s), nx[m] = NULL, pv[m] = NULL,
         NEW b2, NEW nx2, NEW pv2, LinkedAbove(m, b, u, nx, pv, b2, nx2, pv2)
  PROVE  /\ Append(s, m) \in Seq(Messages)
         /\ Chain(Append(s, m), b2, m, nx2, pv2)
         /\ ToSet(Append(s, m)) = ToSet(s) \cup {m}
         /\ Len(Append(s, m)) = Len(s) + 1
<1> DEFINE r == Append(s, m)
           n == Len(s)
<1>1. n \in Nat /\ DOMAIN s = 1 .. n /\ \A i \in 1 .. n : s[i] \in Messages
  BY LenProperties, ElementOfSeq
<1>0. /\ b2 = IF u = NULL THEN m ELSE b
      /\ \A x \in Messages : /\ nx2[x] = IF x = u THEN m ELSE nx[x]
                             /\ pv2[x] = IF u # NULL /\ x = m THEN u ELSE pv[x]
  BY DEF LinkedAbove
<1>2. /\ r \in Seq(Messages) /\ Len(r) = n + 1 /\ DOMAIN r = 1 .. n + 1
      /\ r[n + 1] = m /\ \A i \in 1 .. n : r[i] = s[i]
  BY AppendProperties, LenProperties
<1> HIDE DEF r
<1>3. \A i \in 1 .. n : s[i] # m
  BY <1>1 DEF ToSet
<1>4. ToSet(r) = ToSet(s) \cup {m}
  BY <1>1, <1>2 DEF ToSet
<1>5. Chain(r, b2, m, nx2, pv2)
  <2>1. \A i, j \in 1 .. Len(r) : r[i] = r[j] => i = j
    BY <1>1, <1>2, <1>3 DEF Chain
  <2>2. CASE u = NULL
    <3>1. n = 0
      BY <1>1, <2>2, NullAssumption DEF Chain
    <3> QED BY <1>0, <1>1, <1>2, <2>1, <2>2, <3>1 DEF Chain
  <2>3. CASE u # NULL
    <3>1. n > 0 /\ u = s[n] /\ u \in Messages /\ u # m /\ nx2[u] = m /\ pv2[m] = u
      BY <1>0, <1>1, <1>3, <2>3 DEF Chain
    <3>2. \A i \in 1 .. n : pv2[s[i]] = pv[s[i]]
      BY <1>0, <1>1, <1>3, <2>3, <3>1
    <3>3. \A i \in 1 .. n - 1 : nx2[s[i]] = nx[s[i]]
      <4>1. \A i \in 1 .. n - 1 : s[i] # u
        BY <1>1, <3>1 DEF Chain
      <4> QED BY <1>0, <1>1, <2>3, <4>1
    <3>4. nx2[m] = NULL
      BY <1>0, <2>3, <3>1
    <3>5. pv2[r[1]] = NULL /\ b2 = r[1]
      BY <1>0, <1>1, <1>2, <2>3, <3>1, <3>2 DEF Chain
    <3>6. ASSUME NEW i \in 1 .. Len(r) - 1
          PROVE  nx2[r[i]] = r[i + 1] /\ pv2[r[i + 1]] = r[i]
      <4>1. CASE i = n
        BY <1>1, <1>2, <1>3, <3>1, <4>1
      <4>2. CASE i # n
        <5>1. i \in 1 .. n - 1 /\ r[i] = s[i] /\ r[i + 1] = s[i + 1] /\ i + 1 \in 1 .. n
          BY <1>1, <1>2, <4>2
        <5>2. nx[s[i]] = s[i + 1] /\ pv[s[i + 1]] = s[i]
          BY <5>1 DEF Chain
        <5> QED BY <3>2, <3>3, <5>1, <5>2
      <4> QED BY <4>1, <4>2
    <3> QED BY <1>1, <1>2, <2>1, <3>4, <3>5, <3>6 DEF Chain
  <2> QED BY <2>2, <2>3
<1> QED
  BY <1>2, <1>4, <1>5 DEF r

\* pop_back: the bottom leaves, and what was above it is the bottom.
LEMMA ChainPopBack ==
  ASSUME NEW b \in Messages, NEW u, NEW nx \in [Messages -> Link], NEW pv \in [Messages -> Link],
         NEW s \in Seq(Messages), Chain(s, b, u, nx, pv),
         NEW u2, NEW pv2, BottomCut(b, u, nx, pv, u2, pv2)
  PROVE  /\ s # <<>> /\ Head(s) = b
         /\ Tail(s) \in Seq(Messages)
         /\ Chain(Tail(s), nx[b], u2, nx, pv2)
         /\ ToSet(Tail(s)) = ToSet(s) \ {b} /\ b \in ToSet(s)
         /\ Len(Tail(s)) = Len(s) - 1
<1> DEFINE r == Tail(s)
           n == Len(s)
<1>1. n \in Nat /\ DOMAIN s = 1 .. n /\ \A i \in 1 .. n : s[i] \in Messages
  BY LenProperties, ElementOfSeq
<1>0. /\ u2 = IF nx[b] = NULL THEN NULL ELSE u
      /\ \A x \in Messages : pv2[x] = IF x = nx[b] THEN NULL ELSE pv[x]
  BY DEF BottomCut
<1>2. n > 0 /\ s # <<>> /\ b = s[1] /\ Head(s) = b
  BY <1>1, NullAssumption DEF Chain
<1>3. /\ r \in Seq(Messages) /\ Len(r) = n - 1 /\ DOMAIN r = 1 .. n - 1
      /\ \A i \in 1 .. n - 1 : r[i] = s[i + 1]
  BY <1>2, HeadTailProperties, LenProperties
<1> HIDE DEF r
<1>4. \A i \in 1 .. n - 1 : r[i] # b
  BY <1>1, <1>2, <1>3 DEF Chain
<1>5. ToSet(r) = ToSet(s) \ {b} /\ b \in ToSet(s)
  <2>1. \A x \in ToSet(r) : x \in ToSet(s) \ {b}
    <3>1. \A i \in 1 .. n - 1 : i + 1 \in 1 .. n
      BY <1>1
    <3> QED BY <1>1, <1>3, <1>4, <3>1 DEF ToSet
  <2>2. \A x \in ToSet(s) \ {b} : x \in ToSet(r)
    <3> SUFFICES ASSUME NEW i \in 1 .. n, s[i] # b PROVE s[i] \in ToSet(r)
      BY <1>1 DEF ToSet
    <3>1. i - 1 \in 1 .. n - 1 /\ r[i - 1] = s[i]
      BY <1>1, <1>2, <1>3
    <3> QED BY <1>3, <3>1 DEF ToSet
  <2>3. b \in ToSet(s)
    BY <1>1, <1>2 DEF ToSet
  <2> QED BY <2>1, <2>2, <2>3
<1>6. Chain(r, nx[b], u2, nx, pv2)
  <2>1. \A i, j \in 1 .. Len(r) : r[i] = r[j] => i = j
    <3> SUFFICES ASSUME NEW i \in 1 .. n - 1, NEW j \in 1 .. n - 1, r[i] = r[j] PROVE i = j
      BY <1>3
    <3>1. i + 1 \in 1 .. n /\ j + 1 \in 1 .. n /\ s[i + 1] = s[j + 1]
      BY <1>1, <1>3
    <3> QED BY <1>1, <3>1 DEF Chain
  <2>2. CASE n = 1
    BY <1>0, <1>1, <1>2, <1>3, <2>1, <2>2 DEF Chain
  <2>3. CASE n # 1
    <3>1. nx[b] = s[2] /\ nx[b] \in Messages /\ nx[b] # NULL
      <4>1. 1 \in 1 .. n - 1 /\ 2 \in 1 .. n
        BY <1>1, <1>2, <2>3
      <4>2. nx[s[1]] = s[1 + 1]
        BY <4>1 DEF Chain
      <4> QED BY <1>1, <1>2, <4>1, <4>2, NullAssumption
    <3>2. pv2[s[2]] = NULL /\ \A i \in 3 .. n : pv2[s[i]] = pv[s[i]]
      <4>1. \A i \in 3 .. n : s[i] # s[2]
        BY <1>1, <1>2, <2>3 DEF Chain
      <4> QED BY <1>0, <1>1, <3>1, <4>1
    <3>3. r[1] = s[2] /\ r[Len(r)] = s[n] /\ Len(r) > 0
      BY <1>1, <1>2, <1>3, <2>3
    <3>4. nx[s[n]] = NULL /\ u = s[n] /\ u2 = u
      BY <1>0, <1>1, <1>2, <3>1 DEF Chain
    <3>5. ASSUME NEW i \in 1 .. Len(r) - 1
          PROVE  nx[r[i]] = r[i + 1] /\ pv2[r[i + 1]] = r[i]
      <4>1. /\ i + 1 \in 1 .. n - 1 /\ (i + 1) + 1 \in 3 .. n
            /\ r[i] = s[i + 1] /\ r[i + 1] = s[(i + 1) + 1]
        BY <1>1, <1>3
      <4>2. nx[s[i + 1]] = s[(i + 1) + 1] /\ pv[s[(i + 1) + 1]] = s[i + 1]
        BY <1>1, <4>1 DEF Chain
      <4> QED BY <3>2, <4>1, <4>2
    <3> QED BY <1>1, <1>3, <2>1, <3>1, <3>2, <3>3, <3>4, <3>5 DEF Chain
  <2> QED BY <2>2, <2>3
<1> QED
  BY <1>2, <1>3, <1>5, <1>6 DEF r

\* pop_front: the top leaves, and what was below it is the top.
LEMMA ChainPopFront ==
  ASSUME NEW b, NEW u \in Messages, NEW nx \in [Messages -> Link], NEW pv \in [Messages -> Link],
         NEW s \in Seq(Messages), Chain(s, b, u, nx, pv),
         NEW b2, NEW nx2, TopCut(b, u, nx, pv, b2, nx2)
  PROVE  /\ s # <<>> /\ Last(s) = u
         /\ Front(s) \in Seq(Messages)
         /\ Chain(Front(s), b2, pv[u], nx2, pv)
         /\ ToSet(Front(s)) = ToSet(s) \ {u} /\ u \in ToSet(s)
         /\ Len(Front(s)) = Len(s) - 1
<1> DEFINE r == Front(s)
           n == Len(s)
<1>1. n \in Nat /\ DOMAIN s = 1 .. n /\ \A i \in 1 .. n : s[i] \in Messages
  BY LenProperties, ElementOfSeq
<1>0. /\ b2 = IF pv[u] = NULL THEN NULL ELSE b
      /\ \A x \in Messages : nx2[x] = IF x = pv[u] THEN NULL ELSE nx[x]
  BY DEF TopCut
<1>2. n > 0 /\ s # <<>> /\ u = s[n] /\ Last(s) = u
  BY <1>1, NullAssumption DEF Chain, Last
<1>3. /\ r \in Seq(Messages) /\ Len(r) = n - 1 /\ DOMAIN r = 1 .. n - 1
      /\ \A i \in 1 .. n - 1 : r[i] = s[i]
  <2>1. /\ SubSeq(s, 1, n - 1) \in Seq(Messages)
        /\ Len(SubSeq(s, 1, n - 1)) = IF 1 <= n - 1 THEN (n - 1) - 1 + 1 ELSE 0
        /\ \A i \in 1 .. (n - 1) - 1 + 1 : SubSeq(s, 1, n - 1)[i] = s[1 + i - 1]
    <3>1. 1 \in Int /\ n - 1 \in Int /\ \A i \in 1 .. n - 1 : s[i] \in Messages
      BY <1>1
    <3> QED BY <3>1, SubSeqProperties
  <2>2. r = SubSeq(s, 1, n - 1)
    BY DEF Front
  <2> HIDE DEF r
  <2>3. r \in Seq(Messages) /\ Len(r) = n - 1
    BY <1>1, <1>2, <2>1, <2>2
  <2> QED BY <1>1, <2>1, <2>2, <2>3, LenProperties
<1> HIDE DEF r
<1>4. \A i \in 1 .. n - 1 : r[i] # u
  BY <1>1, <1>2, <1>3 DEF Chain
<1>5. ToSet(r) = ToSet(s) \ {u} /\ u \in ToSet(s)
  BY <1>1, <1>2, <1>3, <1>4 DEF ToSet
<1>6. Chain(r, b2, pv[u], nx2, pv)
  <2>1. \A i, j \in 1 .. Len(r) : r[i] = r[j] => i = j
    BY <1>1, <1>3 DEF Chain
  <2>2. CASE n = 1
    BY <1>0, <1>1, <1>2, <1>3, <2>1, <2>2 DEF Chain
  <2>3. CASE n # 1
    <3>1. pv[u] = s[n - 1] /\ pv[u] \in Messages /\ pv[u] # NULL
      <4>1. n - 1 \in 1 .. n - 1 /\ n - 1 \in 1 .. n /\ (n - 1) + 1 = n
        BY <1>1, <1>2, <2>3
      <4>2. pv[s[(n - 1) + 1]] = s[n - 1]
        BY <4>1 DEF Chain
      <4> QED BY <1>1, <1>2, <4>1, <4>2, NullAssumption
    <3>2. nx2[s[n - 1]] = NULL /\ \A i \in 1 .. n - 2 : nx2[s[i]] = nx[s[i]]
      <4>1. \A i \in 1 .. n - 2 : s[i] # s[n - 1]
        BY <1>1, <1>2, <2>3 DEF Chain
      <4> QED BY <1>0, <1>1, <3>1, <4>1
    <3>3. r[1] = s[1] /\ r[Len(r)] = s[n - 1] /\ Len(r) > 0
      BY <1>1, <1>2, <1>3, <2>3
    <3>4. pv[s[1]] = NULL /\ b = s[1] /\ b2 = b
      BY <1>0, <1>1, <1>2, <3>1 DEF Chain
    <3>5. ASSUME NEW i \in 1 .. Len(r) - 1
          PROVE  nx2[r[i]] = r[i + 1] /\ pv[r[i + 1]] = r[i]
      <4>1. /\ i \in 1 .. n - 1 /\ i \in 1 .. n - 2
            /\ r[i] = s[i] /\ r[i + 1] = s[i + 1]
        BY <1>1, <1>3
      <4>2. nx[s[i]] = s[i + 1] /\ pv[s[i + 1]] = s[i]
        BY <1>1, <4>1 DEF Chain
      <4> QED BY <3>2, <4>1, <4>2
    <3> QED BY <1>1, <1>3, <2>1, <3>1, <3>2, <3>3, <3>4, <3>5 DEF Chain
  <2> QED BY <2>2, <2>3
<1> QED
  BY <1>2, <1>3, <1>5, <1>6 DEF r

LEMMA ChainEnds ==
  ASSUME NEW b, NEW u, NEW nx, NEW pv, NEW s \in Seq(Messages), Chain(s, b, u, nx, pv)
  PROVE  /\ b = NULL <=> s = <<>>
         /\ u = NULL <=> s = <<>>
         /\ b # NULL => b \in ToSet(s) /\ (nx[b] # NULL => nx[b] \in ToSet(s))
         /\ u # NULL => u \in ToSet(s) /\ (pv[u] # NULL => pv[u] \in ToSet(s))
<1>1. Len(s) \in Nat /\ DOMAIN s = 1 .. Len(s) /\ (s = <<>> <=> Len(s) = 0)
  BY EmptySeq, LenProperties
<1>2. \A i \in 1 .. Len(s) : s[i] \in Messages /\ s[i] # NULL /\ s[i] \in ToSet(s)
  BY <1>1, ElementOfSeq, NullAssumption DEF ToSet
<1>3. CASE Len(s) = 0
  BY <1>1, <1>3 DEF Chain
<1>4. CASE Len(s) = 1
  BY <1>1, <1>2, <1>4 DEF Chain
<1>5. CASE Len(s) > 1
  <2>1. b = s[1] /\ u = s[Len(s)]
    BY <1>1, <1>5 DEF Chain
  <2>2. 1 \in 1 .. Len(s) - 1 /\ Len(s) - 1 \in 1 .. Len(s) - 1
    BY <1>1, <1>5
  <2>3. nx[b] = s[1 + 1] /\ pv[s[(Len(s) - 1) + 1]] = s[Len(s) - 1]
    BY <1>1, <1>5, <2>1, <2>2 DEF Chain
  <2>4. (Len(s) - 1) + 1 = Len(s) /\ 1 \in 1 .. Len(s) /\ 1 + 1 \in 1 .. Len(s)
        /\ Len(s) \in 1 .. Len(s) /\ Len(s) - 1 \in 1 .. Len(s)
    BY <1>1, <1>5
  <2> QED BY <1>1, <1>2, <1>5, <2>1, <2>3, <2>4
<1> QED BY <1>1, <1>3, <1>4, <1>5

--------------------------------------------------------------------------------
\* What makes WellLinked inductive.  A message has one owner or is in the
\* list; a push works on a message of its thread whose links are clear; a pop
\* that has unlinked its message owns it, so that clearing its links after
\* spin_unlock touches nobody's list; nMsg is behind by the one message of the
\* thread between its change of the links and that of nMsg.
HeldApart == \A t, u \in Threads : t # u => held[t] \cap held[u] = {}

PushOwns == \A t \in Threads :
  pc[t] \in {"acquire", "body"} /\ op[t] \in Pushes =>
    new_msg[t] \in held[t] /\ next[new_msg[t]] = NULL /\ prev[new_msg[t]] = NULL

PopOwns == \A t \in Threads :
  pc[t] \in {"count", "unlock", "clear"} /\ op[t] \in Pops /\ msg[t] # NULL =>
    msg[t] \in held[t]

Placed(s) == \A m \in Messages : m \in ToSet(s) <=> \A t \in Threads : m \notin held[t]

Counted(s) ==
  /\ (\A t \in Threads : pc[t] # "count") => nMsg = Len(s)
  /\ \A t \in Threads : pc[t] = "count" =>
       nMsg = IF op[t] \in Pushes THEN Len(s) - 1 ELSE Len(s) + 1

ListInv ==
  /\ HeldApart /\ PushOwns /\ PopOwns
  /\ \E s \in Seq(Messages) : IsList(s) /\ Placed(s) /\ Counted(s)

LEMMA ListInit == Init => ListInv /\ DEQUE!Init
<1> SUFFICES ASSUME Init PROVE ListInv /\ DEQUE!Init
  OBVIOUS
<1>1. <<>> \in Seq(Messages) /\ Len(<<>>) = 0 /\ ToSet(<<>>) = {}
  BY DEF ToSet
<1>2. IsList(<<>>)
  BY <1>1 DEF IsList, Init
<1>3. Items = <<>>
  BY <1>1, <1>2, ItemsIs
<1>4. Placed(<<>>) /\ Counted(<<>>)
  BY <1>1 DEF Placed, Counted, Init
<1>5. HeldApart /\ PushOwns /\ PopOwns
  BY DEF Init, HeldApart, PushOwns, PopOwns
<1>6. Pending = [t \in Threads |-> "none"]
  BY DEF Init, Pending
<1> QED
  BY <1>1, <1>2, <1>3, <1>4, <1>5, <1>6 DEF ListInv, DEQUE!Init, Init

\* A call is pending from its start to its change of the list.
LEMMA PendingAfter ==
  ASSUME TypeOK, NEW t \in Threads, NEW place, pc' = [pc EXCEPT ![t] = place],
         \A u \in Threads : u # t => op'[u] = op[u]
  PROVE  Pending' = [Pending EXCEPT ![t] = IF place \in {"acquire", "body"} THEN op'[t] ELSE "none"]
<1> DEFINE now == IF place \in {"acquire", "body"} THEN op'[t] ELSE "none"
<1>1. \A u \in Threads : pc'[u] = IF u = t THEN place ELSE pc[u]
  BY DEF TypeOK
<1>2. \A u \in Threads : (IF pc'[u] \in {"acquire", "body"} THEN op'[u] ELSE "none")
                        = IF u = t THEN now ELSE Pending[u]
  BY <1>1 DEF Pending
<1>3. [u \in Threads |-> IF pc'[u] \in {"acquire", "body"} THEN op'[u] ELSE "none"]
        = [u \in Threads |-> IF u = t THEN now ELSE Pending[u]]
  BY <1>2
<1>4. Pending' = [u \in Threads |-> IF u = t THEN now ELSE Pending[u]]
  BY <1>3 DEF Pending
<1>5. [Pending EXCEPT ![t] = now] = [u \in Threads |-> IF u = t THEN now ELSE Pending[u]]
  BY DEF Pending
<1> QED
  BY <1>4, <1>5

LEMMA SamePending ==
  ASSUME TypeOK, NEW t \in Threads, NEW place, pc' = [pc EXCEPT ![t] = place], op' = op,
         (IF place \in {"acquire", "body"} THEN op[t] ELSE "none") = Pending[t]
  PROVE  Pending' = Pending
<1>1. Pending' = [Pending EXCEPT ![t] = Pending[t]]
  BY PendingAfter
<1> QED
  BY <1>1 DEF Pending

\* One step of one thread keeps the invariant and is a step of the abstract
\* deque or none: the change of the links is where a push or pop happens.
LEMMA ListStep ==
  ASSUME TypeOK, MutualExclusion, ListInv, [Next]_vars
  PROVE  ListInv' /\ [DEQUE!Next]_(DEQUE!vars)
<1> USE NullAssumption
<1> PICK s \in Seq(Messages) : IsList(s) /\ Placed(s) /\ Counted(s)
  BY DEF ListInv
<1>s. Items = s /\ Chain(s, bottom, top, next, prev)
  BY ItemsIs, ChainIsList
<1>l. Len(s) \in Nat /\ ToSet(s) \subseteq Messages
  BY LenProperties, ElementOfSeq DEF ToSet
<1>h. \A m \in ToSet(s), t \in Threads : m \notin held[t]
  BY <1>l DEF Placed
<1>o. HeldApart /\ PushOwns /\ PopOwns
  BY DEF ListInv
<1>c. \A t, u \in Threads : pc[t] \in {"body", "count"} /\ pc[u] = "count" => t = u
  BY DEF MutualExclusion, InCritical
\* Steps that leave the list alone, and steps that leave a new one.
<1>q. ASSUME bottom' = bottom, top' = top, held' = held,
             \A m \in ToSet(s) : next'[m] = next[m] /\ prev'[m] = prev[m]
      PROVE  IsList(s)' /\ Placed(s)' /\ HeldApart' /\ Items' = Items
  <2>1. IsList(s)'
    BY <1>q, <1>s, ChainFrame, ChainIsList
  <2>2. Items' = Items
    BY <2>1, <1>s, ItemsIs
  <2>3. Placed(s)' /\ HeldApart'
    BY <1>q, <1>o DEF Placed, HeldApart
  <2> QED BY <2>1, <2>2, <2>3
<1>n. ASSUME NEW r \in Seq(Messages), Chain(r, bottom', top', next', prev')
      PROVE  IsList(r)' /\ Items' = r
  BY <1>n, ChainIsList, ItemsIs
<1>1. CASE UNCHANGED vars
  <2>1. IsList(s)' /\ Placed(s)' /\ HeldApart' /\ Items' = Items
    BY <1>1, <1>q DEF vars, queue
  <2>2. Counted(s)' /\ PushOwns' /\ PopOwns'
    BY <1>1, <1>o DEF vars, queue, local, Counted, PushOwns, PopOwns
  <2>3. Pending' = Pending
    BY <1>1 DEF vars, local, Pending
  <2> QED BY <1>1, <1>o, <2>1, <2>2, <2>3 DEF ListInv, vars, local, DEQUE!vars
<1>2. ASSUME NEW t \in Threads, NEW o \in Pushes, NEW m \in Messages, StartPush(t, o, m)
      PROVE  ListInv' /\ [DEQUE!Next]_(DEQUE!vars)
  <2>1. IsList(s)' /\ Placed(s)' /\ HeldApart' /\ Items' = Items
    BY <1>2, <1>q, <1>l, <1>h DEF StartPush, TypeOK
  <2>2. Counted(s)'
    BY <1>2 DEF StartPush, Goto, TypeOK, Counted
  <2>3. ASSUME NEW u \in Threads, pc'[u] \in {"acquire", "body"}, op'[u] \in Pushes
        PROVE  new_msg'[u] \in held'[u] /\ next'[new_msg'[u]] = NULL /\ prev'[new_msg'[u]] = NULL
    <3>1. CASE u = t
      BY <1>2, <3>1 DEF StartPush, TypeOK
    <3>2. CASE u # t
      <4>1. /\ pc'[u] = pc[u] /\ op'[u] = op[u] /\ new_msg'[u] = new_msg[u] /\ held' = held
            /\ new_msg[u] \in Messages
        BY <1>2, <2>3, <3>2 DEF StartPush, Goto, TypeOK
      <4>2. new_msg[u] \in held[u] /\ next[new_msg[u]] = NULL /\ prev[new_msg[u]] = NULL
        BY <1>o, <2>3, <4>1 DEF PushOwns
      <4> QED BY <1>2, <4>1, <4>2 DEF StartPush, TypeOK
    <3> QED BY <3>1, <3>2
  <2>4. PopOwns'
    BY <1>2, <1>o DEF StartPush, Goto, TypeOK, PopOwns
  <2>5. DEQUE!Next
    <3>1. Pending' = [Pending EXCEPT ![t] = o] /\ Pending[t] = "none" /\ o \in {"push_back", "push_front"}
      BY <1>2, PendingAfter DEF StartPush, Goto, TypeOK, Pending, Pushes
    <3>2. DEQUE!CallPush(t, o, m)
      BY <1>2, <2>1, <3>1 DEF StartPush, DEQUE!CallPush
    <3> QED BY <3>1, <3>2 DEF DEQUE!Next
  <2> QED BY <2>1, <2>2, <2>3, <2>4, <2>5 DEF ListInv, PushOwns
<1>3. ASSUME NEW t \in Threads, StartPopFront(t) \/ StartPopBack(t)
      PROVE  ListInv' /\ [DEQUE!Next]_(DEQUE!vars)
  <2>1. IsList(s)' /\ Placed(s)' /\ HeldApart' /\ Items' = Items
    BY <1>3, <1>q DEF StartPopFront, StartPopBack, queue
  <2>2. Counted(s)'
    BY <1>3 DEF StartPopFront, StartPopBack, queue, Goto, TypeOK, Counted
  <2>3. PushOwns' /\ PopOwns'
    BY <1>3, <1>o DEF StartPopFront, StartPopBack, queue, Goto, TypeOK, PushOwns, PopOwns, Pushes, Pops
  <2>6. DEQUE!Next
    <3>1. Items = <<>> <=> bottom = NULL
      BY <1>s, ChainEnds
    <3>2. Pending[t] = "none"
      BY <1>3 DEF StartPopFront, StartPopBack, Pending
    <3>3. CASE UNCHANGED <<pc, op>>
      <4>1. Pending' = Pending /\ [Pending EXCEPT ![t] = "none"] = Pending
        BY <3>2, <3>3 DEF Pending
      <4>2. bottom = NULL
        BY <1>3, <3>3 DEF StartPopFront, StartPopBack, Goto, TypeOK
      <4>3. DEQUE!PopNothing(t)
        BY <1>3, <2>1, <3>1, <3>2, <4>1, <4>2, <3>3
           DEF StartPopFront, StartPopBack, Goto, TypeOK, DEQUE!PopNothing, DEQUE!Happened
      <4> QED BY <4>3 DEF DEQUE!Next
    <3>4. ASSUME NEW o \in {"pop_back", "pop_front"}, op' = [op EXCEPT ![t] = o],
                 pc' = [pc EXCEPT ![t] = "acquire"], msg' = [msg EXCEPT ![t] = PENDING]
          PROVE  DEQUE!Next
      <4>1. Pending' = [Pending EXCEPT ![t] = o]
        BY <3>4, PendingAfter DEF TypeOK
      <4>2. DEQUE!CallPop(t, o)
        BY <1>3, <2>1, <3>2, <3>4, <4>1 DEF StartPopFront, StartPopBack, DEQUE!CallPop
      <4> QED BY <4>2 DEF DEQUE!Next
    <3> QED BY <1>3, <3>3, <3>4 DEF StartPopFront, StartPopBack, Goto
  <2> QED BY <2>1, <2>2, <2>3, <2>6 DEF ListInv
<1>4. ASSUME NEW t \in Threads, Acquire(t) \/ Unlock(t)
      PROVE  ListInv' /\ [DEQUE!Next]_(DEQUE!vars)
  <2>1. IsList(s)' /\ Placed(s)' /\ HeldApart' /\ Items' = Items
    BY <1>4, <1>q DEF Acquire, Unlock, queue
  <2>2. Counted(s)'
    BY <1>4 DEF Acquire, Unlock, queue, local, Goto, TypeOK, Counted
  <2>3. PushOwns' /\ PopOwns'
    BY <1>4, <1>o DEF Acquire, Unlock, queue, local, Goto, TypeOK, PushOwns, PopOwns
  <2>4. UNCHANGED DEQUE!vars
    <3>1. Pending' = Pending
      BY <1>4, SamePending DEF Acquire, Unlock, local, Goto, Pending
    <3> QED BY <1>4, <2>1, <3>1 DEF Acquire, Unlock, local, DEQUE!vars
  <2> QED BY <2>1, <2>2, <2>3, <2>4 DEF ListInv
\* With a change of the list, or a look at an empty one, the call has happened.
<1>p. ASSUME NEW t \in Threads, NEW place \in {"count", "unlock"}, pc[t] = "body",
             pc' = [pc EXCEPT ![t] = place], op' = op
      PROVE  Pending[t] = op[t] /\ DEQUE!Happened(t)
  BY <1>p, PendingAfter DEF Pending, DEQUE!Happened
\* What the links and the owners are after a change of the list by t.
<1>b. ASSUME NEW t \in Threads, pc[t] = "body", pc' = [pc EXCEPT ![t] = "count"],
             op' = op, new_msg' = new_msg, \A u \in Threads : u # t => held'[u] = held[u],
             \A u \in Threads : u # t => msg'[u] = msg[u],
             op[t] \in Pops => msg'[t] \in held'[t],
             \A u \in Threads : u # t => \A m \in held[u] :
               next'[m] = next[m] /\ prev'[m] = prev[m]
      PROVE  PushOwns' /\ PopOwns'
  <2>1. PushOwns'
    <3> SUFFICES ASSUME NEW u \in Threads, pc'[u] \in {"acquire", "body"}, op'[u] \in Pushes
                 PROVE  /\ new_msg'[u] \in held'[u]
                        /\ next'[new_msg'[u]] = NULL /\ prev'[new_msg'[u]] = NULL
      BY DEF PushOwns
    <3>1. u # t /\ pc'[u] = pc[u]
      BY <1>b DEF TypeOK
    <3> QED BY <1>b, <1>o, <3>1 DEF PushOwns
  <2>2. PopOwns'
    BY <1>b, <1>o DEF PopOwns, TypeOK
  <2> QED BY <2>1, <2>2
<1>5. ASSUME NEW t \in Threads, PushBack(t) \/ PushFront(t)
      PROVE  ListInv' /\ [DEQUE!Next]_(DEQUE!vars)
  <2> PICK m : m = new_msg[t]
    OBVIOUS
  <2> PICK r : r = IF op[t] = "push_back" THEN <<m>> \o s ELSE Append(s, m)
    OBVIOUS
  <2>1. /\ pc[t] = "body" /\ op[t] \in Pushes /\ m \in Messages
        /\ m \in held[t] /\ next[m] = NULL /\ prev[m] = NULL /\ m \notin ToSet(s)
    BY <1>5, <1>o, <1>h DEF PushBack, PushFront, Pushes, TypeOK, PushOwns
  <2>2. /\ r \in Seq(Messages) /\ Chain(r, bottom', top', next', prev')
        /\ ToSet(r) = ToSet(s) \cup {m} /\ Len(r) = Len(s) + 1
    <3>1. next \in [Messages -> Link] /\ prev \in [Messages -> Link]
      BY DEF TypeOK
    <3>2. CASE PushBack(t)
      <4>1. /\ bottom' = m
            /\ LinkedBelow(m, bottom, top, next, prev, top', next', prev')
        BY <3>1, <3>2 DEF PushBack, LinkedBelow
      <4>2. r = <<m>> \o s
        BY <3>2 DEF PushBack
      <4>3. Chain(<<m>> \o s, m, top', next', prev')
        BY <1>s, <2>1, <3>1, <4>1, ChainPushBack
      <4>4. /\ <<m>> \o s \in Seq(Messages)
            /\ ToSet(<<m>> \o s) = ToSet(s) \cup {m} /\ Len(<<m>> \o s) = Len(s) + 1
        BY <1>s, <2>1, <3>1, <4>1, ChainPushBack
      <4> QED BY <4>1, <4>2, <4>3, <4>4
    <3>3. CASE PushFront(t)
      <4>1. /\ top' = m
            /\ LinkedAbove(m, bottom, top, next, prev, bottom', next', prev')
        BY <3>1, <3>3 DEF PushFront, LinkedAbove
      <4>2. r = Append(s, m)
        BY <3>3 DEF PushFront
      <4>3. Append(s, m) \in Seq(Messages) /\ Chain(Append(s, m), bottom', m, next', prev')
            /\ ToSet(Append(s, m)) = ToSet(s) \cup {m} /\ Len(Append(s, m)) = Len(s) + 1
        BY <1>s, <2>1, <3>1, <4>1, <4>2, ChainPushFront
      <4> QED BY <4>1, <4>2, <4>3
    <3> QED BY <1>5, <3>2, <3>3
  <2>3. /\ held' = [held EXCEPT ![t] = @ \ {m}] /\ pc' = [pc EXCEPT ![t] = "count"]
        /\ UNCHANGED <<nMsg, op, new_msg, msg>>
    BY <1>5 DEF PushBack, PushFront, Goto, local
  <2>4. \A u \in Threads : u # t => \A x \in held[u] : next'[x] = next[x] /\ prev'[x] = prev[x]
    <3> SUFFICES ASSUME NEW u \in Threads, u # t, NEW x \in held[u]
                 PROVE  next'[x] = next[x] /\ prev'[x] = prev[x]
      OBVIOUS
    <3>1. x \in Messages /\ x # m
      BY <1>o, <2>1 DEF HeldApart, TypeOK
    <3>2. x # bottom /\ x # top
      BY <1>s, <1>h, <3>1, ChainEnds
    <3> QED BY <1>5, <3>1, <3>2 DEF PushBack, PushFront, TypeOK
  <2>5. PushOwns' /\ PopOwns'
    <3>1. op[t] \notin Pops
      BY <2>1 DEF Pushes, Pops
    <3>2. \A u \in Threads : u # t => held'[u] = held[u]
      BY <2>3 DEF TypeOK
    <3> QED BY <1>b, <2>1, <2>3, <2>4, <3>1, <3>2
  <2>6. HeldApart' /\ Placed(r)'
    <3>1. \A x \in Messages : (\A u \in Threads : x \notin held'[u]) <=>
                              x = m \/ (\A u \in Threads : x \notin held[u])
      BY <1>o, <2>1, <2>3 DEF HeldApart, TypeOK
    <3>2. HeldApart'
      BY <1>o, <2>3 DEF HeldApart, TypeOK
    <3> QED BY <2>2, <3>1, <3>2 DEF Placed
  <2>7. Counted(r)'
    <3>1. nMsg = Len(s)
      BY <1>c, <2>1 DEF Counted
    <3>2. \A u \in Threads : pc'[u] = "count" <=> u = t
      BY <1>c, <2>1, <2>3 DEF TypeOK
    <3> QED BY <1>l, <2>1, <2>2, <2>3, <3>1, <3>2 DEF Counted
  <2>8. IsList(r)' /\ Items' = r
    <3> QED BY <1>n, <2>2
  <2>9. DEQUE!Next
    <3>1. Pending[t] = op[t] /\ DEQUE!Happened(t)
      BY <1>p, <2>1, <2>3
    <3>2. Items' = IF op[t] = "push_back" THEN <<m>> \o Items ELSE Append(Items, m)
      BY <1>s, <2>8
    <3>3. DEQUE!Push(t)
      BY <2>1, <2>3, <3>1, <3>2 DEF DEQUE!Push, Pushes
    <3> QED BY <3>3 DEF DEQUE!Next
  <2> QED BY <2>2, <2>5, <2>6, <2>7, <2>8, <2>9 DEF ListInv
<1>6. ASSUME NEW t \in Threads, PopFront(t) \/ PopBack(t)
      PROVE  ListInv' /\ [DEQUE!Next]_(DEQUE!vars)
  <2> PICK m : m = IF op[t] = "pop_back" THEN bottom ELSE top
    OBVIOUS
  <2> PICK r : r = IF op[t] = "pop_back" THEN Tail(s) ELSE Front(s)
    OBVIOUS
  <2>1. pc[t] = "body" /\ op[t] \in Pops /\ m \in Messages
    BY <1>6 DEF PopFront, PopBack, Pops, TypeOK, Link
  <2>2. /\ r \in Seq(Messages) /\ Chain(r, bottom', top', next', prev')
        /\ ToSet(r) = ToSet(s) \ {m} /\ m \in ToSet(s) /\ Len(r) = Len(s) - 1 /\ s # <<>>
        /\ \/ op[t] = "pop_back" /\ m = Head(s) /\ r = Tail(s)
           \/ op[t] = "pop_front" /\ m = Last(s) /\ r = Front(s)
    <3>1. next \in [Messages -> Link] /\ prev \in [Messages -> Link]
      BY DEF TypeOK
    <3>2. CASE PopBack(t)
      <4>1. /\ bottom' = next[bottom] /\ next' = next
            /\ BottomCut(bottom, top, next, prev, top', prev')
        BY <3>1, <3>2 DEF PopBack, BottomCut
      <4>2. r = Tail(s) /\ m = bottom /\ op[t] = "pop_back"
        BY <3>2 DEF PopBack
      <4>3. s # <<>> /\ Head(s) = bottom /\ Tail(s) \in Seq(Messages)
            /\ Chain(Tail(s), next[bottom], top', next, prev')
            /\ ToSet(Tail(s)) = ToSet(s) \ {bottom} /\ bottom \in ToSet(s)
            /\ Len(Tail(s)) = Len(s) - 1
        BY <1>s, <2>1, <3>1, <4>1, <4>2, ChainPopBack
      <4> QED BY <4>1, <4>2, <4>3
    <3>3. CASE PopFront(t)
      <4>1. /\ top' = prev[top] /\ prev' = prev
            /\ TopCut(bottom, top, next, prev, bottom', next')
        BY <3>1, <3>3 DEF PopFront, TopCut
      <4>2. r = Front(s) /\ m = top /\ op[t] = "pop_front"
        BY <3>3 DEF PopFront
      <4>3. s # <<>> /\ Last(s) = top /\ Front(s) \in Seq(Messages)
            /\ Chain(Front(s), bottom', prev[top], next', prev)
            /\ ToSet(Front(s)) = ToSet(s) \ {top} /\ top \in ToSet(s)
            /\ Len(Front(s)) = Len(s) - 1
        BY <1>s, <2>1, <3>1, <4>1, <4>2, ChainPopFront
      <4> QED BY <4>1, <4>2, <4>3
    <3> QED BY <1>6, <3>2, <3>3
  <2>3. /\ held' = [held EXCEPT ![t] = @ \cup {m}] /\ msg' = [msg EXCEPT ![t] = m]
        /\ pc' = [pc EXCEPT ![t] = "count"] /\ UNCHANGED <<nMsg, op, new_msg>>
    BY <1>6 DEF PopFront, PopBack, Returned, Goto
  <2>4. \A u \in Threads : u # t => \A x \in held[u] : next'[x] = next[x] /\ prev'[x] = prev[x]
    <3> SUFFICES ASSUME NEW u \in Threads, NEW x \in held[u]
                 PROVE  next'[x] = next[x] /\ prev'[x] = prev[x]
      OBVIOUS
    <3>1. x \in Messages /\ x \notin ToSet(s)
      BY <1>h DEF TypeOK
    <3>2. CASE PopBack(t)
      <4>1. next[bottom] # NULL => next[bottom] \in ToSet(s)
        BY <1>s, <3>2, ChainEnds DEF PopBack
      <4> QED BY <3>1, <3>2, <4>1 DEF PopBack, TypeOK
    <3>3. CASE PopFront(t)
      <4>1. prev[top] # NULL => prev[top] \in ToSet(s)
        BY <1>s, <3>3, ChainEnds DEF PopFront
      <4> QED BY <3>1, <3>3, <4>1 DEF PopFront, TypeOK
    <3> QED BY <1>6, <3>2, <3>3
  <2>5. PushOwns' /\ PopOwns'
    <3>1. \A u \in Threads : u # t => held'[u] = held[u] /\ msg'[u] = msg[u]
      BY <2>3 DEF TypeOK
    <3>2. msg'[t] \in held'[t]
      BY <2>3 DEF TypeOK
    <3> QED BY <1>b, <2>1, <2>3, <2>4, <3>1, <3>2
  <2>6. HeldApart' /\ Placed(r)'
    <3>1. \A x \in Messages : (\A u \in Threads : x \notin held'[u]) <=>
                              x # m /\ (\A u \in Threads : x \notin held[u])
      BY <2>3 DEF TypeOK
    <3>2. HeldApart'
      BY <1>o, <1>h, <2>2, <2>3 DEF HeldApart, TypeOK
    <3> QED BY <2>2, <3>1, <3>2 DEF Placed
  <2>7. Counted(r)'
    <3>1. nMsg = Len(s)
      BY <1>c, <2>1 DEF Counted
    <3>2. \A u \in Threads : pc'[u] = "count" <=> u = t
      BY <1>c, <2>1, <2>3 DEF TypeOK
    <3>3. op[t] \notin Pushes
      BY <2>1 DEF Pushes, Pops
    <3> QED BY <1>l, <2>1, <2>2, <2>3, <3>1, <3>2, <3>3 DEF Counted
  <2>8. IsList(r)' /\ Items' = r
    BY <1>n, <2>2
  <2>9. DEQUE!Next
    <3>1. Pending[t] = op[t] /\ DEQUE!Happened(t)
      BY <1>p, <2>1, <2>3
    <3>2. DEQUE!Pop(t)
      BY <1>s, <2>2, <2>3, <2>8, <3>1 DEF DEQUE!Pop, DEQUE!Take, DEQUE!Last, DEQUE!Front, Last, Front
    <3> QED BY <3>2 DEF DEQUE!Next
  <2> QED BY <2>2, <2>5, <2>6, <2>7, <2>8, <2>9 DEF ListInv
<1>7. ASSUME NEW t \in Threads, PopFrontEmpty(t)
      PROVE  ListInv' /\ [DEQUE!Next]_(DEQUE!vars)
  <2>1. IsList(s)' /\ Placed(s)' /\ HeldApart' /\ Items' = Items
    BY <1>7, <1>q DEF PopFrontEmpty, queue
  <2>2. Counted(s)'
    BY <1>7 DEF PopFrontEmpty, queue, Goto, TypeOK, Counted
  <2>3. PushOwns' /\ PopOwns'
    BY <1>7, <1>o DEF PopFrontEmpty, queue, Goto, TypeOK, PushOwns, PopOwns
  <2>4. Items = <<>>
    BY <1>7, <1>s, ChainEnds DEF PopFrontEmpty
  <2>5. DEQUE!Next
    <3>1. Pending[t] = "pop_front" /\ DEQUE!Happened(t)
      BY <1>7, <1>p DEF PopFrontEmpty, Goto
    <3>2. DEQUE!PopNothing(t)
      BY <1>7, <2>1, <2>4, <3>1 DEF PopFrontEmpty, DEQUE!PopNothing
    <3> QED BY <3>2 DEF DEQUE!Next
  <2> QED BY <2>1, <2>2, <2>3, <2>5 DEF ListInv
<1>8. ASSUME NEW t \in Threads, Crash(t)
      PROVE  ListInv' /\ [DEQUE!Next]_(DEQUE!vars)
  <2>1. IsList(s)' /\ Placed(s)' /\ HeldApart' /\ Items' = Items
    BY <1>8, <1>q DEF Crash, queue
  <2>2. Counted(s)'
    BY <1>8, <1>c DEF Crash, NullDeref, queue, Counted
  <2>3. PushOwns' /\ PopOwns'
    BY <1>8 DEF Crash, PushOwns, PopOwns
  <2>4. DEQUE!Next
    <3>1. Pending' = [u \in Threads |-> "none"]
      BY <1>8 DEF Crash, Pending
    <3> QED BY <1>8, <2>1, <3>1 DEF Crash, local, DEQUE!Next, DEQUE!Die
  <2> QED BY <2>1, <2>2, <2>3, <2>4 DEF ListInv
<1>9. ASSUME NEW t \in Threads, Count(t)
      PROVE  ListInv' /\ [DEQUE!Next]_(DEQUE!vars)
  <2>1. IsList(s)' /\ Placed(s)' /\ HeldApart' /\ Items' = Items
    BY <1>9, <1>q DEF Count
  <2>2. Counted(s)'
    <3>1. \A u \in Threads : pc'[u] # "count"
      BY <1>9, <1>c DEF Count, Goto, TypeOK
    <3> QED BY <1>9, <1>l, <3>1 DEF Count, Counted
  <2>3. PushOwns' /\ PopOwns'
    BY <1>9, <1>o DEF Count, local, Goto, TypeOK, PushOwns, PopOwns
  <2>4. UNCHANGED DEQUE!vars
    <3>1. Pending' = Pending
      BY <1>9, SamePending DEF Count, local, Goto, Pending
    <3> QED BY <1>9, <2>1, <3>1 DEF Count, local, DEQUE!vars
  <2> QED BY <2>1, <2>2, <2>3, <2>4 DEF ListInv
<1>10. ASSUME NEW t \in Threads, Clear(t)
       PROVE  ListInv' /\ [DEQUE!Next]_(DEQUE!vars)
  <2>1. msg[t] \in held[t] /\ msg[t] \in Messages /\ msg[t] \notin ToSet(s)
    BY <1>10, <1>o, <1>h DEF Clear, PopOwns, TypeOK
  <2>2. IsList(s)' /\ Placed(s)' /\ HeldApart' /\ Items' = Items
    BY <1>10, <1>q, <1>l, <2>1 DEF Clear, TypeOK
  <2>3. Counted(s)'
    BY <1>10 DEF Clear, local, Goto, TypeOK, Counted
  <2>4. PushOwns'
    <3> SUFFICES ASSUME NEW u \in Threads, pc'[u] \in {"acquire", "body"}, op[u] \in Pushes
                 PROVE  /\ new_msg[u] \in held[u]
                        /\ next'[new_msg[u]] = NULL /\ prev'[new_msg[u]] = NULL
      BY <1>10 DEF Clear, local, PushOwns
    <3>1. u # t /\ pc'[u] = pc[u] /\ new_msg[u] \in Messages
      BY <1>10 DEF Clear, Goto, TypeOK
    <3>2. new_msg[u] \in held[u] /\ next[new_msg[u]] = NULL /\ prev[new_msg[u]] = NULL
      BY <1>o, <3>1 DEF PushOwns
    <3> QED BY <1>10, <3>1, <3>2 DEF Clear, TypeOK
  <2>5. PopOwns'
    BY <1>10, <1>o DEF Clear, local, Goto, TypeOK, PopOwns
  <2>6. UNCHANGED DEQUE!vars
    <3>1. Pending' = Pending
      BY <1>10, SamePending DEF Clear, local, Goto, Pending
    <3> QED BY <1>10, <2>2, <3>1 DEF Clear, local, DEQUE!vars
  <2> QED BY <2>2, <2>3, <2>4, <2>5, <2>6 DEF ListInv
<1> QED
  BY <1>1, <1>2, <1>3, <1>4, <1>5, <1>6, <1>7, <1>8, <1>9, <1>10 DEF Next, Start, Run

LEMMA ListAlways == Spec => [](ListInv /\ TypeOK)
<1>1. TypeOK /\ MutualExclusion /\ ListInv /\ [Next]_vars => ListInv'
  BY ListStep
<1> QED
  BY <1>1, ListInit, QueueTypeCorrect, QueueMutualExclusion, PTL DEF Spec

\* Whatever the pushes and pops at both ends do, the links form one list that
\* reads the same in both directions (every path of Queue.c:21-112).
THEOREM QueueWellLinked == Spec => []WellLinked
<1>1. ListInv => WellLinked
  BY ItemsIs DEF ListInv, WellLinked
<1> QED
  BY <1>1, ListAlways, PTL

\* No message is lost, queued twice or queued while a thread owns it, and
\* clearing the links of a popped message after spin_unlock (Queue.c:83-84,
\* 109-110) does not touch the list.
THEOREM QueueOnePlace == Spec => []OnePlace
<1>1. ListInv /\ TypeOK => OnePlace
  <2> SUFFICES ASSUME ListInv, TypeOK PROVE OnePlace
    OBVIOUS
  <2> PICK s \in Seq(Messages) : IsList(s) /\ Placed(s)
    BY DEF ListInv
  <2>1. Lists = {s} /\ Items = s
    BY ItemsIs
  <2>2. \A t \in Threads : pc[t] = "clear" => msg[t] \in held[t]
    BY NullAssumption DEF ListInv, PopOwns, TypeOK
  <2> QED
    BY <2>1, <2>2 DEF ListInv, HeldApart, OnePlace, WellLinked, Queued, Placed
<1> QED
  BY <1>1, ListAlways, PTL

\* nMsg is the length of the list whenever no thread is between its change of
\* the links and that of nMsg (Queue.c:35, 54, 79 and 105).
THEOREM QueueCountExact == Spec => []CountExact
<1>1. ListInv => CountExact
  BY ItemsIs DEF ListInv, CountExact, WellLinked, Counted
<1> QED
  BY <1>1, ListAlways, PTL

\* The queue implements a deque whose operations are atomic, for any number of
\* threads, messages and whatever calls each thread makes: the lock and the
\* look of pop_back at bottom before it are invisible to the callers, and each
\* operation works at the end its name says with the message it was given.
THEOREM QueueRefinesDeque == Spec => IsDeque
<1>1. Init => DEQUE!Init
  BY ListInit
<1>2. TypeOK /\ MutualExclusion /\ ListInv /\ [Next]_vars => [DEQUE!Next]_(DEQUE!vars)
  BY ListStep
<1> QED
  BY <1>1, <1>2, ListAlways, QueueMutualExclusion, PTL DEF Spec, IsDeque, DEQUE!Spec
================================================================================
