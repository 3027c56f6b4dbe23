---------------------- MODULE BoundedBlockingQueueProofs ----------------------
(***************************************************************************)
(* BoundedBlockingQueue for every capacity and any finite number of        *)
(* producers and consumers: its types, that no wake-up is lost, and that   *)
(* items leave in the order in which they came.                            *)
(***************************************************************************)
EXTENDS BoundedBlockingQueue, FiniteSetTheorems, SequenceTheorems, TLAPS

\* A producer inside Push holds an item.
Inv ==
  /\ TypeOK
  /\ \A t \in Threads :
       pc[t] \in {"push_wait", "push_woken", "push_expired"} => item[t] \in 1..MaxPushes

\* The threads are finite, and so is every set of them.
LEMMA FiniteThreads ==
  IsFiniteSet(Threads) /\ \A S \in SUBSET Threads : IsFiniteSet(S)
BY QueueConstants, FS_Union, FS_Subset, ZenonT(30) DEF Threads

\* How many threads are awake when one more wakes, or one leaves.
LEMMA Awake ==
  ASSUME NEW S \in SUBSET Threads
  PROVE  /\ Cardinality(S) \in Nat
         /\ \A t \in Threads : t \notin S => Cardinality(S \cup {t}) = Cardinality(S) + 1
         /\ \A t \in Threads : Cardinality(S \ {t}) >= Cardinality(S) - 1
         /\ \A T \in SUBSET Threads : S \subseteq T => Cardinality(S) <= Cardinality(T)
<1>1. IsFiniteSet(S) BY FiniteThreads
<1>2. Cardinality(S) \in Nat BY <1>1, FS_CardinalityType
<1>3. ASSUME NEW t \in Threads, t \notin S
      PROVE  Cardinality(S \cup {t}) = Cardinality(S) + 1
  BY <1>1, <1>3, FS_AddElement
<1>4. ASSUME NEW t \in Threads
      PROVE  Cardinality(S \ {t}) >= Cardinality(S) - 1
  <2>1. CASE t \in S
    <3>1. Cardinality(S \ {t}) = Cardinality(S) - 1
      BY <1>1, <2>1, FS_RemoveElement, Zenon
    <3>2. QED BY <3>1, <1>2
  <2>2. CASE t \notin S
    <3>1. S \ {t} = S BY <2>2
    <3>2. QED BY <3>1, <1>2
  <2>3. QED BY <2>1, <2>2
<1>5. ASSUME NEW T \in SUBSET Threads, S \subseteq T
      PROVE  Cardinality(S) <= Cardinality(T)
  <2>1. IsFiniteSet(T) BY FiniteThreads
  <2>2. QED BY <2>1, <1>5, FS_Subset
<1>6. QED BY <1>2, <1>3, <1>4, <1>5

-----------------------------------------------------------------------------

\* A new queue is well typed and nobody waits in it.
LEMMA InvInit == Init => Inv
<1> SUFFICES ASSUME Init PROVE Inv
  OBVIOUS
<1>1. <<>> \in Seq(1..MaxPushes)
  OBVIOUS
<1>2. 0 \in 0..MaxPushes
  BY QueueConstants
<1>3. QED BY <1>1, <1>2, ZenonT(30) DEF Init, Inv, TypeOK

\* The two bodies keep the types, whatever thread runs them.
LEMMA BodyTypes ==
  ASSUME Inv, NEW t \in Threads, NEW d, NEW e,
         UNCHANGED shutdown, calls' \in 0..MaxPushes,
         \/ \E x \in 1..MaxPushes : PushBody(t, x, d, e) /\ UNCHANGED popped
         \/ PopBody(t, d, e) /\ UNCHANGED pushed
  PROVE  Inv'
<1> USE QueueConstants DEF Inv, TypeOK, At
<1>1. ASSUME NEW x \in 1..MaxPushes, PushBody(t, x, d, e), UNCHANGED popped
      PROVE  Inv'
  <2>1. CASE Sleep(t, "push_wait", d) /\ item' = [item EXCEPT ![t] = x]
             /\ UNCHANGED <<items, pushed>>
    BY <1>1, <2>1 DEF Sleep
  <2>2. CASE pc' = [pc EXCEPT ![t] = "idle"] /\ Leave(t) /\ UNCHANGED <<items, pushed>>
    BY <1>1, <2>2 DEF Leave
  <2>3. CASE /\ items' = Append(items, x) /\ pushed' = Append(pushed, x)
             /\ ReturnNotifying(t, "pop_wait", "pop_woken") /\ Leave(t)
    <3>1. items' \in Seq(1..MaxPushes) /\ pushed' \in Seq(1..MaxPushes)
      BY <1>1, <2>3
    <3>2. CASE pc' = [pc EXCEPT ![t] = "idle"]
      BY <1>1, <2>3, <3>1, <3>2 DEF Leave
    <3>3. ASSUME NEW w \in At("pop_wait"),
             pc' = [u \in Threads |-> IF u = t THEN "idle" ELSE IF u = w THEN "pop_woken" ELSE pc[u]]
          PROVE  Inv'
      BY <1>1, <2>3, <3>1, <3>3 DEF Leave
    <3>4. QED BY <2>3, <3>2, <3>3, ZenonT(30) DEF ReturnNotifying
  <2>4. QED BY <1>1, <2>1, <2>2, <2>3, SMTT(30) DEF PushBody
<1>2. ASSUME PopBody(t, d, e), UNCHANGED pushed
      PROVE  Inv'
  <2>1. CASE Sleep(t, "pop_wait", d) /\ UNCHANGED <<items, item, popped>>
    BY <1>2, <2>1 DEF Sleep
  <2>2. CASE pc' = [pc EXCEPT ![t] = "idle"] /\ Leave(t) /\ UNCHANGED <<items, popped>>
    BY <1>2, <2>2 DEF Leave
  <2>3. CASE /\ items # <<>> /\ items' = Taken[2] /\ popped' = Append(popped, Taken[1])
             /\ ReturnNotifying(t, "push_wait", "push_woken") /\ Leave(t)
    <3>1. Head(items) \in 1..MaxPushes /\ Tail(items) \in Seq(1..MaxPushes)
      BY <2>3, HeadTailProperties, SMTT(30)
    <3>2. items' \in Seq(1..MaxPushes) /\ popped' \in Seq(1..MaxPushes)
      BY <3>1, <2>3 DEF Taken
    <3>3. CASE pc' = [pc EXCEPT ![t] = "idle"]
      BY <1>2, <2>3, <3>2, <3>3, SMTT(30) DEF Leave
    <3>4. ASSUME NEW w \in At("push_wait"),
             pc' = [u \in Threads |-> IF u = t THEN "idle" ELSE IF u = w THEN "push_woken" ELSE pc[u]]
          PROVE  Inv'
      BY <1>2, <2>3, <3>2, <3>4, SMTT(30) DEF Leave
    <3>5. QED BY <2>3, <3>3, <3>4, SMTT(30) DEF ReturnNotifying
  <2>4. QED BY <1>2, <2>1, <2>2, <2>3 DEF PopBody
<1>3. QED BY <1>1, <1>2, SMTT(30)

\* Every step keeps the types and the places of the waiting threads.
LEMMA InvStep == Inv /\ [Next]_vars => Inv'
<1> SUFFICES ASSUME Inv, [Next]_vars PROVE Inv'
  OBVIOUS
<1>1. ASSUME NEW t \in Producers, NEW d \in BOOLEAN, Push(t, d) PROVE Inv'
  <2>1. t \in Threads /\ calls + 1 \in 1..MaxPushes /\ calls' \in 0..MaxPushes
    BY <1>1, QueueConstants DEF Push, Threads, Inv, TypeOK
  <2>2. PushBody(t, calls + 1, d, FALSE) /\ UNCHANGED <<shutdown, popped>>
    BY <1>1, ZenonT(30) DEF Push
  <2>3. QED BY <2>1, <2>2, BodyTypes, ZenonT(30)
<1>2. ASSUME NEW t \in Consumers, NEW d \in BOOLEAN, Pop(t, d) PROVE Inv'
  <2>1. t \in Threads /\ calls' \in 0..MaxPushes
    BY <1>2 DEF Pop, Threads, Inv, TypeOK
  <2>2. QED BY <1>2, <2>1, BodyTypes, ZenonT(30) DEF Pop
<1>3. ASSUME NEW t \in Threads, PushResume(t) PROVE Inv'
  <2>1. item[t] \in 1..MaxPushes /\ calls' \in 0..MaxPushes
    BY <1>3 DEF PushResume, Inv, TypeOK
  <2>2. PushBody(t, item[t], t \in timed, pc[t] = "push_expired") /\ UNCHANGED <<shutdown, popped>>
    BY <1>3 DEF PushResume
  <2>3. QED BY <2>1, <2>2, BodyTypes
<1>4. ASSUME NEW t \in Threads, PopResume(t) PROVE Inv'
  <2>1. calls' \in 0..MaxPushes
    BY <1>4 DEF PopResume, Inv, TypeOK
  <2>2. QED BY <1>4, <2>1, BodyTypes DEF PopResume
<1>5. ASSUME NEW t \in Threads, Wake(t) \/ Expire(t) PROVE Inv'
  BY <1>5, ZenonT(30) DEF Wake, Expire, Inv, TypeOK
<1>6. CASE Shutdown
  BY <1>6 DEF Shutdown, Inv, TypeOK
<1>7. CASE UNCHANGED vars
  BY <1>7 DEF vars, Inv, TypeOK
<1>8. QED BY <1>1, <1>2, <1>3, <1>4, <1>5, <1>6, <1>7 DEF Next

\* Every state of the queue is well typed: no push or pop leaves an item that
\* was not pushed, whatever waits, timeouts and notifications came between.
THEOREM QueueTypes == Spec => []TypeOK
<1>1. Inv => TypeOK BY DEF Inv
<1>2. QED BY <1>1, InvInit, InvStep, PTL DEF Spec

-----------------------------------------------------------------------------

\* A thread that evaluates the predicate of Push goes to sleep only when there
\* is no place, takes one place with it when it leaves, and wakes a consumer
\* for the item it brings.
LEMMA PushWakes ==
  ASSUME Inv, NoLostWakeup, NEW t \in Threads, NEW x, NEW d, NEW e, UNCHANGED shutdown,
         pc[t] \in {"idle", "push_woken", "push_expired"}, PushBody(t, x, d, e)
  PROVE  NoLostWakeup'
<1> USE QueueConstants
<1>0. /\ Len(items) \in Nat /\ PopAwake \in SUBSET Threads /\ PushAwake \in SUBSET Threads
      /\ PopAwake' \in SUBSET Threads /\ PushAwake' \in SUBSET Threads
      /\ pc \in [Threads -> {"idle", "push_wait", "push_woken", "push_expired",
                             "pop_wait", "pop_woken", "pop_expired"}]
  BY DEF Inv, TypeOK, PopAwake, PushAwake, At
<1>1. /\ Cardinality(PopAwake) \in Nat /\ Cardinality(PushAwake) \in Nat
      /\ Cardinality(PopAwake') \in Nat /\ Cardinality(PushAwake') \in Nat
  BY <1>0, Awake
<1>2. CASE ~shutdown /\ ~HasRoom /\ Sleep(t, "push_wait", d) /\ UNCHANGED items
  <2>1. At("pop_wait")' = At("pop_wait") /\ PopAwake' = PopAwake
    BY <1>0, <1>2 DEF At, PopAwake, Sleep
  <2>2. Capacity - Len(items') <= Cardinality(PushAwake')
    BY <1>0, <1>1, <1>2 DEF HasRoom
  <2>3. QED BY <1>2, <2>1, <2>2 DEF NoLostWakeup
<1>3. CASE (shutdown \/ ~HasRoom) /\ pc' = [pc EXCEPT ![t] = "idle"] /\ UNCHANGED items
  <2>1. /\ At("pop_wait")' = At("pop_wait") /\ PopAwake' = PopAwake
        /\ At("push_wait")' = At("push_wait")
    BY <1>0, <1>3 DEF At, PopAwake
  <2>2. ~HasRoom => Capacity - Len(items') <= Cardinality(PushAwake')
    BY <1>0, <1>1, <1>3 DEF HasRoom
  <2>3. QED BY <1>3, <2>1, <2>2 DEF NoLostWakeup
<1>4. CASE /\ ~shutdown /\ items' = Append(items, x)
           /\ ReturnNotifying(t, "pop_wait", "pop_woken")
  <2>1. Len(items') = Len(items) + 1
    BY <1>4 DEF Inv, TypeOK
  <2>2. At("push_wait")' = At("push_wait") /\ PushAwake' = PushAwake \ {t}
    BY <1>0, <1>4 DEF At, PushAwake, ReturnNotifying
  <2>3. Cardinality(PushAwake') >= Cardinality(PushAwake) - 1
    BY <1>0, <2>2, Awake
  <2>4. At("push_wait") # {} => Capacity - Len(items') <= Cardinality(PushAwake')
    BY <1>0, <1>1, <2>1, <2>3 DEF NoLostWakeup
  <2>5. At("pop_wait")' # {} => Len(items') <= Cardinality(PopAwake')
    <3>1. CASE At("pop_wait") = {} /\ pc' = [pc EXCEPT ![t] = "idle"]
      BY <1>0, <3>1 DEF At
    <3>2. ASSUME NEW w \in At("pop_wait"),
             pc' = [u \in Threads |-> IF u = t THEN "idle" ELSE IF u = w THEN "pop_woken" ELSE pc[u]]
          PROVE  Len(items') <= Cardinality(PopAwake')
      <4>1. w \in Threads /\ w # t /\ w \notin PopAwake /\ PopAwake' = PopAwake \cup {w}
        BY <1>0, <3>2 DEF At, PopAwake
      <4>2. Cardinality(PopAwake') = Cardinality(PopAwake) + 1
        BY <1>0, <4>1, Awake
      <4>3. Len(items) <= Cardinality(PopAwake)
        BY DEF NoLostWakeup
      <4>4. QED BY <1>0, <1>1, <2>1, <4>2, <4>3
    <3>3. QED BY <1>4, <3>1, <3>2 DEF ReturnNotifying
  <2>6. QED BY <1>4, <2>2, <2>4, <2>5 DEF NoLostWakeup
<1>5. QED BY <1>2, <1>3, <1>4 DEF PushBody

\* The same for the predicate of Pop.
LEMMA PopWakes ==
  ASSUME Inv, NoLostWakeup, NEW t \in Threads, NEW d, NEW e, UNCHANGED shutdown,
         pc[t] \in {"idle", "pop_woken", "pop_expired"}, PopBody(t, d, e)
  PROVE  NoLostWakeup'
<1> USE QueueConstants
<1>0. /\ Len(items) \in Nat /\ PopAwake \in SUBSET Threads /\ PushAwake \in SUBSET Threads
      /\ PopAwake' \in SUBSET Threads /\ PushAwake' \in SUBSET Threads
      /\ pc \in [Threads -> {"idle", "push_wait", "push_woken", "push_expired",
                             "pop_wait", "pop_woken", "pop_expired"}]
  BY DEF Inv, TypeOK, PopAwake, PushAwake, At
<1>1. /\ Cardinality(PopAwake) \in Nat /\ Cardinality(PushAwake) \in Nat
      /\ Cardinality(PopAwake') \in Nat /\ Cardinality(PushAwake') \in Nat
  BY <1>0, Awake
<1>2. CASE items = <<>> /\ ~shutdown /\ Sleep(t, "pop_wait", d) /\ UNCHANGED items
  <2>1. At("push_wait")' = At("push_wait") /\ PushAwake' = PushAwake
    BY <1>0, <1>2 DEF At, PushAwake, Sleep
  <2>2. Len(items') <= Cardinality(PopAwake')
    BY <1>1, <1>2
  <2>3. QED BY <1>2, <2>1, <2>2 DEF NoLostWakeup
<1>3. CASE items = <<>> /\ pc' = [pc EXCEPT ![t] = "idle"] /\ UNCHANGED items
  <2>1. /\ At("push_wait")' = At("push_wait") /\ PushAwake' = PushAwake
        /\ At("pop_wait")' = At("pop_wait")
    BY <1>0, <1>3 DEF At, PushAwake
  <2>2. Len(items') <= Cardinality(PopAwake')
    BY <1>1, <1>3
  <2>3. QED BY <1>3, <2>1, <2>2 DEF NoLostWakeup
<1>4. CASE /\ items # <<>> /\ items' = Taken[2]
           /\ ReturnNotifying(t, "push_wait", "push_woken")
  <2>1. Len(items') = Len(items) - 1 /\ Len(items') \in Nat
    <3>1. items' = Tail(items) /\ items \in Seq(1..MaxPushes)
      BY <1>4 DEF Taken, Inv, TypeOK
    <3>2. QED BY <1>4, <3>1, HeadTailProperties
  <2>2. At("pop_wait")' = At("pop_wait") /\ PopAwake' = PopAwake \ {t}
    BY <1>0, <1>4 DEF At, PopAwake, ReturnNotifying
  <2>3. Cardinality(PopAwake') >= Cardinality(PopAwake) - 1
    BY <1>0, <2>2, Awake
  <2>4. At("pop_wait") # {} => Len(items') <= Cardinality(PopAwake')
    BY <1>0, <1>1, <2>1, <2>3 DEF NoLostWakeup
  <2>5. At("push_wait")' # {} => Capacity - Len(items') <= Cardinality(PushAwake')
    <3>1. CASE At("push_wait") = {} /\ pc' = [pc EXCEPT ![t] = "idle"]
      BY <1>0, <3>1 DEF At
    <3>2. ASSUME NEW w \in At("push_wait"),
             pc' = [u \in Threads |-> IF u = t THEN "idle" ELSE IF u = w THEN "push_woken" ELSE pc[u]]
          PROVE  Capacity - Len(items') <= Cardinality(PushAwake')
      <4>1. w \in Threads /\ w # t /\ w \notin PushAwake /\ PushAwake' = PushAwake \cup {w}
        BY <1>0, <3>2 DEF At, PushAwake
      <4>2. Cardinality(PushAwake') = Cardinality(PushAwake) + 1
        BY <1>0, <4>1, Awake
      <4>3. Capacity - Len(items) <= Cardinality(PushAwake)
        BY DEF NoLostWakeup
      <4>4. QED BY <1>0, <1>1, <2>1, <4>2, <4>3
    <3>3. QED BY <1>4, <3>1, <3>2 DEF ReturnNotifying
  <2>6. At("push_wait") # {} \/ At("pop_wait") # {} => ~shutdown
    BY DEF NoLostWakeup
  <2>7. At("push_wait")' # {} => At("push_wait") # {}
    BY <1>0, <1>4 DEF At, ReturnNotifying
  <2>8. QED BY <2>2, <2>4, <2>5, <2>6, <2>7, SMTT(30) DEF NoLostWakeup
<1>5. QED BY <1>2, <1>3, <1>4 DEF PopBody

\* A thread that wakes for no reason, or at its deadline, only adds to those
\* that are awake.
LEMMA WakeWakes ==
  ASSUME Inv, NoLostWakeup, NEW t \in Threads, Wake(t) \/ Expire(t)
  PROVE  NoLostWakeup'
<1>0. /\ Len(items) \in Nat /\ PopAwake \in SUBSET Threads /\ PushAwake \in SUBSET Threads
      /\ PopAwake' \in SUBSET Threads /\ PushAwake' \in SUBSET Threads
  BY DEF Inv, TypeOK, PopAwake, PushAwake, At
<1>1. PopAwake \subseteq PopAwake' /\ PushAwake \subseteq PushAwake'
  BY DEF Inv, TypeOK, At, PopAwake, PushAwake, Wake, Expire
<1>2. At("pop_wait")' \subseteq At("pop_wait") /\ At("push_wait")' \subseteq At("push_wait")
  BY DEF Inv, TypeOK, At, Wake, Expire
<1>3. /\ Cardinality(PopAwake) <= Cardinality(PopAwake')
      /\ Cardinality(PushAwake) <= Cardinality(PushAwake')
      /\ Cardinality(PopAwake) \in Nat /\ Cardinality(PushAwake) \in Nat
      /\ Cardinality(PopAwake') \in Nat /\ Cardinality(PushAwake') \in Nat
  BY <1>0, <1>1, Awake
<1>4. UNCHANGED <<items, shutdown>>
  BY DEF Wake, Expire
<1>5. QED BY <1>0, <1>2, <1>3, <1>4, QueueConstants DEF NoLostWakeup

\* No step loses a wake-up: push and pop pass one on, shutdown wakes all.
LEMMA WakeupStep == Inv /\ NoLostWakeup /\ [Next]_vars => NoLostWakeup'
<1> SUFFICES ASSUME Inv, NoLostWakeup, [Next]_vars PROVE NoLostWakeup'
  OBVIOUS
<1>1. ASSUME NEW t \in Producers, NEW d \in BOOLEAN, Push(t, d) PROVE NoLostWakeup'
  BY <1>1, PushWakes, ZenonT(30) DEF Push, Threads
<1>2. ASSUME NEW t \in Consumers, NEW d \in BOOLEAN, Pop(t, d) PROVE NoLostWakeup'
  BY <1>2, PopWakes, ZenonT(30) DEF Pop, Threads
<1>3. ASSUME NEW t \in Threads, PushResume(t) PROVE NoLostWakeup'
  BY <1>3, PushWakes DEF PushResume
<1>4. ASSUME NEW t \in Threads, PopResume(t) PROVE NoLostWakeup'
  BY <1>4, PopWakes DEF PopResume
<1>5. ASSUME NEW t \in Threads, Wake(t) \/ Expire(t) PROVE NoLostWakeup'
  BY <1>5, WakeWakes
<1>6. CASE Shutdown
  <2>1. At("pop_wait")' = {} /\ At("push_wait")' = {}
    BY <1>6 DEF Shutdown, At
  <2>2. QED BY <2>1 DEF NoLostWakeup
<1>7. CASE UNCHANGED vars
  BY <1>7 DEF vars, NoLostWakeup, At, PopAwake, PushAwake
<1>8. QED BY <1>1, <1>2, <1>3, <1>4, <1>5, <1>6, <1>7, SMTT(30) DEF Next

\* Push and Pop notify one thread each, and that is enough: whatever the
\* capacity and however many threads there are, no thread sleeps on a condition
\* that holds unless enough others are awake to use it up, and none sleeps
\* after Shutdown.
THEOREM WakeupsKept == Spec => []NoLostWakeup
<1>1. Init => NoLostWakeup
  BY DEF Init, NoLostWakeup, At
<1>2. QED BY <1>1, InvInit, InvStep, WakeupStep, PTL DEF Spec

-----------------------------------------------------------------------------

\* Moving the head of the queue to the end of what was popped.
LEMMA MoveHead ==
  ASSUME NEW S, NEW p \in Seq(S), NEW q \in Seq(S), q # <<>>
  PROVE  Append(p, Head(q)) \o Tail(q) = p \o q
OBVIOUS

\* Adding at the end of the queue.
LEMMA AddLast ==
  \A p, q \in Seq(1..MaxPushes) : \A x \in 1..MaxPushes : Append(p \o q, x) = p \o Append(q, x)
OBVIOUS

\* A push adds at the end of both sequences.
LEMMA PushFifo ==
  ASSUME Inv, Fifo, NEW t, NEW x \in 1..MaxPushes, NEW d, NEW e,
         PushBody(t, x, d, e), UNCHANGED popped
  PROVE  Fifo'
<1>1. CASE UNCHANGED <<items, pushed>>
  BY <1>1 DEF Fifo, SizeApprox
<1>2. CASE HasRoom /\ items' = Append(items, x) /\ pushed' = Append(pushed, x)
  <2>1. popped \in Seq(1..MaxPushes) /\ items \in Seq(1..MaxPushes)
    BY DEF Inv, TypeOK
  <2>2. Append(popped \o items, x) = popped \o Append(items, x)
    BY <2>1, AddLast, Zenon
  <2>3. pushed' = popped' \o items'
    BY <1>2, <2>2, Zenon DEF Fifo
  <2>4. Len(items') <= Capacity
    BY <1>2, <2>1, QueueConstants DEF HasRoom
  <2>5. QED BY <2>3, <2>4 DEF Fifo, SizeApprox
<1>3. QED BY <1>1, <1>2 DEF PushBody

\* A pop moves the head.
LEMMA PopFifo ==
  ASSUME Inv, Fifo, NEW t, NEW d, NEW e, PopBody(t, d, e), UNCHANGED pushed
  PROVE  Fifo'
<1> USE DEF Fifo, SizeApprox
<1>1. CASE UNCHANGED <<items, popped>>
  BY <1>1
<1>2. CASE items # <<>> /\ items' = Taken[2] /\ popped' = Append(popped, Taken[1])
  <2>0. items' = Tail(items) /\ popped' = Append(popped, Head(items))
    BY <1>2 DEF Taken
  <2>1. pushed' = popped' \o items'
    BY <1>2, <2>0, MoveHead, SMTT(30) DEF Inv, TypeOK
  <2>2. Len(items') <= Capacity
    BY <1>2, <2>0, HeadTailProperties, QueueConstants DEF Inv, TypeOK
  <2>3. QED BY <2>1, <2>2
<1>3. QED BY <1>1, <1>2, SMTT(30) DEF PopBody

\* No step reorders, loses or repeats an item.
LEMMA FifoStep == Inv /\ Fifo /\ [Next]_vars => Fifo'
<1> SUFFICES ASSUME Inv, Fifo, [Next]_vars PROVE Fifo'
  OBVIOUS
<1>1. ASSUME NEW t \in Producers, NEW d \in BOOLEAN, Push(t, d) PROVE Fifo'
  <2>1. calls + 1 \in 1..MaxPushes
    BY <1>1, QueueConstants DEF Push, Inv, TypeOK
  <2>2. QED BY <1>1, <2>1, PushFifo, ZenonT(30) DEF Push
<1>2. ASSUME NEW t \in Consumers, NEW d \in BOOLEAN, Pop(t, d) PROVE Fifo'
  BY <1>2, PopFifo, ZenonT(30) DEF Pop
<1>3. ASSUME NEW t \in Threads, PushResume(t) PROVE Fifo'
  <2>1. item[t] \in 1..MaxPushes
    BY <1>3 DEF PushResume, Inv
  <2>2. QED BY <1>3, <2>1, PushFifo DEF PushResume
<1>4. ASSUME NEW t \in Threads, PopResume(t) PROVE Fifo'
  BY <1>4, PopFifo DEF PopResume
<1>5. CASE UNCHANGED <<items, pushed, popped>>
  BY <1>5 DEF Fifo, SizeApprox
<1>6. QED BY <1>1, <1>2, <1>3, <1>4, <1>5 DEF Next, Wake, Expire, Shutdown, vars

\* Items leave in the order in which they came, none twice and none lost, and
\* the queue never outgrows its capacity, for every number of threads and
\* whatever timeouts and Shutdown do.
THEOREM InOrder == Spec => []Fifo
<1>1. Init => Fifo
  BY QueueConstants DEF Init, Fifo, SizeApprox
<1>2. QED BY <1>1, InvInit, InvStep, FifoStep, PTL DEF Spec
===============================================================================
