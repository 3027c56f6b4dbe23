------------------------- MODULE BoundedBlockingQueue -------------------------
(***************************************************************************)
(* nimbus::common::BoundedBlockingQueue: a queue of fixed capacity, one    *)
(* mutex and two condition variables.  Everything between taking mutex_    *)
(* and releasing it, by a return or by a wait, is one action.  A thread    *)
(* that waits is in a "_wait" location until it is notified ("_woken"),    *)
(* wakes spuriously (the same), or reaches its deadline ("_expired").      *)
(***************************************************************************)
EXTENDS Integers, Sequences, FiniteSets

CONSTANTS
  Producers,  \* threads that push
  Consumers,  \* threads that pop
  Capacity,   \* capacity_
  MaxPushes   \* bound on the calls of Push and TryPush

Threads == Producers \cup Consumers

ASSUME QueueConstants ==
  /\ IsFiniteSet(Producers) /\ IsFiniteSet(Consumers)
  /\ Capacity \in Nat \ {0}  \* the constructor throws for zero
  /\ MaxPushes \in Nat

VARIABLES
  items,           \* items_
  shutdown,        \* shutdown_
  pc,              \* where each thread is
  timed,           \* threads in TryPush or TryPop, whose wait has a deadline
  item,            \* the argument of a Push
  calls,           \* calls of Push made so far, the source of fresh items
  pushed, popped   \* history: all items pushed, all items popped, in order

vars == <<items, shutdown, pc, timed, item, calls, pushed, popped>>

At(l) == {t \in Threads : pc[t] = l}

Init ==
  /\ items = <<>> /\ shutdown = FALSE
  /\ pc = [t \in Threads |-> "idle"]
  /\ timed = {}
  /\ item = [t \in Threads |-> 0]
  /\ calls = 0 /\ pushed = <<>> /\ popped = <<>>

-----------------------------------------------------------------------------

\* Thread t returns.
Leave(t) == timed' = timed \ {t} /\ item' = [item EXCEPT ![t] = 0]

\* Mutant: the notification is forgotten.
ReturnNotifying_Silent(t, wait, woken) == pc' = [pc EXCEPT ![t] = "idle"]

\* Thread t returns after notify_one on the condition variable whose waiters
\* are at wait: one of them wakes, if there is one.
ReturnNotifying(t, wait, woken) ==
  \/ At(wait) = {} /\ pc' = [pc EXCEPT ![t] = "idle"]
  \/ \E w \in At(wait) :
       pc' = [u \in Threads |-> IF u = t THEN "idle" ELSE IF u = w THEN woken ELSE pc[u]]

HasRoom == Len(items) < Capacity

\* The predicate is false: thread t sleeps, its deadline still to come.
Sleep(t, wait, hasDeadline) ==
  /\ pc' = [pc EXCEPT ![t] = wait]
  /\ timed' = IF hasDeadline THEN timed \cup {t} ELSE timed

\* Push and TryPush with the mutex held, for the first time or after a wait:
\* sleep, give up at the deadline, refuse after shutdown, or push.
PushBody(t, x, hasDeadline, expired) ==
  \/ /\ ~shutdown /\ ~HasRoom /\ ~expired
     /\ Sleep(t, "push_wait", hasDeadline)
     /\ item' = [item EXCEPT ![t] = x]
     /\ UNCHANGED <<items, pushed>>
  \/ /\ shutdown \/ (~HasRoom /\ expired)
     /\ pc' = [pc EXCEPT ![t] = "idle"]
     /\ Leave(t)
     /\ UNCHANGED <<items, pushed>>
  \/ /\ ~shutdown /\ HasRoom
     /\ items' = Append(items, x)
     /\ pushed' = Append(pushed, x)
     /\ ReturnNotifying(t, "pop_wait", "pop_woken")
     /\ Leave(t)

\* Mutant: the newest item is taken.
Taken_Newest == <<items[Len(items)], SubSeq(items, 1, Len(items) - 1)>>

\* items_.front() and what pop() leaves.
Taken == <<Head(items), Tail(items)>>

PopBody(t, hasDeadline, expired) ==
  \/ /\ ~shutdown /\ items = <<>> /\ ~expired
     /\ Sleep(t, "pop_wait", hasDeadline)
     /\ UNCHANGED <<items, item, popped>>
  \/ /\ items = <<>> /\ (shutdown \/ expired)
     /\ pc' = [pc EXCEPT ![t] = "idle"]
     /\ Leave(t)
     /\ UNCHANGED <<items, popped>>
  \/ /\ items # <<>>
     /\ items' = Taken[2]
     /\ popped' = Append(popped, Taken[1])
     /\ ReturnNotifying(t, "push_wait", "push_woken")
     /\ Leave(t)

\* Entering Push or TryPush, Pop or TryPop.
Push(t, hasDeadline) ==
  /\ pc[t] = "idle" /\ calls < MaxPushes
  /\ calls' = calls + 1
  /\ PushBody(t, calls + 1, hasDeadline, FALSE)
  /\ UNCHANGED <<shutdown, popped>>

Pop(t, hasDeadline) ==
  /\ pc[t] = "idle"
  /\ PopBody(t, hasDeadline, FALSE)
  /\ UNCHANGED <<shutdown, calls, pushed>>

\* Mutant: the item is moved from before the wait.
PushResume_MovedFrom(t) ==
  /\ pc[t] \in {"push_woken", "push_expired"}
  /\ PushBody(t, 0, t \in timed, pc[t] = "push_expired")
  /\ UNCHANGED <<shutdown, calls, popped>>

\* A thread that was woken has the mutex again and evaluates its predicate.
PushResume(t) ==
  /\ pc[t] \in {"push_woken", "push_expired"}
  /\ PushBody(t, item[t], t \in timed, pc[t] = "push_expired")
  /\ UNCHANGED <<shutdown, calls, popped>>

PopResume(t) ==
  /\ pc[t] \in {"pop_woken", "pop_expired"}
  /\ PopBody(t, t \in timed, pc[t] = "pop_expired")
  /\ UNCHANGED <<shutdown, calls, pushed>>

\* wait and wait_for may return without a notification.
Wake(t) ==
  /\ \/ pc[t] = "push_wait" /\ pc' = [pc EXCEPT ![t] = "push_woken"]
     \/ pc[t] = "pop_wait"  /\ pc' = [pc EXCEPT ![t] = "pop_woken"]
  /\ UNCHANGED <<items, shutdown, timed, item, calls, pushed, popped>>

\* Mutant: every wake-up starts the timeout afresh.
Expire_Restarts(t) ==
  /\ t \in timed
  /\ \/ pc[t] = "push_wait" /\ pc' = [pc EXCEPT ![t] = "push_expired"]
     \/ pc[t] = "pop_wait"  /\ pc' = [pc EXCEPT ![t] = "pop_expired"]
  /\ UNCHANGED <<items, shutdown, timed, item, calls, pushed, popped>>

\* The deadline of a wait_for passes, asleep or on the way to the mutex: the
\* next evaluation of the predicate is the last one.
Expire(t) ==
  /\ t \in timed
  /\ \/ pc[t] \in {"push_wait", "push_woken"} /\ pc' = [pc EXCEPT ![t] = "push_expired"]
     \/ pc[t] \in {"pop_wait", "pop_woken"}   /\ pc' = [pc EXCEPT ![t] = "pop_expired"]
  /\ UNCHANGED <<items, shutdown, timed, item, calls, pushed, popped>>

\* Mutant: only the producers are told.
Shutdown_HalfNotified ==
  /\ shutdown' = TRUE
  /\ pc' = [t \in Threads |-> IF pc[t] = "push_wait" THEN "push_woken" ELSE pc[t]]
  /\ UNCHANGED <<items, timed, item, calls, pushed, popped>>

Shutdown ==
  /\ shutdown' = TRUE
  /\ pc' = [t \in Threads |-> CASE pc[t] = "push_wait" -> "push_woken"
                                [] pc[t] = "pop_wait"  -> "pop_woken"
                                [] OTHER -> pc[t]]
  /\ UNCHANGED <<items, timed, item, calls, pushed, popped>>

SizeApprox == Len(items)

Next ==
  \/ \E t \in Producers, d \in BOOLEAN : Push(t, d)
  \/ \E t \in Consumers, d \in BOOLEAN : Pop(t, d)
  \/ \E t \in Threads : PushResume(t) \/ PopResume(t) \/ Wake(t) \/ Expire(t)
  \/ Shutdown

Spec == Init /\ [][Next]_vars

\* A thread that was woken gets the mutex, in the end, and deadlines pass.
\* Nobody is obliged to call, to wake without reason, or to shut down.
FairSpec ==
  Spec /\ \A t \in Threads : WF_vars(PushResume(t) \/ PopResume(t)) /\ WF_vars(Expire(t))

-----------------------------------------------------------------------------

\* Everything has the shape the code gives it; in particular an item that
\* waited for room is pushed as it was given.
TypeOK ==
  /\ items \in Seq(1..MaxPushes) /\ shutdown \in BOOLEAN
  /\ pc \in [Threads -> {"idle", "push_wait", "push_woken", "push_expired",
                         "pop_wait", "pop_woken", "pop_expired"}]
  /\ timed \subseteq Threads
  /\ item \in [Threads -> 0..MaxPushes]
  /\ calls \in 0..MaxPushes
  /\ pushed \in Seq(1..MaxPushes) /\ popped \in Seq(1..MaxPushes)

PopAwake  == At("pop_woken") \cup At("pop_expired")
PushAwake == At("push_woken") \cup At("push_expired")
Popping   == At("pop_wait") \cup PopAwake
Pushing   == At("push_wait") \cup PushAwake

\* No wake-up is lost.  While a consumer sleeps in Pop, there are no more items
\* than consumers on their way to them, and while a producer sleeps in Push, no
\* more free places than producers on their way, although every push and pop
\* notifies only one sleeper, a deadline may take the thread that was notified,
\* and a call that never slept may get there first.  After Shutdown nobody
\* sleeps.
NoLostWakeup ==
  /\ At("pop_wait") # {} =>
       ~shutdown /\ Len(items) <= Cardinality(PopAwake)
  /\ At("push_wait") # {} =>
       ~shutdown /\ Capacity - Len(items) <= Cardinality(PushAwake)

\* Every item pushed is popped once, in the order of the pushes, or is still
\* there; none is dropped by a timeout, a refusal or Shutdown, and the queue
\* never holds more than its capacity.
Fifo == pushed = popped \o items /\ SizeApprox <= Capacity

\* An item does not stay in the queue while a consumer is inside Pop, nor a
\* place free while a producer is inside Push.
WaitersProceed ==
  /\ items # <<>> /\ Popping # {} ~> items = <<>> \/ Popping = {}
  /\ HasRoom /\ Pushing # {} ~> ~HasRoom \/ Pushing = {}

\* After Shutdown every blocked Push and Pop returns.
ShutdownReleases ==
  \A t \in Threads : shutdown /\ pc[t] # "idle" ~> pc[t] = "idle"

\* A call with a deadline returns.
DeadlinesHold == \A t \in Threads : t \in timed ~> t \notin timed
===============================================================================
