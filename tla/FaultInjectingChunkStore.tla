----------------------- MODULE FaultInjectingChunkStore -----------------------
(***************************************************************************)
(* The chunk store that tests put in front of another one                  *)
(* (services/storage_node/src/fault_injecting_chunk_store.cpp) to make its *)
(* calls fail: the next call, or every call after the first n.  Several    *)
(* threads call it while a test arms and clears faults.  A call sleeps     *)
(* first, then decides under fault_state_mutex_ whether it fails, and only *)
(* then, without the mutex, goes on to the delegate.                       *)
(***************************************************************************)
EXTENDS Integers, FiniteSets

CONSTANTS
  Threads,
  Errors,    \* values of ChunkStoreError
  Nil,       \* an empty std::optional
  Counts,    \* values of n that tests use
  MaxCalls,  \* bound on the calls made
  MaxArms    \* bound on the faults armed

ASSUME FaultConstants ==
  /\ IsFiniteSet(Threads)
  /\ Nil \notin Errors \cup [n : Nat, error : Errors]
  /\ Counts \subseteq Nat /\ MaxCalls \in Nat /\ MaxArms \in Nat

Kinds == {"Put", "Get", "VerifyOnly", "Delete", "Exists", "GetStats", "ListAllChunkIds"}

VARIABLES
  pending_one_shot_fault, pending_nth_call_fault, call_counter, pending_latency,
  pc, kind, ret,  \* the calls of the threads
  calls, arms,    \* how much of MaxCalls and MaxArms is used up
  oneShots,       \* history: one-shot faults armed, fired, and dropped unfired
  passed, early   \* history since the last nth-call fault was armed: calls let
                  \* through, and one-shots fired among the first n

faults  == <<pending_one_shot_fault, pending_nth_call_fault, call_counter, pending_latency>>
threads == <<pc, kind, ret>>
history == <<oneShots, passed, early>>
vars    == <<faults, threads, calls, arms, history>>

Waiting == IF pending_one_shot_fault = Nil THEN 0 ELSE 1

Init ==
  /\ pending_one_shot_fault = Nil /\ pending_nth_call_fault = Nil
  /\ call_counter = 0 /\ pending_latency = FALSE
  /\ pc = [t \in Threads |-> "idle"] /\ kind = [t \in Threads |-> Nil]
  /\ ret = [t \in Threads |-> Nil]
  /\ calls = 0 /\ arms = 0
  /\ oneShots = [armed |-> 0, fired |-> 0, dropped |-> 0] /\ passed = 0 /\ early = 0

-----------------------------------------------------------------------------
(* What tests do.                                                            *)

InjectFailureOnNextCall(e) ==
  /\ arms < MaxArms /\ arms' = arms + 1
  /\ pending_one_shot_fault' = e
  /\ oneShots' = [armed |-> oneShots.armed + 1, fired |-> oneShots.fired,
                  dropped |-> oneShots.dropped + Waiting]
  /\ UNCHANGED <<pending_nth_call_fault, call_counter, pending_latency, threads, calls,
                 passed, early>>

\* Mutant: the count goes on from the calls before.
InjectFailureAfterNCalls_KeepsCount(n, e) ==
  /\ arms < MaxArms /\ arms' = arms + 1
  /\ pending_nth_call_fault' = [n |-> n, error |-> e]
  /\ passed' = 0 /\ early' = 0
  /\ UNCHANGED <<pending_one_shot_fault, call_counter, pending_latency, threads, calls, oneShots>>

InjectFailureAfterNCalls(n, e) ==
  /\ arms < MaxArms /\ arms' = arms + 1
  /\ pending_nth_call_fault' = [n |-> n, error |-> e]
  /\ call_counter' = 0
  /\ passed' = 0 /\ early' = 0
  /\ UNCHANGED <<pending_one_shot_fault, pending_latency, threads, calls, oneShots>>

InjectLatency(some) ==
  /\ pending_latency' = some
  /\ UNCHANGED <<pending_one_shot_fault, pending_nth_call_fault, call_counter, threads, calls,
                 arms, history>>

ClearInjectedFaults ==
  /\ pending_one_shot_fault' = Nil /\ pending_nth_call_fault' = Nil
  /\ call_counter' = 0 /\ pending_latency' = FALSE
  /\ oneShots' = [oneShots EXCEPT !.dropped = @ + Waiting]
  /\ passed' = 0 /\ early' = 0
  /\ UNCHANGED <<threads, calls, arms>>

-----------------------------------------------------------------------------
(* The calls.                                                                *)

Call(t, k) ==
  /\ pc[t] = "idle" /\ calls < MaxCalls /\ calls' = calls + 1
  /\ pc' = [pc EXCEPT ![t] = "latency"]
  /\ kind' = [kind EXCEPT ![t] = k]
  /\ UNCHANGED <<faults, ret, arms, history>>

\* Mutant: the call is counted before it sleeps, too.
ApplyLatency_Counts(t) ==
  /\ pc[t] = "latency"
  /\ pc' = [pc EXCEPT ![t] = IF pending_latency THEN "asleep" ELSE "decide"]
  /\ call_counter' = call_counter + 1
  /\ UNCHANGED <<pending_one_shot_fault, pending_nth_call_fault, pending_latency, kind, ret,
                 calls, arms, history>>

\* The latency is read under the mutex and slept without it.
ApplyLatency(t) ==
  /\ pc[t] = "latency"
  /\ pc' = [pc EXCEPT ![t] = IF pending_latency THEN "asleep" ELSE "decide"]
  /\ UNCHANGED <<faults, kind, ret, calls, arms, history>>

WakeUp(t) ==
  /\ pc[t] = "asleep"
  /\ pc' = [pc EXCEPT ![t] = "decide"]
  /\ UNCHANGED <<faults, kind, ret, calls, arms, history>>

\* What a call answers when error e is injected: the calls that return no
\* Result have to say it in their own way.
Injected(k, e) ==
  CASE k = "Exists"          -> "false"
    [] k = "GetStats"        -> "zeros"
    [] k = "ListAllChunkIds" -> "empty"
    [] OTHER                 -> e

Fail(t, e) ==
  /\ pc' = [pc EXCEPT ![t] = "done"]
  /\ ret' = [ret EXCEPT ![t] = Injected(kind[t], e)]

\* Mutant: the one-shot stays armed.
Consumed_Stays == pending_one_shot_fault

\* pending_one_shot_fault_.reset()
Consumed == Nil

\* Whether call number k fails because of the nth-call fault.
Due(k) == pending_nth_call_fault # Nil /\ k > pending_nth_call_fault.n

\* Counts the call; a one-shot comes first, and is used up.
ShouldInjectFault(t) ==
  /\ pc[t] = "decide"
  /\ call_counter' = call_counter + 1
  /\ \/ /\ pending_one_shot_fault # Nil
        /\ Fail(t, pending_one_shot_fault)
        /\ pending_one_shot_fault' = Consumed
        /\ oneShots' = [oneShots EXCEPT !.fired = @ + 1]
        /\ early' = IF pending_nth_call_fault # Nil /\ ~Due(call_counter + 1) THEN early + 1 ELSE early
        /\ UNCHANGED passed
     \/ /\ pending_one_shot_fault = Nil /\ Due(call_counter + 1)
        /\ Fail(t, pending_nth_call_fault.error)
        /\ UNCHANGED <<pending_one_shot_fault, history>>
     \/ /\ pending_one_shot_fault = Nil /\ ~Due(call_counter + 1)
        /\ pc' = [pc EXCEPT ![t] = "delegate"]
        /\ passed' = passed + 1
        /\ UNCHANGED <<ret, pending_one_shot_fault, oneShots, early>>
  /\ UNCHANGED <<pending_nth_call_fault, pending_latency, kind, calls, arms>>

\* The delegate answers for itself.
Delegate(t) ==
  /\ pc[t] = "delegate"
  /\ pc' = [pc EXCEPT ![t] = "done"]
  /\ ret' = [ret EXCEPT ![t] = "delegate"]
  /\ UNCHANGED <<faults, kind, calls, arms, history>>

Return(t) ==
  /\ pc[t] = "done"
  /\ pc' = [pc EXCEPT ![t] = "idle"]
  /\ kind' = [kind EXCEPT ![t] = Nil]
  /\ ret' = [ret EXCEPT ![t] = Nil]
  /\ UNCHANGED <<faults, calls, arms, history>>

Next ==
  \/ \E e \in Errors :
       \/ InjectFailureOnNextCall(e)
       \/ \E n \in Counts : InjectFailureAfterNCalls(n, e)
  \/ \E some \in BOOLEAN : InjectLatency(some)
  \/ ClearInjectedFaults
  \/ \E t \in Threads :
       \/ \E k \in Kinds : Call(t, k)
       \/ ApplyLatency(t) \/ WakeUp(t) \/ ShouldInjectFault(t) \/ Delegate(t) \/ Return(t)

Spec == Init /\ [][Next]_vars

-----------------------------------------------------------------------------

\* Calls that were made and are not counted yet.
Undecided == {t \in Threads : pc[t] \in {"latency", "asleep", "decide"}}

\* The type invariant of the fault state and of the calls.  The range of
\* call_counter_ is that of a counter which counts no call twice and none before
\* it has slept, also when it is reset while calls sleep.
TypeOK ==
  /\ pending_one_shot_fault \in Errors \cup {Nil}
  /\ pending_nth_call_fault \in [n : Counts, error : Errors] \cup {Nil}
  /\ call_counter \in Nat /\ pending_latency \in BOOLEAN
  /\ pc \in [Threads -> {"idle", "latency", "asleep", "decide", "delegate", "done"}]
  /\ kind \in [Threads -> Kinds \cup {Nil}]
  /\ calls \in 0 .. MaxCalls /\ arms \in 0 .. MaxArms
  /\ oneShots \in [armed : Nat, fired : Nat, dropped : Nat]
  /\ passed \in Nat /\ early \in Nat
  /\ call_counter + Cardinality(Undecided) <= calls

\* However many threads race for it, a one-shot fault fails exactly one call
\* ("Should work on next call"), unless a test replaces or clears it before.
OneShotHitsOnce == oneShots.armed = oneShots.fired + oneShots.dropped + Waiting

\* Since an nth-call fault was armed, the first n calls to be counted, from
\* whatever threads, were let through or taken by a one-shot, and no other was:
\* calls that were asleep when it was armed count too.
FailsAfterN ==
  pending_nth_call_fault # Nil =>
    LET n == pending_nth_call_fault.n
    IN  passed + early = IF call_counter < n THEN call_counter ELSE n
===============================================================================
