-------------------- MODULE FaultInjectingChunkStoreProofs --------------------
(***************************************************************************)
(* FaultInjectingChunkStore for any threads, errors, counts and bounds: a  *)
(* one-shot fault fails one call, an nth-call fault lets n calls pass, and *)
(* no call is counted twice.                                               *)
(***************************************************************************)
EXTENDS FaultInjectingChunkStore, FiniteSetTheorems, TLAPS

\* What the counting needs to know of types.
Numbers ==
  /\ pending_one_shot_fault \in Errors \cup {Nil}
  /\ pending_nth_call_fault \in [n : Nat, error : Errors] \cup {Nil}
  /\ call_counter \in Nat
  /\ oneShots \in [armed : Nat, fired : Nat, dropped : Nat]
  /\ passed \in Nat /\ early \in Nat

\* The inductive invariant.
Counted == Numbers /\ OneShotHitsOnce /\ FailsAfterN

\* A new store has no faults armed and has counted nothing.
LEMMA CountedInit == Init => Counted
BY DEF Init, Counted, Numbers, OneShotHitsOnce, FailsAfterN, Waiting

\* Every step of a test keeps the accounts.
LEMMA CountedTests ==
  ASSUME Counted,
         \/ \E e \in Errors : \/ InjectFailureOnNextCall(e)
                              \/ \E n \in Counts : InjectFailureAfterNCalls(n, e)
         \/ \E some \in BOOLEAN : InjectLatency(some)
         \/ ClearInjectedFaults
  PROVE  Counted'
<1> USE DEF Counted, Numbers
<1>1. ASSUME NEW e \in Errors, InjectFailureOnNextCall(e) PROVE Counted'
  BY <1>1, FaultConstants DEF InjectFailureOnNextCall, OneShotHitsOnce, FailsAfterN, Waiting
<1>2. ASSUME NEW e \in Errors, NEW n \in Counts, InjectFailureAfterNCalls(n, e)
      PROVE  Counted'
  <2>1. n \in Nat BY FaultConstants
  <2>2. QED
    BY <1>2, <2>1 DEF InjectFailureAfterNCalls, OneShotHitsOnce, FailsAfterN, Waiting
<1>3. ASSUME NEW some \in BOOLEAN, InjectLatency(some) PROVE Counted'
  BY <1>3 DEF InjectLatency, history, OneShotHitsOnce, FailsAfterN, Waiting
<1>4. CASE ClearInjectedFaults
  BY <1>4 DEF ClearInjectedFaults, OneShotHitsOnce, FailsAfterN, Waiting
<1>5. QED BY <1>1, <1>2, <1>3, <1>4

\* The decision whether a call fails keeps the accounts: a one-shot is spent as
\* it fires, and call number k passes only while k is at most n.
LEMMA CountedDecision ==
  ASSUME Counted, NEW t \in Threads, ShouldInjectFault(t)
  PROVE  Counted'
<1> USE DEF Counted, Numbers
<1>1. /\ call_counter' = call_counter + 1
      /\ UNCHANGED pending_nth_call_fault
  BY DEF ShouldInjectFault
<1>2. pending_nth_call_fault # Nil => pending_nth_call_fault.n \in Nat
  OBVIOUS
<1>3. CASE pending_one_shot_fault # Nil
  <2>1. /\ pending_one_shot_fault' = Nil
        /\ oneShots' = [oneShots EXCEPT !.fired = @ + 1]
        /\ early' = IF pending_nth_call_fault # Nil /\ ~Due(call_counter + 1) THEN early + 1 ELSE early
        /\ passed' = passed
    BY <1>3 DEF ShouldInjectFault, Consumed
  <2>2. Numbers' BY <1>1, <2>1
  <2>3. OneShotHitsOnce' BY <1>3, <2>1 DEF OneShotHitsOnce, Waiting
  <2>4. FailsAfterN' BY <1>1, <1>2, <2>1 DEF FailsAfterN, Due
  <2>5. QED BY <2>2, <2>3, <2>4
<1>4. CASE pending_one_shot_fault = Nil /\ Due(call_counter + 1)
  <2>1. UNCHANGED <<pending_one_shot_fault, oneShots, passed, early>>
    BY <1>4 DEF ShouldInjectFault, history
  <2>2. QED BY <1>1, <1>2, <1>4, <2>1 DEF OneShotHitsOnce, FailsAfterN, Waiting, Due
<1>5. CASE pending_one_shot_fault = Nil /\ ~Due(call_counter + 1)
  <2>1. UNCHANGED <<pending_one_shot_fault, oneShots, early>> /\ passed' = passed + 1
    BY <1>5 DEF ShouldInjectFault
  <2>2. QED BY <1>1, <1>2, <1>5, <2>1 DEF OneShotHitsOnce, FailsAfterN, Waiting, Due
<1>6. QED BY <1>3, <1>4, <1>5

\* No step breaks the accounts.
LEMMA CountedNext == Counted /\ [Next]_vars => Counted'
<1> SUFFICES ASSUME Counted, [Next]_vars PROVE Counted'
  OBVIOUS
<1>1. ASSUME UNCHANGED <<pending_one_shot_fault, pending_nth_call_fault, call_counter,
                         oneShots, passed, early>>
      PROVE  Counted'
  BY <1>1 DEF Counted, Numbers, OneShotHitsOnce, FailsAfterN, Waiting
<1>2. CASE \E t \in Threads :
             \/ \E k \in Kinds : Call(t, k)
             \/ ApplyLatency(t) \/ WakeUp(t) \/ Delegate(t) \/ Return(t)
  BY <1>1, <1>2 DEF Call, ApplyLatency, WakeUp, Delegate, Return, faults, history
<1>3. CASE UNCHANGED vars
  BY <1>1, <1>3 DEF vars, faults, history
<1>4. CASE \E t \in Threads : ShouldInjectFault(t)
  BY <1>4, CountedDecision
<1>5. QED BY <1>2, <1>3, <1>4, CountedTests DEF Next

\* However many threads call at once, each one-shot fault that
\* InjectFailureOnNextCall armed fails exactly one call, or was replaced or cleared.
THEOREM OneShotsSpent == Spec => []OneShotHitsOnce
<1>1. Counted => OneShotHitsOnce BY DEF Counted
<1>2. QED BY <1>1, CountedInit, CountedNext, PTL DEF Spec

\* Whatever n was given to InjectFailureAfterNCalls, and whatever the threads,
\* exactly the first n calls counted since are spared by it.
THEOREM NthCallsCounted == Spec => []FailsAfterN
<1>1. Counted => FailsAfterN BY DEF Counted
<1>2. QED BY <1>1, CountedInit, CountedNext, PTL DEF Spec

-----------------------------------------------------------------------------
(* Types                                                                    *)

\* TypeOK in two parts: the faults, and the calls with what is still to count.
FaultTypes ==
  /\ pending_one_shot_fault \in Errors \cup {Nil}
  /\ pending_nth_call_fault \in [n : Counts, error : Errors] \cup {Nil}
  /\ call_counter \in Nat /\ pending_latency \in BOOLEAN
  /\ calls \in 0 .. MaxCalls /\ arms \in 0 .. MaxArms
  /\ oneShots \in [armed : Nat, fired : Nat, dropped : Nat]
  /\ passed \in Nat /\ early \in Nat

Places == {"idle", "latency", "asleep", "decide", "delegate", "done"}

CallTypes ==
  /\ pc \in [Threads -> Places]
  /\ kind \in [Threads -> Kinds \cup {Nil}]
  /\ call_counter + Cardinality(Undecided) <= calls

\* A step of a test or of a call keeps the faults well formed.
LEMMA FaultTypesStep == FaultTypes /\ [Next]_vars => FaultTypes'
<1> SUFFICES ASSUME FaultTypes, [Next]_vars PROVE FaultTypes'
  OBVIOUS
<1> USE DEF FaultTypes
<1>1. ASSUME NEW e \in Errors, InjectFailureOnNextCall(e) PROVE FaultTypes'
  BY <1>1, FaultConstants DEF InjectFailureOnNextCall, Waiting
<1>2. ASSUME NEW e \in Errors, NEW n \in Counts, InjectFailureAfterNCalls(n, e)
      PROVE  FaultTypes'
  BY <1>2, FaultConstants DEF InjectFailureAfterNCalls
<1>3. ASSUME NEW some \in BOOLEAN, InjectLatency(some) PROVE FaultTypes'
  BY <1>3, Zenon DEF InjectLatency, history
<1>4. CASE ClearInjectedFaults
  <2>1. Waiting \in Nat
    BY DEF Waiting
  <2>2. oneShots' \in [armed : Nat, fired : Nat, dropped : Nat] /\ 0 \in Nat
    BY <1>4, <2>1 DEF ClearInjectedFaults
  <2> QED BY <1>4, <2>2, Zenon DEF ClearInjectedFaults
<1>5. ASSUME NEW t \in Threads, NEW k \in Kinds, Call(t, k) PROVE FaultTypes'
  <2>1. calls' \in 0 .. MaxCalls
    BY <1>5, FaultConstants DEF Call
  <2> QED BY <1>5, <2>1, Zenon DEF Call, faults, history
<1>6. ASSUME NEW t \in Threads, ShouldInjectFault(t) PROVE FaultTypes'
  <2>1. /\ call_counter' \in Nat
        /\ UNCHANGED <<pending_nth_call_fault, pending_latency, calls, arms>>
    BY <1>6 DEF ShouldInjectFault
  <2>2. pending_one_shot_fault' \in Errors \cup {Nil}
    BY <1>6, Zenon DEF ShouldInjectFault, Consumed
  <2>3. oneShots' \in [armed : Nat, fired : Nat, dropped : Nat]
    BY <1>6 DEF ShouldInjectFault, history
  <2>4. passed' \in Nat /\ early' \in Nat
    BY <1>6 DEF ShouldInjectFault, history
  <2> QED BY <2>1, <2>2, <2>3, <2>4, Zenon
<1>7. ASSUME NEW t \in Threads, ApplyLatency(t) \/ WakeUp(t) \/ Delegate(t) \/ Return(t)
      PROVE  FaultTypes'
  BY <1>7, Zenon DEF ApplyLatency, WakeUp, Delegate, Return, faults, history
<1>8. CASE UNCHANGED vars
  BY <1>8, Zenon DEF vars, faults, history
<1> HIDE DEF FaultTypes
<1> QED BY <1>1, <1>2, <1>3, <1>4, <1>5, <1>6, <1>7, <1>8, Zenon DEF Next

\* The uncounted calls are finitely many; a thread joins or leaves them alone.
LEMMA UndecidedMoves ==
  ASSUME CallTypes, NEW t \in Threads, NEW p \in Places, pc' = [pc EXCEPT ![t] = p]
  PROVE  /\ pc' \in [Threads -> Places]
         /\ Cardinality(Undecided) \in Nat
         /\ t \notin Undecided /\ t \in Undecided' => Cardinality(Undecided') = Cardinality(Undecided) + 1
         /\ t \in Undecided /\ t \notin Undecided' => Cardinality(Undecided') = Cardinality(Undecided) - 1
         /\ (t \in Undecided <=> t \in Undecided') => Cardinality(Undecided') = Cardinality(Undecided)
<1>1. pc' \in [Threads -> Places] /\ \A u \in Threads : u # t => pc'[u] = pc[u]
  BY Zenon DEF CallTypes
<1>2. Undecided \subseteq Threads /\ Undecided' \subseteq Threads /\ IsFiniteSet(Undecided)
  BY FaultConstants, FS_Subset, Zenon DEF Undecided
<1>3. \A u \in Threads : u # t => (u \in Undecided <=> u \in Undecided')
  BY <1>1, Zenon DEF Undecided
<1>4. ASSUME t \notin Undecided, t \in Undecided' PROVE Undecided' = Undecided \cup {t}
  BY <1>2, <1>3, <1>4, Zenon
<1>5. ASSUME t \in Undecided, t \notin Undecided' PROVE Undecided' = Undecided \ {t}
  BY <1>2, <1>3, <1>5, Zenon
<1>6. ASSUME t \in Undecided <=> t \in Undecided' PROVE Undecided' = Undecided
  <2>1. \A u \in Threads : u \in Undecided <=> u \in Undecided'
    BY <1>3, <1>6, Zenon
  <2> QED BY <1>2, <2>1
<1>7. Cardinality(Undecided) \in Nat
  BY <1>2, FS_CardinalityType, Zenon
<1>8. ASSUME t \notin Undecided PROVE Cardinality(Undecided \cup {t}) = Cardinality(Undecided) + 1
  BY <1>2, <1>8, FS_AddElement
<1>9. ASSUME t \in Undecided PROVE Cardinality(Undecided \ {t}) = Cardinality(Undecided) - 1
  BY <1>2, <1>9, FS_RemoveElement
<1> QED BY <1>1, <1>4, <1>5, <1>6, <1>7, <1>8, <1>9, Zenon

\* Each call is counted as it leaves those that are still to be counted.
LEMMA CallTypesStep == FaultTypes /\ CallTypes /\ [Next]_vars => CallTypes'
<1> SUFFICES ASSUME FaultTypes, CallTypes, [Next]_vars PROVE CallTypes'
  OBVIOUS
<1>1. call_counter \in Nat /\ calls \in Nat /\ Cardinality(Undecided) \in Nat
  <2>1. Undecided \subseteq Threads
    BY Zenon DEF Undecided
  <2>2. Cardinality(Undecided) \in Nat
    BY <2>1, FaultConstants, FS_Subset, FS_CardinalityType, Zenon
  <2> QED BY <2>2, FaultConstants DEF FaultTypes
<1>2. ASSUME UNCHANGED threads, UNCHANGED calls, call_counter' = 0 \/ call_counter' = call_counter
      PROVE  CallTypes'
  <2>1. Undecided' = Undecided
    BY <1>2, Zenon DEF threads, Undecided
  <2>2. (call_counter + Cardinality(Undecided) <= calls)'
    BY <1>1, <1>2, <2>1 DEF CallTypes
  <2> QED BY <1>2, <2>2, Zenon DEF threads, CallTypes
<1>3. ASSUME NEW e \in Errors,
             InjectFailureOnNextCall(e) \/ \E n \in Counts : InjectFailureAfterNCalls(n, e)
      PROVE  CallTypes'
  BY <1>2, <1>3, Zenon DEF InjectFailureOnNextCall, InjectFailureAfterNCalls
<1>4. CASE (\E some \in BOOLEAN : InjectLatency(some)) \/ ClearInjectedFaults \/ UNCHANGED vars
  BY <1>2, <1>4, Zenon DEF InjectLatency, ClearInjectedFaults, vars, faults
<1>5. ASSUME NEW t \in Threads, NEW k \in Kinds, Call(t, k) PROVE CallTypes'
  <2>1. /\ pc' = [pc EXCEPT ![t] = "latency"] /\ kind' = [kind EXCEPT ![t] = k]
        /\ pc[t] = "idle" /\ calls' = calls + 1 /\ call_counter' = call_counter
    BY <1>5, Zenon DEF Call, faults
  <2>2. pc'[t] = "latency"
    BY <2>1, Zenon DEF CallTypes
  <2>3. t \notin Undecided /\ t \in Undecided' /\ "latency" \in Places
    BY <2>1, <2>2, Zenon DEF Undecided, Places
  <2>4. pc' \in [Threads -> Places] /\ Cardinality(Undecided') = Cardinality(Undecided) + 1
    BY <2>1, <2>3, UndecidedMoves, Zenon
  <2>5. (call_counter + Cardinality(Undecided) <= calls)'
    BY <1>1, <2>1, <2>4 DEF CallTypes
  <2> QED BY <2>1, <2>4, <2>5, Zenon DEF CallTypes
<1>6. ASSUME NEW t \in Threads, ApplyLatency(t) \/ WakeUp(t) \/ Delegate(t) \/ Return(t)
      PROVE  CallTypes'
  <2>1. PICK p \in Places : /\ pc' = [pc EXCEPT ![t] = p]
                            /\ pc[t] \in {"latency", "asleep"} <=> p \in {"asleep", "decide"}
                            /\ pc[t] \in {"latency", "asleep", "delegate", "done"}
                            /\ p # "latency"
    BY <1>6, Zenon DEF ApplyLatency, WakeUp, Delegate, Return, Places
  <2>2. calls' = calls /\ call_counter' = call_counter
    BY <1>6, Zenon DEF ApplyLatency, WakeUp, Delegate, Return, faults
  <2>3. kind' = kind \/ kind' = [kind EXCEPT ![t] = Nil]
    BY <1>6, Zenon DEF ApplyLatency, WakeUp, Delegate, Return
  <2>4. pc'[t] = p
    BY <2>1, Zenon DEF CallTypes
  <2>5. t \in Undecided <=> t \in Undecided'
    BY <2>1, <2>4 DEF Undecided, Places
  <2>6. pc' \in [Threads -> Places] /\ Cardinality(Undecided') = Cardinality(Undecided)
    BY <2>1, <2>5, UndecidedMoves, Zenon
  <2>7. (call_counter + Cardinality(Undecided) <= calls)'
    BY <1>1, <2>2, <2>6 DEF CallTypes
  <2> QED BY <2>3, <2>6, <2>7, Zenon DEF CallTypes
<1>7. ASSUME NEW t \in Threads, ShouldInjectFault(t) PROVE CallTypes'
  <2>1. PICK p \in {"done", "delegate"} : pc' = [pc EXCEPT ![t] = p]
    BY <1>7, Zenon DEF ShouldInjectFault, Fail
  <2>2. /\ pc[t] = "decide" /\ call_counter' = call_counter + 1 /\ calls' = calls /\ kind' = kind
    BY <1>7, Zenon DEF ShouldInjectFault
  <2>3. pc'[t] = p /\ p \in Places
    BY <2>1, Zenon DEF CallTypes, Places
  <2>4. t \in Undecided /\ t \notin Undecided'
    BY <2>2, <2>3, Zenon DEF Undecided
  <2>5. pc' \in [Threads -> Places] /\ Cardinality(Undecided') = Cardinality(Undecided) - 1
    BY <2>1, <2>3, <2>4, UndecidedMoves, Zenon
  <2>6. (call_counter + Cardinality(Undecided) <= calls)'
    BY <1>1, <2>2, <2>5 DEF CallTypes
  <2> QED BY <2>2, <2>5, <2>6, Zenon DEF CallTypes
<1> QED BY <1>3, <1>4, <1>5, <1>6, <1>7, Zenon DEF Next

\* Whatever the threads and the tests do, call_counter_ and the calls that it has
\* still to count are together never more than the calls made: a reset while
\* calls sleep makes none of them count twice.
THEOREM TypeCorrect == Spec => []TypeOK
<1>1. Init => FaultTypes /\ CallTypes
  <2> SUFFICES ASSUME Init PROVE FaultTypes /\ CallTypes
    OBVIOUS
  <2>1. 0 \in Nat /\ 0 \in 0 .. MaxCalls /\ 0 \in 0 .. MaxArms
    BY FaultConstants
  <2>2. oneShots \in [armed : Nat, fired : Nat, dropped : Nat]
    BY DEF Init
  <2>3. FaultTypes
    BY <2>1, <2>2, Zenon DEF Init, FaultTypes
  <2>4. Undecided = {}
    BY Zenon DEF Init, Undecided
  <2>5. call_counter + Cardinality(Undecided) <= calls
    BY <2>4, FS_EmptySet DEF Init
  <2>6. CallTypes
    BY <2>5, Zenon DEF Init, CallTypes, Places
  <2> QED BY <2>3, <2>6
<1>2. FaultTypes /\ CallTypes => TypeOK
  BY Zenon DEF FaultTypes, CallTypes, Places, TypeOK
<1> QED BY <1>1, <1>2, FaultTypesStep, CallTypesStep, PTL DEF Spec
===============================================================================
