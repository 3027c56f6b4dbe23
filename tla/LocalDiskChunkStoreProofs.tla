---------------------- MODULE LocalDiskChunkStoreProofs ---------------------
(***************************************************************************)
(* Proofs about LocalDiskChunkStore for any number of threads, chunks,     *)
(* stripes, crashes and media errors: types, mutual exclusion, whole chunk *)
(* files and no temporary file left behind.                                *)
(***************************************************************************)
EXTENDS LocalDiskChunkStore, FiniteSetTheorems, TLAPS

\* Inside Put, once the digest was compared.
Putting == {"put_lock", "put_exists", "stuck", "put_stat", "put_open", "put_write",
            "put_rename", "put_dirsync", "put_count", "put_bytes"}

\* What the locals of a call hold at each point of it.
LocalsInv ==
  \A t \in Threads :
    /\ pc[t] # "idle" => id[t] \in Chunks
    /\ pc[t] \in Putting => buf[t] = id[t]
    /\ tmp[t] # Nil <=> pc[t] \in {"put_write", "put_rename"}
    /\ pc[t] = "put_rename" => tmp[t].data = id[t] /\ tmp[t].where = "disk"

\* TypeOK in three parts: the calls, the files, the rest.
CallTypes ==
  /\ pc \in [Threads -> Locations]
  /\ op \in [Threads -> Ops \cup {Nil}]
  /\ id \in [Threads -> Chunks \cup {Nil}]
  /\ buf \in [Threads -> Data \cup {Nil}]
  /\ sz \in [Threads -> Nat]
  /\ ret \in [Threads -> Results \cup {Nil}]
  /\ lock \in [Stripes -> [owner : Threads \cup {Nil}, depth : 0..2]]

FileTypes ==
  /\ final \in [Chunks -> File \cup {Nil}]
  /\ disk \in [Chunks -> SUBSET (File \cup {Nil})]
  /\ tmp \in [Threads -> TempFile \cup {Nil}]
  /\ shards \in [Shards -> {"absent", "unsynced", "durable"}]
  /\ strays \subseteq Chunks

RestTypes ==
  /\ up \in BOOLEAN
  /\ chunk_count \in 0..UintModulus - 1
  /\ acked \subseteq Chunks /\ orphaned \subseteq Chunks /\ rotted \subseteq Chunks
  /\ crashes \in 0..MaxCrashes /\ rots \in 0..MaxRots

TypeInv == CallTypes /\ FileTypes /\ RestTypes /\ LocalsInv

\* The constructor's count fits the counter: there are fewer chunks than 2^64.
LEMMA PresentCount == Cardinality(Present) \in 0..UintModulus - 1
<1>1. Present \subseteq Chunks
  BY Zenon DEF Present
<1>2. IsFiniteSet(Present) /\ Cardinality(Present) <= Cardinality(Chunks)
  BY <1>1, FS_Subset, ConstantsOK, Zenon
<1>3. Cardinality(Present) \in Nat /\ Cardinality(Chunks) \in Nat
  BY <1>2, FS_CardinalityType, ConstantsOK, Zenon
<1> QED
  BY <1>2, <1>3, ConstantsOK

\* The constructor leaves a well-typed store.
LEMMA TypeInit == Init => TypeInv
<1> SUFFICES ASSUME Init PROVE TypeInv
  OBVIOUS
<1>1. chunk_count \in 0..UintModulus - 1
  BY PresentCount, Zenon DEF Init
<1>2. final \in [Chunks -> File \cup {Nil}]
  BY ConstantsOK DEF Init, File, Data
<1>3. CallTypes /\ LocalsInv
  BY ConstantsOK DEF Init, CallTypes, LocalsInv, Locations, Free, Putting
<1> QED
  BY <1>1, <1>2, <1>3, ConstantsOK DEF Init, TypeInv, FileTypes, RestTypes

\* A return keeps the types.
LEMMA FinishTypes ==
  ASSUME NEW t \in Threads, NEW r \in Results, CallTypes, Stripe(t) \in Stripes,
         Finish(t, r), UNCHANGED <<op, id>>
  PROVE  CallTypes'
<1>1. lock' \in [Stripes -> [owner : Threads \cup {Nil}, depth : 0..2]]
  BY DEF CallTypes, Finish, Free
<1> QED
  BY <1>1, Zenon DEF CallTypes, Finish, Locations

\* Every step keeps the types and the locals of calls under way.
LEMMA TypeStep == TypeInv /\ [Next]_vars => TypeInv'
<1> SUFFICES ASSUME TypeInv, [Next]_vars PROVE TypeInv'
  OBVIOUS
<1> USE DEF TypeInv
<1>1. ASSUME NEW t \in Threads, NEW c \in Chunks, NEW o, NEW d \in Data \cup {Nil}, Begin(t, o, c, d)
      PROVE TypeInv'
  <2>1. CallTypes'
    BY <1>1, Zenon DEF Begin, CallTypes, Locations, Critical
  <2>2. LocalsInv'
    BY <1>1, SMTT(30) DEF Begin, CallTypes, LocalsInv, Putting, files
  <2> QED
    BY <1>1, <2>1, <2>2, Zenon DEF Begin, FileTypes, RestTypes, files, counters, history
<1>2. ASSUME NEW t \in Threads, Step(t) PROVE TypeInv'
  <2>0. pc[t] # "idle" => id[t] \in Chunks /\ Stripe(t) \in Stripes
    BY Zenon DEF LocalsInv, Stripe, Stripes
  <2>1. CASE PutHash(t)
    <3>1. CallTypes'
      BY <2>0, <2>1, Zenon DEF PutHash, CallTypes, Locations, Critical, Results, Held, locals
    <3>2. FileTypes'
      BY <2>1, Zenon DEF PutHash, FileTypes, files
    <3>3. LocalsInv'
      BY <2>0, <2>1 DEF PutHash, CallTypes, FileTypes, LocalsInv, Putting, TempFile, Data, locals, files
    <3>4. RestTypes'
      BY <2>1, Zenon DEF PutHash, RestTypes, counters, history
    <3> QED
      BY <3>1, <3>2, <3>3, <3>4, Zenon
  <2>2. CASE PutLock(t)
    <3>1. CallTypes'
      BY <2>0, <2>2 DEF PutLock, Acquire, Goto, CallTypes, Locations, Critical, Results, Held, locals
    <3>2. FileTypes'
      BY <2>2, Zenon DEF PutLock, Acquire, FileTypes, files
    <3>3. LocalsInv'
      BY <2>0, <2>2, Zenon DEF PutLock, Acquire, Goto, CallTypes, FileTypes, LocalsInv, Putting, TempFile, Data, locals, files
    <3>4. RestTypes'
      BY <2>2, Zenon DEF PutLock, Acquire, Goto, RestTypes, counters, history
    <3> QED
      BY <3>1, <3>2, <3>3, <3>4, Zenon
  <2>3. CASE PutRelock(t)
    <3>1. CallTypes'
      <4>1. CASE Finish(t, "exception")
        BY <2>0, <2>3, <4>1, FinishTypes, Zenon DEF PutRelock, Results
      <4>2. CASE ~Finish(t, "exception")
        <5>1. UNCHANGED <<op, id, buf, sz, ret>>
          BY <2>3, <4>2, Zenon DEF PutRelock
        <5>2. pc' \in [Threads -> Locations]
          BY <2>3, <4>2 DEF PutRelock, CallTypes, Locations, Critical
        <5>3. lock' \in [Stripes -> [owner : Threads \cup {Nil}, depth : 0..2]]
          BY <2>0, <2>3, <4>2 DEF PutRelock, CallTypes, Held
        <5> QED
          BY <5>1, <5>2, <5>3, Zenon DEF CallTypes
      <4> QED
        BY <4>1, <4>2, Zenon
    <3>2. FileTypes'
      BY <2>3, Zenon DEF PutRelock, FileTypes, files
    <3>3. LocalsInv'
      BY <2>0, <2>3 DEF PutRelock, Finish, CallTypes, FileTypes, LocalsInv, Putting, TempFile, Data, files
    <3>4. RestTypes'
      BY <2>3, Zenon DEF PutRelock, RestTypes, counters, history
    <3> QED
      BY <3>1, <3>2, <3>3, <3>4, Zenon
  <2>4. CASE PutStat(t)
    <3>1. CallTypes'
      <4>1. CASE Finish(t, "ok")
        BY <2>0, <2>4, <4>1, FinishTypes, Zenon DEF PutStat, Results
      <4>2. CASE ~Finish(t, "ok")
        <5>1. lock' = [lock EXCEPT ![Stripe(t)] = Held(t, 1)] /\ pc' = [pc EXCEPT ![t] = "put_open"]
          BY <2>4, <4>2, Zenon DEF PutStat, InnerUnlock
        <5>2. UNCHANGED <<op, id, buf, sz, ret>>
          BY <2>4, <4>2, Zenon DEF PutStat, InnerUnlock
        <5> QED
          BY <2>0, <2>4, <5>1, <5>2 DEF PutStat, InnerUnlock, CallTypes, Held, Locations, Critical
      <4> QED
        BY <4>1, <4>2, Zenon
    <3>2. FileTypes'
      BY <2>4, Zenon DEF PutStat, FileTypes, files
    <3>3. LocalsInv'
      BY <2>0, <2>4 DEF PutStat, Finish, CallTypes, FileTypes, LocalsInv, Putting, TempFile, Data, locals, files
    <3>4. RestTypes'
      BY <2>0, <2>4, Zenon DEF PutStat, Acknowledge, RestTypes, counters, history
    <3> QED
      BY <3>1, <3>2, <3>3, <3>4, Zenon
  <2>5. CASE PutOpen(t)
    <3>1. CallTypes'
      <4>1. CASE Finish(t, "IoError")
        BY <2>0, <2>5, <4>1, FinishTypes, Zenon DEF PutOpen, Results
      <4>2. CASE ~Finish(t, "IoError")
        <5>1. pc' = [pc EXCEPT ![t] = "put_write"] /\ UNCHANGED <<op, id, buf, sz, ret, lock>>
          BY <2>5, <4>2, Zenon DEF PutOpen
        <5> QED
          BY <5>1, Zenon DEF CallTypes, Locations, Critical
      <4> QED
        BY <4>1, <4>2, Zenon
    <3>2. FileTypes'
      <4>1. ShardOf[id[t]] \in Shards
        BY <2>0, <2>5, Zenon DEF PutOpen, Shards
      <4>2. shards' \in [Shards -> {"absent", "unsynced", "durable"}]
        BY <2>5, <4>1, Zenon DEF PutOpen, MakeShardDir, FileTypes
      <4>3. tmp' \in [Threads -> TempFile \cup {Nil}]
        BY <2>5, SMTT(30) DEF PutOpen, FileTypes, TempFile, Data
      <4> QED
        BY <2>5, <4>2, <4>3, Zenon DEF PutOpen, FileTypes
    <3>3. LocalsInv'
      BY ConstantsOK, <2>0, <2>5, SMTT(30) DEF PutOpen, Finish, CallTypes, FileTypes, LocalsInv, Putting, TempFile, Data, locals, files
    <3>4. RestTypes'
      BY <2>5, Zenon DEF PutOpen, RestTypes, counters, history
    <3> QED
      BY <3>1, <3>2, <3>3, <3>4, Zenon
  <2>6. CASE PutWrite(t)
    <3>1. CallTypes'
      <4>1. CASE Finish(t, "IoError")
        BY <2>0, <2>6, <4>1, FinishTypes, Zenon DEF PutWrite, Results
      <4>2. CASE ~Finish(t, "IoError")
        <5>1. pc' = [pc EXCEPT ![t] = "put_rename"] /\ UNCHANGED <<op, id, buf, sz, ret, lock>>
          BY <2>6, <4>2, Zenon DEF PutWrite, RemoveTempAndFail
        <5> QED
          BY <5>1, Zenon DEF CallTypes, Locations, Critical
      <4> QED
        BY <4>1, <4>2, Zenon
    <3>2. FileTypes'
      BY ConstantsOK, <2>0, <2>6, SMTT(30) DEF PutWrite, Written, RemoveTempAndFail, FileTypes, LocalsInv, Putting, File, TempFile, Data, files
    <3>3. LocalsInv'
      BY ConstantsOK, <2>0, <2>6, SMTT(30) DEF PutWrite, Written, Finish, RemoveTempAndFail, CallTypes, FileTypes, LocalsInv, Putting, TempFile, Data, locals, files
    <3>4. RestTypes'
      BY <2>6, Zenon DEF PutWrite, RestTypes, counters, history
    <3> QED
      BY <3>1, <3>2, <3>3, <3>4, Zenon
  <2>7. CASE PutRename(t)
    <3>1. CallTypes'
      <4>1. CASE Finish(t, "IoError")
        BY <2>0, <2>7, <4>1, FinishTypes, Zenon DEF PutRename, Results
      <4>2. CASE ~Finish(t, "IoError")
        <5>1. pc' = [pc EXCEPT ![t] = "put_dirsync"] /\ UNCHANGED <<op, id, buf, sz, ret, lock>>
          BY <2>7, <4>2, Zenon DEF PutRename, RemoveTempAndFail
        <5> QED
          BY <5>1, Zenon DEF CallTypes, Locations, Critical
      <4> QED
        BY <4>1, <4>2, Zenon
    <3>2. FileTypes'
      BY <2>0, <2>7, SMTT(30) DEF PutRename, RemoveTempAndFail, Survivor, FileTypes, LocalsInv, Putting, File, TempFile, Data, files
    <3>3. LocalsInv'
      BY <2>0, <2>7, SMTT(30) DEF PutRename, Finish, RemoveTempAndFail, Survivor, CallTypes, FileTypes, LocalsInv, Putting, TempFile, Data, locals, files
    <3>4. RestTypes'
      BY <2>7, Zenon DEF PutRename, RestTypes, counters, history
    <3> QED
      BY <3>1, <3>2, <3>3, <3>4, Zenon
  <2>8. CASE PutDirSync(t)
    <3>1. CallTypes'
      BY <2>0, <2>8, Zenon DEF PutDirSync, Goto, CallTypes, Locations, Critical, Results, Held, locals
    <3>2. FileTypes'
      BY <2>0, <2>8, SMTT(30) DEF PutDirSync, Goto, FileTypes, LocalsInv, Putting, File, TempFile, Data, files
    <3>3. LocalsInv'
      BY <2>0, <2>8, Zenon DEF PutDirSync, Goto, CallTypes, FileTypes, LocalsInv, Putting, TempFile, Data, locals, files
    <3>4. RestTypes'
      BY <2>8, Zenon DEF PutDirSync, Goto, RestTypes, counters, history
    <3> QED
      BY <3>1, <3>2, <3>3, <3>4, Zenon
  <2>9. CASE PutCount(t)
    <3>1. CallTypes'
      BY <2>0, <2>9, Zenon DEF PutCount, Goto, CallTypes, Locations, Critical, Results, Held, locals
    <3>2. FileTypes'
      BY <2>9, Zenon DEF PutCount, FileTypes, files
    <3>3. LocalsInv'
      BY <2>0, <2>9, Zenon DEF PutCount, Goto, CallTypes, FileTypes, LocalsInv, Putting, TempFile, Data, locals, files
    <3>4. RestTypes'
      BY ConstantsOK, <2>9, SMTT(30) DEF PutCount, Goto, RestTypes, counters, history
    <3> QED
      BY <3>1, <3>2, <3>3, <3>4, Zenon
  <2>10. CASE PutBytes(t)
    <3>1. CallTypes'
      BY <2>0, <2>10, FinishTypes, Zenon DEF PutBytes, CallTypes, FileTypes, Locations, Critical, Results, Held, File, Present
    <3>2. FileTypes'
      BY <2>10, Zenon DEF PutBytes, FileTypes, files
    <3>3. LocalsInv'
      BY <2>0, <2>10, Zenon DEF PutBytes, Finish, CallTypes, FileTypes, LocalsInv, Putting, TempFile, Data, locals, files
    <3>4. RestTypes'
      BY <2>0, <2>10, Zenon DEF PutBytes, Acknowledge, RestTypes, counters, history
    <3> QED
      BY <3>1, <3>2, <3>3, <3>4, Zenon
  <2>11. CASE GetLock(t)
    <3>1. CallTypes'
      BY <2>0, <2>11, SMTT(30) DEF GetLock, Acquire, Goto, CallTypes, Locations, Critical, Results, Held, locals
    <3>2. FileTypes'
      BY <2>11, Zenon DEF GetLock, Acquire, FileTypes, files
    <3>3. LocalsInv'
      BY <2>0, <2>11, ZenonT(30) DEF GetLock, Acquire, Goto, CallTypes, FileTypes, LocalsInv, Putting, TempFile, Data, locals, files
    <3>4. RestTypes'
      BY <2>11, Zenon DEF GetLock, Acquire, Goto, RestTypes, counters, history
    <3> QED
      BY <3>1, <3>2, <3>3, <3>4, Zenon
  <2>12. CASE GetStat(t)
    <3>1. CallTypes'
      <4>1. CASE Finish(t, "NotFound")
        BY <2>0, <2>12, <4>1, FinishTypes, Zenon DEF GetStat, Results
      <4>2. CASE ~Finish(t, "NotFound")
        <5>1. pc' = [pc EXCEPT ![t] = "get_read"] /\ UNCHANGED <<op, id, buf, sz, ret, lock>>
          BY <2>12, <4>2, Zenon DEF GetStat
        <5> QED
          BY <5>1, Zenon DEF CallTypes, Locations, Critical
      <4> QED
        BY <4>1, <4>2, Zenon
    <3>2. FileTypes'
      BY <2>12, Zenon DEF GetStat, FileTypes, files
    <3>3. LocalsInv'
      BY <2>0, <2>12, SMTT(30) DEF GetStat, Finish, CallTypes, FileTypes, LocalsInv, Putting, TempFile, Data, locals, files
    <3>4. RestTypes'
      BY <2>12, Zenon DEF GetStat, RestTypes, counters, history
    <3> QED
      BY <3>1, <3>2, <3>3, <3>4, Zenon
  <2>13. CASE GetRead(t)
    <3>1. CallTypes'
      BY <2>0, <2>13, FinishTypes, Zenon DEF GetRead, ReadResult, CallTypes, FileTypes, Locations, Critical, Results, Held, File, Present
    <3>2. FileTypes'
      BY <2>13, Zenon DEF GetRead, FileTypes, files
    <3>3. LocalsInv'
      BY <2>0, <2>13, SMTT(30) DEF GetRead, Finish, CallTypes, FileTypes, LocalsInv, Putting, TempFile, Data, locals, files
    <3>4. RestTypes'
      BY <2>13, Zenon DEF GetRead, RestTypes, counters, history
    <3> QED
      BY <3>1, <3>2, <3>3, <3>4, Zenon
  <2>14. CASE DelLock(t)
    <3>1. CallTypes'
      BY <2>0, <2>14, SMTT(30) DEF DelLock, Acquire, Goto, CallTypes, Locations, Critical, Results, Held, locals
    <3>2. FileTypes'
      BY <2>14, Zenon DEF DelLock, Acquire, FileTypes, files
    <3>3. LocalsInv'
      BY <2>0, <2>14, Zenon DEF DelLock, Acquire, Goto, CallTypes, FileTypes, LocalsInv, Putting, TempFile, Data, locals, files
    <3>4. RestTypes'
      BY <2>14, Zenon DEF DelLock, Acquire, Goto, RestTypes, counters, history
    <3> QED
      BY <3>1, <3>2, <3>3, <3>4, Zenon
  <2>15. CASE DelStat(t)
    <3>1. CallTypes'
      BY <2>0, <2>15, FinishTypes, Zenon DEF DelStat, CallTypes, FileTypes, Locations, Critical, Results, Held, File, Present
    <3>2. FileTypes'
      BY <2>15, Zenon DEF DelStat, FileTypes, files
    <3>3. LocalsInv'
      BY <2>0, <2>15, SMTT(30) DEF DelStat, Finish, CallTypes, FileTypes, LocalsInv, Putting, TempFile, Data, locals, files
    <3>4. RestTypes'
      BY <2>15, Zenon DEF DelStat, RestTypes, counters, history
    <3> QED
      BY <3>1, <3>2, <3>3, <3>4, Zenon
  <2>16. CASE DelRemove(t)
    <3>1. CallTypes'
      <4>1. CASE Finish(t, "IoError")
        BY <2>0, <2>16, <4>1, FinishTypes, Zenon DEF DelRemove, Results
      <4>2. CASE ~Finish(t, "IoError")
        <5>1. pc' = [pc EXCEPT ![t] = "del_count"] /\ UNCHANGED <<op, id, buf, sz, ret, lock>>
          BY <2>16, <4>2, Zenon DEF DelRemove
        <5> QED
          BY <5>1, Zenon DEF CallTypes, Locations, Critical
      <4> QED
        BY <4>1, <4>2, Zenon
    <3>2. FileTypes'
      <4>1. final' \in [Chunks -> File \cup {Nil}]
        BY <2>0, <2>16, Zenon DEF DelRemove, FileTypes
      <4>2. disk' \in [Chunks -> SUBSET (File \cup {Nil})]
        BY <2>0, <2>16, SMTT(30) DEF DelRemove, FileTypes
      <4> QED
        BY <2>16, <4>1, <4>2, Zenon DEF DelRemove, FileTypes
    <3>3. LocalsInv'
      BY <2>0, <2>16, SMTT(30) DEF DelRemove, Finish, CallTypes, FileTypes, LocalsInv, Putting, TempFile, Data, locals, files
    <3>4. RestTypes'
      BY <2>16, Zenon DEF DelRemove, RestTypes, counters, history
    <3> QED
      BY <3>1, <3>2, <3>3, <3>4, Zenon
  <2>17. CASE DelCount(t)
    <3>1. CallTypes'
      BY <2>0, <2>17, Zenon DEF DelCount, Goto, CallTypes, Locations, Critical, Results, Held, locals
    <3>2. FileTypes'
      BY <2>17, Zenon DEF DelCount, FileTypes, files
    <3>3. LocalsInv'
      BY <2>0, <2>17, Zenon DEF DelCount, Goto, CallTypes, FileTypes, LocalsInv, Putting, TempFile, Data, locals, files
    <3>4. RestTypes'
      BY ConstantsOK, <2>17, SMTT(30) DEF DelCount, Goto, RestTypes, counters, history
    <3> QED
      BY <3>1, <3>2, <3>3, <3>4, Zenon
  <2>18. CASE DelBytes(t)
    <3>1. CallTypes'
      BY <2>0, <2>18, FinishTypes, Zenon DEF DelBytes, CallTypes, FileTypes, Locations, Critical, Results, Held, File, Present
    <3>2. FileTypes'
      BY <2>18, Zenon DEF DelBytes, FileTypes, files
    <3>3. LocalsInv'
      BY <2>0, <2>18, Zenon DEF DelBytes, Finish, CallTypes, FileTypes, LocalsInv, Putting, TempFile, Data, locals, files
    <3>4. RestTypes'
      BY <2>18, Zenon DEF DelBytes, RestTypes, counters, history
    <3> QED
      BY <3>1, <3>2, <3>3, <3>4, Zenon
  <2>19. CASE ExistsLock(t)
    <3>1. CallTypes'
      BY <2>0, <2>19, SMTT(30) DEF ExistsLock, Acquire, Goto, CallTypes, Locations, Critical, Results, Held, locals
    <3>2. FileTypes'
      BY <2>19, Zenon DEF ExistsLock, Acquire, FileTypes, files
    <3>3. LocalsInv'
      BY <2>0, <2>19, Zenon DEF ExistsLock, Acquire, Goto, CallTypes, FileTypes, LocalsInv, Putting, TempFile, Data, locals, files
    <3>4. RestTypes'
      BY <2>19, Zenon DEF ExistsLock, Acquire, Goto, RestTypes, counters, history
    <3> QED
      BY <3>1, <3>2, <3>3, <3>4, Zenon
  <2>20. CASE ExistsStat(t)
    <3>1. CallTypes'
      BY <2>0, <2>20, FinishTypes, Zenon DEF ExistsStat, CallTypes, FileTypes, Locations, Critical, Results, Held, File, Present
    <3>2. FileTypes'
      BY <2>20, Zenon DEF ExistsStat, FileTypes, files
    <3>3. LocalsInv'
      BY <2>0, <2>20, SMTT(30) DEF ExistsStat, Finish, CallTypes, FileTypes, LocalsInv, Putting, TempFile, Data, locals, files
    <3>4. RestTypes'
      BY <2>20, Zenon DEF ExistsStat, RestTypes, counters, history
    <3> QED
      BY <3>1, <3>2, <3>3, <3>4, Zenon
  <2> QED
    BY <1>2, <2>1, <2>2, <2>3, <2>4, <2>5, <2>6, <2>7, <2>8, <2>9, <2>10, <2>11, <2>12, <2>13, <2>14, <2>15, <2>16, <2>17, <2>18, <2>19, <2>20, ZenonT(30) DEF Step
<1>3. ASSUME NEW t \in Threads, Return(t) PROVE TypeInv'
  BY <1>3, Zenon DEF Return, Goto, CallTypes, FileTypes, RestTypes, LocalsInv, Putting, Locations, Critical, files, counters, history
<1>4. ASSUME NEW c \in Chunks, Rot(c) PROVE TypeInv'
  <2>1. FileTypes'
    BY <1>4 DEF Rot, FileTypes, File, Data, Present
  <2>2. RestTypes'
    BY ConstantsOK, <1>4 DEF Rot, RestTypes, counters
  <2>3. CallTypes' /\ LocalsInv'
    BY <1>4, Zenon DEF Rot, CallTypes, LocalsInv, locals
  <2> QED
    BY <2>1, <2>2, <2>3, Zenon
<1>5. ASSUME Die, orphaned' \subseteq Chunks
      PROVE  CallTypes' /\ RestTypes' /\ LocalsInv' /\ tmp' \in [Threads -> TempFile \cup {Nil}] /\ strays' \subseteq Chunks
  <2>1. CallTypes'
    BY <1>5, SMTT(30) DEF Die, CallTypes, Locations, Free
  <2>2. RestTypes'
    <3>1. up' \in BOOLEAN
      BY <1>5, Zenon DEF Die
    <3>2. crashes' = crashes + 1 /\ crashes < MaxCrashes /\ crashes \in 0..MaxCrashes
      BY <1>5, Zenon DEF Die, RestTypes
    <3>3. MaxCrashes \in Nat
      BY ConstantsOK, Zenon
    <3>4. crashes' \in 0..MaxCrashes
      BY <3>2, <3>3, SMTT(30)
    <3> QED
      BY <1>5, <3>1, <3>4, Zenon DEF Die, RestTypes, counters
  <2>3. LocalsInv'
    BY <1>5, Zenon DEF Die, LocalsInv, Putting
  <2>4. \A u \in Threads : tmp[u] # Nil => id[u] \in Chunks
    BY Zenon DEF LocalsInv
  <2> QED
    BY <1>5, <2>1, <2>2, <2>3, <2>4, Zenon DEF Die, FileTypes
<1>6. CASE Kill
  BY <1>5, <1>6, Zenon DEF Kill, FileTypes, RestTypes
<1>7. CASE PowerLoss
  <2>1. final' \in [Chunks -> File \cup {Nil}]
    BY <1>7, Zenon DEF PowerLoss, FileTypes
  <2>2. orphaned' \subseteq Chunks
    BY <1>7, Zenon DEF PowerLoss, RestTypes
  <2>3. shards' \in [Shards -> {"absent", "unsynced", "durable"}]
    BY <1>7, Zenon DEF PowerLoss
  <2>4. disk' \in [Chunks -> SUBSET (File \cup {Nil})]
    BY <1>7, <2>1, Zenon DEF PowerLoss
  <2>5. Die
    BY <1>7, Zenon DEF PowerLoss
  <2>6. CallTypes' /\ RestTypes' /\ LocalsInv' /\ tmp' \in [Threads -> TempFile \cup {Nil}] /\ strays' \subseteq Chunks
    BY <1>5, <2>2, <2>5
  <2> QED
    BY <2>1, <2>3, <2>4, <2>6, Zenon DEF FileTypes
<1>8. CASE Restart
  BY <1>8, PresentCount, Zenon DEF Restart, CallTypes, FileTypes, RestTypes, LocalsInv, locals, files, history
<1>9. CASE UNCHANGED vars
  BY <1>9, Zenon DEF vars, CallTypes, FileTypes, RestTypes, LocalsInv, locals, files, counters, history
<1>10. CASE Next
  <2> HIDE DEF TypeInv
  <2> QED
    BY <1>1, <1>2, <1>3, <1>4, <1>6, <1>7, <1>8, <1>10, Zenon DEF Next, Data
<1> QED
  BY <1>9, <1>10, Zenon

\* A step of a call touches the locals of its own thread only, ends no process
\* and no chunk's medium.
LEMMA StepFrame ==
  ASSUME TypeInv, NEW t \in Threads, Step(t)
  PROVE  /\ pc[t] # "idle"
         /\ UNCHANGED <<up, op, id, rotted, crashes, rots>>
         /\ \A u \in Threads \ {t} :
              pc'[u] = pc[u] /\ buf'[u] = buf[u] /\ sz'[u] = sz[u] /\ ret'[u] = ret[u] /\ tmp'[u] = tmp[u]
<1> DEFINE Own == \A u \in Threads \ {t} : pc'[u] = pc[u] /\ buf'[u] = buf[u] /\ sz'[u] = sz[u] /\ ret'[u] = ret[u]
<1> USE DEF TypeInv, FileTypes
<1>0. ASSUME NEW r, Finish(t, r) PROVE Own
  BY <1>0, Zenon DEF Finish, CallTypes
<1>1. CASE PutHash(t)
  BY <1>1, Zenon DEF PutHash, CallTypes, files, history
<1>2. CASE PutLock(t) \/ GetLock(t) \/ DelLock(t) \/ ExistsLock(t)
  BY <1>2, Zenon DEF PutLock, GetLock, DelLock, ExistsLock, Acquire, Goto, CallTypes, locals, files, history
<1>3. CASE PutRelock(t)
  BY <1>0, <1>3, Zenon DEF PutRelock, CallTypes, files, history
<1>4. CASE PutStat(t)
  BY <1>0, <1>4, Zenon DEF PutStat, CallTypes, files
<1>5. CASE PutOpen(t)
  BY <1>0, <1>5, Zenon DEF PutOpen, CallTypes, files, history
<1>6. CASE PutWrite(t)
  BY <1>0, <1>6, Zenon DEF PutWrite, RemoveTempAndFail, CallTypes, files, history
<1>7. CASE PutRename(t)
  BY <1>0, <1>7, Zenon DEF PutRename, RemoveTempAndFail, CallTypes, files, history
<1>8. CASE PutDirSync(t) \/ PutCount(t) \/ DelCount(t)
  BY <1>8, Zenon DEF PutDirSync, PutCount, DelCount, Goto, CallTypes, locals, files, history
<1>9. CASE PutBytes(t) \/ DelBytes(t)
  BY <1>0, <1>9, Zenon DEF PutBytes, DelBytes, CallTypes, files, history
<1>10. CASE GetStat(t) \/ GetRead(t)
  BY <1>0, <1>10, Zenon DEF GetStat, GetRead, CallTypes, files, history
<1>11. CASE DelStat(t)
  BY <1>0, <1>11, Zenon DEF DelStat, CallTypes, files, history
<1>12. CASE DelRemove(t)
  BY <1>0, <1>12, Zenon DEF DelRemove, CallTypes, files
<1>13. CASE ExistsStat(t)
  BY <1>0, <1>13, Zenon DEF ExistsStat, CallTypes, files, history
<1> QED
  BY <1>1, <1>2, <1>3, <1>4, <1>5, <1>6, <1>7, <1>8, <1>9, <1>10, <1>11, <1>12, <1>13, Zenon DEF Step

-----------------------------------------------------------------------------
(* Mutual exclusion                                                         *)

\* A thread inside a lock_guard's scope owns its stripe.
LockInv == \A t \in Threads : pc[t] \in Critical => lock[Stripe(t)].owner = t

\* A thread inside a stripe stays its owner: nobody else unlocks it.
LEMMA LockStep == TypeInv /\ LockInv /\ [Next]_vars => LockInv'
<1> SUFFICES ASSUME TypeInv, LockInv, [Next]_vars PROVE LockInv'
  OBVIOUS
<1> USE DEF TypeInv, CallTypes, LockInv, Critical, Stripe, Free, Held
<1>1. ASSUME NEW t \in Threads, NEW c \in Chunks, NEW o, NEW d, Begin(t, o, c, d) PROVE LockInv'
  BY <1>1, SMTT(30) DEF Begin
<1>2. ASSUME NEW t \in Threads, Step(t) PROVE LockInv'
  <2>0. pc[t] # "idle" => Stripe(t) \in Stripes
    BY Zenon DEF LocalsInv, Stripes
  <2>00. \A u \in Threads : pc[u] \in Critical => Stripe(u) \in Stripes
    BY Zenon DEF LocalsInv, Stripes
  <2>1. CASE PutHash(t)
    BY <2>0, <2>00, <2>1, ZenonT(30) DEF PutHash, locals
  <2>2. CASE PutLock(t)
    BY ConstantsOK, <2>0, <2>00, <2>2 DEF PutLock, Acquire, Goto, locals
  <2>3. CASE PutRelock(t)
    BY <2>0, <2>00, <2>3 DEF PutRelock, Finish
  <2>4. CASE PutStat(t)
    BY <2>0, <2>00, <2>4 DEF PutStat, InnerUnlock, Finish, locals
  <2>5. CASE PutOpen(t)
    BY <2>0, <2>00, <2>5, SMTT(30), ZenonT(60) DEF PutOpen, Finish, locals
  <2>6. CASE PutWrite(t)
    BY <2>0, <2>00, <2>6, SMTT(30), ZenonT(60) DEF PutWrite, Written, RemoveTempAndFail, Finish, locals
  <2>7. CASE PutRename(t)
    BY <2>0, <2>00, <2>7, SMTT(30), ZenonT(60) DEF PutRename, RemoveTempAndFail, Finish, locals
  <2>8. CASE PutDirSync(t)
    BY <2>0, <2>00, <2>8, Zenon DEF PutDirSync, Goto, locals
  <2>9. CASE PutCount(t)
    BY <2>0, <2>00, <2>9, Zenon DEF PutCount, Goto, locals
  <2>10. CASE PutBytes(t)
    BY <2>0, <2>00, <2>10, SMTT(30) DEF PutBytes, Finish, locals
  <2>11. CASE GetLock(t)
    BY ConstantsOK, <2>0, <2>00, <2>11 DEF GetLock, Acquire, Goto, locals
  <2>12. CASE GetStat(t)
    BY <2>0, <2>00, <2>12, SMTT(30), ZenonT(60) DEF GetStat, Finish, locals
  <2>13. CASE GetRead(t)
    BY <2>0, <2>00, <2>13, SMTT(30), ZenonT(60) DEF GetRead, Finish, locals
  <2>14. CASE DelLock(t)
    BY ConstantsOK, <2>0, <2>00, <2>14 DEF DelLock, Acquire, Goto, locals
  <2>15. CASE DelStat(t)
    BY <2>0, <2>00, <2>15, SMTT(30) DEF DelStat, Finish, locals
  <2>16. CASE DelRemove(t)
    BY <2>0, <2>00, <2>16 DEF DelRemove, Finish, locals
  <2>17. CASE DelCount(t)
    BY <2>0, <2>00, <2>17, Zenon DEF DelCount, Goto, locals
  <2>18. CASE DelBytes(t)
    BY <2>0, <2>00, <2>18, ZenonT(30) DEF DelBytes, Finish, locals
  <2>19. CASE ExistsLock(t)
    BY ConstantsOK, <2>0, <2>00, <2>19, SMTT(30) DEF ExistsLock, Acquire, Goto, locals
  <2>20. CASE ExistsStat(t)
    BY ConstantsOK, <2>0, <2>00, <2>20 DEF ExistsStat, Finish, locals
  <2> QED
    BY <1>2, <2>1, <2>2, <2>3, <2>4, <2>5, <2>6, <2>7, <2>8, <2>9, <2>10, <2>11, <2>12, <2>13, <2>14, <2>15, <2>16, <2>17, <2>18, <2>19, <2>20, ZenonT(30) DEF Step
<1>3. ASSUME NEW t \in Threads, Return(t) PROVE LockInv'
  BY <1>3, Zenon DEF Return, Goto
<1>4. CASE Kill \/ PowerLoss
  BY <1>4 DEF Kill, PowerLoss, Die
<1>5. CASE UNCHANGED <<pc, locals, lock>>
  BY <1>5, Zenon DEF locals
<1>6. (\E c \in Chunks : Rot(c)) \/ Restart \/ UNCHANGED vars => UNCHANGED <<pc, locals, lock>>
  BY Zenon DEF Rot, Restart, vars
<1> HIDE DEF LockInv
<1> QED
  BY <1>1, <1>2, <1>3, <1>4, <1>5, <1>6, Zenon DEF Next

\* No two threads are inside the same stripe, for any outcome of locking a
\* mutex twice: Put, Get, Delete and Exists exclude each other per stripe.
THEOREM Exclusive == Spec => []StripeExclusion
<1>1. Init => LockInv
  BY Zenon DEF Init, LockInv, Critical
<1>2. Spec => []LockInv
  BY <1>1, TypeInit, TypeStep, LockStep, PTL DEF Spec
<1>3. LockInv => StripeExclusion
  BY Zenon DEF LockInv, StripeExclusion
<1> QED
  BY <1>2, <1>3, PTL

\* What a step of a call does to its stripe.
LEMMA LockMoves ==
  ASSUME TypeInv, NEW t \in Threads, Step(t)
  PROVE  \/ lock' = [lock EXCEPT ![Stripe(t)] = Free]
         \/ pc'[t] \in Critical \ {"put_stat"} /\ lock' = [lock EXCEPT ![Stripe(t)] = Held(t, 1)]
         \/ pc'[t] = "put_stat" /\ lock' = [lock EXCEPT ![Stripe(t)] = Held(t, 2)]
         \/ lock' = lock /\ pc[t] \notin Critical
         \/ lock' = lock /\ pc[t] \in Critical \ {"put_stat"} /\ pc'[t] \in Critical \ {"put_stat"}
<1> USE DEF TypeInv, CallTypes
<1>1. CASE PutHash(t)
  BY <1>1, Zenon DEF PutHash, Critical
<1>2. CASE PutLock(t) \/ GetLock(t) \/ DelLock(t) \/ ExistsLock(t)
  BY <1>2, Zenon DEF PutLock, GetLock, DelLock, ExistsLock, Acquire, Goto, Critical
<1>3. CASE PutRelock(t)
  BY <1>3, Zenon DEF PutRelock, Finish, Critical
<1>4. CASE PutStat(t)
  BY <1>4, Zenon DEF PutStat, Finish, InnerUnlock, Critical
<1>5. CASE PutOpen(t) \/ PutWrite(t) \/ PutRename(t)
  BY <1>5, Zenon DEF PutOpen, PutWrite, PutRename, RemoveTempAndFail, Finish, Critical
<1>6. CASE PutDirSync(t) \/ PutCount(t) \/ DelCount(t)
  BY <1>6, Zenon DEF PutDirSync, PutCount, DelCount, Goto, Critical
<1>7. CASE PutBytes(t) \/ DelBytes(t) \/ GetRead(t) \/ ExistsStat(t)
  BY <1>7, Zenon DEF PutBytes, DelBytes, GetRead, ExistsStat, Finish
<1>8. CASE GetStat(t) \/ DelStat(t) \/ DelRemove(t)
  BY <1>8, Zenon DEF GetStat, DelStat, DelRemove, Finish, Critical
<1> QED
  BY <1>1, <1>2, <1>3, <1>4, <1>5, <1>6, <1>7, <1>8, Zenon DEF Step

\* A locked stripe is guarded by a thread inside its scope.
OwnerInv == \A s \in Stripes : lock[s] = Free \/ \E t \in Threads : Guards(t, s)

\* Whoever leaves a scope has unlocked its stripe.
LEMMA OwnerStep == TypeInv /\ OwnerInv /\ [Next]_vars => OwnerInv'
<1> SUFFICES ASSUME TypeInv, OwnerInv, [Next]_vars, NEW s \in Stripes,
                    lock'[s] # Free
             PROVE  \E u \in Threads : Guards(u, s)'
  BY Zenon DEF OwnerInv, Free
<1>1. ASSUME NEW u \in Threads, Guards(u, s), lock'[s] = lock[s], pc'[u] = pc[u], id'[u] = id[u]
      PROVE  Guards(u, s)'
  BY <1>1, Zenon DEF Guards, Stripe
<1>2. ASSUME lock'[s] = lock[s] PROVE \E u \in Threads : Guards(u, s)
  BY <1>2, Zenon DEF OwnerInv
<1>3. ASSUME NEW t \in Threads, Step(t) PROVE \E u \in Threads : Guards(u, s)'
  <2>1. UNCHANGED id /\ \A u \in Threads \ {t} : pc'[u] = pc[u]
    BY <1>3, StepFrame, Zenon
  <2>2. pc[t] # "idle" => Stripe(t) \in Stripes
    BY Zenon DEF TypeInv, LocalsInv, Stripe, Stripes
  <2>3. lock \in [Stripes -> [owner : Threads \cup {Nil}, depth : 0..2]]
    BY Zenon DEF TypeInv, CallTypes
  <2>4. ASSUME lock'[s] = lock[s], \A u \in Threads : Guards(u, s) => u # t
        PROVE  \E u \in Threads : Guards(u, s)'
    BY <1>1, <1>2, <2>1, <2>4, Zenon
  <2>5. ASSUME NEW h, lock' = [lock EXCEPT ![Stripe(t)] = h]
        PROVE  IF s = Stripe(t) THEN lock'[s] = h ELSE lock'[s] = lock[s]
    BY <2>3, <2>5, Zenon
  <2>6. Stripe(t)' = Stripe(t)
    BY <2>1, Zenon DEF Stripe
  <2>7. CASE s # Stripe(t)
    <3>1. \A u \in Threads : Guards(u, s) => u # t
      BY <2>7, Zenon DEF Guards
    <3>2. lock'[s] = lock[s]
      BY <1>3, <2>5, <2>7, LockMoves, Zenon
    <3> QED BY <2>4, <3>1, <3>2, Zenon
  <2>8. CASE s = Stripe(t) /\ lock' = [lock EXCEPT ![Stripe(t)] = Free]
    BY <2>5, <2>8, Zenon DEF Free
  <2>9. CASE s = Stripe(t) /\ pc'[t] \in Critical \ {"put_stat"}
             /\ lock' = [lock EXCEPT ![Stripe(t)] = Held(t, 1)]
    <3>1. lock'[s] = Held(t, 1)
      BY <2>5, <2>9, Zenon
    <3> QED BY <2>6, <2>9, <3>1, Zenon DEF Guards, Held
  <2>10. CASE s = Stripe(t) /\ pc'[t] = "put_stat"
              /\ lock' = [lock EXCEPT ![Stripe(t)] = Held(t, 2)]
    <3>1. lock'[s] = Held(t, 2)
      BY <2>5, <2>10, Zenon
    <3> QED BY <2>6, <2>10, <3>1, Zenon DEF Guards, Held, Critical
  <2>11. CASE lock' = lock /\ pc[t] \notin Critical
    BY <2>4, <2>11, Zenon DEF Guards
  <2>12. CASE lock' = lock /\ pc[t] \in Critical \ {"put_stat"} /\ pc'[t] \in Critical \ {"put_stat"}
    <3>1. PICK u \in Threads : Guards(u, s)
      BY <1>2, <2>12, Zenon
    <3>2. CASE u # t
      BY <1>1, <2>1, <2>12, <3>1, <3>2, Zenon
    <3>3. CASE u = t
      BY <2>6, <2>12, <3>1, <3>3, Zenon DEF Guards, Held
    <3> QED BY <3>2, <3>3
  <2> QED
    BY <1>3, <2>7, <2>8, <2>9, <2>10, <2>11, <2>12, LockMoves, Zenon
<1>4. ASSUME NEW t \in Threads, NEW c \in Chunks, NEW o, NEW d, Begin(t, o, c, d) \/ Return(t)
      PROVE  \E u \in Threads : Guards(u, s)'
  <2>1. lock' = lock /\ pc[t] \in {"idle", "done"}
    BY <1>4, Zenon DEF Begin, Return, Goto
  <2>2. \A u \in Threads \ {t} : pc'[u] = pc[u] /\ id'[u] = id[u]
    BY <1>4, Zenon DEF Begin, Return, Goto, TypeInv, CallTypes
  <2>3. PICK u \in Threads : Guards(u, s)
    BY <1>2, <2>1, Zenon
  <2>4. u # t
    BY <2>1, <2>3, Zenon DEF Guards, Critical
  <2> QED BY <1>1, <2>1, <2>2, <2>3, <2>4, Zenon
<1>5. CASE Kill \/ PowerLoss
  BY <1>5, Zenon DEF Kill, PowerLoss, Die, Free
<1>6. CASE UNCHANGED <<pc, id, lock>>
  BY <1>1, <1>2, <1>6, Zenon
<1>7. (\E c \in Chunks : Rot(c)) \/ Restart \/ UNCHANGED vars => UNCHANGED <<pc, id, lock>>
  BY Zenon DEF Rot, Restart, vars, locals
<1>8. ASSUME NEW t \in Threads, Return(t) PROVE \E u \in Threads : Guards(u, s)'
  <2>1. \E c \in Chunks : c = c
    BY <1>8, Zenon DEF Return, Goto, TypeInv, LocalsInv
  <2> QED BY <1>4, <1>8, <2>1, Zenon
<1> QED
  BY <1>3, <1>4, <1>5, <1>6, <1>7, <1>8, Zenon DEF Next

\* The state of the store always has its type, and no return path of any call
\* keeps a stripe locked, for any constants and any outcome of re-locking.
THEOREM TypeCorrect == Spec => []TypeOK
<1>1. Init => OwnerInv
  BY Zenon DEF Init, OwnerInv
<1>2. Spec => [](TypeInv /\ OwnerInv)
  BY <1>1, TypeInit, TypeStep, OwnerStep, PTL DEF Spec
<1>3. TypeInv /\ OwnerInv => TypeOK
  BY Zenon DEF TypeInv, OwnerInv, TypeOK, CallTypes, FileTypes, RestTypes
<1> QED
  BY <1>2, <1>3, PTL

-----------------------------------------------------------------------------
(* Whole files                                                              *)

\* Every version of a chunk's file, the visible one and those a power failure
\* may leave, holds the chunk's bytes unless the medium damaged the chunk.
WholeInv ==
  \A c \in Chunks : \A f \in disk[c] \cup {final[c]} :
    f # Nil => f.data = c \/ c \in rotted

\* No step renames bytes that are not synced and whole.
LEMMA WholeStep == TypeInv /\ WholeInv /\ [Next]_vars => WholeInv'
<1> SUFFICES ASSUME TypeInv, WholeInv, [Next]_vars PROVE WholeInv'
  OBVIOUS
<1> USE DEF TypeInv, FileTypes, WholeInv
<1>1. ASSUME UNCHANGED <<final, disk, rotted>> PROVE WholeInv'
  BY <1>1, Zenon
<1>2. ASSUME NEW t \in Threads, PutRename(t) PROVE WholeInv'
  <2>1. id[t] \in Chunks /\ tmp[t].data = id[t] /\ tmp[t].where = "disk"
    BY <1>2, Zenon DEF PutRename, LocalsInv
  <2>2. CASE final' = final /\ disk' = disk
    BY <1>2, <2>2, Zenon DEF PutRename, history
  <2>3. CASE /\ final' = [final EXCEPT ![id[t]] = [data |-> tmp[t].data, size |-> tmp[t].size]]
             /\ disk' = [disk EXCEPT ![id[t]] = @ \cup {Survivor(tmp[t])}]
    BY <1>2, <2>1, <2>3, SMTT(30) DEF PutRename, Survivor, history
  <2> QED
    BY <1>2, <2>2, <2>3, Zenon DEF PutRename
<1>3. ASSUME NEW t \in Threads, PutDirSync(t) PROVE WholeInv'
  BY <1>3, Zenon DEF PutDirSync, history
<1>4. ASSUME NEW t \in Threads, DelRemove(t) PROVE WholeInv'
  BY <1>4 DEF DelRemove, LocalsInv
<1>5. ASSUME NEW c \in Chunks, Rot(c) PROVE WholeInv'
  BY <1>5, Zenon DEF Rot
<1>6. CASE PowerLoss
  BY <1>6, Zenon DEF PowerLoss, Die
<1>7. ASSUME NEW t \in Threads, NEW c, NEW o, NEW d, Begin(t, o, c, d) PROVE UNCHANGED <<final, disk, rotted>>
  BY <1>7, Zenon DEF Begin, files, history
<1>8. ASSUME NEW t \in Threads, Step(t), ~PutRename(t), ~PutDirSync(t), ~DelRemove(t)
      PROVE  UNCHANGED <<final, disk, rotted>>
  BY <1>8, Zenon DEF Step, PutHash, PutLock, PutRelock, PutStat, PutOpen, PutWrite, PutCount, PutBytes, GetLock, GetStat, GetRead, DelLock, DelStat, DelCount, DelBytes, ExistsLock, ExistsStat, Acquire, files, history
<1>9. ASSUME NEW t \in Threads, Return(t) PROVE UNCHANGED <<final, disk, rotted>>
  BY <1>9, Zenon DEF Return, files, history
<1>10. Kill \/ Restart \/ UNCHANGED vars => UNCHANGED <<final, disk, rotted>>
  BY Zenon DEF Kill, Die, Restart, vars, files, history
<1> HIDE DEF WholeInv
<1> QED
  BY <1>1, <1>2, <1>3, <1>4, <1>5, <1>6, <1>7, <1>8, <1>9, <1>10, Zenon DEF Next

\* A .chunk file is never torn: at no time, and after no crash, does it hold
\* bytes its name is not the digest of, unless the medium damaged it.
THEOREM Whole == Spec => []NoTornChunk
<1>1. Init => WholeInv
  BY ConstantsOK DEF Init, WholeInv
<1>2. Spec => []WholeInv
  BY <1>1, TypeInit, TypeStep, WholeStep, PTL DEF Spec
<1>3. WholeInv => NoTornChunk
  BY Zenon DEF WholeInv, NoTornChunk, Present
<1> QED
  BY <1>2, <1>3, PTL

-----------------------------------------------------------------------------
(* Temporary files                                                          *)

\* Files are left behind by a kill, a power failure or a failing remove().
StrayInv == strays # {} => crashes > 0 \/ "tmpremove" \in Faults

\* The error returns of Put remove the temporary file, and no other step of
\* the running process leaves one.
LEMMA StrayStep == TypeInv /\ StrayInv /\ [Next]_vars => StrayInv'
<1> SUFFICES ASSUME TypeInv, StrayInv, [Next]_vars PROVE StrayInv'
  OBVIOUS
<1>1. ASSUME UNCHANGED <<strays, crashes>> PROVE StrayInv'
  BY <1>1, Zenon DEF StrayInv
<1>2. ASSUME NEW t \in Threads, Step(t) PROVE StrayInv'
  <2>1. UNCHANGED crashes
    BY <1>2, StepFrame, Zenon
  <2>2. ASSUME RemoveTempAndFail(t) PROVE StrayInv'
    BY <2>1, <2>2, Zenon DEF RemoveTempAndFail, StrayInv
  <2>3. CASE PutWrite(t)
    BY <1>1, <2>1, <2>2, <2>3, Zenon DEF PutWrite
  <2>4. CASE PutRename(t)
    BY <1>1, <2>1, <2>2, <2>4, Zenon DEF PutRename
  <2>5. ASSUME ~PutWrite(t), ~PutRename(t) PROVE UNCHANGED strays
    BY <1>2, <2>5, Zenon DEF Step, PutHash, PutLock, PutRelock, PutStat, PutOpen, PutDirSync, PutCount, PutBytes, GetLock, GetStat, GetRead, DelLock, DelStat, DelRemove, DelCount, DelBytes, ExistsLock, ExistsStat, Acquire, files
  <2> QED
    BY <1>1, <2>1, <2>3, <2>4, <2>5, Zenon
<1>3. CASE Kill \/ PowerLoss
  <2>1. crashes' = crashes + 1 /\ crashes \in Nat
    BY <1>3 DEF Kill, PowerLoss, Die, TypeInv, RestTypes
  <2> QED
    BY <2>1 DEF StrayInv
<1>4. ASSUME NEW t \in Threads, NEW c, NEW o, NEW d, Begin(t, o, c, d) PROVE UNCHANGED <<strays, crashes>>
  BY <1>4, Zenon DEF Begin, files, history
<1>5. ASSUME NEW t \in Threads, Return(t) PROVE UNCHANGED <<strays, crashes>>
  BY <1>5, Zenon DEF Return, files, history
<1>6. ASSUME NEW c \in Chunks, Rot(c) PROVE UNCHANGED <<strays, crashes>>
  BY <1>6, Zenon DEF Rot
<1>7. Restart \/ UNCHANGED vars => UNCHANGED <<strays, crashes>>
  BY Zenon DEF Restart, vars, files, history
<1> QED
  BY <1>1, <1>2, <1>3, <1>4, <1>5, <1>6, <1>7, Zenon DEF Next

\* No return of Put leaves its temporary file behind, for any threads and
\* failures: only a failing remove() and the end of the process do.
THEOREM NoTempLeft == Spec => []NoTempLeak
<1>1. Init => StrayInv
  BY Zenon DEF Init, StrayInv
<1>2. Spec => [](TypeInv /\ StrayInv)
  BY <1>1, TypeInit, TypeStep, StrayStep, PTL DEF Spec
<1>3. TypeInv /\ StrayInv => NoTempLeak
  BY Zenon DEF TypeInv, LocalsInv, StrayInv, NoTempLeak
<1> QED
  BY <1>2, <1>3, PTL

=============================================================================
