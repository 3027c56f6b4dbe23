-------------------- MODULE LocalDiskChunkStoreRefinement -------------------
(***************************************************************************)
(* Proofs that acknowledged chunks survive a crash, that the store         *)
(* implements the contract of IChunkStore, and that a Delete that answers  *)
(* ok leaves nothing.                                                      *)
(***************************************************************************)
EXTENDS LocalDiskChunkStoreCounting

(* Acknowledged chunks                                                      *)

\* Acknowledged, and not lost with a directory that was never synced.
Safe == acked \ orphaned

\* As long as a crash may still come, a chunk that is acknowledged cannot be
\* missing after it, and a visible chunk can only if its Put is about to sync
\* the directory.
DurableInv ==
  /\ Safe \subseteq Present
  /\ crashes < MaxCrashes =>
       /\ \A c \in Safe : Nil \notin disk[c]
       /\ \A c \in Present :
            Nil \in disk[c] => \E t \in Threads : pc[t] = "put_dirsync" /\ id[t] = c
  /\ \A t \in Threads : pc[t] \in Renamed => id[t] \in Present

\* A kill comes after all power failures there are.
KillLast == [][Kill => crashes' = MaxCrashes]_vars

\* What leaves the files alone and ends no wait for the sync keeps them safe.
LEMMA DurableFrame ==
  ASSUME DurableInv, UNCHANGED <<final, disk, Safe, crashes>>,
         \A u \in Threads : pc[u] = "put_dirsync" => pc'[u] = "put_dirsync" /\ id'[u] = id[u],
         \A u \in Threads : pc'[u] \in Renamed => pc[u] \in Renamed /\ id'[u] = id[u]
  PROVE  DurableInv'
<1>1. Present' = Present
  BY Zenon DEF Present
<1>2. Safe' \subseteq Present'
  BY <1>1, Zenon DEF DurableInv
<1>3. crashes' < MaxCrashes => \A c \in Safe' : Nil \notin disk'[c]
  BY Zenon DEF DurableInv
<1>4. crashes' < MaxCrashes => \A c \in Present' :
        Nil \in disk'[c] => \E u \in Threads : pc'[u] = "put_dirsync" /\ id'[u] = c
  <2> SUFFICES ASSUME crashes < MaxCrashes, NEW c \in Present, Nil \in disk[c]
               PROVE  \E u \in Threads : pc'[u] = "put_dirsync" /\ id'[u] = c
    BY <1>1, Zenon
  <2>1. PICK u \in Threads : pc[u] = "put_dirsync" /\ id[u] = c
    BY Zenon DEF DurableInv
  <2> QED
    BY <2>1, Zenon
<1>5. \A u \in Threads : pc'[u] \in Renamed => id'[u] \in Present'
  BY <1>1, Zenon DEF DurableInv
<1> QED
  BY <1>2, <1>3, <1>4, <1>5, ZenonT(30) DEF DurableInv

\* The steps of a call that neither change files for good nor acknowledge.
LEMMA DurableQuiet ==
  ASSUME CallTypes, NEW t \in Threads, Step(t), ~PutStat(t), ~PutRename(t), ~PutDirSync(t),
         ~PutCount(t), ~PutBytes(t), ~DelRemove(t)
  PROVE  UNCHANGED <<final, disk, Safe>> /\ pc[t] \notin Renamed /\ pc'[t] \notin Renamed
<1> USE DEF CallTypes, Renamed
<1>0. ASSUME NEW r, Finish(t, r) PROVE pc'[t] = "done"
  BY <1>0, Zenon DEF Finish
<1>1. CASE PutHash(t)
  BY <1>1, Zenon DEF PutHash, files, history, Safe
<1>2. CASE PutLock(t) \/ GetLock(t) \/ DelLock(t) \/ ExistsLock(t)
  BY <1>2, Zenon DEF PutLock, GetLock, DelLock, ExistsLock, Acquire, Goto, files, history, Safe
<1>3. CASE PutRelock(t)
  BY <1>0, <1>3, Zenon DEF PutRelock, files, history, Safe
<1>5. CASE PutOpen(t)
  BY <1>0, <1>5, Zenon DEF PutOpen, history, Safe
<1>6. CASE PutWrite(t)
  BY <1>0, <1>6, Zenon DEF PutWrite, RemoveTempAndFail, history, Safe
<1>8. CASE DelCount(t)
  BY <1>8, Zenon DEF DelCount, Goto, files, history, Safe
<1>9. CASE DelBytes(t)
  BY <1>0, <1>9, Zenon DEF DelBytes, files, history, Safe
<1>10. CASE GetStat(t) \/ GetRead(t)
  BY <1>0, <1>10, Zenon DEF GetStat, GetRead, files, history, Safe
<1>11. CASE DelStat(t)
  BY <1>0, <1>11, Zenon DEF DelStat, files, history, Safe
<1>13. CASE ExistsStat(t)
  BY <1>0, <1>13, Zenon DEF ExistsStat, files, history, Safe
<1> QED
  BY <1>1, <1>2, <1>3, <1>5, <1>6, <1>8, <1>9, <1>10, <1>11, <1>13, ZenonT(30) DEF Step

\* A step of a call keeps what is acknowledged safe from the next crash, if
\* the sync of the directory does not fail.
LEMMA DurableCall ==
  ASSUME "dirsync" \notin Faults, TypeInv, LockInv, DurableInv, NEW t \in Threads, Step(t)
  PROVE  DurableInv'
<1> DEFINE i == id[t]
<1> HIDE DEF i
<1>0. \A u \in Threads \ {t} : pc[t] \in Critical /\ pc[u] \in Critical => id[u] # i
  BY Zenon DEF LockInv, Stripe, i
<1>1. /\ id' = id /\ crashes' = crashes
      /\ \A u \in Threads \ {t} : pc'[u] = pc[u]
      /\ i \in Chunks
  BY StepFrame, Zenon DEF TypeInv, LocalsInv, i
<1>2. \A u \in Threads : pc[u] \in Renamed \cup {"put_stat", "put_rename", "del_remove"} => pc[u] \in Critical
  BY Zenon DEF Renamed, Critical
<1>3. \A c \in Present : c \in Chunks /\ final[c] # Nil
  BY Zenon DEF Present
<1>4. CASE PutStat(t)
  <2>1. UNCHANGED <<final, disk>> /\ pc[t] = "put_stat" /\ pc'[t] \in {"done", "put_open"}
    BY <1>4, Zenon DEF PutStat, Finish, files, TypeInv, CallTypes
  <2>2. Safe' = Safe \/ (Safe' = Safe \cup {i} /\ i \in Present)
    BY <1>4, Zenon DEF PutStat, Acknowledge, Safe, i
  <2>3. crashes < MaxCrashes /\ i \in Present => Nil \notin disk[i]
    BY <1>0, <1>2, <2>1, Zenon DEF DurableInv, Renamed
  <2>4. Present' = Present
    BY <2>1, Zenon DEF Present
  <2>5. \A u \in Threads : (pc'[u] = "put_dirsync" <=> pc[u] = "put_dirsync") /\ (pc'[u] \in Renamed <=> pc[u] \in Renamed)
    BY <1>1, <2>1, Zenon DEF Renamed
  <2> QED
    BY <1>1, <2>1, <2>2, <2>3, <2>4, <2>5, ZenonT(30) DEF DurableInv
<1>5. CASE PutRename(t)
  <2>1. CASE RemoveTempAndFail(t) /\ UNCHANGED <<final, disk>>
    <3>1. pc'[t] = "done" /\ pc[t] = "put_rename" /\ Safe' = Safe
      BY <1>5, <2>1, Zenon DEF PutRename, RemoveTempAndFail, Finish, TypeInv, CallTypes, history, Safe
    <3>2. Present' = Present
      BY <2>1, Zenon DEF Present
    <3>3. \A u \in Threads : (pc'[u] = "put_dirsync" <=> pc[u] = "put_dirsync") /\ (pc'[u] \in Renamed <=> pc[u] \in Renamed)
      BY <1>1, <3>1, Zenon DEF Renamed
    <3> QED
      BY <1>1, <2>1, <3>1, <3>2, <3>3, Zenon DEF DurableInv
  <2>2. CASE /\ pc' = [pc EXCEPT ![t] = "put_dirsync"]
             /\ final' = [final EXCEPT ![i] = [data |-> tmp[t].data, size |-> tmp[t].size]]
             /\ disk' = [disk EXCEPT ![i] = @ \cup {Survivor(tmp[t])}]
    <3>1. pc'[t] = "put_dirsync" /\ pc[t] = "put_rename" /\ Safe' = Safe
      BY <1>5, <2>2, Zenon DEF PutRename, TypeInv, CallTypes, history, Safe
    <3>2. [data |-> tmp[t].data, size |-> tmp[t].size] # Nil /\ Survivor(tmp[t]) # Nil
      <4>1. tmp[t] \in TempFile
        BY <3>1, Zenon DEF TypeInv, LocalsInv, FileTypes
      <4>2. [data |-> tmp[t].data, size |-> tmp[t].size] \in File /\ Survivor(tmp[t]) \in File
        BY <4>1, Zenon DEF TempFile, File, Data, Survivor
      <4> QED
        BY <4>2, ConstantsOK, Zenon DEF File, Data
    <3>3. Present' = Present \cup {i}
      BY <1>1, <2>2, <3>2, Zenon DEF Present, TypeInv, FileTypes
    <3>4. \A c \in Chunks : Nil \in disk'[c] <=> Nil \in disk[c]
      BY <1>1, <2>2, <3>2, Zenon DEF TypeInv, FileTypes
    <3>5. Safe \subseteq Chunks
      BY Zenon DEF TypeInv, RestTypes, Safe
    <3>6. Safe' \subseteq Present'
      BY <3>1, <3>3, Zenon DEF DurableInv
    <3>7. crashes' < MaxCrashes => \A c \in Safe' : Nil \notin disk'[c]
      BY <1>1, <3>1, <3>4, <3>5, ZenonT(30) DEF DurableInv
    <3>8. crashes' < MaxCrashes => \A c \in Present' :
            Nil \in disk'[c] => \E u \in Threads : pc'[u] = "put_dirsync" /\ id'[u] = c
      <4> SUFFICES ASSUME crashes < MaxCrashes, NEW c \in Present', Nil \in disk'[c]
                   PROVE  \E u \in Threads : pc'[u] = "put_dirsync" /\ id[u] = c
        BY <1>1, Zenon
      <4>1. CASE c = i
        BY <3>1, <4>1, Zenon DEF i
      <4>2. CASE c # i
        <5>1. c \in Present /\ Nil \in disk[c]
          BY <1>3, <3>3, <3>4, <4>2, ZenonT(30)
        <5>2. PICK u \in Threads : pc[u] = "put_dirsync" /\ id[u] = c
          BY <5>1, Zenon DEF DurableInv
        <5> QED
          BY <1>1, <3>1, <5>2, ZenonT(30)
      <4> QED
        BY <4>1, <4>2, ZenonT(30)
    <3>9. \A u \in Threads : pc'[u] \in Renamed => id'[u] \in Present'
      BY <1>1, <3>1, <3>3, Zenon DEF DurableInv, i
    <3> QED
      BY <3>6, <3>7, <3>8, <3>9, Zenon DEF DurableInv
  <2> QED
    BY <1>5, <2>1, <2>2, Zenon DEF PutRename, i
<1>6. CASE PutDirSync(t)
  <2>1. /\ pc[t] = "put_dirsync" /\ pc'[t] = "put_count" /\ UNCHANGED <<final, Safe>>
        /\ disk' = [c \in Chunks |-> IF ShardOf[c] = ShardOf[i] THEN {final[c]} ELSE disk[c]]
    BY <1>6, Zenon DEF PutDirSync, Goto, TypeInv, CallTypes, history, i, Safe
  <2>2. Present' = Present
    BY <2>1, Zenon DEF Present
  <2>3. \A c \in Present : Nil \in disk'[c] => Nil \in disk[c] /\ c # i
    BY <1>1, <1>3, <2>1, Zenon
  <2>4. Safe' \subseteq Present'
    BY <2>1, <2>2, Zenon DEF DurableInv
  <2>5. crashes' < MaxCrashes => \A c \in Safe' : Nil \notin disk'[c]
    BY <1>1, <2>1, <2>3, Zenon DEF DurableInv
  <2>6. crashes' < MaxCrashes => \A c \in Present' :
          Nil \in disk'[c] => \E u \in Threads : pc'[u] = "put_dirsync" /\ id'[u] = c
    <3> SUFFICES ASSUME crashes < MaxCrashes, NEW c \in Present, Nil \in disk'[c]
                 PROVE  \E u \in Threads : pc'[u] = "put_dirsync" /\ id[u] = c
      BY <1>1, <2>2, Zenon
    <3>1. PICK u \in Threads : pc[u] = "put_dirsync" /\ id[u] = c
      BY <2>3, Zenon DEF DurableInv
    <3>2. u # t
      BY <2>3, <3>1, Zenon DEF i
    <3> QED
      BY <1>1, <3>1, <3>2, Zenon
  <2>7. \A u \in Threads : pc'[u] \in Renamed => id'[u] \in Present'
    BY <1>1, <2>1, <2>2, Zenon DEF DurableInv, Renamed
  <2> QED
    BY <2>4, <2>5, <2>6, <2>7, ZenonT(30) DEF DurableInv
<1>7. CASE PutCount(t)
  <2>1. pc[t] = "put_count" /\ pc'[t] = "put_bytes" /\ UNCHANGED <<final, disk, Safe>>
    BY <1>7, Zenon DEF PutCount, Goto, TypeInv, CallTypes, files, history, Safe
  <2>2. \A u \in Threads : (pc'[u] = "put_dirsync" <=> pc[u] = "put_dirsync") /\ (pc'[u] \in Renamed <=> pc[u] \in Renamed)
    BY <1>1, <2>1, Zenon DEF Renamed
  <2> QED
    BY <1>1, <2>1, <2>2, Zenon DEF DurableInv, Present
<1>8. CASE PutBytes(t)
  <2>1. pc[t] = "put_bytes" /\ pc'[t] = "done" /\ UNCHANGED <<final, disk>> /\ Safe' = Safe \cup {i}
    BY <1>8, Zenon DEF PutBytes, Acknowledge, Finish, TypeInv, CallTypes, files, Safe, i
  <2>2. i \in Present
    BY <2>1, Zenon DEF DurableInv, Renamed, i
  <2>3. crashes < MaxCrashes => Nil \notin disk[i]
    BY <1>0, <1>2, <2>1, <2>2, Zenon DEF DurableInv, Renamed
  <2>4. Present' = Present
    BY <2>1, Zenon DEF Present
  <2>5. \A u \in Threads : (pc'[u] = "put_dirsync" <=> pc[u] = "put_dirsync") /\ (pc'[u] \in Renamed => pc[u] \in Renamed)
    BY <1>1, <2>1, Zenon DEF Renamed
  <2> QED
    BY <1>1, <2>1, <2>2, <2>3, <2>4, <2>5, ZenonT(30) DEF DurableInv
<1>9. CASE DelRemove(t)
  <2>1. pc[t] = "del_remove" /\ pc'[t] \in {"done", "del_count"}
    BY <1>9, Zenon DEF DelRemove, Finish, TypeInv, CallTypes
  <2>2. \A u \in Threads : (pc'[u] = "put_dirsync" <=> pc[u] = "put_dirsync") /\ (pc'[u] \in Renamed <=> pc[u] \in Renamed)
    BY <1>1, <2>1, Zenon DEF Renamed
  <2>3. CASE UNCHANGED <<final, disk, Safe>>
    BY <1>1, <2>2, <2>3, Zenon DEF DurableInv, Present
  <2>4. CASE /\ final' = [final EXCEPT ![i] = Nil]
             /\ disk' = [disk EXCEPT ![i] = @ \cup {Nil}]
             /\ Safe' = Safe \ {i}
    <3>1. Present' = Present \ {i}
      BY <1>1, <2>4, Zenon DEF Present, TypeInv, FileTypes
    <3>2. \A c \in Chunks \ {i} : disk'[c] = disk[c]
      BY <2>4, Zenon DEF TypeInv, FileTypes
    <3>3. \A u \in Threads : pc[u] \in Renamed => id[u] # i
      BY <1>0, <1>2, <2>1, Zenon DEF Renamed
    <3>4. Safe' \subseteq Present' /\ Safe' \subseteq Safe \ {i} /\ Safe \subseteq Chunks
      BY <2>4, <3>1, Zenon DEF DurableInv, TypeInv, RestTypes, Safe
    <3>5. crashes' < MaxCrashes => \A c \in Safe' : Nil \notin disk'[c]
      BY <1>1, <3>2, <3>4, Zenon DEF DurableInv
    <3>6. crashes' < MaxCrashes => \A c \in Present' :
            Nil \in disk'[c] => \E u \in Threads : pc'[u] = "put_dirsync" /\ id'[u] = c
      BY <1>1, <1>3, <2>2, <3>1, <3>2, Zenon DEF DurableInv
    <3>7. \A u \in Threads : pc'[u] \in Renamed => id'[u] \in Present'
      BY <1>1, <2>2, <3>1, <3>3, Zenon DEF DurableInv
    <3> QED
      BY <3>4, <3>5, <3>6, <3>7, Zenon DEF DurableInv
  <2> QED
    BY <1>9, <2>3, <2>4, Zenon DEF DelRemove, Safe, i
<1>10. ASSUME ~PutStat(t), ~PutRename(t), ~PutDirSync(t), ~PutCount(t), ~PutBytes(t), ~DelRemove(t)
       PROVE  DurableInv'
  <2>1. UNCHANGED <<final, disk, Safe>> /\ pc[t] \notin Renamed /\ pc'[t] \notin Renamed
    BY <1>10, DurableQuiet, Zenon DEF TypeInv
  <2>2. \A u \in Threads : (pc'[u] = "put_dirsync" <=> pc[u] = "put_dirsync") /\ (pc'[u] \in Renamed <=> pc[u] \in Renamed)
    BY <1>1, <2>1, Zenon DEF Renamed
  <2> QED
    BY <1>1, <2>1, <2>2, Zenon DEF DurableInv, Present
<1> QED
  BY <1>4, <1>5, <1>6, <1>7, <1>8, <1>9, <1>10, ZenonT(30)

\* So does every other step, if no power failure follows a kill.
LEMMA DurableStep ==
  ASSUME "dirsync" \notin Faults, TypeInv, LockInv, DurableInv, [Next]_vars,
         [Kill => crashes' = MaxCrashes]_vars
  PROVE  DurableInv'
<1>1. ASSUME NEW t \in Threads, NEW c \in Chunks, NEW o, NEW d, Begin(t, o, c, d) PROVE DurableInv'
  <2>1. UNCHANGED <<final, disk, Safe, crashes>> /\ pc[t] = "idle" /\ pc'[t] \notin Renamed
    BY <1>1, Zenon DEF Begin, files, history, TypeInv, CallTypes, Renamed, Safe
  <2>2. \A u \in Threads \ {t} : pc'[u] = pc[u] /\ id'[u] = id[u]
    BY <1>1, Zenon DEF Begin, TypeInv, CallTypes
  <2>4. \A u \in Threads : pc[u] = "put_dirsync" => pc'[u] = "put_dirsync" /\ id'[u] = id[u]
    BY <2>1, <2>2, Zenon
  <2>5. \A u \in Threads : pc'[u] \in Renamed => pc[u] \in Renamed /\ id'[u] = id[u]
    BY <2>1, <2>2, Zenon DEF Renamed
  <2> QED
    BY <2>1, <2>4, <2>5, DurableFrame, Zenon
<1>2. ASSUME NEW t \in Threads, Return(t) PROVE DurableInv'
  <2>1. UNCHANGED <<final, disk, Safe, crashes>> /\ pc[t] = "done" /\ pc'[t] = "idle"
    BY <1>2, Zenon DEF Return, Goto, files, history, TypeInv, CallTypes, Safe
  <2>2. \A u \in Threads \ {t} : pc'[u] = pc[u] /\ id'[u] = id[u]
    BY <1>2, Zenon DEF Return, Goto, TypeInv, CallTypes
  <2>4. \A u \in Threads : pc[u] = "put_dirsync" => pc'[u] = "put_dirsync" /\ id'[u] = id[u]
    BY <2>1, <2>2, Zenon
  <2>5. \A u \in Threads : pc'[u] \in Renamed => pc[u] \in Renamed /\ id'[u] = id[u]
    BY <2>1, <2>2, Zenon DEF Renamed
  <2> QED
    BY <2>1, <2>4, <2>5, DurableFrame, Zenon
<1>3. ASSUME NEW c \in Chunks, Rot(c) PROVE DurableInv'
  <2>1. UNCHANGED <<Safe, crashes, pc, id>>
    BY <1>3, Zenon DEF Rot, locals, Safe
  <2>2. \A x \in Chunks : final'[x] = Nil <=> final[x] = Nil
    BY ConstantsOK, <1>3, Zenon DEF Rot, Present, File, TypeInv, FileTypes
  <2>3. \A x \in Chunks : Nil \in disk'[x] <=> Nil \in disk[x]
    <3> DEFINE Damaged(f) == IF f = Nil THEN Nil ELSE [f EXCEPT !.data = Garbage]
    <3>1. \A f \in File \cup {Nil} : Damaged(f) = Nil <=> f = Nil
      <4>1. \A f \in File : [f EXCEPT !.data = Garbage] \in File
        BY Zenon DEF File, Data
      <4> QED
        BY <4>1, ConstantsOK, Zenon DEF File, Data
    <3> HIDE DEF Damaged
    <3>2. disk' = [disk EXCEPT ![c] = {Damaged(f) : f \in disk[c]}]
      BY <1>3, Zenon DEF Rot, Damaged
    <3>3. disk[c] \subseteq File \cup {Nil}
      BY Zenon DEF TypeInv, FileTypes
    <3> QED
      BY <3>1, <3>2, <3>3, ZenonT(30) DEF TypeInv, FileTypes
  <2>4. Present' = Present
    BY <2>2, Zenon DEF Present
  <2> QED
    BY <2>1, <2>3, <2>4, Zenon DEF DurableInv, Present, TypeInv, RestTypes
<1>4. ASSUME Die
      PROVE  (\A t \in Threads : pc'[t] \notin Renamed) /\ acked' = acked /\ crashes < MaxCrashes /\ Safe \subseteq Chunks
  BY <1>4, Zenon DEF Die, Renamed, TypeInv, RestTypes, Safe
<1>5. CASE Kill
  <2>1. Present' = Present /\ Die /\ Safe' = Safe
    BY <1>5, Zenon DEF Kill, Die, Present, Safe
  <2>2. ~(crashes' < MaxCrashes)
    <3>1. crashes' = MaxCrashes \/ crashes' = crashes
      BY <1>5, Zenon DEF vars, history, Safe
    <3>2. crashes' = crashes + 1 /\ crashes \in Nat /\ MaxCrashes \in Nat
      BY <2>1, ConstantsOK DEF Die, TypeInv, RestTypes
    <3> QED
      BY <3>1, <3>2
  <2> QED
    BY <1>4, <2>1, <2>2, ZenonT(30) DEF DurableInv
<1>6. CASE PowerLoss
  <2>0. PICK lost \in SUBSET Shards :
          /\ \A c \in Chunks : IF ShardOf[c] \in lost THEN final'[c] = Nil ELSE final'[c] \in disk[c]
          /\ orphaned' = orphaned \cup {c \in Chunks : ShardOf[c] \in lost}
    BY <1>6, Zenon DEF PowerLoss
  <2>1. Die /\ \A c \in Chunks : disk'[c] = {final'[c]}
    BY <1>6, Zenon DEF PowerLoss
  <2>2. \A c \in Safe' : c \in Safe /\ c \in Chunks /\ final'[c] # Nil
    <3> SUFFICES ASSUME NEW c \in Safe' PROVE c \in Safe /\ c \in Chunks /\ final'[c] # Nil
      OBVIOUS
    <3>1. c \in Safe /\ c \in Chunks /\ ShardOf[c] \notin lost
      BY <1>4, <2>0, <2>1, Zenon DEF Safe
    <3> QED
      BY <1>4, <2>0, <2>1, <3>1, Zenon DEF DurableInv
  <2>3. \A c \in Present' : c \in Chunks /\ final'[c] # Nil
    BY Zenon DEF Present
  <2>4. Safe' \subseteq Present'
    BY <1>4, <2>1, <2>2, ZenonT(30) DEF Present
  <2>5. \A c \in Safe' : Nil \notin disk'[c]
    BY <1>4, <2>1, <2>2, ZenonT(30)
  <2>6. \A c \in Present' : Nil \notin disk'[c]
    BY <2>1, <2>3, ZenonT(30)
  <2> QED
    BY <1>4, <2>1, <2>4, <2>5, <2>6, ZenonT(30) DEF DurableInv
<1>7. ASSUME UNCHANGED <<final, disk, Safe, crashes, pc, id>> PROVE DurableInv'
  BY <1>7, Zenon DEF DurableInv, Present
<1>8. Restart \/ UNCHANGED vars => UNCHANGED <<final, disk, Safe, crashes, pc, id>>
  BY ZenonT(30) DEF Restart, vars, locals, files, history, Safe
<1> QED
  BY <1>1, <1>2, <1>3, <1>5, <1>6, <1>7, <1>8, DurableCall, ZenonT(30) DEF Next

\* A chunk whose Put was answered ok survives any number of power failures, at
\* any points of any calls, unless one takes its whole shard directory, whose
\* entry in its parent Put does not sync.  It holds where the sync of the shard
\* directory does not fail and no power failure follows a kill: a kill may leave
\* a file whose directory entry was never synced, which the next Put takes for
\* stored.
THEOREM AcksKept == "dirsync" \notin Faults => (Spec /\ KillLast => []AckedPutSurvives)
<1> SUFFICES ASSUME "dirsync" \notin Faults PROVE Spec /\ KillLast => []AckedPutSurvives
  OBVIOUS
<1>1. Init => LockInv /\ DurableInv
  <2> SUFFICES ASSUME Init PROVE LockInv /\ DurableInv
    OBVIOUS
  <2>1. LockInv /\ (\A t \in Threads : pc[t] \notin Renamed) /\ Safe = {}
    BY Zenon DEF Init, LockInv, Critical, Renamed, Safe
  <2>2. \A c \in Present : Nil \notin disk[c]
    BY Zenon DEF Init, Present
  <2> QED
    BY <2>1, <2>2, Zenon DEF DurableInv
<1>2. TypeInv /\ LockInv /\ DurableInv /\ [Next]_vars /\ [Kill => crashes' = MaxCrashes]_vars => DurableInv'
  BY DurableStep, Zenon
<1>3. DurableInv => AckedPutSurvives
  BY Zenon DEF DurableInv, AckedPutSurvives, Safe
<1> QED
  BY <1>1, <1>2, <1>3, TypeInit, TypeStep, LockStep, PTL DEF Spec, KillLast

\* With one crash, be it a kill or a power failure, no acknowledged chunk is
\* lost but with its whole shard directory: this is what the run checks on a
\* small instance.
THEOREM AcksKeptOnce == "dirsync" \notin Faults /\ MaxCrashes <= 1 => (Spec => []AckedPutSurvives)
<1> SUFFICES ASSUME "dirsync" \notin Faults, MaxCrashes <= 1 PROVE Spec => []AckedPutSurvives
  OBVIOUS
<1>1. TypeInv /\ [Next]_vars => [Kill => crashes' = MaxCrashes]_vars
  <2> SUFFICES ASSUME TypeInv, Kill PROVE crashes' = MaxCrashes
    BY Zenon
  <2>1. crashes' = crashes + 1 /\ crashes \in Nat /\ crashes < MaxCrashes /\ MaxCrashes \in Nat
    BY ConstantsOK DEF Kill, Die, TypeInv, RestTypes
  <2> QED
    BY <2>1
<1>2. Spec => KillLast
  BY <1>1, TypeInit, TypeStep, PTL DEF Spec, KillLast
<1>3. Spec /\ KillLast => []AckedPutSurvives
  BY AcksKept, Zenon
<1> QED
  BY <1>2, <1>3, PTL

-----------------------------------------------------------------------------
(* The store implements the contract of IChunkStore                         *)

Quiescent == {"idle", "done"} \cup Effective

\* What the refinement mapping makes of a chunk, and of the call of a thread.
StoredMapped ==
  /\ storedBar = [c \in Chunks |-> storedBar[c]]
  /\ \A c \in Chunks :
       /\ final[c] = Nil <=> storedBar[c] = "absent"
       /\ final[c] # Nil /\ final[c].data = c => storedBar[c] = "good"
       /\ final[c] # Nil /\ final[c].data # c => storedBar[c] = "bad"
CallMapped ==
  /\ phaseBar = [t \in Threads |-> phaseBar[t]]
  /\ fitsBar = [t \in Threads |-> fitsBar[t]]
  /\ retBar = [t \in Threads |-> retBar[t]]
  /\ \A t \in Threads :
       /\ pc[t] = "idle" => phaseBar[t] = "idle"
       /\ pc[t] \in Effective \cup {"done"} => phaseBar[t] = "done"
       /\ pc[t] \notin Quiescent => phaseBar[t] = "called"
       /\ pc[t] \in Quiescent => fitsBar[t] = FALSE
       /\ pc[t] \notin Quiescent => fitsBar[t] = (buf[t] = id[t])
       /\ pc[t] \in Effective => retBar[t] = "ok"
       /\ pc[t] \notin Effective => retBar[t] = ret[t]

\* The mapping, chunk by chunk.
LEMMA StoredMap == StoredMapped /\ StoredMapped'
BY Zenon DEF StoredMapped, storedBar, Present

\* The mapping, thread by thread.
LEMMA CallMap == CallMapped /\ CallMapped'
BY Zenon DEF CallMapped, phaseBar, fitsBar, retBar, Quiescent, Effective

\* A thread that looks the same looks the same through the mapping.
LEMMA ThreadMap ==
  ASSUME NEW u \in Threads, pc'[u] = pc[u], buf'[u] = buf[u], id'[u] = id[u], ret'[u] = ret[u]
  PROVE  phaseBar'[u] = phaseBar[u] /\ fitsBar'[u] = fitsBar[u] /\ retBar'[u] = retBar[u]
<1>1. phaseBar'[u] = phaseBar[u]
  <2>1. CASE pc[u] = "idle"
    BY <2>1, CallMap, Zenon DEF CallMapped
  <2>2. CASE pc[u] \in Effective \cup {"done"}
    BY <2>2, CallMap, Zenon DEF CallMapped
  <2>3. CASE pc[u] \notin Quiescent
    <3>1. pc'[u] \notin Quiescent
      BY <2>3, Zenon
    <3>2. phaseBar[u] = "called"
      BY <2>3, CallMap, Zenon DEF CallMapped
    <3>3. phaseBar'[u] = "called"
      BY <3>1, CallMap, Zenon DEF CallMapped
    <3> QED
      BY <3>2, <3>3, Zenon
  <2> QED
    BY <2>1, <2>2, <2>3, Zenon DEF Quiescent
<1>2. fitsBar'[u] = fitsBar[u]
  BY Zenon DEF fitsBar
<1>3. retBar'[u] = retBar[u]
  BY Zenon DEF retBar
<1> QED
  BY <1>1, <1>2, <1>3, Zenon

\* So do all threads if none changes.
LEMMA ThreadsMap ==
  ASSUME UNCHANGED <<pc, buf, id, ret>>
  PROVE  UNCHANGED <<phaseBar, fitsBar, retBar>>
<1>1. \A u \in Threads : phaseBar'[u] = phaseBar[u] /\ fitsBar'[u] = fitsBar[u] /\ retBar'[u] = retBar[u]
  BY ThreadMap, Zenon
<1> QED
  BY <1>1, CallMap, ZenonT(30) DEF CallMapped

\* All chunks but the one t is at, and all threads but t, look the same.
OthersSame(t) ==
  /\ UNCHANGED <<rotted, op, id>> /\ id[t] \in Chunks
  /\ \A c \in Chunks \ {id[t]} : final'[c] = final[c]
  /\ \A u \in Threads \ {t} : pc'[u] = pc[u] /\ buf'[u] = buf[u] /\ ret'[u] = ret[u]

\* They then look the same through the mapping.
LEMMA OthersMap ==
  ASSUME NEW t \in Threads, OthersSame(t)
  PROVE  /\ \A c \in Chunks \ {id[t]} : storedBar'[c] = storedBar[c]
         /\ \A u \in Threads \ {t} : phaseBar'[u] = phaseBar[u] /\ fitsBar'[u] = fitsBar[u] /\ retBar'[u] = retBar[u]
<1>1. \A c \in Chunks \ {id[t]} : storedBar'[c] = storedBar[c]
  BY StoredMap, ZenonT(60) DEF OthersSame, StoredMapped
<1>2. \A u \in Threads \ {t} : pc'[u] = pc[u] /\ buf'[u] = buf[u] /\ id'[u] = id[u] /\ ret'[u] = ret[u]
  BY Zenon DEF OthersSame
<1> QED
  BY <1>1, <1>2, ThreadMap, Zenon

\* A step in which the call of t is answered is an effect in the contract.
LEMMA EffectMap ==
  ASSUME NEW t \in Threads, OthersSame(t), NEW r, NEW v,
         pc[t] \notin Quiescent, pc'[t] \in Effective \cup {"done"},
         retBar'[t] = r, storedBar'[id[t]] = v
  PROVE  Contract!Effect(t, r, v)
<1>1. phaseBar[t] = "called" /\ phaseBar'[t] = "done" /\ fitsBar'[t] = FALSE
  BY CallMap, Zenon DEF CallMapped, Quiescent
<1>2. phaseBar' = [phaseBar EXCEPT ![t] = "done"]
  BY <1>1, OthersMap, CallMap DEF CallMapped
<1>3. retBar' = [retBar EXCEPT ![t] = r]
  BY OthersMap, CallMap DEF CallMapped
<1>4. storedBar' = [storedBar EXCEPT ![id[t]] = v]
  BY OthersMap, StoredMap DEF StoredMapped, OthersSame
<1>5. fitsBar' = [fitsBar EXCEPT ![t] = FALSE]
  BY <1>1, OthersMap, CallMap DEF CallMapped
<1>6. UNCHANGED <<rotted, op, id>>
  BY Zenon DEF OthersSame
<1> QED
  BY <1>1, <1>2, <1>3, <1>4, <1>5, <1>6, ZenonT(30) DEF Contract!Effect

\* A step of a call that is not its effect changes nothing in the contract.
LEMMA StutterMap ==
  ASSUME NEW t \in Threads, OthersSame(t), final'[id[t]] = final[id[t]],
         \/ pc[t] \notin Quiescent /\ pc'[t] \notin Quiescent /\ UNCHANGED <<buf, ret>>
         \/ pc[t] \in Effective /\ (pc'[t] \in Effective \/ (pc'[t] = "done" /\ ret'[t] = "ok"))
  PROVE  UNCHANGED Contract!vars
<1>1. phaseBar'[t] = phaseBar[t] /\ fitsBar'[t] = fitsBar[t] /\ retBar'[t] = retBar[t]
  <2>1. CASE pc[t] \notin Quiescent /\ pc'[t] \notin Quiescent /\ UNCHANGED <<buf, ret>>
    BY <2>1, CallMap, ZenonT(60) DEF CallMapped, Quiescent, OthersSame
  <2>2. CASE pc[t] \in Effective /\ (pc'[t] \in Effective \/ (pc'[t] = "done" /\ ret'[t] = "ok"))
    <3>1. phaseBar[t] = "done" /\ fitsBar[t] = FALSE /\ retBar[t] = "ok"
      BY <2>2, CallMap, Zenon DEF CallMapped, Quiescent
    <3>2. phaseBar'[t] = "done" /\ fitsBar'[t] = FALSE
      BY <2>2, CallMap, Zenon DEF CallMapped, Quiescent
    <3>3. retBar'[t] = "ok"
      BY <2>2, CallMap, Zenon DEF CallMapped, Effective
    <3> QED
      BY <3>1, <3>2, <3>3, Zenon
  <2> QED
    BY <2>1, <2>2, Zenon
<1>2. storedBar'[id[t]] = storedBar[id[t]]
  BY StoredMap, ZenonT(60) DEF StoredMapped, OthersSame
<1>3. phaseBar' = phaseBar
  BY <1>1, OthersMap, CallMap DEF CallMapped
<1>4. retBar' = retBar
  BY <1>1, OthersMap, CallMap DEF CallMapped
<1>5. fitsBar' = fitsBar
  BY <1>1, OthersMap, CallMap DEF CallMapped
<1>6. storedBar' = storedBar
  BY <1>2, OthersMap, StoredMap DEF StoredMapped, OthersSame
<1>7. UNCHANGED <<rotted, op, id>>
  BY Zenon DEF OthersSame
<1> QED
  BY <1>3, <1>4, <1>5, <1>6, <1>7, ZenonT(30) DEF Contract!vars

-----------------------------------------------------------------------------
\* Where a thread is tells which call it makes.
OpInv ==
  \A t \in Threads :
    /\ pc[t] \in Putting \cup {"put_hash"} => op[t] = "put"
    /\ pc[t] \in {"get_lock", "get_stat", "get_read"} => op[t] = "get"
    /\ pc[t] \in {"del_lock", "del_stat", "del_remove", "del_count", "del_bytes"} => op[t] = "delete"
    /\ pc[t] \in {"exists_lock", "exists_stat"} => op[t] = "exists"

\* No call runs into another's code.
LEMMA OpStep == TypeInv /\ OpInv /\ [Next]_vars => OpInv'
<1> SUFFICES ASSUME TypeInv, OpInv, [Next]_vars PROVE OpInv'
  OBVIOUS
<1>1. ASSUME NEW t \in Threads, Step(t) PROVE OpInv'
  <2> DEFINE Own(u, p) ==
        /\ p \in Putting \cup {"put_hash"} => op[u] = "put"
        /\ p \in {"get_lock", "get_stat", "get_read"} => op[u] = "get"
        /\ p \in {"del_lock", "del_stat", "del_remove", "del_count", "del_bytes"} => op[u] = "delete"
        /\ p \in {"exists_lock", "exists_stat"} => op[u] = "exists"
  <2>1. op' = op /\ \A u \in Threads \ {t} : pc'[u] = pc[u]
    BY <1>1, StepFrame, Zenon
  <2>2. \A u \in Threads : Own(u, pc[u])
    BY Zenon DEF OpInv
  <2>3. Own(t, pc'[t])
    <3>0. ASSUME NEW r, Finish(t, r) PROVE pc'[t] = "done"
      BY <3>0, Zenon DEF Finish, TypeInv, CallTypes
    <3>1. CASE pc'[t] = "done"
      BY <3>1, Zenon DEF Putting
    <3>2. CASE PutHash(t) \/ PutLock(t) \/ PutRelock(t) \/ PutStat(t) \/ PutOpen(t) \/ PutWrite(t) \/ PutRename(t)
      BY <2>2, <3>0, <3>1, <3>2, ZenonT(60) DEF PutHash, PutLock, PutRelock, PutStat, PutOpen, PutWrite, PutRename, RemoveTempAndFail, Acquire, Goto, TypeInv, CallTypes, Putting
    <3>3. CASE PutDirSync(t) \/ PutCount(t) \/ PutBytes(t)
      BY <2>2, <3>0, <3>1, <3>3, ZenonT(30) DEF PutDirSync, PutCount, PutBytes, Goto, TypeInv, CallTypes, Putting
    <3>4. CASE GetLock(t) \/ GetStat(t) \/ GetRead(t)
      BY <2>2, <3>0, <3>1, <3>4, ZenonT(30) DEF GetLock, GetStat, GetRead, Acquire, Goto, TypeInv, CallTypes, Putting
    <3>5. CASE DelLock(t) \/ DelStat(t) \/ DelRemove(t) \/ DelCount(t) \/ DelBytes(t)
      BY <2>2, <3>0, <3>1, <3>5, ZenonT(60) DEF DelLock, DelStat, DelRemove, DelCount, DelBytes, Acquire, Goto, TypeInv, CallTypes, Putting
    <3>6. CASE ExistsLock(t) \/ ExistsStat(t)
      BY <2>2, <3>0, <3>1, <3>6, ZenonT(30) DEF ExistsLock, ExistsStat, Acquire, Goto, TypeInv, CallTypes, Putting
    <3> HIDE DEF Own
    <3> QED
      BY <1>1, <3>2, <3>3, <3>4, <3>5, <3>6, ZenonT(30) DEF Step
  <2>4. \A u \in Threads : Own(u, pc'[u])
    <3> HIDE DEF Own
    <3> QED
      BY <2>1, <2>2, <2>3, Zenon
  <2> QED
    BY <2>1, <2>4, Zenon DEF OpInv
<1>2. ASSUME NEW t \in Threads, NEW c \in Chunks, NEW o \in Ops, NEW d, Begin(t, o, c, d) PROVE OpInv'
  <2>1. \A u \in Threads \ {t} : pc'[u] = pc[u] /\ op'[u] = op[u]
    BY <1>2, Zenon DEF Begin, TypeInv, CallTypes
  <2>2. op'[t] = o
    BY <1>2, Zenon DEF Begin, TypeInv, CallTypes
  <2>3. CASE o = "put"
    <3>1. pc'[t] = "put_hash"
      BY <1>2, <2>3, Zenon DEF Begin, TypeInv, CallTypes
    <3> QED
      BY <2>1, <2>2, <2>3, <3>1, Zenon DEF OpInv
  <2>4. CASE o = "delete"
    <3>1. pc'[t] = "del_lock"
      BY <1>2, <2>4, Zenon DEF Begin, TypeInv, CallTypes
    <3> QED
      BY <2>1, <2>2, <2>4, <3>1, ZenonT(30) DEF OpInv, Putting
  <2>5. CASE o = "exists"
    <3>1. pc'[t] = "exists_lock"
      BY <1>2, <2>5, Zenon DEF Begin, TypeInv, CallTypes
    <3> QED
      BY <2>1, <2>2, <2>5, <3>1, ZenonT(30) DEF OpInv, Putting
  <2>6. CASE o = "get"
    <3>1. pc'[t] = "get_lock"
      BY <1>2, <2>6, Zenon DEF Begin, TypeInv, CallTypes
    <3> QED
      BY <2>1, <2>2, <2>6, <3>1, ZenonT(30) DEF OpInv, Putting
  <2> QED
    BY <2>3, <2>4, <2>5, <2>6, ConstantsOK, Zenon
<1>3. ASSUME NEW t \in Threads, Return(t) PROVE OpInv'
  <2>1. \A u \in Threads \ {t} : pc'[u] = pc[u] /\ op'[u] = op[u]
    BY <1>3, Zenon DEF Return, Goto, TypeInv, CallTypes
  <2>2. pc'[t] = "idle"
    BY <1>3, Zenon DEF Return, Goto, TypeInv, CallTypes
  <2> QED
    BY <2>1, <2>2, Zenon DEF OpInv, Putting
<1>4. CASE Kill \/ PowerLoss
  BY <1>4, ZenonT(30) DEF Kill, PowerLoss, Die, OpInv, Putting
<1>5. (\E c \in Chunks : Rot(c)) \/ Restart \/ UNCHANGED vars => UNCHANGED <<pc, op>>
  BY Zenon DEF Rot, Restart, vars, locals
<1>6. ASSUME UNCHANGED <<pc, op>> PROVE OpInv'
  BY <1>6, Zenon DEF OpInv
<1>7. \A t, o, c, d : Begin(t, o, c, d) => o \in Ops
  BY Zenon DEF Begin
<1> QED
  BY <1>1, <1>2, <1>3, <1>4, <1>5, <1>6, <1>7, ZenonT(30) DEF Next

-----------------------------------------------------------------------------
\* What the proof assumes of the file system and of the build: stat does not
\* fail, and locking a mutex twice does not throw.
Dependable == "stat" \notin Faults /\ "throws" \notin RelockOutcomes

\* A step of a call is a step of the contract or changes nothing there.
LEMMA CallRefines ==
  ASSUME Dependable, TypeInv, PresenceInv, OpInv, NEW t \in Threads, Step(t)
  PROVE  Contract!Next \/ UNCHANGED Contract!vars
<1> DEFINE i == id[t]
<1> HIDE DEF i
<1>1. /\ pc[t] # "idle" /\ UNCHANGED <<rotted, op, id>> /\ i \in Chunks
      /\ \A u \in Threads \ {t} : pc'[u] = pc[u] /\ buf'[u] = buf[u] /\ ret'[u] = ret[u]
  BY StepFrame, Zenon DEF TypeInv, LocalsInv, i
<1>2. ASSUME \A c \in Chunks \ {i} : final'[c] = final[c] PROVE OthersSame(t)
  BY <1>1, <1>2, Zenon DEF OthersSame, i
<1>3. ASSUME NEW r, Finish(t, r) PROVE pc'[t] = "done" /\ ret'[t] = r /\ retBar'[t] = r
  <2>1. pc'[t] = "done" /\ ret'[t] = r
    BY <1>3, Zenon DEF Finish, TypeInv, CallTypes
  <2>2. pc'[t] \notin Effective
    BY <2>1, Zenon DEF Effective
  <2> QED
    BY <2>1, <2>2, CallMap, Zenon DEF CallMapped
<1>4. \A c \in Chunks : final'[c] = final[c] => storedBar'[c] = storedBar[c]
  BY StoredMap, Zenon DEF StoredMapped
\* A return that changes no file answers the call in the contract.
<1>5. ASSUME NEW r, Finish(t, r), UNCHANGED final, pc[t] \notin Quiescent
      PROVE  Contract!Effect(t, r, storedBar[i])
  BY <1>1, <1>2, <1>3, <1>4, <1>5, EffectMap, ZenonT(30) DEF i
\* A failure is the contract's.
<1>6. ASSUME Finish(t, "IoError"), UNCHANGED final, pc[t] \notin Quiescent, op[t] # "exists"
      PROVE  Contract!Next
  BY <1>5, <1>6, Zenon DEF Contract!Next, Contract!Fail, i
\* A step inside the call changes nothing.
<1>7. ASSUME UNCHANGED <<final, buf, ret>>, pc[t] \notin Quiescent, pc'[t] \notin Quiescent
      PROVE  UNCHANGED Contract!vars
  BY <1>2, <1>7, StutterMap, Zenon
<1>8. \A p \in {"put_hash", "put_lock", "put_exists", "stuck", "put_stat", "put_open", "put_write", "put_rename",
                "get_lock", "get_stat", "get_read", "del_lock", "del_stat", "del_remove", "exists_lock", "exists_stat"} :
        p \notin Quiescent
  BY Zenon DEF Quiescent, Effective
<1>9. pc[t] \notin Quiescent => fitsBar[t] = (buf[t] = i)
  BY CallMap, Zenon DEF CallMapped, i
<1>10. (pc[t] \in Putting \cup {"put_hash"} => op[t] = "put") /\ (pc[t] \in Putting => buf[t] = i)
  BY Zenon DEF OpInv, TypeInv, LocalsInv, i
<1>11. final[i] = Nil <=> storedBar[i] = "absent"
  BY <1>1, StoredMap, Zenon DEF StoredMapped
<1>12. i \in Present <=> final[i] # Nil
  BY <1>1, Zenon DEF Present
<1>13. CASE PutHash(t)
  <2>1. pc[t] = "put_hash" /\ final' = final /\ op[t] = "put"
    BY <1>10, <1>13, Zenon DEF PutHash, files
  <2>2. CASE buf[t] = i
    <3>1. UNCHANGED <<buf, ret>> /\ pc'[t] = "put_lock"
      BY <1>13, <2>2, Zenon DEF PutHash, TypeInv, CallTypes, i
    <3> QED
      BY <1>7, <1>8, <2>1, <3>1, Zenon
  <2>3. CASE buf[t] # i
    <3>1. pc'[t] = "done" /\ ret'[t] = "ChecksumMismatch"
      BY <1>13, <2>3, Zenon DEF PutHash, TypeInv, CallTypes, i
    <3>2. retBar'[t] = "ChecksumMismatch"
      BY <3>1, CallMap, Zenon DEF CallMapped, Effective
    <3>3. Contract!Effect(t, "ChecksumMismatch", storedBar[i])
      BY <1>1, <1>2, <1>4, <1>8, <2>1, <3>1, <3>2, EffectMap, ZenonT(30) DEF i
    <3>4. ~fitsBar[t]
      BY <1>8, <1>9, <2>1, <2>3, Zenon
    <3> QED
      BY <2>1, <3>3, <3>4, Zenon DEF Contract!Next, Contract!Put, i
  <2> QED
    BY <2>2, <2>3, Zenon
<1>14. CASE PutLock(t) \/ GetLock(t) \/ DelLock(t) \/ ExistsLock(t)
  <2>1. /\ pc[t] \in {"put_lock", "get_lock", "del_lock", "exists_lock"} /\ UNCHANGED <<final, buf, ret>>
        /\ pc'[t] \in {"put_exists", "get_stat", "del_stat", "exists_stat"}
    BY <1>14, Zenon DEF PutLock, GetLock, DelLock, ExistsLock, Acquire, Goto, TypeInv, CallTypes, locals, files
  <2> QED
    BY <1>7, <1>8, <2>1, Zenon
<1>15. CASE PutRelock(t)
  <2>1. pc[t] = "put_exists" /\ UNCHANGED <<final, buf, ret>> /\ pc'[t] \in {"put_stat", "stuck"}
    BY <1>15, Zenon DEF Dependable, PutRelock, TypeInv, CallTypes, files
  <2> QED
    BY <1>7, <1>8, <2>1, Zenon
<1>16. CASE PutStat(t)
  <2>1. pc[t] = "put_stat" /\ final' = final /\ op[t] = "put" /\ buf[t] = i
    BY <1>10, <1>16, Zenon DEF PutStat, files, Putting
  <2>2. CASE i \in Present /\ Finish(t, "ok")
    <3>1. Contract!Effect(t, "ok", storedBar[i])
      BY <1>5, <1>8, <2>1, <2>2, Zenon
    <3>2. fitsBar[t] /\ storedBar[i] # "absent"
      BY <1>8, <1>9, <1>11, <1>12, <2>1, <2>2, ZenonT(30)
    <3>3. (IF storedBar[i] = "absent" THEN "good" ELSE storedBar[i]) = storedBar[i]
      BY <3>2, Zenon
    <3> QED
      BY <2>1, <3>1, <3>2, <3>3, ZenonT(30) DEF Contract!Next, Contract!Put, i
  <2>3. CASE UNCHANGED <<buf, ret>> /\ pc' = [pc EXCEPT ![t] = "put_open"]
    <3>1. pc'[t] = "put_open"
      BY <2>3, Zenon DEF TypeInv, CallTypes
    <3> QED
      BY <1>7, <1>8, <2>1, <2>3, <3>1, ZenonT(30)
  <2> QED
    BY <1>16, <2>2, <2>3, Zenon DEF PutStat, i
<1>17. CASE PutOpen(t) \/ PutWrite(t)
  <2>1. pc[t] \in {"put_open", "put_write"} /\ final' = final /\ op[t] = "put"
    BY <1>10, <1>17, Zenon DEF PutOpen, PutWrite, Putting
  <2>2. CASE Finish(t, "IoError")
    BY <1>6, <1>8, <2>1, <2>2, Zenon
  <2>3. CASE ~Finish(t, "IoError")
    <3>1. UNCHANGED <<buf, ret>> /\ pc'[t] \in {"put_write", "put_rename"}
      BY <1>17, <2>3, Zenon DEF PutOpen, PutWrite, RemoveTempAndFail, TypeInv, CallTypes
    <3> QED
      BY <1>7, <1>8, <2>1, <3>1, Zenon
  <2> QED
    BY <2>2, <2>3, Zenon
<1>18. CASE PutRename(t)
  <2>1. pc[t] = "put_rename" /\ op[t] = "put" /\ buf[t] = i
    BY <1>10, <1>18, Zenon DEF PutRename, Putting
  <2>2. CASE RemoveTempAndFail(t) /\ UNCHANGED <<final, disk>>
    BY <1>6, <1>8, <2>1, <2>2, Zenon DEF RemoveTempAndFail
  <2>3. CASE /\ pc' = [pc EXCEPT ![t] = "put_dirsync"]
             /\ final' = [final EXCEPT ![i] = [data |-> tmp[t].data, size |-> tmp[t].size]]
    <3>1. pc'[t] = "put_dirsync" /\ pc'[t] \in Effective
      BY <2>3, Zenon DEF TypeInv, CallTypes, Effective
    <3>2. /\ final'[i] = [data |-> tmp[t].data, size |-> tmp[t].size]
          /\ \A c \in Chunks \ {i} : final'[c] = final[c]
      BY <1>1, <2>3, Zenon DEF TypeInv, FileTypes
    <3>3. tmp[t] \in TempFile /\ tmp[t].data = i
      BY <2>1, Zenon DEF TypeInv, FileTypes, LocalsInv, i
    <3>4. final'[i] \in File /\ final'[i].data = i
      BY <3>2, <3>3 DEF TempFile, File, Data
    <3>5. final'[i] # Nil
      BY <3>4, ConstantsOK, Zenon DEF File, Data
    <3>6. storedBar'[i] = "good"
      BY <1>1, <3>4, <3>5, StoredMap, ZenonT(30) DEF StoredMapped
    <3>7. storedBar[i] = "absent" /\ fitsBar[t]
      BY <1>8, <1>9, <1>11, <2>1, Zenon DEF PresenceInv, i
    <3>8. retBar'[t] = "ok"
      BY <3>1, CallMap, ZenonT(30) DEF CallMapped
    <3>9. Contract!Effect(t, "ok", "good")
      BY <1>2, <1>8, <2>1, <3>1, <3>2, <3>6, <3>8, EffectMap, ZenonT(30) DEF i
    <3>10. (IF storedBar[i] = "absent" THEN "good" ELSE storedBar[i]) = "good"
      BY <3>7, ZenonT(30)
    <3> QED
      BY <2>1, <3>7, <3>9, <3>10, ZenonT(30) DEF Contract!Next, Contract!Put, i
  <2> QED
    BY <1>18, <2>2, <2>3, ZenonT(30) DEF PutRename, i
<1>19. CASE PutDirSync(t) \/ PutCount(t) \/ DelCount(t)
  <2>1. final' = final /\ pc[t] \in Effective /\ pc'[t] \in Effective
    BY <1>19, Zenon DEF PutDirSync, PutCount, DelCount, Goto, TypeInv, CallTypes, files, Effective
  <2> QED
    BY <1>2, <2>1, StutterMap, Zenon
<1>20. CASE PutBytes(t) \/ DelBytes(t)
  <2>1. final' = final /\ pc[t] \in Effective /\ Finish(t, "ok")
    BY <1>20, Zenon DEF PutBytes, DelBytes, files, Effective
  <2>2. pc'[t] = "done" /\ ret'[t] = "ok"
    BY <1>3, <2>1, Zenon
  <2> QED
    BY <1>2, <2>1, <2>2, StutterMap, ZenonT(30)
<1>21. CASE GetStat(t)
  <2>1. pc[t] = "get_stat" /\ final' = final /\ op[t] = "get"
    BY <1>21, Zenon DEF GetStat, files, OpInv
  <2>2. CASE UNCHANGED <<ret, lock, buf, sz>> /\ pc' = [pc EXCEPT ![t] = "get_read"]
    <3>1. pc'[t] = "get_read"
      BY <2>2, Zenon DEF TypeInv, CallTypes
    <3> QED
      BY <1>7, <1>8, <2>1, <2>2, <3>1, ZenonT(30)
  <2>3. CASE i \notin Present /\ Finish(t, "NotFound")
    <3>1. Contract!Effect(t, "NotFound", storedBar[i])
      BY <1>5, <1>8, <2>1, <2>3, ZenonT(30)
    <3>2. storedBar[i] = "absent"
      BY <1>11, <1>12, <2>3, ZenonT(30)
    <3> QED
      BY <2>1, <3>1, <3>2, Zenon DEF Contract!Next, Contract!Get, i
  <2> QED
    BY <1>21, <2>2, <2>3, ZenonT(30) DEF GetStat, Dependable, i
<1>22. CASE GetRead(t)
  <2>1. pc[t] = "get_read" /\ final' = final /\ op[t] = "get"
    BY <1>22, Zenon DEF GetRead, files, OpInv
  <2>2. CASE Finish(t, "IoError")
    BY <1>6, <1>8, <2>1, <2>2, ZenonT(30)
  <2>3. CASE i \in Present /\ Finish(t, ReadResult(t))
    <3>1. Contract!Effect(t, ReadResult(t), storedBar[i])
      BY <1>5, <1>8, <2>1, <2>3, Zenon
    <3>2. CASE final[i].data = i
      <4>1. ReadResult(t) = "ok" /\ storedBar[i] = "good"
        BY <1>1, <1>12, <2>3, <3>2, StoredMap, Zenon DEF StoredMapped, ReadResult, i
      <4> QED
        BY <2>1, <3>1, <4>1, Zenon DEF Contract!Next, Contract!Get, i
    <3>3. CASE final[i].data # i
      <4>1. ReadResult(t) = "CorruptionDetected" /\ storedBar[i] = "bad"
        BY <1>1, <1>12, <2>3, <3>3, StoredMap, ZenonT(30) DEF StoredMapped, ReadResult, i
      <4> QED
        BY <2>1, <3>1, <4>1, Zenon DEF Contract!Next, Contract!Get, i
    <3> QED
      BY <3>2, <3>3, Zenon
  <2> QED
    BY <1>22, <2>2, <2>3, Zenon DEF GetRead, i
<1>23. CASE DelStat(t)
  <2>1. pc[t] = "del_stat" /\ final' = final /\ op[t] = "delete"
    BY <1>23, Zenon DEF DelStat, files, OpInv
  <2>2. CASE UNCHANGED <<ret, lock, buf>> /\ pc' = [pc EXCEPT ![t] = "del_remove"]
    <3>1. pc'[t] = "del_remove"
      BY <2>2, Zenon DEF TypeInv, CallTypes
    <3> QED
      BY <1>7, <1>8, <2>1, <2>2, <3>1, ZenonT(30)
  <2>3. CASE i \notin Present /\ Finish(t, "ok")
    <3>1. Contract!Effect(t, "ok", storedBar[i])
      BY <1>5, <1>8, <2>1, <2>3, ZenonT(30)
    <3>2. storedBar[i] = "absent"
      BY <1>11, <1>12, <2>3, Zenon
    <3> QED
      BY <2>1, <3>1, <3>2, ZenonT(30) DEF Contract!Next, Contract!Delete
  <2> QED
    BY <1>23, <2>2, <2>3, ZenonT(30) DEF DelStat, Dependable, i
<1>24. CASE DelRemove(t)
  <2>1. pc[t] = "del_remove" /\ op[t] = "delete"
    BY <1>24, Zenon DEF DelRemove, OpInv
  <2>2. CASE Finish(t, "IoError") /\ UNCHANGED final
    BY <1>6, <1>8, <2>1, <2>2, ZenonT(30)
  <2>3. CASE final' = [final EXCEPT ![i] = Nil] /\ pc' = [pc EXCEPT ![t] = "del_count"]
    <3>1. pc'[t] = "del_count" /\ pc'[t] \in Effective
      BY <2>3, Zenon DEF TypeInv, CallTypes, Effective
    <3>2. final'[i] = Nil /\ \A c \in Chunks \ {i} : final'[c] = final[c]
      BY <1>1, <2>3, Zenon DEF TypeInv, FileTypes
    <3>3. storedBar'[i] = "absent"
      BY <1>1, <3>2, StoredMap, Zenon DEF StoredMapped
    <3>4. retBar'[t] = "ok"
      BY <3>1, CallMap, ZenonT(30) DEF CallMapped
    <3>5. Contract!Effect(t, "ok", "absent")
      BY <1>2, <1>8, <2>1, <3>1, <3>2, <3>3, <3>4, EffectMap, Zenon DEF i
    <3> QED
      BY <2>1, <3>5, Zenon DEF Contract!Next, Contract!Delete
  <2> QED
    BY <1>24, <2>2, <2>3, ZenonT(30) DEF DelRemove, i
<1>25. CASE ExistsStat(t)
  <2>1. pc[t] = "exists_stat" /\ final' = final /\ op[t] = "exists"
    BY <1>25, Zenon DEF ExistsStat, files, OpInv
  <2>2. CASE i \in Present /\ Finish(t, "true")
    <3>1. Contract!Effect(t, "true", storedBar[i])
      BY <1>5, <1>8, <2>1, <2>2, ZenonT(30)
    <3>2. storedBar[i] # "absent"
      BY <1>11, <1>12, <2>2, Zenon
    <3>3. (IF storedBar[i] = "absent" THEN "false" ELSE "true") = "true"
      BY <3>2, Zenon
    <3> QED
      BY <2>1, <3>1, <3>3, Zenon DEF Contract!Next, Contract!Exists, i
  <2>3. CASE i \notin Present /\ Finish(t, "false")
    <3>1. Contract!Effect(t, "false", storedBar[i])
      BY <1>5, <1>8, <2>1, <2>3, ZenonT(30)
    <3>2. storedBar[i] = "absent"
      BY <1>11, <1>12, <2>3, Zenon
    <3>3. (IF storedBar[i] = "absent" THEN "false" ELSE "true") = "false"
      BY <3>2, Zenon
    <3> QED
      BY <2>1, <3>1, <3>3, ZenonT(30) DEF Contract!Next, Contract!Exists, i
  <2> QED
    BY <1>25, <2>2, <2>3, Zenon DEF ExistsStat, Dependable, i
<1> QED
  BY <1>13, <1>14, <1>15, <1>16, <1>17, <1>18, <1>19, <1>20, <1>21, <1>22, <1>23, <1>24, <1>25, ZenonT(60) DEF Step

\* Every step of the store is a step of the contract or changes nothing there.
LEMMA NextRefines ==
  ASSUME Dependable, TypeInv, PresenceInv, OpInv, WholeInv, [Next]_vars
  PROVE  [Contract!Next]_(Contract!vars)
<1>1. ASSUME NEW t \in Threads, NEW c \in Chunks, NEW o, NEW d, Begin(t, o, c, d) PROVE Contract!Next
  <2>1. /\ pc[t] = "idle" /\ pc'[t] \in {"put_hash", "del_lock", "exists_lock", "get_lock"} /\ o \in Ops
        /\ UNCHANGED <<final, rotted, ret>>
        /\ op' = [op EXCEPT ![t] = o] /\ id' = [id EXCEPT ![t] = c]
        /\ \A u \in Threads \ {t} : pc'[u] = pc[u] /\ buf'[u] = buf[u] /\ id'[u] = id[u]
    BY <1>1, Zenon DEF Begin, TypeInv, CallTypes, files, history
  <2>2. phaseBar[t] = "idle" /\ phaseBar'[t] = "called"
    BY <2>1, CallMap, Zenon DEF CallMapped, Quiescent, Effective
  <2>3. retBar'[t] = retBar[t]
    BY <2>1, CallMap, Zenon DEF CallMapped, Effective
  <2>4. \A u \in Threads \ {t} : phaseBar'[u] = phaseBar[u] /\ fitsBar'[u] = fitsBar[u] /\ retBar'[u] = retBar[u]
    BY <2>1, ThreadMap, Zenon
  <2>5. storedBar' = storedBar
    BY <2>1, Zenon DEF storedBar, Present
  <2>6. phaseBar' = [phaseBar EXCEPT ![t] = "called"]
    BY <2>2, <2>4, CallMap, Zenon DEF CallMapped
  <2>7. retBar' = retBar
    BY <2>3, <2>4, CallMap DEF CallMapped
  <2>8. PICK f \in BOOLEAN : fitsBar'[t] = f
    BY Zenon DEF fitsBar
  <2>9. fitsBar' = [fitsBar EXCEPT ![t] = f]
    BY <2>4, <2>8, CallMap, ZenonT(30) DEF CallMapped
  <2>10. Contract!Call(t, o, c, f)
    BY <2>1, <2>2, <2>5, <2>6, <2>7, <2>9, ZenonT(60) DEF Contract!Call
  <2> QED
    BY <2>1, <2>10, ZenonT(30) DEF Contract!Next
<1>2. ASSUME NEW t \in Threads, Return(t) PROVE Contract!Next
  <2>1. /\ pc[t] = "done" /\ pc'[t] = "idle" /\ UNCHANGED <<final, rotted, buf>>
        /\ op' = [op EXCEPT ![t] = Nil] /\ id' = [id EXCEPT ![t] = Nil] /\ ret'[t] = Nil
        /\ \A u \in Threads \ {t} : pc'[u] = pc[u] /\ id'[u] = id[u] /\ ret'[u] = ret[u]
    BY <1>2, Zenon DEF Return, Goto, TypeInv, CallTypes, files, history
  <2>2. phaseBar[t] = "done" /\ phaseBar'[t] = "idle" /\ fitsBar'[t] = fitsBar[t]
    BY <2>1, CallMap, ZenonT(30) DEF CallMapped, Quiescent
  <2>3. retBar'[t] = Nil
    BY <2>1, CallMap, Zenon DEF CallMapped, Effective
  <2>4. \A u \in Threads \ {t} : phaseBar'[u] = phaseBar[u] /\ fitsBar'[u] = fitsBar[u] /\ retBar'[u] = retBar[u]
    BY <2>1, ThreadMap, Zenon
  <2>5. storedBar' = storedBar
    BY <2>1, ZenonT(30) DEF storedBar, Present
  <2>6. phaseBar' = [phaseBar EXCEPT ![t] = "idle"]
    BY <2>2, <2>4, CallMap, ZenonT(30) DEF CallMapped
  <2>7. retBar' = [retBar EXCEPT ![t] = Nil]
    BY <2>3, <2>4, CallMap, Zenon DEF CallMapped
  <2>8. fitsBar' = fitsBar
    BY <2>2, <2>4, CallMap DEF CallMapped
  <2>9. Contract!Return(t)
    BY <2>1, <2>2, <2>5, <2>6, <2>7, <2>8, ZenonT(60) DEF Contract!Return
  <2> QED
    BY <2>9, Zenon DEF Contract!Next
<1>3. ASSUME NEW c \in Chunks, Rot(c) PROVE Contract!Next
  <2>1. final[c] # Nil /\ final[c] \in File
    BY <1>3, Zenon DEF Rot, Present, TypeInv, FileTypes
  <2>2. /\ final' = [final EXCEPT ![c] = [final[c] EXCEPT !.data = Garbage]]
        /\ rotted' = rotted \cup {c} /\ UNCHANGED <<pc, op, id, buf, ret>>
    BY <1>3, <2>1, Zenon DEF Rot, locals
  <2>3. /\ final'[c] = [final[c] EXCEPT !.data = Garbage]
        /\ \A x \in Chunks \ {c} : final'[x] = final[x]
    BY <2>2, Zenon DEF TypeInv, FileTypes
  <2>4. final'[c] \in File /\ final'[c].data = Garbage
    BY <2>1, <2>3, Zenon DEF File, Data
  <2>5. final'[c] # Nil /\ final'[c].data # c
    BY <2>4, ConstantsOK, Zenon DEF File, Data
  <2>6. storedBar[c] # "absent" /\ storedBar'[c] = "bad"
    BY <2>1, <2>5, StoredMap, Zenon DEF StoredMapped
  <2>7. \A x \in Chunks \ {c} : storedBar'[x] = storedBar[x]
    BY <2>3, StoredMap, ZenonT(60) DEF StoredMapped
  <2>8. storedBar' = [storedBar EXCEPT ![c] = "bad"]
    BY <2>6, <2>7, StoredMap, ZenonT(30) DEF StoredMapped
  <2>9. UNCHANGED <<phaseBar, op, id, fitsBar, retBar>>
    BY <2>2, ThreadsMap, Zenon
  <2>10. Contract!Rot(c)
    BY <2>2, <2>6, <2>8, <2>9, Zenon DEF Contract!Rot
  <2> QED
    BY <2>10, Zenon DEF Contract!Next
<1>4. CASE Kill \/ PowerLoss
  <2>1. Die /\ \A c \in Chunks : final'[c] \in disk[c] \cup {final[c], Nil}
    BY <1>4, Zenon DEF Kill, PowerLoss
  <2>2. /\ op' = [t \in Threads |-> Nil] /\ id' = [t \in Threads |-> Nil] /\ rotted' = rotted
        /\ \A t \in Threads : pc'[t] = "idle" /\ ret'[t] = Nil
    BY <2>1, Zenon DEF Die
  <2>3. \A t \in Threads : phaseBar'[t] = "idle" /\ fitsBar'[t] = FALSE
    BY <2>2, CallMap, Zenon DEF CallMapped, Quiescent
  <2>4. \A t \in Threads : retBar'[t] = Nil
    BY <2>2, CallMap, ZenonT(30) DEF CallMapped, Effective
  <2>5. phaseBar' = [t \in Threads |-> "idle"] /\ fitsBar' = [t \in Threads |-> FALSE]
    BY <2>3, CallMap, Zenon DEF CallMapped
  <2>6. retBar' = [t \in Threads |-> Nil]
    BY <2>4, CallMap, Zenon DEF CallMapped
  <2>7. storedBar' \in [Chunks -> {"absent", "good", "bad"}]
    BY StoredMap, Zenon DEF StoredMapped
  <2>8. \A c \in Chunks : storedBar'[c] = "bad" => c \in rotted
    <3> SUFFICES ASSUME NEW c \in Chunks, c \notin rotted PROVE storedBar'[c] # "bad"
      BY Zenon
    <3>1. final'[c] # Nil => final'[c].data = c
      BY <2>1, Zenon DEF WholeInv
    <3>2. storedBar'[c] \in {"absent", "good"}
      BY <3>1, StoredMap, Zenon DEF StoredMapped
    <3> QED
      BY <3>2, Zenon
  <2>9. Contract!Crash
    BY <2>2, <2>5, <2>6, <2>7, <2>8, Zenon DEF Contract!Crash
  <2> QED
    BY <2>9, Zenon DEF Contract!Next
<1>5. CASE Restart \/ UNCHANGED vars
  <2>1. UNCHANGED <<final, rotted, pc, op, id, buf, ret>>
    BY <1>5, Zenon DEF Restart, vars, locals, files, history
  <2>2. UNCHANGED <<storedBar, phaseBar, fitsBar, retBar>>
    BY <2>1, ThreadsMap, Zenon DEF storedBar, Present
  <2> QED
    BY <2>1, <2>2, Zenon DEF Contract!vars
<1> QED
  BY <1>1, <1>2, <1>3, <1>4, <1>5, CallRefines, Zenon DEF Next

\* The constructor's state is an initial state of the contract.
LEMMA InitRefines == Init => Contract!Init
<1> SUFFICES ASSUME Init PROVE Contract!Init
  OBVIOUS
<1>1. \A t \in Threads : pc[t] = "idle" /\ ret[t] = Nil
  BY Zenon DEF Init
<1>2. \A t \in Threads : phaseBar[t] = "idle" /\ fitsBar[t] = FALSE
  BY <1>1, CallMap, Zenon DEF CallMapped, Quiescent
<1>3. \A t \in Threads : retBar[t] = Nil
  BY <1>1, CallMap, ZenonT(30) DEF CallMapped, Effective
<1>4. phaseBar = [t \in Threads |-> "idle"] /\ fitsBar = [t \in Threads |-> FALSE]
  BY <1>2, CallMap, Zenon DEF CallMapped
<1>5. retBar = [t \in Threads |-> Nil]
  BY <1>3, CallMap, Zenon DEF CallMapped
<1>6. \A c \in Chunks : final[c] # Nil => final[c].data = c
  BY DEF Init
<1>7. storedBar \in [Chunks -> {"absent", "good"}]
  BY <1>6, StoredMap, ZenonT(30) DEF StoredMapped
<1> QED
  BY <1>4, <1>5, <1>7, ZenonT(30) DEF Init, Contract!Init

\* For any number of threads, chunks and stripes and through all failures,
\* kills, power failures and media errors, what callers observe of the store is
\* what the atomic contract of IChunkStore allows, if stat does not fail and
\* locking a mutex twice does not throw.
THEOREM StoreRefines == Dependable => (Spec => ImplementsContract)
<1> SUFFICES ASSUME Dependable PROVE Spec => ImplementsContract
  OBVIOUS
<1>1. Init => LockInv /\ PresenceInv /\ OpInv
  BY ZenonT(60) DEF Init, LockInv, Critical, PresenceInv, OpInv, Putting
<1>2. Init => WholeInv
  BY ConstantsOK DEF Init, WholeInv
<1>3. TypeInv /\ LockInv /\ PresenceInv /\ [Next]_vars => PresenceInv'
  BY PresenceStep, Zenon DEF Dependable
<1>4. TypeInv /\ PresenceInv /\ OpInv /\ WholeInv /\ [Next]_vars => [Contract!Next]_(Contract!vars)
  BY NextRefines, Zenon
<1> QED
  BY <1>1, <1>2, <1>3, <1>4, InitRefines, TypeInit, TypeStep, LockStep, OpStep, WholeStep, PTL DEF Spec, ImplementsContract, Contract!Spec

-----------------------------------------------------------------------------
\* What a step of the store may not do: answer ok to a Delete whose chunk is
\* still there.
GoneStep ==
  \A t \in Threads :
    op[t] = "delete" /\ pc[t] # "done" /\ pc'[t] = "done" /\ ret'[t] = "ok" => final'[id[t]] = Nil

\* Only the step of Delete that finds nothing and its last one answer ok.
LEMMA GoneCall ==
  ASSUME "stat" \notin Faults, TypeInv, PresenceInv, OpInv, [Next]_vars
  PROVE  [GoneStep]_vars
<1>1. ASSUME NEW t \in Threads, Step(t) PROVE GoneStep
  <2> SUFFICES ASSUME op[t] = "delete", pc'[t] = "done", ret'[t] = "ok" PROVE final'[id[t]] = Nil
    <3>1. \A u \in Threads \ {t} : pc'[u] = pc[u]
      BY <1>1, StepFrame, Zenon
    <3> QED
      BY <3>1, Zenon DEF GoneStep
  <2>0. /\ pc[t] \notin Putting \cup {"put_hash", "get_lock", "get_stat", "get_read", "exists_lock", "exists_stat"}
        /\ pc[t] # "idle" => id[t] \in Chunks
    BY Zenon DEF OpInv, TypeInv, LocalsInv
  <2>1. ASSUME NEW r, Finish(t, r) PROVE r = "ok"
    BY <2>1, Zenon DEF Finish, TypeInv, CallTypes
  <2>2. CASE DelStat(t)
    BY <2>0, <2>2, Zenon DEF DelStat, TypeInv, CallTypes, Present, files
  <2>3. CASE DelRemove(t)
    <3>1. ~Finish(t, "IoError")
      BY <2>1, Zenon
    <3> QED
      BY <2>3, <3>1, Zenon DEF DelRemove, TypeInv, CallTypes
  <2>4. CASE DelBytes(t)
    BY <2>4, Zenon DEF DelBytes, PresenceInv, files
  <2>5. CASE DelLock(t) \/ DelCount(t)
    BY <2>5, Zenon DEF DelLock, DelCount, Acquire, Goto, TypeInv, CallTypes
  <2>6. ~(PutHash(t) \/ PutLock(t) \/ PutRelock(t) \/ PutStat(t) \/ PutOpen(t) \/ PutWrite(t) \/ PutRename(t))
    BY <2>0, Zenon DEF PutHash, PutLock, PutRelock, PutStat, PutOpen, PutWrite, PutRename, Acquire, Goto, Putting
  <2>7. ~(PutDirSync(t) \/ PutCount(t) \/ PutBytes(t) \/ GetLock(t) \/ GetStat(t) \/ GetRead(t) \/ ExistsLock(t) \/ ExistsStat(t))
    BY <2>0, Zenon DEF PutDirSync, PutCount, PutBytes, GetLock, GetStat, GetRead, ExistsLock, ExistsStat, Acquire, Goto, Putting
  <2> QED
    BY <1>1, <2>2, <2>3, <2>4, <2>5, <2>6, <2>7, ZenonT(30) DEF Step
<1>2. ASSUME NEW t \in Threads, NEW c \in Chunks, NEW o, NEW d, Begin(t, o, c, d) PROVE GoneStep
  <2>1. pc'[t] # "done" /\ \A u \in Threads \ {t} : pc'[u] = pc[u]
    BY <1>2, Zenon DEF Begin, TypeInv, CallTypes
  <2> QED
    BY <2>1, Zenon DEF GoneStep
<1>3. ASSUME NEW t \in Threads, Return(t) PROVE GoneStep
  <2>1. pc'[t] # "done" /\ \A u \in Threads \ {t} : pc'[u] = pc[u]
    BY <1>3, Zenon DEF Return, Goto, TypeInv, CallTypes
  <2> QED
    BY <2>1, Zenon DEF GoneStep
<1>4. (\E c \in Chunks : Rot(c)) \/ Restart => GoneStep
  BY Zenon DEF Rot, Restart, GoneStep
<1>5. Kill \/ PowerLoss => GoneStep
  BY Zenon DEF Kill, PowerLoss, Die, GoneStep
<1> QED
  BY <1>1, <1>2, <1>3, <1>4, <1>5, Zenon DEF Next

\* Where stat calls do not fail, Delete answers ok only when the chunk is gone,
\* whatever other calls and failures come between its steps.
THEOREM DeletesGone == "stat" \notin Faults => (Spec => DeleteOkMeansGone)
<1> SUFFICES ASSUME "stat" \notin Faults PROVE Spec => DeleteOkMeansGone
  OBVIOUS
<1>1. Init => LockInv /\ PresenceInv /\ OpInv
  BY ZenonT(60) DEF Init, LockInv, Critical, PresenceInv, OpInv, Putting
<1>2. TypeInv /\ LockInv /\ PresenceInv /\ [Next]_vars => PresenceInv'
  BY PresenceStep, Zenon
<1>3. TypeInv /\ PresenceInv /\ OpInv /\ [Next]_vars => [GoneStep]_vars
  BY GoneCall, Zenon
<1> QED
  BY <1>1, <1>2, <1>3, TypeInit, TypeStep, LockStep, OpStep, PTL DEF Spec, DeleteOkMeansGone, GoneStep

=============================================================================
