--------------------- MODULE LocalDiskChunkStoreCounting --------------------
(***************************************************************************)
(* Proofs that chunk_count_ is the number of chunks and bytes_used_ the    *)
(* sum of their sizes.                                                     *)
(***************************************************************************)
EXTENDS LocalDiskChunkStoreProofs

(* The chunk counter                                                        *)

\* What a thread knows of its chunk's file while it holds the stripe; with the
\* process down there are no calls.
PresenceInv ==
  /\ \A t \in Threads :
       /\ pc[t] \in {"put_open", "put_write", "put_rename", "del_count", "del_bytes"} => final[id[t]] = Nil
       /\ pc[t] \in {"put_dirsync", "put_count", "put_bytes", "del_remove"} => final[id[t]] # Nil
  /\ up = FALSE => \A t \in Threads : pc[t] = "idle"

\* A call under way finds its file as it left it: only the owner of the
\* stripe changes the files of that stripe.
LEMMA PresenceStep ==
  "stat" \notin Faults /\ TypeInv /\ LockInv /\ PresenceInv /\ [Next]_vars => PresenceInv'
<1> SUFFICES ASSUME "stat" \notin Faults, TypeInv, LockInv, PresenceInv, [Next]_vars
             PROVE  PresenceInv'
  OBVIOUS
<1> USE DEF TypeInv, CallTypes, FileTypes, PresenceInv
<1>0. \A t, u \in Threads : t # u /\ pc[t] \in Critical /\ pc[u] \in Critical => id[t] # id[u]
  BY Zenon DEF LockInv, Stripe
<1>1. ASSUME NEW t \in Threads, NEW c \in Chunks, NEW o, NEW d, Begin(t, o, c, d) PROVE PresenceInv'
  BY <1>1, Zenon DEF Begin, files
<1>2. ASSUME NEW t \in Threads, Step(t) PROVE PresenceInv'
  <2>0. up' = up /\ pc[t] # "idle"
    BY <1>2, Zenon DEF Step, PutHash, PutLock, PutRelock, PutStat, PutOpen, PutWrite, PutRename, PutDirSync, PutCount, PutBytes, GetLock, GetStat, GetRead, DelLock, DelStat, DelRemove, DelCount, DelBytes, ExistsLock, ExistsStat, Acquire, Goto
  <2>00. pc[t] # "idle" => id[t] \in Chunks
    BY Zenon DEF LocalsInv
  <2>1. CASE PutHash(t)
    BY <1>0, <2>0, <2>00, <2>1 DEF PutHash, Critical, Present, locals, files
  <2>2. CASE PutLock(t)
    BY <1>0, <2>0, <2>00, <2>2, Zenon DEF PutLock, Acquire, Goto, Critical, Present, locals, files
  <2>3. CASE PutRelock(t)
    BY <1>0, <2>0, <2>00, <2>3 DEF PutRelock, Finish, Critical, Present, files
  <2>4. CASE PutStat(t)
    BY <1>0, <2>0, <2>00, <2>4 DEF PutStat, Finish, Critical, Present, locals, files
  <2>5. CASE PutOpen(t)
    BY <1>0, <2>0, <2>00, <2>5 DEF PutOpen, Finish, Critical, Present, locals, files
  <2>6. CASE PutWrite(t)
    BY <1>0, <2>0, <2>00, <2>6 DEF PutWrite, Written, RemoveTempAndFail, Finish, Critical, Present, locals, files
  <2>7. CASE PutRename(t)
    <3>1. UNCHANGED id /\ \A u \in Threads \ {t} : pc'[u] = pc[u]
      BY <2>7, Zenon DEF PutRename, RemoveTempAndFail, Finish
    <3>2. \A u \in Threads \ {t} : pc[u] \in Critical => id[u] # id[t] /\ id[u] \in Chunks
      BY <1>0, <2>7, ZenonT(30) DEF PutRename, Critical, LocalsInv
    <3>3. \A x \in Chunks \ {id[t]} : final'[x] = final[x]
      BY <2>7, Zenon DEF PutRename
    <3>4. pc'[t] = "done" \/ (pc'[t] = "put_dirsync" /\ final'[id[t]] # Nil)
      <4>1. [data |-> tmp[t].data, size |-> tmp[t].size] \in File
        BY <2>7 DEF PutRename, LocalsInv, TempFile, File
      <4> QED
        BY ConstantsOK, <2>0, <2>00, <2>7, <4>1, SMTT(30) DEF PutRename, RemoveTempAndFail, Finish, File, Data
    <3> QED
      BY <2>0, <3>1, <3>2, <3>3, <3>4 DEF Critical
  <2>8. CASE PutDirSync(t)
    BY <1>0, <2>0, <2>00, <2>8, ZenonT(30) DEF PutDirSync, Goto, Critical, Present, locals, files
  <2>9. CASE PutCount(t)
    BY <1>0, <2>0, <2>00, <2>9, ZenonT(30) DEF PutCount, Goto, Critical, Present, locals, files
  <2>10. CASE PutBytes(t)
    BY <1>0, <2>0, <2>00, <2>10, ZenonT(30) DEF PutBytes, Finish, Critical, Present, locals, files
  <2>11. CASE GetLock(t)
    BY <1>0, <2>0, <2>00, <2>11, ZenonT(30) DEF GetLock, Acquire, Goto, Critical, Present, locals, files
  <2>12. CASE GetStat(t)
    BY <1>0, <2>0, <2>00, <2>12 DEF GetStat, Finish, Critical, Present, locals, files
  <2>13. CASE GetRead(t)
    BY <1>0, <2>0, <2>00, <2>13 DEF GetRead, Finish, Critical, Present, locals, files
  <2>14. CASE DelLock(t)
    BY <1>0, <2>0, <2>00, <2>14, Zenon DEF DelLock, Acquire, Goto, Critical, Present, locals, files
  <2>15. CASE DelStat(t)
    BY <1>0, <2>0, <2>00, <2>15 DEF DelStat, Finish, Critical, Present, locals, files
  <2>16. CASE DelRemove(t)
    <3>1. UNCHANGED id /\ \A u \in Threads \ {t} : pc'[u] = pc[u]
      BY <2>16, Zenon DEF DelRemove, Finish
    <3>2. \A u \in Threads \ {t} : pc[u] \in Critical => id[u] # id[t] /\ id[u] \in Chunks
      BY <1>0, <2>16, Zenon DEF DelRemove, Critical, LocalsInv
    <3>3. \A x \in Chunks \ {id[t]} : final'[x] = final[x]
      BY <2>16, Zenon DEF DelRemove
    <3>4. pc'[t] = "done" \/ (pc'[t] = "del_count" /\ final'[id[t]] = Nil)
      BY <2>0, <2>00, <2>16, Zenon DEF DelRemove, Finish
    <3> QED
      BY <2>0, <3>1, <3>2, <3>3, <3>4 DEF Critical
  <2>17. CASE DelCount(t)
    BY <1>0, <2>0, <2>00, <2>17, Zenon DEF DelCount, Goto, Critical, Present, locals, files
  <2>18. CASE DelBytes(t)
    BY <1>0, <2>0, <2>00, <2>18, Zenon DEF DelBytes, Finish, Critical, Present, locals, files
  <2>19. CASE ExistsLock(t)
    BY <1>0, <2>0, <2>00, <2>19, Zenon DEF ExistsLock, Acquire, Goto, Critical, Present, locals, files
  <2>20. CASE ExistsStat(t)
    BY <1>0, <2>0, <2>00, <2>20 DEF ExistsStat, Finish, Critical, Present, locals, files
  <2> QED
    BY <1>2, <2>1, <2>2, <2>3, <2>4, <2>5, <2>6, <2>7, <2>8, <2>9, <2>10, <2>11, <2>12, <2>13, <2>14, <2>15, <2>16, <2>17, <2>18, <2>19, <2>20, ZenonT(30) DEF Step
<1>3. ASSUME NEW t \in Threads, Return(t) PROVE PresenceInv'
  BY <1>3, Zenon DEF Return, Goto, files
<1>4. ASSUME NEW c \in Chunks, Rot(c) PROVE PresenceInv'
  <2>1. \A x \in Chunks : final'[x] = Nil <=> final[x] = Nil
    BY ConstantsOK, <1>4 DEF Rot, Present, File
  <2>2. \A t \in Threads : pc[t] # "idle" => id[t] \in Chunks
    BY Zenon DEF LocalsInv
  <2> QED
    BY <1>4, <2>1, <2>2, Zenon DEF Rot, locals
<1>5. CASE Kill \/ PowerLoss
  BY <1>5 DEF Kill, PowerLoss, Die
<1>6. CASE Restart
  BY <1>6, Zenon DEF Restart, locals, files
<1>7. CASE UNCHANGED vars
  BY <1>7, Zenon DEF vars, locals, files
<1> HIDE DEF PresenceInv
<1> QED
  BY <1>1, <1>2, <1>3, <1>4, <1>5, <1>6, <1>7, Zenon DEF Next

\* A call that changes no file, no counter and no thread's pending counter
\* update leaves the reflected chunks alone.
Uncounting == {"put_dirsync", "put_count", "del_count"}

\* A step that touches no file and enters or leaves no counting location
\* leaves the counted chunks alone.
LEMMA CountedSame ==
  ASSUME TypeInv, NEW t \in Threads, UNCHANGED final,
         \A u \in Threads \ {t} : pc'[u] = pc[u] /\ id'[u] = id[u],
         pc[t] \notin Uncounting, pc'[t] \notin Uncounting
  PROVE  Counted' = Counted
BY ZenonT(30) DEF TypeInv, CallTypes, Counted, Present, Uncounting

\* The steps that neither rename, unlink, sync the directory nor count.
Quiet(t) ==
  \/ PutHash(t) \/ PutLock(t) \/ PutRelock(t) \/ PutStat(t) \/ PutOpen(t)
  \/ PutWrite(t) \/ PutBytes(t) \/ GetLock(t) \/ GetStat(t) \/ GetRead(t)
  \/ DelLock(t) \/ DelStat(t) \/ DelBytes(t) \/ ExistsLock(t) \/ ExistsStat(t)

\* What a quiet step leaves alone.
QuietEffect(t) ==
  /\ UNCHANGED <<final, chunk_count>>
  /\ \A u \in Threads \ {t} : pc'[u] = pc[u] /\ id'[u] = id[u]
  /\ pc[t] \notin Uncounting /\ pc'[t] \notin Uncounting

\* The steps of a call other than the rename, the unlink, the directory sync
\* and the two counter updates touch neither a file nor the chunk counter.
LEMMA QuietStep ==
  ASSUME CallTypes, NEW t \in Threads, Quiet(t)
  PROVE  QuietEffect(t)
<1> USE DEF CallTypes, Uncounting, QuietEffect
<1>1. CASE PutHash(t)
  BY <1>1, Zenon DEF PutHash, locals, files, counters
<1>2. CASE PutLock(t)
  BY <1>2, Zenon DEF PutLock, Acquire, Goto, locals, files, counters
<1>3. CASE PutRelock(t)
  BY <1>3, ZenonT(30) DEF PutRelock, Finish, locals, files, counters
<1>4. CASE PutStat(t)
  BY <1>4, Zenon DEF PutStat, Finish, locals, files, counters
<1>5. CASE PutOpen(t)
  BY <1>5, Zenon DEF PutOpen, Finish, locals, files, counters
<1>6. CASE PutWrite(t)
  BY <1>6, Zenon DEF PutWrite, RemoveTempAndFail, Finish, locals, files, counters
<1>7. CASE PutBytes(t)
  BY <1>7, Zenon DEF PutBytes, Finish, locals, files, counters
<1>8. CASE GetLock(t)
  BY <1>8, Zenon DEF GetLock, Acquire, Goto, locals, files, counters
<1>9. CASE GetStat(t)
  BY <1>9, Zenon DEF GetStat, Finish, locals, files, counters
<1>10. CASE GetRead(t)
  BY <1>10, Zenon DEF GetRead, Finish, locals, files, counters
<1>11. CASE DelLock(t)
  BY <1>11, Zenon DEF DelLock, Acquire, Goto, locals, files, counters
<1>12. CASE DelStat(t)
  BY <1>12, Zenon DEF DelStat, Finish, locals, files, counters
<1>13. CASE DelBytes(t)
  BY <1>13, Zenon DEF DelBytes, Finish, locals, files, counters
<1>14. CASE ExistsLock(t)
  BY <1>14, Zenon DEF ExistsLock, Acquire, Goto, locals, files, counters
<1>15. CASE ExistsStat(t)
  BY <1>15, Zenon DEF ExistsStat, Finish, locals, files, counters
<1> HIDE DEF QuietEffect
<1> QED
  BY <1>1, <1>2, <1>3, <1>4, <1>5, <1>6, <1>7, <1>8, <1>9, <1>10, <1>11, <1>12, <1>13, <1>14, <1>15, Zenon DEF Quiet

\* Every step that changes the counter changes the counted chunks by one.
LEMMA CountStep ==
  "stat" \notin Faults /\ TypeInv /\ LockInv /\ PresenceInv /\ CountExact /\ [Next]_vars => CountExact'
<1> SUFFICES ASSUME "stat" \notin Faults, TypeInv, LockInv, PresenceInv, CountExact, [Next]_vars
             PROVE  CountExact'
  OBVIOUS
<1> USE DEF TypeInv
<1>0. \A t, u \in Threads : t # u /\ pc[t] \in Critical /\ pc[u] \in Critical => id[t] # id[u]
  BY Zenon DEF LockInv, Stripe
<1>00. IsFiniteSet(Counted) /\ Cardinality(Counted) \in Nat /\ Cardinality(Chunks) \in Nat
       /\ Cardinality(Counted) <= Cardinality(Chunks) /\ IsFiniteSet(Counted')
       /\ Cardinality(Counted') \in Nat /\ Cardinality(Counted') <= Cardinality(Chunks)
  <2>1. Counted \subseteq Chunks /\ Counted' \subseteq Chunks
    BY Zenon DEF Counted
  <2> QED
    BY ConstantsOK, <2>1, FS_Subset, FS_CardinalityType, Zenon
<1>1. ASSUME NEW t \in Threads, NEW c \in Chunks, NEW o, NEW d, Begin(t, o, c, d) PROVE CountExact'
  <2>1. Counted' = Counted
    BY <1>1, CountedSame, Zenon DEF Begin, CallTypes, Uncounting, files
  <2> QED
    BY <1>1, <2>1, Zenon DEF Begin, CountExact, counters
<1>2. ASSUME NEW t \in Threads, Step(t) PROVE CountExact'
  <2>0. up' = up /\ up /\ pc[t] # "idle" /\ id[t] \in Chunks
    <3>1. up' = up /\ pc[t] # "idle"
      BY <1>2, Zenon DEF Step, PutHash, PutLock, PutRelock, PutStat, PutOpen, PutWrite, PutRename, PutDirSync, PutCount, PutBytes, GetLock, GetStat, GetRead, DelLock, DelStat, DelRemove, DelCount, DelBytes, ExistsLock, ExistsStat, Acquire, Goto
    <3> QED
      BY <3>1, Zenon DEF PresenceInv, RestTypes, LocalsInv
  <2>1. ASSUME Counted' = Counted, UNCHANGED chunk_count PROVE CountExact'
    BY <2>0, <2>1, Zenon DEF CountExact
  <2>2. CASE PutCount(t)
    <3>1. id[t] \notin Counted
      BY <1>0, <2>0, <2>2, Zenon DEF PutCount, Goto, Counted, Critical
    <3>2. Counted' = Counted \cup {id[t]}
      BY <1>0, <2>0, <2>2, ZenonT(30) DEF PutCount, Goto, CallTypes, Counted, Critical, Present, PresenceInv, locals, files
    <3>3. Cardinality(Counted') = Cardinality(Counted) + 1
      BY <1>00, <3>1, <3>2, FS_AddElement, Zenon
    <3>4. chunk_count + 1 < UintModulus /\ chunk_count + 1 \in Nat
      BY ConstantsOK, <1>00, <2>0, <3>3, SMTT(30) DEF CountExact
    <3> QED
      BY ConstantsOK, <1>00, <2>0, <2>2, <3>3, <3>4, SMTT(30) DEF PutCount, CountExact
  <2>3. CASE DelCount(t)
    <3>1. id[t] \in Counted
      BY <2>0, <2>3, Zenon DEF DelCount, Goto, Counted
    <3>2. Counted' = Counted \ {id[t]}
      BY <1>0, <2>0, <2>3, ZenonT(30) DEF DelCount, Goto, CallTypes, Counted, Critical, Present, PresenceInv, locals, files
    <3>3. Cardinality(Counted') = Cardinality(Counted) - 1
      BY <1>00, <3>1, <3>2, FS_RemoveElement, Zenon
    <3>4. chunk_count - 1 < UintModulus /\ chunk_count - 1 \in Nat
      BY ConstantsOK, <1>00, <2>0, <3>3 DEF CountExact
    <3> QED
      BY ConstantsOK, <1>00, <2>0, <2>3, <3>3, <3>4, SMTT(30) DEF DelCount, CountExact
  <2>4. CASE PutRename(t)
    <3>1. UNCHANGED <<id, chunk_count>> /\ \A u \in Threads \ {t} : pc'[u] = pc[u]
      BY <2>4, ZenonT(30) DEF PutRename, RemoveTempAndFail, Finish, CallTypes, counters
    <3>2. CASE pc'[t] = "put_dirsync"
      <4>1. id[t] \notin Counted /\ id[t] \notin Counted'
        BY <1>0, <2>0, <2>4, <3>1, <3>2, ZenonT(30) DEF PutRename, Counted, Present, PresenceInv, Critical
      <4>2. \A x \in Chunks \ {id[t]} : x \in Counted' <=> x \in Counted
        BY <2>4, <3>1, <3>2, ZenonT(30) DEF PutRename, Counted, Present, FileTypes
      <4> QED
        BY <2>1, <3>1, <4>1, <4>2, SMTT(30) DEF Counted
    <3>3. CASE pc'[t] # "put_dirsync"
      <4>1. RemoveTempAndFail(t) /\ UNCHANGED final
        BY <2>4, <3>3, Zenon DEF PutRename, CallTypes
      <4>2. Counted' = Counted
        BY <2>4, <3>1, <4>1, CountedSame, Zenon DEF PutRename, RemoveTempAndFail, Finish, Uncounting, CallTypes
      <4> QED
        BY <2>1, <3>1, <4>2, Zenon
    <3> QED
      BY <3>2, <3>3, Zenon
  <2>5. CASE DelRemove(t)
    <3>1. UNCHANGED <<id, chunk_count>> /\ \A u \in Threads \ {t} : pc'[u] = pc[u]
      BY <2>5, Zenon DEF DelRemove, Finish, CallTypes, counters
    <3>2. CASE pc'[t] = "del_count"
      <4>1. id[t] \in Counted /\ id[t] \in Counted'
        BY <1>0, <2>0, <2>5, <3>1, <3>2, Zenon DEF DelRemove, Counted, Present, PresenceInv, Critical
      <4>2. \A x \in Chunks \ {id[t]} : x \in Counted' <=> x \in Counted
        BY <2>5, <3>1, <3>2, SMTT(30) DEF DelRemove, Finish, Counted, Present, FileTypes
      <4> QED
        BY <2>1, <3>1, <4>1, <4>2, ZenonT(30) DEF Counted
    <3>3. CASE pc'[t] # "del_count"
      <4>1. Finish(t, "IoError") /\ UNCHANGED final
        BY <2>5, <3>3, Zenon DEF DelRemove, CallTypes
      <4>2. Counted' = Counted
        BY <2>5, <3>1, <4>1, CountedSame, Zenon DEF DelRemove, Finish, Uncounting, CallTypes
      <4> QED
        BY <2>1, <3>1, <4>2, Zenon
    <3> QED
      BY <3>2, <3>3, Zenon
  <2>6. CASE PutDirSync(t)
    <3>1. Counted' = Counted
      BY <1>0, <2>0, <2>6, Zenon DEF PutDirSync, Goto, CallTypes, Counted, Present, locals
    <3> QED
      BY <2>1, <2>6, <3>1, Zenon DEF PutDirSync, counters
  <2>7. CASE Quiet(t)
    <3>1. QuietEffect(t)
      BY <2>7, QuietStep, Zenon
    <3>2. Counted' = Counted
      BY <3>1, CountedSame, Zenon DEF QuietEffect
    <3>3. UNCHANGED chunk_count
      BY <3>1, Zenon DEF QuietEffect
    <3> QED
      BY <2>1, <3>2, <3>3, Zenon
  <2> QED
    BY <1>2, <2>2, <2>3, <2>4, <2>5, <2>6, <2>7, Zenon DEF Step, Quiet
<1>3. ASSUME NEW t \in Threads, Return(t) PROVE CountExact'
  <2>1. Counted' = Counted
    BY <1>3, CountedSame, Zenon DEF Return, Goto, CallTypes, Uncounting, files
  <2> QED
    BY <1>3, <2>1, Zenon DEF Return, CountExact, counters
<1>4. ASSUME NEW c \in Chunks, Rot(c) PROVE CountExact'
  <2>1. \A x \in Chunks : final'[x] = Nil <=> final[x] = Nil
    BY ConstantsOK, <1>4, Zenon DEF Rot, Present, File, FileTypes
  <2>2. Counted' = Counted
    BY <1>4, <2>1, Zenon DEF Rot, Counted, Present, locals
  <2> QED
    BY <1>4, <2>2, Zenon DEF Rot, CountExact, counters
<1>5. CASE Kill \/ PowerLoss
  BY <1>5, Zenon DEF Kill, PowerLoss, Die, CountExact
<1>6. CASE Restart
  <2>1. \A t \in Threads : pc'[t] = "idle"
    BY <1>6, Zenon DEF Restart, PresenceInv, RestTypes
  <2>2. Counted' = Present
    BY <1>6, <2>1, Zenon DEF Restart, Counted, Present, files
  <2> QED
    BY <1>6, <2>2, Zenon DEF Restart, CountExact
<1>7. CASE UNCHANGED vars
  BY <1>7, Zenon DEF vars, locals, files, counters, CountExact, Counted, Present
<1> HIDE DEF TypeInv
<1> QED
  BY <1>1, <1>2, <1>3, <1>4, <1>5, <1>6, <1>7, Zenon DEF Next

\* Where stat calls do not fail, chunk_count_ is at all times the number of
\* .chunk files, up to the calls between a file change and its counter update;
\* it never wraps, for any number of threads, chunks, crashes and I/O errors.
THEOREM CountCorrect == "stat" \notin Faults => (Spec => []CountExact)
<1> SUFFICES ASSUME "stat" \notin Faults PROVE Spec => []CountExact
  OBVIOUS
<1>1. Init => LockInv /\ PresenceInv
  BY SMTT(30) DEF Init, LockInv, Critical, PresenceInv
<1>2. Init => CountExact
  <2> SUFFICES ASSUME Init PROVE Counted = Present
    BY Zenon DEF Init, CountExact
  <2> QED
    BY Zenon DEF Init, Counted, Present
<1>3. TypeInv /\ LockInv /\ PresenceInv /\ [Next]_vars => PresenceInv'
  BY PresenceStep, Zenon
<1>4. TypeInv /\ LockInv /\ PresenceInv /\ CountExact /\ [Next]_vars => CountExact'
  BY CountStep, Zenon
<1> QED
  BY <1>1, <1>2, <1>3, <1>4, TypeInit, TypeStep, LockStep, PTL DEF Spec

-----------------------------------------------------------------------------
(* The byte counter                                                         *)

\* Inside Put, once the file is renamed and before its bytes are added.
Renamed == {"put_dirsync", "put_count", "put_bytes"}

\* The bytes of the files of S, each with its place.
FileBytes(S, len) == UNION {{c} \X (1..len[c]) : c \in S}

\* The bytes of finitely many files are finitely many.
LEMMA BytesFinite ==
  ASSUME NEW S, S \subseteq Chunks PROVE IsFiniteSet(FileBytes(S, Size))
<1> DEFINE B == {{c} \X (1..Size[c]) : c \in S}
           g == [c \in S |-> {c} \X (1..Size[c])]
<1>1. IsFiniteSet(S)
  BY FS_Subset, ConstantsOK, Zenon
<1>2. g \in Surjection(S, B)
  BY Zenon DEF Surjection
<1>3. IsFiniteSet(B)
  BY <1>1, <1>2, FS_Surjection, ZenonT(30)
<1>4. ASSUME NEW c \in S PROVE IsFiniteSet({c} \X (1..Size[c]))
  <2>1. IsFiniteSet({c}) /\ IsFiniteSet(1..Size[c])
    <3>1. Size[c] \in Int /\ 1 \in Int
      BY ConstantsOK
    <3> QED
      BY <3>1, FS_Singleton, FS_Interval, ZenonT(30)
  <2> QED
    BY <2>1, FS_Product, Zenon
<1>5. \A b \in B : IsFiniteSet(b)
  BY <1>4, Zenon
<1> HIDE DEF B
<1>6. IsFiniteSet(UNION B)
  BY <1>3, <1>5, FS_UNION, Zenon
<1> QED
  BY <1>6, Zenon DEF FileBytes, B

\* One more file adds its length to the total.
LEMMA BytesAdd ==
  ASSUME NEW S, S \subseteq Chunks, NEW c \in Chunks, c \notin S
  PROVE  /\ TotalLength(S, Size) \in Nat
         /\ TotalLength(S \cup {c}, Size) = TotalLength(S, Size) + Size[c]
<1> DEFINE A == FileBytes(S, Size)
           F == {c} \X (1..Size[c])
<1>1. IsFiniteSet(A)
  BY BytesFinite, Zenon
<1>2. IsFiniteSet({c}) /\ Cardinality({c}) = 1
  BY FS_Singleton, Zenon
<1>3. IsFiniteSet(1..Size[c]) /\ Cardinality(1..Size[c]) = Size[c] /\ Size[c] \in Nat
  BY FS_Interval, ConstantsOK
<1>4. IsFiniteSet(F) /\ Cardinality(F) = Size[c]
  <2>1. IsFiniteSet(F) /\ Cardinality(F) = Cardinality({c}) * Cardinality(1..Size[c])
    BY <1>2, <1>3, FS_Product, Zenon
  <2> HIDE DEF F
  <2> QED
    BY <1>2, <1>3, <2>1
<1>5. A \cap F = {}
  BY DEF FileBytes
<1>6. FileBytes(S \cup {c}, Size) = A \cup F
  BY Zenon DEF FileBytes
<1>7. Cardinality(A) \in Nat /\ Cardinality({}) = 0
  BY <1>1, FS_CardinalityType, FS_EmptySet, ZenonT(30)
<1> HIDE DEF A, F
<1>8. Cardinality(A \cup F) = Cardinality(A) + Cardinality(F) - Cardinality(A \cap F)
  BY <1>1, <1>4, FS_Union, ZenonT(30)
<1>9. Cardinality(A \cup F) = Cardinality(A) + Size[c]
  <2>1. Cardinality(A \cap F) = 0
    BY <1>5, <1>7, ZenonT(30)
  <2>2. Cardinality(F) \in Nat /\ Cardinality(F) = Size[c]
    BY <1>3, <1>4, Zenon
  <2> QED
    BY <1>7, <1>8, <2>1, <2>2
<1> QED
  BY <1>6, <1>7, <1>9, Zenon DEF TotalLength, FileBytes, A

\* The counter has room for every chunk at once.
BytesFit == TotalLength(Chunks, Size) < UintModulus

\* A part of the chunks is no longer than all of them.
LEMMA BytesBound ==
  ASSUME BytesFit, NEW S, S \subseteq Chunks
  PROVE  TotalLength(S, Size) \in Nat /\ TotalLength(S, Size) < UintModulus
<1>1. IsFiniteSet(FileBytes(S, Size)) /\ IsFiniteSet(FileBytes(Chunks, Size))
  BY BytesFinite, Zenon
<1>2. FileBytes(S, Size) \subseteq FileBytes(Chunks, Size)
  BY Zenon DEF FileBytes
<1>3. Cardinality(FileBytes(S, Size)) <= Cardinality(FileBytes(Chunks, Size))
  BY <1>1, <1>2, FS_Subset, Zenon
<1>4. Cardinality(FileBytes(S, Size)) \in Nat /\ Cardinality(FileBytes(Chunks, Size)) \in Nat
  BY <1>1, FS_CardinalityType, Zenon
<1>5. TotalLength(S, Size) = Cardinality(FileBytes(S, Size)) /\ TotalLength(Chunks, Size) = Cardinality(FileBytes(Chunks, Size))
  BY Zenon DEF TotalLength, FileBytes
<1> QED
  BY <1>3, <1>4, <1>5, ConstantsOK DEF BytesFit

-----------------------------------------------------------------------------
\* Every version of a chunk's file has the length of the chunk, and so has the
\* size Delete remembers.
Sized(c, f) == f # Nil => f.size = Size[c]
SizeInv ==
  /\ \A c \in Chunks : Sized(c, final[c]) /\ \A f \in disk[c] : Sized(c, f)
  /\ \A t \in Threads :
       /\ pc[t] = "put_rename" => tmp[t].size = Size[id[t]]
       /\ pc[t] \in {"del_remove", "del_count", "del_bytes"} => sz[t] = Size[id[t]]

\* A step that changes no file and no remembered size, and enters no location
\* that relies on one, keeps the lengths right.
LEMMA SizeFrame ==
  ASSUME SizeInv, UNCHANGED <<final, disk>>,
         \A u \in Threads : pc'[u] = "put_rename" =>
           pc[u] = "put_rename" /\ tmp'[u] = tmp[u] /\ id'[u] = id[u],
         \A u \in Threads : pc'[u] \in {"del_remove", "del_count", "del_bytes"} =>
           pc[u] \in {"del_remove", "del_count", "del_bytes"} /\ sz'[u] = sz[u] /\ id'[u] = id[u]
  PROVE  SizeInv'
<1>1. \A c \in Chunks : Sized(c, final'[c]) /\ \A f \in disk'[c] : Sized(c, f)
  BY Zenon DEF SizeInv
<1>2. \A t \in Threads : pc'[t] = "put_rename" => tmp'[t].size = Size[id'[t]]
  BY ZenonT(60) DEF SizeInv
<1>3. \A t \in Threads : pc'[t] \in {"del_remove", "del_count", "del_bytes"} => sz'[t] = Size[id'[t]]
  BY Zenon DEF SizeInv
<1> QED
  BY <1>1, <1>2, <1>3, Zenon DEF SizeInv

\* The steps of a call that touch no file, remember no size and write nothing.
LEMMA SizeQuiet ==
  ASSUME CallTypes, NEW t \in Threads, Step(t), ~PutWrite(t), ~PutRename(t), ~PutDirSync(t),
         ~DelStat(t), ~DelRemove(t)
  PROVE  /\ UNCHANGED <<final, disk>>
         /\ pc'[t] # "put_rename"
         /\ pc'[t] \in {"del_remove", "del_count", "del_bytes"} =>
              pc[t] \in {"del_remove", "del_count", "del_bytes"} /\ UNCHANGED sz
<1> USE DEF CallTypes
<1>0. ASSUME NEW r, Finish(t, r) PROVE pc'[t] = "done"
  BY <1>0, Zenon DEF Finish
<1>1. CASE PutHash(t) \/ PutStat(t) \/ PutRelock(t)
  BY <1>0, <1>1, ZenonT(30) DEF PutHash, PutStat, PutRelock, files
<1>2. CASE PutLock(t) \/ GetLock(t) \/ DelLock(t) \/ ExistsLock(t)
  BY <1>2, ZenonT(30) DEF PutLock, GetLock, DelLock, ExistsLock, Acquire, Goto, files
<1>3. CASE PutOpen(t) \/ PutBytes(t) \/ DelBytes(t)
  BY <1>0, <1>3, ZenonT(30) DEF PutOpen, PutBytes, DelBytes, files
<1>4. CASE PutCount(t) \/ DelCount(t)
  BY <1>4, Zenon DEF PutCount, DelCount, Goto, files, locals
<1>5. CASE GetStat(t) \/ GetRead(t) \/ ExistsStat(t)
  BY <1>0, <1>5, Zenon DEF GetStat, GetRead, ExistsStat, files
<1> QED
  BY <1>1, <1>2, <1>3, <1>4, <1>5, ZenonT(30) DEF Step

\* No step changes the length of a file.
LEMMA SizeStep == TypeInv /\ SizeInv /\ [Next]_vars => SizeInv'
<1> SUFFICES ASSUME TypeInv, SizeInv, [Next]_vars PROVE SizeInv'
  OBVIOUS
<1> DEFINE Deleting == {"del_remove", "del_count", "del_bytes"}
<1>1. ASSUME NEW t \in Threads, Step(t) PROVE SizeInv'
  <2> DEFINE i == id[t]
  <2>0. /\ pc[t] # "idle" /\ id' = id /\ i \in Chunks
        /\ \A u \in Threads \ {t} : pc'[u] = pc[u] /\ sz'[u] = sz[u] /\ tmp'[u] = tmp[u]
    BY <1>1, StepFrame, ZenonT(30) DEF TypeInv, LocalsInv
  <2> HIDE DEF i
  <2>1. CASE PutWrite(t)
    <3>1. UNCHANGED <<final, disk>> /\ pc'[t] \notin Deleting
      BY <2>1, Zenon DEF PutWrite, RemoveTempAndFail, Finish, TypeInv, CallTypes
    <3>2. pc'[t] = "put_rename" => tmp'[t] = Written(i)
      BY <2>1 DEF PutWrite, RemoveTempAndFail, Finish, TypeInv, CallTypes, FileTypes, LocalsInv, Putting, i
    <3>3. Written(i).size = Size[i]
      BY Zenon DEF Written
    <3> QED
      BY <2>0, <3>1, <3>2, <3>3, ZenonT(60) DEF SizeInv, i
  <2>2. CASE PutRename(t)
    <3>1. pc[t] = "put_rename" /\ pc'[t] \notin Deleting \cup {"put_rename"}
      BY <2>2, ZenonT(30) DEF PutRename, RemoveTempAndFail, Finish, TypeInv, CallTypes
    <3>2. CASE UNCHANGED <<final, disk>>
      BY <2>0, <3>1, <3>2, SizeFrame, Zenon
    <3>3. CASE /\ final' = [final EXCEPT ![i] = [data |-> tmp[t].data, size |-> tmp[t].size]]
               /\ disk' = [disk EXCEPT ![i] = @ \cup {Survivor(tmp[t])}]
      <4>1. tmp[t].size = Size[i]
        BY <3>1, Zenon DEF SizeInv, i
      <4>2. Sized(i, [data |-> tmp[t].data, size |-> tmp[t].size]) /\ Sized(i, Survivor(tmp[t]))
        BY <4>1, Zenon DEF Sized, Survivor
      <4>3. \A c \in Chunks \ {i} : final'[c] = final[c] /\ disk'[c] = disk[c]
        BY <3>3, Zenon DEF TypeInv, FileTypes
      <4>4. Sized(i, final'[i]) /\ \A f \in disk'[i] : Sized(i, f)
        BY <2>0, <3>3, <4>2, ZenonT(30) DEF SizeInv, TypeInv, FileTypes
      <4>5. \A c \in Chunks : Sized(c, final'[c]) /\ \A f \in disk'[c] : Sized(c, f)
        BY <4>3, <4>4, Zenon DEF SizeInv
      <4> QED
        BY <2>0, <3>1, <4>5, ZenonT(60) DEF SizeInv
    <3> QED
      BY <2>2, <3>2, <3>3, ZenonT(30) DEF PutRename, i
  <2>3. CASE PutDirSync(t)
    <3>1. /\ final' = final /\ pc'[t] = "put_count"
          /\ \A c \in Chunks : disk'[c] \in {{final[c]}, disk[c]}
      BY <2>3, Zenon DEF PutDirSync, Goto, TypeInv, CallTypes
    <3>2. \A c \in Chunks : Sized(c, final'[c]) /\ \A f \in disk'[c] : Sized(c, f)
      BY <3>1 DEF SizeInv
    <3> QED
      BY <2>0, <3>1, <3>2 DEF SizeInv
  <2>4. CASE DelStat(t)
    <3>1. UNCHANGED <<final, disk>> /\ pc'[t] \in {"del_remove", "done"}
      BY <2>4, ZenonT(30) DEF DelStat, Finish, TypeInv, CallTypes, files
    <3>2. pc'[t] = "del_remove" => sz'[t] = final[i].size /\ final[i] # Nil
      BY <2>4, ZenonT(30) DEF DelStat, Finish, TypeInv, CallTypes, Present, i
    <3>3. pc'[t] = "del_remove" => sz'[t] = Size[i]
      BY <2>0, <3>2, Zenon DEF SizeInv, Sized
    <3>4. \A u \in Threads : pc'[u] \in Deleting => sz'[u] = Size[id[u]]
      BY <2>0, <3>1, <3>3, ZenonT(60) DEF SizeInv, i
    <3>5. \A u \in Threads : pc'[u] = "put_rename" => tmp'[u].size = Size[id[u]]
      BY <2>0, <3>1, ZenonT(30) DEF SizeInv
    <3>6. \A c \in Chunks : Sized(c, final'[c]) /\ \A f \in disk'[c] : Sized(c, f)
      BY <3>1, Zenon DEF SizeInv
    <3> QED
      BY <2>0, <3>4, <3>5, <3>6, Zenon DEF SizeInv
  <2>5. CASE DelRemove(t)
    <3>1. pc[t] = "del_remove" /\ pc'[t] \in {"done", "del_count"} /\ (pc'[t] = "del_count" => sz' = sz)
      BY <2>5, Zenon DEF DelRemove, Finish, TypeInv, CallTypes
    <3>2. \A c \in Chunks : final'[c] \in {final[c], Nil} /\ disk'[c] \subseteq disk[c] \cup {Nil}
      BY <2>5, ZenonT(60) DEF DelRemove, TypeInv, FileTypes
    <3>3. \A c \in Chunks : Sized(c, Nil)
      BY Zenon DEF Sized
    <3>4. \A c \in Chunks : Sized(c, final'[c]) /\ \A f \in disk'[c] : Sized(c, f)
      BY <3>2, <3>3 DEF SizeInv
    <3>5. \A u \in Threads : pc'[u] \in Deleting => sz'[u] = Size[id[u]]
      BY <2>0, <3>1, ZenonT(30) DEF SizeInv
    <3>6. \A u \in Threads : pc'[u] = "put_rename" => tmp'[u].size = Size[id[u]]
      BY <2>0, <3>1, Zenon DEF SizeInv
    <3> QED
      BY <2>0, <3>4, <3>5, <3>6, ZenonT(30) DEF SizeInv
  <2>6. ASSUME ~PutWrite(t), ~PutRename(t), ~PutDirSync(t), ~DelStat(t), ~DelRemove(t) PROVE SizeInv'
    <3>1. /\ UNCHANGED <<final, disk>> /\ pc'[t] # "put_rename"
          /\ pc'[t] \in Deleting => pc[t] \in Deleting /\ UNCHANGED sz
      BY <1>1, <2>6, SizeQuiet, Zenon DEF TypeInv
    <3> QED
      BY <2>0, <3>1, SizeFrame, Zenon
  <2> QED
    BY <2>1, <2>2, <2>3, <2>4, <2>5, <2>6, ZenonT(30)
<1>2. ASSUME NEW t \in Threads, NEW c \in Chunks, NEW o, NEW d, Begin(t, o, c, d) PROVE SizeInv'
  <2>1. UNCHANGED <<final, disk, tmp, sz>> /\ pc'[t] \notin Deleting \cup {"put_rename"}
    BY <1>2, Zenon DEF Begin, files, TypeInv, CallTypes
  <2>2. \A u \in Threads \ {t} : pc'[u] = pc[u] /\ id'[u] = id[u]
    BY <1>2, Zenon DEF Begin, TypeInv, CallTypes
  <2> QED
    BY <2>1, <2>2, SizeFrame, Zenon
<1>3. ASSUME NEW t \in Threads, Return(t) PROVE SizeInv'
  <2>1. UNCHANGED <<final, disk, tmp, sz>> /\ pc'[t] = "idle"
    BY <1>3, Zenon DEF Return, Goto, files, TypeInv, CallTypes
  <2>2. \A u \in Threads \ {t} : pc'[u] = pc[u] /\ id'[u] = id[u]
    BY <1>3, Zenon DEF Return, Goto, TypeInv, CallTypes
  <2> QED
    BY <2>1, <2>2, SizeFrame, Zenon
<1>4. ASSUME NEW c \in Chunks, Rot(c) PROVE SizeInv'
  <2> DEFINE Damaged(f) == IF f = Nil THEN Nil ELSE [f EXCEPT !.data = Garbage]
  <2>1. \A f \in File \cup {Nil} : Sized(c, f) => Sized(c, Damaged(f))
    BY ConstantsOK, Zenon DEF File, Sized
  <2> HIDE DEF Damaged
  <2>3. /\ disk' = [disk EXCEPT ![c] = {Damaged(f) : f \in disk[c]}]
        /\ final' = [final EXCEPT ![c] = Damaged(final[c])]
        /\ UNCHANGED <<pc, id, sz, tmp>>
    BY <1>4, Zenon DEF Rot, Damaged, locals
  <2>4. final[c] \in File \cup {Nil} /\ disk[c] \subseteq File \cup {Nil}
    BY Zenon DEF TypeInv, FileTypes
  <2>5. Sized(c, final'[c]) /\ \A f \in disk'[c] : Sized(c, f)
    BY <2>1, <2>3, <2>4 DEF SizeInv, TypeInv, FileTypes
  <2>6. \A x \in Chunks \ {c} : disk'[x] = disk[x] /\ final'[x] = final[x]
    BY <2>3, Zenon DEF TypeInv, FileTypes
  <2>7. \A x \in Chunks : Sized(x, final'[x]) /\ \A f \in disk'[x] : Sized(x, f)
    BY <2>5, <2>6, ZenonT(30) DEF SizeInv
  <2> QED
    BY <2>3, <2>7, Zenon DEF SizeInv
<1>5. ASSUME Die PROVE \A t \in Threads : pc'[t] \notin Deleting \cup {"put_rename"}
  BY <1>5, Zenon DEF Die
<1>6. CASE Kill
  BY <1>5, <1>6, SizeFrame, ZenonT(30) DEF Kill
<1>7. CASE PowerLoss
  <2>1. \A c \in Chunks : final'[c] \in disk[c] \cup {Nil} /\ disk'[c] = {final'[c]}
    BY <1>7, Zenon DEF PowerLoss
  <2>2. \A c \in Chunks : Sized(c, final'[c]) /\ \A f \in disk'[c] : Sized(c, f)
    <3>1. \A c \in Chunks : Sized(c, Nil)
      BY Zenon DEF Sized
    <3>2. \A c \in Chunks : \A f \in disk[c] : Sized(c, f)
      BY Zenon DEF SizeInv
    <3> QED
      BY <2>1, <3>1, <3>2, Zenon
  <2> QED
    BY <1>5, <1>7, <2>2, ZenonT(30) DEF SizeInv, PowerLoss
<1>8. Restart \/ UNCHANGED vars => UNCHANGED <<final, disk, tmp, pc, id, sz>>
  BY Zenon DEF Restart, vars, locals, files
<1>9. ASSUME UNCHANGED <<final, disk, tmp, pc, id, sz>> PROVE SizeInv'
  BY <1>9, SizeFrame, Zenon
<1> QED
  BY <1>1, <1>2, <1>3, <1>4, <1>6, <1>7, <1>8, <1>9, ZenonT(30) DEF Next

-----------------------------------------------------------------------------
\* Inside Delete, once the file is gone and before its bytes are subtracted.
Unweighed == {"del_count", "del_bytes"}

\* The chunks bytes_used_ reflects change only with a file, a Put between its
\* rename and its fetch_add, or a Delete between its remove and its fetch_sub.
LEMMA WeighedOne ==
  ASSUME NEW c \in Chunks, final'[c] = Nil <=> final[c] = Nil,
         \A u \in Threads : (id'[u] = c /\ pc'[u] \in Renamed) <=> (id[u] = c /\ pc[u] \in Renamed),
         \A u \in Threads : (id'[u] = c /\ pc'[u] \in Unweighed) <=> (id[u] = c /\ pc[u] \in Unweighed)
  PROVE  c \in Weighed' <=> c \in Weighed
BY Zenon DEF Weighed, Present, Renamed, Unweighed

\* The steps of a call that neither change a file nor the byte counter.
LEMMA WeighedQuiet ==
  ASSUME CallTypes, NEW t \in Threads, Step(t), ~PutRename(t), ~PutBytes(t), ~DelRemove(t), ~DelBytes(t)
  PROVE  /\ UNCHANGED <<final, bytes_used>>
         /\ pc'[t] \in Renamed <=> pc[t] \in Renamed
         /\ pc'[t] \in Unweighed <=> pc[t] \in Unweighed
<1> USE DEF CallTypes, Renamed, Unweighed
<1>0. ASSUME NEW r, Finish(t, r) PROVE pc'[t] = "done"
  BY <1>0, Zenon DEF Finish
<1>1. CASE PutHash(t) \/ PutStat(t) \/ PutRelock(t)
  BY <1>0, <1>1, ZenonT(30) DEF PutHash, PutStat, PutRelock, files, counters
<1>2. CASE PutLock(t) \/ GetLock(t) \/ DelLock(t) \/ ExistsLock(t)
  BY <1>2, ZenonT(30) DEF PutLock, GetLock, DelLock, ExistsLock, Acquire, Goto, files, counters
<1>3. CASE PutOpen(t) \/ PutWrite(t)
  BY <1>0, <1>3, Zenon DEF PutOpen, PutWrite, RemoveTempAndFail, counters
<1>4. CASE PutDirSync(t) \/ PutCount(t) \/ DelCount(t)
  BY <1>4, Zenon DEF PutDirSync, PutCount, DelCount, Goto, files, counters
<1>5. CASE GetStat(t) \/ GetRead(t) \/ ExistsStat(t) \/ DelStat(t)
  BY <1>0, <1>5, ZenonT(30) DEF GetStat, GetRead, ExistsStat, DelStat, files, counters
<1> QED
  BY <1>1, <1>2, <1>3, <1>4, <1>5, ZenonT(30) DEF Step

\* A step of a call changes bytes_used_ by the length of the one chunk it
\* begins or ceases to reflect.
LEMMA BytesCall ==
  ASSUME BytesFit, TypeInv, LockInv, PresenceInv, SizeInv, BytesExact, NEW t \in Threads, Step(t)
  PROVE  BytesExact'
<1> DEFINE i == id[t]
<1> HIDE DEF i
<1>0. \A u \in Threads \ {t} : pc[t] \in Critical /\ pc[u] \in Critical => id[u] # i
  BY Zenon DEF LockInv, Stripe, i
<1>1. /\ id' = id /\ i \in Chunks /\ up' = up /\ up
      /\ \A u \in Threads \ {t} : pc'[u] = pc[u]
  <2>1. pc[t] # "idle" /\ UNCHANGED <<up, id>> /\ \A u \in Threads \ {t} : pc'[u] = pc[u]
    BY StepFrame, Zenon
  <2>2. up
    BY <2>1, Zenon DEF PresenceInv, TypeInv, RestTypes
  <2> QED
    BY <2>1, <2>2, Zenon DEF TypeInv, LocalsInv, i
<1>2. \A u \in Threads : pc[u] \in Renamed \cup Unweighed \cup {"put_rename", "del_remove"} => pc[u] \in Critical
  BY Zenon DEF Renamed, Unweighed, Critical
<1>3. pc[t] \in Critical => \A u \in Threads \ {t} : id[u] = i => pc[u] \notin Renamed \cup Unweighed
  BY <1>0, <1>2, Zenon
<1>4. Weighed \subseteq Chunks /\ Weighed' \subseteq Chunks
  BY Zenon DEF Weighed
<1>5. bytes_used = TotalLength(Weighed, Size)
  BY <1>1, Zenon DEF BytesExact
<1>6. ASSUME \A c \in Chunks : c \in Weighed' <=> c \in Weighed, UNCHANGED bytes_used PROVE BytesExact'
  <2>1. Weighed' = Weighed
    BY <1>4, <1>6, Zenon
  <2> QED
    BY <1>5, <1>6, <2>1, Zenon DEF BytesExact
<1>7. ASSUME \A c \in Chunks \ {i} : final'[c] = final[c] PROVE \A c \in Chunks \ {i} : c \in Weighed' <=> c \in Weighed
  <2> TAKE c \in Chunks \ {i}
  <2>1. \A u \in Threads : id[u] = c => pc'[u] = pc[u]
    BY <1>1, Zenon DEF i
  <2> QED
    BY <1>1, <1>7, <2>1, WeighedOne, Zenon
<1>8. CASE PutRename(t)
  <2>1. pc[t] = "put_rename" /\ pc'[t] \in {"put_dirsync", "done"} /\ UNCHANGED bytes_used
    BY <1>8, Zenon DEF PutRename, RemoveTempAndFail, Finish, TypeInv, CallTypes, counters
  <2>2. (\A c \in Chunks \ {i} : final'[c] = final[c]) /\ (pc'[t] = "done" => final' = final)
    BY <1>8, Zenon DEF PutRename, RemoveTempAndFail, Finish, TypeInv, CallTypes, FileTypes, i
  <2>3. final[i] = Nil
    BY <2>1, Zenon DEF PresenceInv, i
  <2>4. i \notin Weighed
    BY <1>2, <1>3, <2>1, <2>3, Zenon DEF Weighed, Present, Unweighed, i
  <2>5. i \notin Weighed'
    <3>1. i \notin Present' \/ pc'[t] = "put_dirsync"
      BY <2>1, <2>2, <2>3, Zenon DEF Present
    <3>2. \A u \in Threads : id'[u] = i => pc'[u] \notin Unweighed
      BY <1>1, <1>2, <1>3, <2>1, Zenon DEF Unweighed
    <3> QED
      BY <1>1, <3>1, <3>2, Zenon DEF Weighed, Unweighed, i
  <2> QED
    BY <1>6, <1>7, <2>1, <2>2, <2>4, <2>5, Zenon
<1>9. CASE DelRemove(t)
  <2>1. pc[t] = "del_remove" /\ pc'[t] \in {"del_count", "done"} /\ UNCHANGED bytes_used
    BY <1>9, Zenon DEF DelRemove, Finish, TypeInv, CallTypes, counters
  <2>2. (\A c \in Chunks \ {i} : final'[c] = final[c]) /\ (pc'[t] = "done" => final' = final)
    BY <1>9, Zenon DEF DelRemove, Finish, TypeInv, CallTypes, FileTypes, i
  <2>3. final[i] # Nil
    BY <2>1, Zenon DEF PresenceInv, i
  <2>4. \A u \in Threads : id[u] = i => pc[u] \notin Renamed
    BY <1>2, <1>3, <2>1, Zenon DEF Renamed
  <2>5. i \in Weighed
    BY <1>1, <2>3, <2>4, Zenon DEF Weighed, Present, Renamed
  <2>6. i \in Weighed'
    <3>1. CASE pc'[t] = "del_count"
      BY <1>1, <3>1, Zenon DEF Weighed, i
    <3>2. CASE pc'[t] = "done"
      <4>1. \A u \in Threads : id'[u] = i => pc'[u] \notin Renamed
        BY <1>1, <2>4, <3>2, Zenon DEF Renamed
      <4> QED
        BY <1>1, <2>2, <2>3, <3>2, <4>1, Zenon DEF Weighed, Present, Renamed
    <3> QED
      BY <2>1, <3>1, <3>2, Zenon
  <2> QED
    BY <1>6, <1>7, <2>1, <2>2, <2>5, <2>6, ZenonT(30)
<1>10. CASE PutBytes(t)
  <2>1. pc[t] = "put_bytes" /\ pc'[t] = "done" /\ final' = final /\ bytes_used' = (bytes_used + Size[i]) % UintModulus
    BY <1>10, Zenon DEF PutBytes, Finish, TypeInv, CallTypes, LocalsInv, Putting, files, i
  <2>2. final[i] # Nil
    BY <2>1, Zenon DEF PresenceInv, i
  <2>3. i \notin Weighed
    <3>1. \A u \in Threads : id[u] = i => pc[u] \notin Unweighed
      BY <1>2, <1>3, <2>1, Zenon DEF Renamed, Unweighed
    <3> QED
      BY <2>1, <3>1, Zenon DEF Weighed, Unweighed, i
  <2>4. i \in Weighed'
    <3>1. \A u \in Threads : id'[u] = i => pc'[u] \notin Renamed
      BY <1>1, <1>2, <1>3, <2>1, Zenon DEF Renamed
    <3> QED
      BY <1>1, <2>1, <2>2, <3>1, Zenon DEF Weighed, Present, Renamed
  <2>5. Weighed' = Weighed \cup {i}
    BY <1>4, <1>7, <2>1, <2>3, <2>4, Zenon
  <2>6. TotalLength(Weighed', Size) = bytes_used + Size[i] /\ bytes_used \in Nat
    BY <1>1, <1>4, <1>5, <2>3, <2>5, BytesAdd, Zenon
  <2>7. TotalLength(Weighed', Size) \in Nat /\ TotalLength(Weighed', Size) < UintModulus
    BY <1>4, BytesBound, Zenon
  <2>8. bytes_used' = TotalLength(Weighed', Size)
    BY <2>1, <2>6, <2>7, ConstantsOK
  <2> QED
    BY <2>8, Zenon DEF BytesExact
<1>11. CASE DelBytes(t)
  <2>1. pc[t] = "del_bytes" /\ pc'[t] = "done" /\ final' = final /\ bytes_used' = (bytes_used - Size[i]) % UintModulus
    BY <1>11, Zenon DEF DelBytes, Finish, TypeInv, CallTypes, SizeInv, files, i
  <2>2. final[i] = Nil
    BY <2>1, Zenon DEF PresenceInv, i
  <2>3. i \in Weighed
    BY <1>1, <2>1, ZenonT(30) DEF Weighed, i
  <2>4. i \notin Weighed'
    <3>1. \A u \in Threads : id'[u] = i => pc'[u] \notin Unweighed
      BY <1>1, <1>2, <1>3, <2>1, ZenonT(30) DEF Unweighed
    <3> QED
      BY <2>1, <2>2, <3>1, ZenonT(30) DEF Weighed, Present, Unweighed
  <2>5. Weighed = Weighed' \cup {i}
    BY <1>4, <1>7, <2>1, <2>3, <2>4, ZenonT(30)
  <2>6. bytes_used = TotalLength(Weighed', Size) + Size[i]
    BY <1>1, <1>4, <1>5, <2>4, <2>5, BytesAdd, ZenonT(30)
  <2>7. TotalLength(Weighed', Size) \in Nat /\ TotalLength(Weighed', Size) < UintModulus
    BY <1>4, BytesBound, Zenon
  <2>8. Size[i] \in Nat /\ UintModulus \in Nat
    BY <1>1, ConstantsOK, Zenon
  <2>9. bytes_used' = TotalLength(Weighed', Size)
    <3>1. bytes_used - Size[i] = TotalLength(Weighed', Size)
      BY <2>6, <2>7, <2>8
    <3>2. TotalLength(Weighed', Size) % UintModulus = TotalLength(Weighed', Size)
      BY <2>7, <2>8
    <3> QED
      BY <2>1, <3>1, <3>2, Zenon
  <2> QED
    BY <2>9, Zenon DEF BytesExact
<1>12. ASSUME ~PutRename(t), ~PutBytes(t), ~DelRemove(t), ~DelBytes(t) PROVE BytesExact'
  <2>1. /\ UNCHANGED <<final, bytes_used>>
        /\ pc'[t] \in Renamed <=> pc[t] \in Renamed
        /\ pc'[t] \in Unweighed <=> pc[t] \in Unweighed
    BY <1>12, WeighedQuiet, Zenon DEF TypeInv
  <2>2. \A c \in Chunks : c \in Weighed' <=> c \in Weighed
    BY <1>1, <2>1, WeighedOne, Zenon
  <2> QED
    BY <1>6, <2>1, <2>2, Zenon
<1> QED
  BY <1>8, <1>9, <1>10, <1>11, <1>12, Zenon

\* The scan of the constructor finds every file at the length of its chunk.
LEMMA ScanExact == ASSUME SizeInv PROVE Bytes(Present) = TotalLength(Present, Size)
<1> DEFINE len == [c \in Present |-> final[c].size]
<1>1. \A c \in Present : len[c] = Size[c]
  BY Zenon DEF SizeInv, Sized, Present
<1> HIDE DEF len
<1>2. FileBytes(Present, len) = FileBytes(Present, Size)
  BY <1>1, Zenon DEF FileBytes
<1> QED
  BY <1>2, Zenon DEF Bytes, TotalLength, FileBytes, len

\* So does the scan of the constructor, and nothing else touches the counter.
LEMMA BytesStep ==
  ASSUME BytesFit, TypeInv, LockInv, PresenceInv, SizeInv, BytesExact, [Next]_vars
  PROVE  BytesExact'
<1>1. ASSUME \A c \in Chunks : c \in Weighed' <=> c \in Weighed, UNCHANGED <<up, bytes_used>> PROVE BytesExact'
  <2>1. Weighed \subseteq Chunks /\ Weighed' \subseteq Chunks
    BY Zenon DEF Weighed
  <2>2. Weighed' = Weighed
    BY <1>1, <2>1, Zenon
  <2> QED
    BY <1>1, <2>2, Zenon DEF BytesExact
<1>2. ASSUME NEW t \in Threads, NEW c \in Chunks, NEW o, NEW d, Begin(t, o, c, d) PROVE BytesExact'
  <2>1. UNCHANGED <<final, up, bytes_used>> /\ pc[t] = "idle" /\ pc'[t] \notin Renamed \cup Unweighed
    BY <1>2, Zenon DEF Begin, files, counters, TypeInv, CallTypes, Renamed, Unweighed
  <2>2. \A u \in Threads \ {t} : pc'[u] = pc[u] /\ id'[u] = id[u]
    BY <1>2, Zenon DEF Begin, TypeInv, CallTypes
  <2>3. \A x \in Chunks : x \in Weighed' <=> x \in Weighed
    BY <2>1, <2>2, WeighedOne, Zenon DEF Renamed, Unweighed
  <2> QED
    BY <1>1, <2>1, <2>3, Zenon
<1>3. ASSUME NEW t \in Threads, Return(t) PROVE BytesExact'
  <2>1. UNCHANGED <<final, up, bytes_used>> /\ pc[t] = "done" /\ pc'[t] = "idle"
    BY <1>3, Zenon DEF Return, Goto, files, counters, TypeInv, CallTypes
  <2>2. \A u \in Threads \ {t} : pc'[u] = pc[u] /\ id'[u] = id[u]
    BY <1>3, Zenon DEF Return, Goto, TypeInv, CallTypes
  <2>3. \A x \in Chunks : x \in Weighed' <=> x \in Weighed
    BY <2>1, <2>2, WeighedOne, Zenon DEF Renamed, Unweighed
  <2> QED
    BY <1>1, <2>1, <2>3, Zenon
<1>4. ASSUME NEW c \in Chunks, Rot(c) PROVE BytesExact'
  <2>1. \A x \in Chunks : final'[x] = Nil <=> final[x] = Nil
    BY ConstantsOK, <1>4, Zenon DEF Rot, Present, File, TypeInv, FileTypes
  <2>2. UNCHANGED <<up, bytes_used, pc, id>>
    BY <1>4, Zenon DEF Rot, locals, counters
  <2>3. \A x \in Chunks : x \in Weighed' <=> x \in Weighed
    BY <2>1, <2>2, WeighedOne, Zenon
  <2> QED
    BY <1>1, <2>2, <2>3, Zenon
<1>5. CASE Kill \/ PowerLoss
  BY <1>5, Zenon DEF Kill, PowerLoss, Die, BytesExact
<1>6. CASE Restart
  <2>1. final' = final /\ \A t \in Threads : pc'[t] = "idle"
    BY <1>6, Zenon DEF Restart, files, PresenceInv, TypeInv, RestTypes
  <2>2. Weighed' = Present
    BY <2>1, Zenon DEF Weighed, Present
  <2>3. bytes_used' = TotalLength(Present, Size)
    BY <1>6, ScanExact, Zenon DEF Restart
  <2> QED
    BY <2>2, <2>3, Zenon DEF BytesExact
<1>7. CASE UNCHANGED vars
  BY <1>7, Zenon DEF vars, locals, files, counters, BytesExact, Weighed, Present
<1> QED
  BY <1>2, <1>3, <1>4, <1>5, <1>6, <1>7, BytesCall, Zenon DEF Next

\* Where stat calls do not fail, bytes_used_ is at all times the total length of
\* the chunks on disk, up to calls between a file change and its counter
\* update: it never wraps and a restart never changes what it says.
THEOREM BytesCorrect == "stat" \notin Faults /\ BytesFit => (Spec => []BytesExact)
<1> SUFFICES ASSUME "stat" \notin Faults, BytesFit PROVE Spec => []BytesExact
  OBVIOUS
<1>1. Init => LockInv /\ PresenceInv
  BY ZenonT(60) DEF Init, LockInv, Critical, PresenceInv
<1>2. Init => SizeInv
  <2> SUFFICES ASSUME Init PROVE SizeInv
    OBVIOUS
  <2>1. \A c \in Chunks : Sized(c, final[c]) /\ disk[c] = {final[c]}
    BY ConstantsOK DEF Init, Sized
  <2>2. \A t \in Threads : pc[t] = "idle"
    BY Zenon DEF Init
  <2> QED
    BY <2>1, <2>2, Zenon DEF SizeInv
<1>3. Init => BytesExact
  <2> SUFFICES ASSUME Init PROVE bytes_used = TotalLength(Weighed, Size)
    BY Zenon DEF BytesExact
  <2>1. Weighed = Present
    BY Zenon DEF Init, Weighed, Present
  <2> QED
    BY <1>2, <2>1, ScanExact, Zenon DEF Init
<1>4. TypeInv /\ LockInv /\ PresenceInv /\ [Next]_vars => PresenceInv'
  BY PresenceStep, Zenon
<1>5. TypeInv /\ LockInv /\ PresenceInv /\ SizeInv /\ BytesExact /\ [Next]_vars => BytesExact'
  BY BytesStep, ZenonT(30)
<1> QED
  BY <1>1, <1>2, <1>3, <1>4, <1>5, TypeInit, TypeStep, LockStep, SizeStep, PTL DEF Spec

=============================================================================
