------------------------- MODULE LocalDiskChunkStore -------------------------
(***************************************************************************)
(* The on-disk chunk store of a NimbusFS storage node                      *)
(* (services/storage_node/src/local_disk_chunk_store.cpp): calls of several*)
(* handler threads on a directory of <id>.chunk files, guarded by striped  *)
(* mutexes, with statistics kept in two atomics, on a file system whose    *)
(* calls may fail, in a process that may be killed and on a machine that   *)
(* may lose power.                                                         *)
(*                                                                         *)
(* SHA-256 is taken to be collision free, so a chunk id stands for the one *)
(* byte string that hashes to it; Garbage stands for any bytes that hash   *)
(* to no id in use.                                                        *)
(***************************************************************************)
EXTENDS Integers, FiniteSets

CONSTANTS
  Threads,         \* threads calling the store
  Chunks,          \* chunk ids, and the contents they are the digest of
  Nil,             \* "no thread", "no file", "no value"
  Garbage,         \* contents that are not those of any chunk
  Size,            \* [Chunks -> Nat]: length of the contents of a chunk
  StripeOf,        \* LockFor: the stripe that guards a chunk
  ShardOf,         \* ShardDirFor: the directory that holds a chunk's file
  Ops,             \* the calls the threads make
  RelockOutcomes,  \* what std::mutex::lock does when the caller owns the mutex
  Faults,          \* file-system calls that may fail
  MaxCrashes,      \* bound on process kills and power failures
  MaxRots,         \* bound on media errors
  UintModulus      \* 2^64 in the code

FaultPoints == {"stat", "open", "write", "rename", "tmpremove", "dirsync",
                "read", "unlink"}

ASSUME ConstantsOK ==
  /\ Nil \notin Threads /\ Nil \notin Chunks /\ Garbage \notin Chunks
  /\ Nil # Garbage
  /\ Nil \notin [data : Chunks \cup {Garbage}, size : Nat]
  /\ Nil \notin [data : Chunks \cup {Garbage}, size : Nat, where : {"cache", "disk"}]
  /\ IsFiniteSet(Chunks) /\ IsFiniteSet(Threads)
  /\ DOMAIN Size = Chunks /\ \A c \in Chunks : Size[c] \in Nat
  /\ DOMAIN StripeOf = Chunks /\ DOMAIN ShardOf = Chunks
  /\ Ops \subseteq {"put", "get", "delete", "exists"}
  /\ RelockOutcomes \subseteq {"blocks", "throws", "enters"}
  /\ Faults \subseteq FaultPoints
  /\ MaxCrashes \in Nat /\ MaxRots \in Nat
  /\ UintModulus \in Nat /\ Cardinality(Chunks) < UintModulus

Stripes  == {StripeOf[c] : c \in Chunks}
Shards   == {ShardOf[c] : c \in Chunks}
Data     == Chunks \cup {Garbage}
File     == [data : Data, size : Nat]
TempFile == [data : Data, size : Nat, where : {"cache", "disk"}]
Results  == {"ok", "ChecksumMismatch", "CorruptionDetected", "NotFound",
             "IoError", "true", "false", "exception"}

VARIABLES
  up,           \* the process runs
  pc, op, id,   \* where each thread is, the call it makes and on which chunk
  buf,          \* bytes given to Put
  sz,           \* Delete's size_before
  ret,          \* result of a call that is done
  lock,         \* stripe_locks_: owner and how often it holds the mutex
  final,        \* <id>.chunk files as the running system sees them
  disk,         \* for each chunk, what a power failure now may leave of it
  shards,       \* shard directories: absent, their entry in the parent unsynced, durable
  tmp,          \* the <id>.tmp.<uuid> file of a thread inside Put
  strays,       \* chunks with a temporary file nobody will touch again
  chunk_count,  \* chunk_count_
  bytes_used,   \* bytes_used_
  acked,        \* history: chunks whose last Put said ok, not unlinked since
  orphaned,     \* history: chunks lost with their directory, no Put said ok since
  rotted,       \* history: chunks hit by a media error
  crashes, rots \* how much of MaxCrashes and MaxRots is used up

Critical ==        \* inside the lock_guard's scope
  {"put_exists", "stuck", "put_stat", "put_open", "put_write", "put_rename",
   "put_dirsync", "put_count", "put_bytes", "get_stat", "get_read", "del_stat",
   "del_remove", "del_count", "del_bytes", "exists_stat"}
Locations == Critical \cup {"idle", "put_hash", "put_lock", "get_lock",
                             "del_lock", "exists_lock", "done"}

locals   == <<op, id, buf, sz>>
counters == <<chunk_count, bytes_used>>
files    == <<final, disk, shards, tmp, strays>>
history  == <<acked, orphaned, rotted, crashes, rots>>
vars     == <<up, pc, locals, ret, lock, files, counters, history>>

Present  == {c \in Chunks : final[c] # Nil}
Free     == [owner |-> Nil, depth |-> 0]
Held(t, n) == [owner |-> t, depth |-> n]

\* The total length of files: how many bytes there are, each with its place.
TotalLength(S, len) == Cardinality(UNION {{c} \X (1..len[c]) : c \in S})
Bytes(S) == TotalLength(S, [c \in S |-> final[c].size])

-----------------------------------------------------------------------------
(* The constructor: count the .chunk files found under data_root_.  Temporary
   files have another extension and are skipped.                            *)

Init ==
  /\ up = TRUE
  /\ pc = [t \in Threads |-> "idle"]
  /\ op = [t \in Threads |-> Nil]
  /\ id = [t \in Threads |-> Nil]
  /\ buf = [t \in Threads |-> Nil]
  /\ sz = [t \in Threads |-> 0]
  /\ ret = [t \in Threads |-> Nil]
  /\ lock = [s \in Stripes |-> Free]
  /\ \E S \in SUBSET Chunks :
       final = [c \in Chunks |-> IF c \in S THEN [data |-> c, size |-> Size[c]]
                                            ELSE Nil]
  /\ disk = [c \in Chunks |-> {final[c]}]
  /\ shards \in [Shards -> {"absent", "unsynced", "durable"}]
  /\ \A c \in Present : shards[ShardOf[c]] # "absent"
  /\ tmp = [t \in Threads |-> Nil]
  /\ strays = {}
  /\ chunk_count = Cardinality(Present)
  /\ bytes_used = Bytes(Present)
  /\ acked = {} /\ orphaned = {} /\ rotted = {} /\ crashes = 0 /\ rots = 0

\* Mutant: the scan counts temporary files too.
Restart_CountsTemps ==
  /\ ~up
  /\ up' = TRUE
  /\ chunk_count' = Cardinality(Present) + Cardinality(strays)
  /\ bytes_used' = Bytes(Present)
  /\ UNCHANGED <<pc, locals, ret, lock, files, history>>

Restart ==
  /\ ~up
  /\ up' = TRUE
  /\ chunk_count' = Cardinality(Present)
  /\ bytes_used' = Bytes(Present)
  /\ UNCHANGED <<pc, locals, ret, lock, files, history>>

-----------------------------------------------------------------------------
(* Calls, mutexes and returns.                                              *)

Goto(t, from, to) == pc[t] = from /\ pc' = [pc EXCEPT ![t] = to]

Begin(t, o, c, d) ==
  /\ up /\ pc[t] = "idle" /\ o \in Ops
  /\ pc' = [pc EXCEPT ![t] = CASE o = "put"    -> "put_hash"
                               [] o = "delete" -> "del_lock"
                               [] o = "exists" -> "exists_lock"
                               [] OTHER        -> "get_lock"]
  /\ op' = [op EXCEPT ![t] = o]
  /\ id' = [id EXCEPT ![t] = c]
  /\ buf' = [buf EXCEPT ![t] = d]
  /\ UNCHANGED <<up, sz, ret, lock, files, counters, history>>

Stripe(t) == StripeOf[id[t]]

\* std::lock_guard over LockFor(id) at the head of Put, Get, Delete, Exists.
Acquire(t, from, to) ==
  /\ Goto(t, from, to)
  /\ lock[Stripe(t)].owner = Nil
  /\ lock' = [lock EXCEPT ![Stripe(t)] = Held(t, 1)]
  /\ UNCHANGED <<up, locals, ret, files, counters, history>>

\* A return statement: the lock_guard releases the stripe, locals are gone.
Finish(t, r) ==
  /\ buf' = [buf EXCEPT ![t] = Nil]
  /\ sz' = [sz EXCEPT ![t] = 0]
  /\ pc' = [pc EXCEPT ![t] = "done"]
  /\ ret' = [ret EXCEPT ![t] = r]
  /\ lock' = [lock EXCEPT ![Stripe(t)] = Free]

\* The caller takes the result.
Return(t) ==
  /\ Goto(t, "done", "idle")
  /\ op' = [op EXCEPT ![t] = Nil]
  /\ id' = [id EXCEPT ![t] = Nil]
  /\ ret' = [ret EXCEPT ![t] = Nil]
  /\ UNCHANGED <<up, buf, sz, lock, files, counters, history>>

-----------------------------------------------------------------------------
(* Put                                                                      *)

\* The digest of the bytes is compared before any lock is taken.
PutHash(t) ==
  /\ pc[t] = "put_hash"
  /\ \/ /\ buf[t] = id[t]
        /\ pc' = [pc EXCEPT ![t] = "put_lock"]
        /\ UNCHANGED <<buf, ret>>
     \/ /\ buf[t] # id[t]
        /\ pc' = [pc EXCEPT ![t] = "done"]
        /\ buf' = [buf EXCEPT ![t] = Nil]
        /\ ret' = [ret EXCEPT ![t] = "ChecksumMismatch"]
  /\ UNCHANGED <<up, op, id, sz, lock, files, counters, history>>

PutLock(t) == Acquire(t, "put_lock", "put_exists")

\* Put calls Exists, which locks the stripe the caller already owns: undefined
\* for std::mutex.  A build may block the thread for good, throw out of Put
\* (whose guard lets go), or let the thread in.
\*
\* Mutant: the builds that let it in block as well.
PutRelock_Blocks(t) ==
  Goto(t, "put_exists", "stuck") /\ UNCHANGED <<up, locals, ret, lock, files, counters, history>>

PutRelock(t) ==
  /\ pc[t] = "put_exists"
  /\ \/ /\ "enters" \in RelockOutcomes
        /\ pc' = [pc EXCEPT ![t] = "put_stat"]
        /\ lock' = [lock EXCEPT ![Stripe(t)] = Held(t, 2)]
        /\ UNCHANGED <<ret, buf, sz>>
     \/ /\ "blocks" \in RelockOutcomes
        /\ pc' = [pc EXCEPT ![t] = "stuck"]
        /\ UNCHANGED <<ret, buf, sz, lock>>
     \/ "throws" \in RelockOutcomes /\ Finish(t, "exception")
  /\ UNCHANGED <<up, op, id, files, counters, history>>

\* Mutant: the inner guard gives up the stripe.
InnerUnlock_Frees(t) == lock' = [lock EXCEPT ![Stripe(t)] = Free]

\* Exists's lock_guard lets go; Put's still holds.
InnerUnlock(t) == lock' = [lock EXCEPT ![Stripe(t)] = Held(t, 1)]

\* History: Put says ok.
Acknowledge(t) == acked' = acked \cup {id[t]} /\ orphaned' = orphaned \ {id[t]}

\* Exists inside Put: a chunk that is there is not written again; an error of
\* exists() reads as "not there".
PutStat(t) ==
  /\ pc[t] = "put_stat"
  /\ \/ /\ id[t] \in Present
        /\ Finish(t, "ok")
        /\ Acknowledge(t)
     \/ /\ id[t] \notin Present \/ "stat" \in Faults
        /\ pc' = [pc EXCEPT ![t] = "put_open"]
        /\ InnerUnlock(t)
        /\ UNCHANGED <<ret, acked, orphaned, buf, sz>>
  /\ UNCHANGED <<up, op, id, files, counters, rotted, crashes, rots>>

\* create_directories: up to two levels, whose entries in their parents nothing
\* ever syncs.
MakeShardDir(t) ==
  shards' = [shards EXCEPT ![ShardOf[id[t]]] = IF @ = "absent" THEN "unsynced" ELSE @]

\* create_directories and open of the temporary file.
PutOpen(t) ==
  /\ pc[t] = "put_open"
  /\ \/ /\ pc' = [pc EXCEPT ![t] = "put_write"]
        /\ tmp' = [tmp EXCEPT ![t] = [data |-> Garbage, size |-> 0, where |-> "cache"]]
        /\ MakeShardDir(t)
        /\ UNCHANGED <<ret, lock, buf, sz>>
     \/ /\ "open" \in Faults
        /\ Finish(t, "IoError")
        /\ MakeShardDir(t) \/ UNCHANGED shards
        /\ UNCHANGED tmp
  /\ UNCHANGED <<up, op, id, final, disk, strays, counters, history>>

\* Mutant: the file is left behind.
RemoveTempAndFail_Leaves(t) == Finish(t, "IoError") /\ UNCHANGED <<tmp, strays>>

\* An error return after the temporary file was created removes it first; an
\* error of that remove is ignored.
RemoveTempAndFail(t) ==
  /\ Finish(t, "IoError")
  /\ tmp' = [tmp EXCEPT ![t] = Nil]
  /\ \/ UNCHANGED strays
     \/ "tmpremove" \in Faults /\ strays' = strays \cup {id[t]}

\* Mutant: no fsync.
Written_Unsynced(d) == [data |-> d, size |-> Size[d], where |-> "cache"]

\* The temporary file after write (skipped for an empty chunk) and fsync.
Written(d) == [data |-> d, size |-> Size[d], where |-> "disk"]

\* write, fsync, close.
PutWrite(t) ==
  /\ pc[t] = "put_write"
  /\ \/ /\ pc' = [pc EXCEPT ![t] = "put_rename"]
        /\ tmp' = [tmp EXCEPT ![t] = Written(buf[t])]
        /\ UNCHANGED <<ret, lock, buf, sz, strays>>
     \/ "write" \in Faults /\ RemoveTempAndFail(t)
  /\ UNCHANGED <<up, op, id, final, disk, shards, counters, history>>

\* What a power failure may leave of a renamed file: its contents if they were
\* synced, else anything.
Survivor(f) == [data |-> IF f.where = "disk" THEN f.data ELSE Garbage, size |-> f.size]

PutRename(t) ==
  /\ pc[t] = "put_rename"
  /\ \/ /\ pc' = [pc EXCEPT ![t] = "put_dirsync"]
        /\ final' = [final EXCEPT ![id[t]] = [data |-> tmp[t].data, size |-> tmp[t].size]]
        /\ disk' = [disk EXCEPT ![id[t]] = @ \cup {Survivor(tmp[t])}]
        /\ tmp' = [tmp EXCEPT ![t] = Nil]
        /\ UNCHANGED <<ret, lock, buf, sz, strays>>
     \/ "rename" \in Faults /\ RemoveTempAndFail(t) /\ UNCHANGED <<final, disk>>
  /\ UNCHANGED <<up, op, id, shards, counters, history>>

\* Mutant: the directory is not synced.
PutDirSync_Skips(t) ==
  Goto(t, "put_dirsync", "put_count") /\ UNCHANGED <<up, locals, ret, lock, files, counters, history>>

\* fsync of the shard directory makes all of its entries durable, and not the
\* entries of the directory itself and of its parent in the levels above.  A
\* failure (and the Windows build, which has no such call) is only logged.
PutDirSync(t) ==
  /\ Goto(t, "put_dirsync", "put_count")
  /\ \/ disk' = [c \in Chunks |-> IF ShardOf[c] = ShardOf[id[t]]
                                  THEN {final[c]} ELSE disk[c]]
     \/ "dirsync" \in Faults /\ UNCHANGED disk
  /\ UNCHANGED <<up, locals, ret, lock, final, shards, tmp, strays, counters, history>>

PutCount(t) ==
  /\ Goto(t, "put_count", "put_bytes")
  /\ chunk_count' = (chunk_count + 1) % UintModulus
  /\ UNCHANGED <<up, locals, ret, lock, files, bytes_used, history>>

PutBytes(t) ==
  /\ pc[t] = "put_bytes"
  /\ bytes_used' = (bytes_used + Size[buf[t]]) % UintModulus
  /\ Acknowledge(t)
  /\ Finish(t, "ok")
  /\ UNCHANGED <<up, op, id, files, chunk_count, rotted, crashes, rots>>

-----------------------------------------------------------------------------
(* Get, and VerifyOnly, which is a Get whose data is dropped                *)

GetLock(t) == Acquire(t, "get_lock", "get_stat")

\* Mutant: with lock and unlock for the lock_guard, this return forgets to unlock.
GetStat_KeepsLock(t) ==
  /\ pc[t] = "get_stat"
  /\ \/ /\ id[t] \in Present
        /\ pc' = [pc EXCEPT ![t] = "get_read"]
        /\ UNCHANGED <<ret, buf, sz>>
     \/ /\ id[t] \notin Present \/ "stat" \in Faults
        /\ buf' = [buf EXCEPT ![t] = Nil]
        /\ sz' = [sz EXCEPT ![t] = 0]
        /\ pc' = [pc EXCEPT ![t] = "done"]
        /\ ret' = [ret EXCEPT ![t] = "NotFound"]
  /\ UNCHANGED <<up, op, id, lock, files, counters, history>>

\* Any error of file_size is reported as NotFound.
GetStat(t) ==
  /\ pc[t] = "get_stat"
  /\ \/ /\ id[t] \in Present
        /\ pc' = [pc EXCEPT ![t] = "get_read"]
        /\ UNCHANGED <<ret, lock, buf, sz>>
     \/ /\ id[t] \notin Present \/ "stat" \in Faults
        /\ Finish(t, "NotFound")
  /\ UNCHANGED <<up, op, id, files, counters, history>>

\* Mutant: the digest is not compared.
ReadResult_Unchecked(t) == "ok"

\* The digest of what was read is compared with the id.
ReadResult(t) == IF final[id[t]].data = id[t] THEN "ok" ELSE "CorruptionDetected"

\* open, read, compare.
GetRead(t) ==
  /\ pc[t] = "get_read"
  /\ \/ /\ id[t] \in Present
        /\ Finish(t, ReadResult(t))
     \/ /\ id[t] \notin Present \/ "read" \in Faults
        /\ Finish(t, "IoError")
  /\ UNCHANGED <<up, op, id, files, counters, history>>

-----------------------------------------------------------------------------
(* Delete                                                                   *)

DelLock(t) == Acquire(t, "del_lock", "del_stat")

\* Any error of file_size reads as "not there", and deleting what is not there
\* is a success.
DelStat(t) ==
  /\ pc[t] = "del_stat"
  /\ \/ /\ id[t] \in Present
        /\ sz' = [sz EXCEPT ![t] = final[id[t]].size]
        /\ pc' = [pc EXCEPT ![t] = "del_remove"]
        /\ UNCHANGED <<ret, lock, buf>>
     \/ /\ id[t] \notin Present \/ "stat" \in Faults
        /\ Finish(t, "ok")
  /\ UNCHANGED <<up, op, id, files, counters, history>>

\* Mutant: the stripe is let go once the file is gone, before the counters.
DelRemove_Unlocks(t) ==
  /\ pc[t] = "del_remove" /\ id[t] \in Present
  /\ final' = [final EXCEPT ![id[t]] = Nil]
  /\ disk' = [disk EXCEPT ![id[t]] = @ \cup {Nil}]
  /\ acked' = acked \ {id[t]}
  /\ pc' = [pc EXCEPT ![t] = "del_count"]
  /\ lock' = [lock EXCEPT ![Stripe(t)] = Free]
  /\ UNCHANGED <<up, locals, ret, shards, tmp, strays, counters, orphaned, rotted, crashes, rots>>

\* The directory is not synced: until something else syncs it, the old file
\* may come back.
DelRemove(t) ==
  /\ pc[t] = "del_remove"
  /\ \/ /\ id[t] \in Present
        /\ final' = [final EXCEPT ![id[t]] = Nil]
        /\ disk' = [disk EXCEPT ![id[t]] = @ \cup {Nil}]
        /\ acked' = acked \ {id[t]}
        /\ pc' = [pc EXCEPT ![t] = "del_count"]
        /\ UNCHANGED <<ret, lock, buf, sz>>
     \/ /\ id[t] \notin Present \/ "unlink" \in Faults
        /\ Finish(t, "IoError")
        /\ UNCHANGED <<final, disk, acked>>
  /\ UNCHANGED <<up, op, id, shards, tmp, strays, counters, orphaned, rotted, crashes, rots>>

DelCount(t) ==
  /\ Goto(t, "del_count", "del_bytes")
  /\ chunk_count' = (chunk_count - 1) % UintModulus
  /\ UNCHANGED <<up, locals, ret, lock, files, bytes_used, history>>

\* Mutant: the size is asked for when the file is gone.
DelBytes_LateSize(t) ==
  /\ pc[t] = "del_bytes"
  /\ Finish(t, "ok")
  /\ UNCHANGED <<up, op, id, files, counters, history>>

DelBytes(t) ==
  /\ pc[t] = "del_bytes"
  /\ bytes_used' = (bytes_used - sz[t]) % UintModulus
  /\ Finish(t, "ok")
  /\ UNCHANGED <<up, op, id, files, chunk_count, history>>

-----------------------------------------------------------------------------
(* Exists as a call of its own                                              *)

ExistsLock(t) == Acquire(t, "exists_lock", "exists_stat")

ExistsStat(t) ==
  /\ pc[t] = "exists_stat"
  /\ \/ id[t] \in Present /\ Finish(t, "true")
     \/ (id[t] \notin Present \/ "stat" \in Faults) /\ Finish(t, "false")
  /\ UNCHANGED <<up, op, id, files, counters, history>>

-----------------------------------------------------------------------------
(* The environment                                                          *)

\* The medium damages a stored file that is not empty, keeping its length.
Rot(c) ==
  LET Damaged(f) == IF f = Nil THEN Nil ELSE [f EXCEPT !.data = Garbage]
  IN  /\ rots < MaxRots /\ c \in Present /\ final[c].size > 0
      /\ rots' = rots + 1
      /\ final' = [final EXCEPT ![c] = Damaged(@)]
      /\ disk' = [disk EXCEPT ![c] = {Damaged(f) : f \in @}]
      /\ rotted' = rotted \cup {c}
      /\ UNCHANGED <<up, pc, locals, ret, lock, shards, tmp, strays, counters, acked, orphaned,
                     crashes>>

\* The process ends: threads, mutexes and open temporary files are gone.
Die ==
  /\ up /\ crashes < MaxCrashes
  /\ crashes' = crashes + 1
  /\ up' = FALSE
  /\ pc' = [t \in Threads |-> "idle"]
  /\ op' = [t \in Threads |-> Nil]
  /\ id' = [t \in Threads |-> Nil]
  /\ buf' = [t \in Threads |-> Nil]
  /\ sz' = [t \in Threads |-> 0]
  /\ ret' = [t \in Threads |-> Nil]
  /\ lock' = [s \in Stripes |-> Free]
  /\ tmp' = [t \in Threads |-> Nil]
  /\ strays' = strays \cup {id[t] : t \in {u \in Threads : tmp[u] # Nil}}
  /\ UNCHANGED <<counters, acked, rotted, rots>>

\* The process is killed; the kernel keeps what was written.
Kill == Die /\ UNCHANGED <<final, disk, shards, orphaned>>

\* The machine loses power.  Of the directories whose entry was never synced,
\* any may be gone with all they held; of each other chunk one of the possible
\* versions is left.
PowerLoss ==
  /\ Die
  /\ \E lost \in SUBSET {s \in Shards : shards[s] = "unsynced"} :
       /\ final' \in [Chunks -> UNION {disk[c] : c \in Chunks} \cup {Nil}]
       /\ \A c \in Chunks : IF ShardOf[c] \in lost THEN final'[c] = Nil
                                                   ELSE final'[c] \in disk[c]
       /\ shards' = [s \in Shards |-> IF s \in lost \/ shards[s] = "absent"
                                      THEN "absent" ELSE "durable"]
       /\ orphaned' = orphaned \cup {c \in Chunks : ShardOf[c] \in lost}
  /\ disk' = [c \in Chunks |-> {final'[c]}]

-----------------------------------------------------------------------------

Step(t) ==
  \/ PutHash(t) \/ PutLock(t) \/ PutRelock(t) \/ PutStat(t) \/ PutOpen(t)
  \/ PutWrite(t) \/ PutRename(t) \/ PutDirSync(t) \/ PutCount(t) \/ PutBytes(t)
  \/ GetLock(t) \/ GetStat(t) \/ GetRead(t)
  \/ DelLock(t) \/ DelStat(t) \/ DelRemove(t) \/ DelCount(t) \/ DelBytes(t)
  \/ ExistsLock(t) \/ ExistsStat(t)

Next ==
  \/ \E t \in Threads, c \in Chunks :
       \/ \E d \in {c, Garbage} : Begin(t, "put", c, d)
       \/ \E o \in {"get", "delete", "exists"} : Begin(t, o, c, Nil)
  \/ \E t \in Threads : Step(t) \/ Return(t)
  \/ \E c \in Chunks : Rot(c)
  \/ Kill \/ PowerLoss \/ Restart

Spec == Init /\ [][Next]_vars

\* A thread that can move moves: the operating system schedules every thread.
\* Nothing is assumed of the callers, of failures, or of who gets a mutex.
FairSpec == Spec /\ \A t \in Threads : WF_vars(Step(t))
-----------------------------------------------------------------------------
(* Properties                                                               *)

\* Thread t is between lock and unlock of stripe s, as often as it locked.
Guards(t, s) ==
  /\ pc[t] \in Critical /\ Stripe(t) = s
  /\ lock[s] = Held(t, IF pc[t] = "put_stat" THEN 2 ELSE 1)

\* Everything has the shape the code gives it, and a mutex that is locked is
\* owned by a thread inside a guard's scope, twice only within Exists inside Put:
\* every return path, error or not, has let go of its stripe.
TypeOK ==
  /\ up \in BOOLEAN
  /\ pc \in [Threads -> Locations]
  /\ op \in [Threads -> Ops \cup {Nil}]
  /\ id \in [Threads -> Chunks \cup {Nil}]
  /\ buf \in [Threads -> Data \cup {Nil}]
  /\ sz \in [Threads -> Nat]
  /\ ret \in [Threads -> Results \cup {Nil}]
  /\ lock \in [Stripes -> [owner : Threads \cup {Nil}, depth : 0..2]]
  /\ \A s \in Stripes : lock[s] = Free \/ \E t \in Threads : Guards(t, s)
  /\ final \in [Chunks -> File \cup {Nil}]
  /\ disk \in [Chunks -> SUBSET (File \cup {Nil})]
  /\ tmp \in [Threads -> TempFile \cup {Nil}]
  /\ shards \in [Shards -> {"absent", "unsynced", "durable"}]
  /\ strays \subseteq Chunks
  /\ chunk_count \in 0..UintModulus - 1
  /\ acked \subseteq Chunks /\ orphaned \subseteq Chunks /\ rotted \subseteq Chunks
  /\ crashes \in 0..MaxCrashes /\ rots \in 0..MaxRots

\* Two threads are never between lock and unlock of the same stripe, although
\* Put re-enters its mutex through Exists and that inner guard unlocks first.
StripeExclusion ==
  \A t, u \in Threads :
    t # u /\ pc[t] \in Critical /\ pc[u] \in Critical => Stripe(t) # Stripe(u)

\* The chunks chunk_count_ reflects: those on disk except the ones a Put has
\* renamed and not counted yet, and the ones a Delete has unlinked and not
\* uncounted yet.
Counted ==
  {c \in Chunks : \/ /\ c \in Present
                     /\ \A t \in Threads : id[t] = c => pc[t] \notin {"put_dirsync", "put_count"}
                  \/ \E t \in Threads : id[t] = c /\ pc[t] = "del_count"}

\* GetStats never reports a chunk count that is off by more than the calls that
\* are between their rename or unlink and their fetch_add or fetch_sub, and
\* never a wrapped one: the counter is the number of chunks it reflects.
CountExact == up => chunk_count = Cardinality(Counted)

\* The chunks bytes_used_ reflects, which is updated after chunk_count_.
Weighed ==
  {c \in Chunks : \/ /\ c \in Present
                     /\ \A t \in Threads :
                          id[t] = c => pc[t] \notin {"put_dirsync", "put_count", "put_bytes"}
                  \/ \E t \in Threads : id[t] = c /\ pc[t] \in {"del_count", "del_bytes"}}

\* The same of bytes_used_: it is the total length of the chunks it reflects,
\* although Delete subtracts a size it read before it unlinked the file.
BytesExact == up => bytes_used = TotalLength(Weighed, Size)

\* No .chunk file ever holds anything but the bytes its name is the digest of,
\* at any moment and after any crash, unless the medium damaged it: Put writes
\* and syncs a temporary file and only then renames it.
NoTornChunk == \A c \in Present : final[c].data = c \/ c \in rotted

\* Put never leaves its temporary file behind, on any of its error returns;
\* only the end of the process or a failing remove() does.
NoTempLeak ==
  /\ \A t \in Threads : tmp[t] # Nil => pc[t] \in {"put_write", "put_rename"}
  /\ strays # {} => crashes > 0 \/ "tmpremove" \in Faults

\* A chunk whose Put was answered ok is there until it is deleted, also after
\* the process or the machine went down ("Fsync directory ... for durability"),
\* with one exception the code leaves open: a power failure may take a shard
\* directory whose own entry create_directories made and nothing synced.
AckedPutSurvives == acked \ orphaned \subseteq Present

\* Delete answers ok only when the chunk is gone, and no Put has brought it back
\* by then: the stripe is kept until the answer.
DeleteOkMeansGone ==
  [][\A t \in Threads :
       op[t] = "delete" /\ pc[t] # "done" /\ pc'[t] = "done" /\ ret'[t] = "ok"
         => final'[id[t]] = Nil]_vars

\* A call that owns its stripe comes to its return statement (or the process
\* ends), so that no call and no error path keeps a stripe for ever.
CallCompletes ==
  \A t \in Threads : pc[t] \in Critical ~> pc[t] \in {"done", "idle"}

-----------------------------------------------------------------------------
(* The store implements the contract of IChunkStore.  A Put takes effect when
   it finds the file or renames its own, a Delete when it finds nothing or
   unlinks, the other calls when they look.                                 *)

Effective == {"put_dirsync", "put_count", "put_bytes", "del_count", "del_bytes"}

storedBar ==
  [c \in Chunks |-> CASE c \notin Present -> "absent"
                     [] c \in Present /\ final[c].data = c -> "good"
                     [] OTHER -> "bad"]
phaseBar ==
  [t \in Threads |-> CASE pc[t] = "idle" -> "idle"
                      [] pc[t] \in Effective \cup {"done"} -> "done"
                      [] OTHER -> "called"]
fitsBar == [t \in Threads |-> pc[t] \notin Effective \cup {"idle", "done"} /\ buf[t] = id[t]]
retBar  == [t \in Threads |-> IF pc[t] \in Effective THEN "ok" ELSE ret[t]]

Contract == INSTANCE ChunkStoreContract WITH
  stored <- storedBar, phase <- phaseBar, fits <- fitsBar, ret <- retBar

\* What callers of the store can observe is what the contract allows: calls
\* are atomic, an IoError means nothing was changed, corruption is never
\* handed out as data.
ImplementsContract == Contract!Spec
=============================================================================
