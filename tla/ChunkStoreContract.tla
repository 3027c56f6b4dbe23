-------------------------- MODULE ChunkStoreContract --------------------------
(***************************************************************************)
(* What IChunkStore (i_chunk_store.h) promises its callers: every call     *)
(* takes effect at one moment between its invocation and its return, on a  *)
(* map from chunk ids to what is stored under them, or fails with IoError  *)
(* and takes no effect at all.                                             *)
(***************************************************************************)
CONSTANTS Threads, Chunks, Nil, Ops

VARIABLES
  stored,  \* [Chunks -> {"absent", "good", "bad"}]
  rotted,  \* chunks the medium has damaged at some time
  phase,   \* "idle", "called" or "done", per thread
  op, id,  \* the call of a thread
  fits,    \* whether the bytes given to Put are those of the id
  ret      \* its result, once it is done

vars == <<stored, rotted, phase, op, id, fits, ret>>

Init ==
  /\ stored \in [Chunks -> {"absent", "good"}]
  /\ rotted = {}
  /\ phase = [t \in Threads |-> "idle"]
  /\ op = [t \in Threads |-> Nil]
  /\ id = [t \in Threads |-> Nil]
  /\ fits = [t \in Threads |-> FALSE]
  /\ ret = [t \in Threads |-> Nil]

Call(t, o, c, f) ==
  /\ phase[t] = "idle"
  /\ phase' = [phase EXCEPT ![t] = "called"]
  /\ op' = [op EXCEPT ![t] = o]
  /\ id' = [id EXCEPT ![t] = c]
  /\ fits' = [fits EXCEPT ![t] = f]
  /\ UNCHANGED <<stored, rotted, ret>>

\* The call of t takes effect: it answers r and leaves v under its id.
Effect(t, r, v) ==
  /\ phase[t] = "called"
  /\ phase' = [phase EXCEPT ![t] = "done"]
  /\ ret' = [ret EXCEPT ![t] = r]
  /\ stored' = [stored EXCEPT ![id[t]] = v]
  /\ fits' = [fits EXCEPT ![t] = FALSE]
  /\ UNCHANGED <<rotted, op, id>>

\* Put stores the bytes if nothing is stored under the id, and refuses bytes
\* the id is not the digest of.
Put(t) ==
  /\ op[t] = "put"
  /\ \/ ~fits[t] /\ Effect(t, "ChecksumMismatch", stored[id[t]])
     \/ /\ fits[t]
        /\ Effect(t, "ok", IF stored[id[t]] = "absent" THEN "good" ELSE stored[id[t]])

\* Get returns the bytes the id is the digest of, or says why it cannot.
Get(t) ==
  /\ op[t] = "get"
  /\ Effect(t, CASE stored[id[t]] = "good"   -> "ok"
                 [] stored[id[t]] = "bad"    -> "CorruptionDetected"
                 [] stored[id[t]] = "absent" -> "NotFound", stored[id[t]])

\* Delete is idempotent.
Delete(t) == op[t] = "delete" /\ Effect(t, "ok", "absent")

Exists(t) ==
  /\ op[t] = "exists"
  /\ Effect(t, IF stored[id[t]] = "absent" THEN "false" ELSE "true", stored[id[t]])

\* A file-system failure: the call reports it and has changed nothing.
Fail(t) == op[t] # "exists" /\ Effect(t, "IoError", stored[id[t]])

Return(t) ==
  /\ phase[t] = "done"
  /\ phase' = [phase EXCEPT ![t] = "idle"]
  /\ op' = [op EXCEPT ![t] = Nil]
  /\ id' = [id EXCEPT ![t] = Nil]
  /\ ret' = [ret EXCEPT ![t] = Nil]
  /\ UNCHANGED <<stored, rotted, fits>>

Rot(c) ==
  /\ stored[c] # "absent"
  /\ stored' = [stored EXCEPT ![c] = "bad"]
  /\ rotted' = rotted \cup {c}
  /\ UNCHANGED <<phase, op, id, fits, ret>>

\* All calls are gone.  A power failure (as opposed to a kill) may also bring
\* back an older version of a chunk or lose it, but damages none.
Crash ==
  /\ phase' = [t \in Threads |-> "idle"]
  /\ op' = [t \in Threads |-> Nil]
  /\ id' = [t \in Threads |-> Nil]
  /\ fits' = [t \in Threads |-> FALSE]
  /\ ret' = [t \in Threads |-> Nil]
  /\ stored' \in [Chunks -> {"absent", "good", "bad"}]
  /\ \A c \in Chunks : stored'[c] = "bad" => c \in rotted
  /\ UNCHANGED rotted

Next ==
  \/ \E t \in Threads, o \in Ops, c \in Chunks, f \in BOOLEAN : Call(t, o, c, f)
  \/ \E t \in Threads : Put(t) \/ Get(t) \/ Delete(t) \/ Exists(t) \/ Fail(t) \/ Return(t)
  \/ \E c \in Chunks : Rot(c)
  \/ Crash

Spec == Init /\ [][Next]_vars
===============================================================================
