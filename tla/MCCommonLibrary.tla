--------------------------- MODULE MCCommonLibrary ---------------------------
(***************************************************************************)
(* Instances of the parts of libs/common that share no state: one of them  *)
(* is used in each behaviour.                                              *)
(***************************************************************************)
EXTENDS PathValidator, ChunkId, Config, Lease, FiniteSets

CONSTANTS slash, dot, nul, letter, star, MaxLen

MCChar    == {slash, dot, nul, letter, star}
MCAllowed == {dot, letter}
MCPaths   == UNION {[1..l -> MCChar] : l \in 0..MaxLen}

\* A character of each kind, with the digits at the ends of the ranges.
MCHexChars ==
  {LowerDigit(v) : v \in {0, 9, 15}} \cup {[kind |-> "upper", v |-> 10]}
    \cup [kind : {"space", "plus", "minus", "other"}, v : {0}]
MCHexTexts == UNION {[1..l -> MCHexChars] : l \in {1, 2, 4}}
MCDigests  == [1..N -> {0, 9, 16, 240, 255}]

-----------------------------------------------------------------------------
MCLimitKey   == [word |-> "MAX_CHUNK_BYTES", spelling |-> "max_chunk_bytes"]
MCThreadsKey == [word |-> "GRPC_THREAD_POOL_SIZE", spelling |-> "grpc_thread_pool_size"]
MCDottedKey  == [word |-> "GRPC_THREAD_POOL_SIZE", spelling |-> "grpc.thread.pool.size"]

Json(kind, v) == [kind |-> kind, v |-> v]
\* With a Word of 16 the integers run from below zero to past the signed range.
MCJson == {Absent, Json("string", 5), Json("float", 5), Json("boolean", 1), Json("null", 0)}
             \cup {Json("integer", v) : v \in {-2, 0, 5, 12}}
MCNodeJson == {Absent, Json("string", 5), Json("integer", 6), Json("float", 5)}

MCFiles ==
  {[exists |-> FALSE, parses |-> FALSE, data |-> Absent],
   [exists |-> TRUE, parses |-> FALSE, data |-> Absent]} \cup
  {[exists |-> TRUE, parses |-> TRUE,
    data |-> [cluster_invariant |-> [k \in {MCLimitKey} |-> c],
              node_local |-> [k \in {MCThreadsKey, MCDottedKey} |-> IF k = MCThreadsKey THEN t ELSE Json("boolean", 1)]]] :
     c \in MCJson, t \in MCNodeJson}

\* "1", and "yes", which only GetString reads.
MCTexts == {[raw |-> "1", int |-> 1, dbl |-> 1, bool |-> TRUE],
            [raw |-> "yes", int |-> Absent, dbl |-> Absent, bool |-> Absent]}
MCEnvs ==
  {[cluster |-> FALSE, vars |-> [w \in {"MAX_CHUNK_BYTES", "GRPC_THREAD_POOL_SIZE"} |-> t]] :
     t \in MCTexts \cup {Absent}}
    \cup {[cluster |-> TRUE, vars |-> [w \in {"MAX_CHUNK_BYTES", "GRPC_THREAD_POOL_SIZE"} |-> Absent]]}

Spec1(section, key, type, required) ==
  [section |-> section, key |-> key, type |-> type, required |-> required]
MCSchemas ==
  {{Spec1("cluster_invariant", MCLimitKey, type, type \in {"String", "Double"}),
    Spec1("node_local", MCThreadsKey, type, type \in {"Int64", "Double"}),
    Spec1("node_local", MCDottedKey, "Bool", TRUE)} :
      type \in {"String", "Int64", "Double", "Bool"}}

-----------------------------------------------------------------------------
MCInit == PathInit /\ IdInit /\ ConfigInit /\ LeaseInit

UsePath   == IdInit /\ ConfigInit /\ LeaseInit /\ PathNext
             /\ UNCHANGED <<idVars, configVars, leaseVars>>
UseId     == PathInit /\ IdInit /\ ConfigInit /\ LeaseInit /\ IdNext
             /\ UNCHANGED <<pathVars, configVars, leaseVars>>
UseConfig == PathInit /\ IdInit /\ LeaseInit /\ ConfigNext
             /\ UNCHANGED <<pathVars, idVars, leaseVars>>
UseLease  == PathInit /\ IdInit /\ ConfigInit /\ LeaseNext
             /\ UNCHANGED <<pathVars, idVars, configVars>>

MCNext == UsePath \/ UseId \/ UseConfig \/ UseLease
MCSpec == MCInit /\ [][MCNext]_<<pathVars, idVars, configVars, leaseVars>>
=============================================================================
