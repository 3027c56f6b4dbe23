-------------------------------- MODULE Config --------------------------------
(***************************************************************************)
(* Config and ConfigSchema (libs/common/src/config.cpp, config_schema.cpp) *)
(* as the nodes of a cluster use them: each loads the one deployed file in *)
(* an environment of its own, may validate it against a schema, and the    *)
(* main function and service constructor of a storage node read settings.  *)
(***************************************************************************)
EXTENDS Integers

CONSTANTS
  Nodes,
  Files,            \* deployable files: [exists, parses, data]
  Envs,             \* environments: [cluster, vars]
  Schemas,          \* sets of [section, key, type, required], one per section and key
  Absent,           \* no value of a key or variable
  LimitKey, ThreadsKey, DefaultLimit, DefaultThreads,
  Word, IntWord     \* 2^64 and 2^32

\* ToUpperAndUnderscore: a key is a word spelled with some case and separators,
\* and the name of its variable keeps the word alone.
EnvName(key) == key.word

\* A value of the file is [kind, v]; a text of the environment is what stoll,
\* stod and the comparisons of GetBool make of it: [raw, int, dbl, bool].
Signed(v, w) == IF v % w >= w \div 2 THEN (v % w) - w ELSE v % w

ASSUME ConfigConstants ==
  /\ Word \in Nat /\ IntWord \in Nat /\ Word > IntWord /\ IntWord > 1
  /\ DefaultLimit \in 0..Word \div 2 - 1 /\ DefaultThreads \in 0..IntWord \div 2 - 1
  /\ \A schema \in Schemas : \A s \in schema :
       s.type \in {"String", "Int64", "Double", "Bool"} /\ s.required \in BOOLEAN

VARIABLES file, env, loaded, data, checked, limit, threads

configVars == <<file, env, loaded, data, checked, limit, threads>>

Found(v)  == [error |-> "none", value |-> v]
Failed(e) == [error |-> e, value |-> Absent]

Unchecked == [schema |-> {}, errors |-> {}]

ConfigInit ==
  /\ file = Absent /\ env = [n \in Nodes |-> Absent]
  /\ loaded = [n \in Nodes |-> "no"] /\ data = [n \in Nodes |-> Absent]
  /\ checked = [n \in Nodes |-> Unchecked]
  /\ limit = [n \in Nodes |-> Absent] /\ threads = [n \in Nodes |-> Absent]

\* The operator installs the file everywhere and sets each node's environment.
Deploy(f, e) ==
  /\ file' = f /\ env' = e
  /\ UNCHANGED <<loaded, data, checked, limit, threads>>

-----------------------------------------------------------------------------
(* LoadFromFile                                                             *)

LoadResult(n) ==
  IF env[n].cluster THEN "ClusterInvariantEnvOverrideAttempted"
  ELSE IF ~file.exists THEN "FileNotFound"
  ELSE IF ~file.parses THEN "MalformedJson" ELSE "ok"

LoadFromFile(n) ==
  /\ loaded[n] = "no" /\ file # Absent
  /\ loaded' = [loaded EXCEPT ![n] = LoadResult(n)]
  /\ data' = [data EXCEPT ![n] = IF LoadResult(n) = "ok" THEN file.data ELSE @]
  /\ UNCHANGED <<file, env, checked, limit, threads>>

-----------------------------------------------------------------------------
(* The getters                                                              *)

\* Mutant: the section is not looked at.
GetEnvOverride_AnySection(n, section, key) == env[n].vars[EnvName(key)]

GetEnvOverride(n, section, key) ==
  IF section = "cluster_invariant" THEN Absent ELSE env[n].vars[EnvName(key)]

\* std::stoll and std::stod throw, or read a prefix; GetBool compares.
FromEnv(type, t) ==
  CASE type = "String" -> Found(t.raw)
    [] type = "Int64"  -> IF t.int  = Absent THEN Failed("TypeMismatch") ELSE Found(t.int)
    [] type = "Double" -> IF t.dbl  = Absent THEN Failed("TypeMismatch") ELSE Found(t.dbl)
    [] type = "Bool"   -> IF t.bool = Absent THEN Failed("TypeMismatch") ELSE Found(t.bool)

\* Mutant: GetDouble wants a floating-point number, as GetInt64 wants an integer.
KindsRead_Strict(type) ==
  CASE type = "String" -> {"string"} [] type = "Int64" -> {"integer"}
    [] type = "Double" -> {"float"} [] type = "Bool" -> {"boolean"}

\* is_string, is_number_integer, is_number, is_boolean of the getters.
KindsRead(type) ==
  CASE type = "String" -> {"string"} [] type = "Int64" -> {"integer"}
    [] type = "Double" -> {"float", "integer"} [] type = "Bool" -> {"boolean"}

\* get<int64_t> of an unsigned number above the signed range wraps around.
FromFile(type, j) ==
  IF j = Absent THEN Failed("KeyNotFound")
  ELSE IF j.kind \notin KindsRead(type) THEN Failed("TypeMismatch")
  ELSE Found(IF type = "Int64" THEN Signed(j.v, Word) ELSE j.v)

Get(n, section, key, type) ==
  IF GetEnvOverride(n, section, key) # Absent
  THEN FromEnv(type, GetEnvOverride(n, section, key))
  ELSE FromFile(type, data[n][section][key])

\* The overloads with a default, and ValueOr: every error gives the default.
ValueOr(r, default) == IF r.error = "none" THEN r.value ELSE default

-----------------------------------------------------------------------------
(* Validate                                                                 *)

\* The types validate_section accepts, in a switch of its own.
KindsValid(type) ==
  CASE type = "String" -> {"string"} [] type = "Int64" -> {"integer"}
    [] type = "Double" -> {"float", "integer"} [] type = "Bool" -> {"boolean"}

\* Mutant: an overridden key is checked in the file as well.
Objection_Env(n, s) ==
  LET j == data[n][s.section][s.key]
  IN  IF j = Absent THEN s.required ELSE j.kind \notin KindsValid(s.type)

Objection(n, s) ==
  LET j == data[n][s.section][s.key]
  IN  /\ GetEnvOverride(n, s.section, s.key) = Absent
      /\ IF j = Absent THEN s.required ELSE j.kind \notin KindsValid(s.type)

Validate(n, schema) ==
  /\ loaded[n] = "ok" /\ checked[n] = Unchecked
  /\ checked' = [checked EXCEPT ![n] = [schema |-> schema,
                                        errors |-> {s \in schema : Objection(n, s)}]]
  /\ UNCHANGED <<file, env, loaded, data, limit, threads>>

-----------------------------------------------------------------------------
(* The storage node                                                         *)

\* Mutant: the limit is kept in an int.
LimitOf_Narrow(n) ==
  Signed(ValueOr(Get(n, "cluster_invariant", LimitKey, "Int64"), DefaultLimit), IntWord) % Word

\* max_chunk_bytes_ is unsigned, what it is set from is not.
LimitOf(n) ==
  ValueOr(Get(n, "cluster_invariant", LimitKey, "Int64"), DefaultLimit) % Word

\* main and the constructor of the service, after a load that succeeded.
\* thread_pool_size is an int.
ReadSettings(n) ==
  /\ loaded[n] = "ok" /\ limit[n] = Absent
  /\ limit' = [limit EXCEPT ![n] = LimitOf(n)]
  /\ threads' = [threads EXCEPT ![n] =
       Signed(ValueOr(Get(n, "node_local", ThreadsKey, "Int64"), DefaultThreads), IntWord)]
  /\ UNCHANGED <<file, env, loaded, data, checked>>

ConfigNext ==
  \/ file = Absent /\ \E f \in Files, e \in [Nodes -> Envs] : Deploy(f, e)
  \/ \E n \in Nodes : \/ LoadFromFile(n) \/ ReadSettings(n)
                      \/ \E schema \in Schemas : Validate(n, schema)
ConfigSpec == ConfigInit /\ [][ConfigNext]_configVars

-----------------------------------------------------------------------------
\* The nodes of a cluster enforce one limit, whatever their environments, and
\* it is the number in the file when that is an integer from 0 to 2^64 - 1,
\* through its passage as a signed one.
LimitAgreed ==
  \A n, m \in Nodes :
    limit[n] # Absent /\ limit[m] # Absent =>
      /\ limit[n] = limit[m]
      /\ LET j == file.data["cluster_invariant"][LimitKey]
         IN  IF j # Absent /\ j.kind = "integer"
             THEN j.v \in 0..Word - 1 => limit[n] = j.v
             ELSE limit[n] = DefaultLimit

\* Validate objects to a key exactly when no override hides it and reading it
\* with the type of the schema fails, an absent optional key aside: the switch
\* of Validate and the checks of the four getters are separate code.
ValidateForesees ==
  \A n \in Nodes : \A s \in checked[n].schema :
    LET r == Get(n, s.section, s.key, s.type)
    IN  s \in checked[n].errors <=>
          /\ GetEnvOverride(n, s.section, s.key) = Absent
          /\ r.error # "none"
          /\ r.error = "KeyNotFound" => s.required
=============================================================================
