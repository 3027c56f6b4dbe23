-------------------------------- MODULE Logger --------------------------------
(***************************************************************************)
(* The operational log of Logger (libs/common/src/logger.cpp): the         *)
(* correlation id is a thread-local variable, a ScopedCorrelationId puts   *)
(* back the value it found, and a line carries the id of its thread.       *)
(***************************************************************************)
EXTENDS Integers, Sequences

CONSTANTS
  Threads,
  NoId,      \* the empty string
  MinLevel   \* LoggerConfig.level

VARIABLES
  t_correlation_id,  \* the id of each thread
  scopes,            \* previous_value_ of the scopes alive on it, innermost last
  lines,             \* what has been written: [call, id]
  opened             \* history: the ids of those scopes

logVars == <<t_correlation_id, scopes, lines, opened>>

LogInit == /\ t_correlation_id = [t \in Threads |-> NoId] /\ lines = {}
           /\ scopes = [t \in Threads |-> <<>>] /\ opened = [t \in Threads |-> <<>>]

Trace == 0
Info  == 2
Warn  == 3
Error == 4

\* FormatOpMessage and the level of the logger; tag is the call it is about.
Written(level, tag, id) == IF level >= MinLevel THEN {[call |-> tag, id |-> id]} ELSE {}
Log(t, level, tag) == lines' = lines \cup Written(level, tag, t_correlation_id[t])

WithCorrelationId(t, id) ==
  /\ scopes' = [scopes EXCEPT ![t] = Append(@, t_correlation_id[t])]
  /\ t_correlation_id' = [t_correlation_id EXCEPT ![t] = id]
  /\ opened' = [opened EXCEPT ![t] = Append(@, id)]

\* Mutant: the end of a scope clears the id instead of putting back the old one.
EndScope_Clears(t) ==
  /\ t_correlation_id' = [t_correlation_id EXCEPT ![t] = NoId]
  /\ scopes' = [scopes EXCEPT ![t] = SubSeq(@, 1, Len(@) - 1)]
  /\ opened' = [opened EXCEPT ![t] = SubSeq(@, 1, Len(@) - 1)]

\* ~ScopedCorrelationId of the innermost scope.
EndScope(t) ==
  /\ t_correlation_id' = [t_correlation_id EXCEPT ![t] = scopes[t][Len(scopes[t])]]
  /\ scopes' = [scopes EXCEPT ![t] = SubSeq(@, 1, Len(@) - 1)]
  /\ opened' = [opened EXCEPT ![t] = SubSeq(@, 1, Len(@) - 1)]

\* The id in force on a thread is always that of the innermost scope still open
\* on it, and none when there is no scope: the "correct scoping" of logger_test.
ScopesNest ==
  \A t \in Threads :
    t_correlation_id[t] = IF opened[t] = <<>> THEN NoId ELSE opened[t][Len(opened[t])]
=============================================================================
