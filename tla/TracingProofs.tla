---------------------------- MODULE TracingProofs ----------------------------
(***************************************************************************)
(* Proofs about Tracing, for any calls and threads: scopes nest, a trace   *)
(* follows its call across nodes, and traces mix only if a client mixes    *)
(* them.  The inductive invariant says of everything that holds an id (a   *)
(* line, a request, a thread at work) that the client sent the id, or that *)
(* it sent none and the id was made for its call.                          *)
(***************************************************************************)
EXTENDS Tracing, SequenceTheorems, TLAPS

Id == Nat \cup {NoId}

TypeInv ==
  /\ t_correlation_id \in [Threads -> Id]
  /\ scopes \in [Threads -> Seq(Id)] /\ opened \in [Threads -> Seq(Id)]
  /\ lines \subseteq [call : Calls \cup {NoCall}, id : Id]
  /\ state \in [Calls -> {"unused", "pending", "running", "over"}]
  /\ sent \in [Calls -> Id \cup {NoMetadata}] /\ root \in [Calls -> Calls]
  /\ rpc \in [Calls -> {"none", "ReplicateChunk", "other", "SayHello"}]
  /\ version \in [Calls -> Nat]
  /\ serving \in [Threads -> Calls \cup {NoCall}] /\ minted \in Seq(Calls)

\* A scope put aside what the scope around it had set.
Stacked ==
  \A t \in Threads :
    /\ Len(scopes[t]) = Len(opened[t])
    /\ \A k \in 1..Len(scopes[t]) :
         scopes[t][k] = IF k = 1 THEN NoId ELSE opened[t][k - 1]

\* The id is the one that the client of the call c belongs to sent, or was made
\* for that call if the client sent none.
Owns(c, id) ==
  IF sent[root[c]] # NoMetadata THEN id = sent[root[c]]
  ELSE id \in 1..Len(minted) /\ minted[id] = root[c]

Working ==
  \A t \in Handlers \cup Greeters :
    IF serving[t] = NoCall THEN scopes[t] = <<>>
    ELSE /\ Len(scopes[t]) = 1 /\ state[serving[t]] # "unused"
         /\ Owns(serving[t], t_correlation_id[t])

Requests ==
  \A c \in Calls :
    IF state[c] = "unused" THEN sent[c] = NoMetadata /\ root[c] = c
    ELSE /\ state[root[c]] # "unused"
         /\ sent[c] # NoMetadata => Owns(c, sent[c])
         /\ sent[root[c]] # NoMetadata => sent[c] # NoMetadata

Sound(l) == IF l.call = NoCall THEN l.id = NoId
            ELSE state[l.call] # "unused" /\ Owns(l.call, l.id)

Lines == \A l \in lines : Sound(l)

\* What actions on calls establish: the types, the requests, and that calls
\* under way stay so and keep their ids.
CallsKept ==
  /\ state' \in [Calls -> {"unused", "pending", "running", "over"}]
  /\ sent' \in [Calls -> Id \cup {NoMetadata}] /\ root' \in [Calls -> Calls] /\ version' \in [Calls -> Nat]
  /\ rpc' \in [Calls -> {"none", "ReplicateChunk", "other", "SayHello"}]
  /\ minted' \in Seq(Calls)
  /\ \A d \in Calls : state[d] # "unused" =>
       state'[d] # "unused" /\ \A k : Owns(d, k) => Owns(d, k)'
  /\ Requests'

TraceInv == TypeInv /\ Stacked /\ ScopesNest /\ Working /\ Requests /\ Lines

-----------------------------------------------------------------------------
(* The log                                                                  *)

\* Opening a scope keeps the stacks of all threads in order.
LEMMA OpenNests ==
  ASSUME TypeInv, Stacked, ScopesNest, NEW t \in Threads, NEW id \in Id,
         WithCorrelationId(t, id)
  PROVE  /\ t_correlation_id' \in [Threads -> Id]
         /\ scopes' \in [Threads -> Seq(Id)] /\ opened' \in [Threads -> Seq(Id)]
         /\ Stacked' /\ ScopesNest'
         /\ Len(scopes'[t]) = Len(scopes[t]) + 1 /\ t_correlation_id'[t] = id
         /\ \A u \in Threads \ {t} : scopes'[u] = scopes[u]
                                     /\ t_correlation_id'[u] = t_correlation_id[u]
  <1>1. /\ t_correlation_id' \in [Threads -> Id]
        /\ scopes' \in [Threads -> Seq(Id)] /\ opened' \in [Threads -> Seq(Id)]
    BY SMTT(30) DEF TypeInv, WithCorrelationId, Id
  <1>2. /\ scopes'[t] = Append(scopes[t], t_correlation_id[t])
        /\ opened'[t] = Append(opened[t], id) /\ t_correlation_id'[t] = id
    BY SMTT(30) DEF TypeInv, WithCorrelationId
  <1>3. ASSUME NEW u \in Threads \ {t}
        PROVE  /\ scopes'[u] = scopes[u] /\ opened'[u] = opened[u]
               /\ t_correlation_id'[u] = t_correlation_id[u]
    BY SMTT(30) DEF TypeInv, WithCorrelationId
  <1>4. scopes[t] \in Seq(Id) /\ opened[t] \in Seq(Id) /\ t_correlation_id[t] \in Id
    BY DEF TypeInv
  <1>5. Len(scopes'[t]) = Len(scopes[t]) + 1 /\ Len(opened'[t]) = Len(opened[t]) + 1
    BY <1>2, <1>4, SMTT(30)
  <1>6. ASSUME NEW k \in 1..Len(scopes'[t])
        PROVE  scopes'[t][k] = IF k = 1 THEN NoId ELSE opened'[t][k - 1]
    BY <1>2, <1>4, <1>5, SMTT(30) DEF Stacked, ScopesNest
  <1>7. opened'[t] # <<>> /\ opened'[t][Len(opened'[t])] = id
    <2>1. /\ Append(opened[t], id) # <<>> /\ Len(Append(opened[t], id)) = Len(opened[t]) + 1
          /\ Append(opened[t], id)[Len(opened[t]) + 1] = id
      BY <1>4, AppendProperties
    <2> QED BY <1>2, <2>1, Zenon
  <1>8. Stacked'
    BY <1>3, <1>5, <1>6, SMTT(30) DEF Stacked
  <1>9. ScopesNest'
    BY <1>2, <1>3, <1>7, Zenon DEF ScopesNest
  <1> QED BY <1>1, <1>2, <1>3, <1>5, <1>8, <1>9

\* What is left of a stack when its top is taken off.
LEMMA Popped ==
  ASSUME NEW S, NEW s \in Seq(S), NEW n \in Nat \ {0}, Len(s) = n
  PROVE  /\ SubSeq(s, 1, n - 1) = <<>> <=> n = 1
         /\ n # 1 => SubSeq(s, 1, n - 1)[n - 1] = s[n - 1]
  <1>1. Len(SubSeq(s, 1, n - 1)) = n - 1
    BY SMTT(30)
  <1>2. n # 1 => SubSeq(s, 1, n - 1)[n - 1] = s[n - 1]
    BY SMTT(30)
  <1>3. SubSeq(s, 1, 0) = <<>> /\ Len(<<>>) = 0
    BY SubSeqEmpty
  <1>4. SubSeq(s, 1, n - 1) = <<>> => n - 1 = 0
    BY <1>1, <1>3, Zenon
  <1>5. n - 1 = 0 <=> n = 1
    OBVIOUS
  <1> QED BY <1>2, <1>3, <1>4, <1>5, Zenon

\* So does closing one, when there is one to close.
LEMMA CloseNests ==
  ASSUME TypeInv, Stacked, ScopesNest, NEW t \in Threads, scopes[t] # <<>>, EndScope(t)
  PROVE  /\ t_correlation_id' \in [Threads -> Id]
         /\ scopes' \in [Threads -> Seq(Id)] /\ opened' \in [Threads -> Seq(Id)]
         /\ Stacked' /\ ScopesNest'
         /\ Len(scopes'[t]) = Len(scopes[t]) - 1
         /\ \A u \in Threads \ {t} : scopes'[u] = scopes[u]
                                     /\ t_correlation_id'[u] = t_correlation_id[u]
  <1> DEFINE n == Len(scopes[t])
  <1>1. scopes[t] \in Seq(Id) /\ opened[t] \in Seq(Id)
    BY DEF TypeInv
  <1>2. n \in Nat /\ n > 0 /\ Len(opened[t]) = n
    BY <1>1, SMTT(30) DEF Stacked
  <1>3. /\ scopes'[t] = SubSeq(scopes[t], 1, n - 1)
        /\ opened'[t] = SubSeq(opened[t], 1, n - 1)
        /\ t_correlation_id'[t] = scopes[t][n]
    BY <1>2, SMTT(30) DEF TypeInv, EndScope
  <1>4. ASSUME NEW u \in Threads \ {t}
        PROVE  /\ scopes'[u] = scopes[u] /\ opened'[u] = opened[u]
               /\ t_correlation_id'[u] = t_correlation_id[u]
    BY SMTT(30) DEF TypeInv, EndScope
  <1>5. /\ SubSeq(scopes[t], 1, n - 1) \in Seq(Id) /\ SubSeq(opened[t], 1, n - 1) \in Seq(Id)
        /\ Len(SubSeq(scopes[t], 1, n - 1)) = n - 1 /\ Len(SubSeq(opened[t], 1, n - 1)) = n - 1
        /\ \A k \in 1..n - 1 : /\ SubSeq(scopes[t], 1, n - 1)[k] = scopes[t][k]
                               /\ SubSeq(opened[t], 1, n - 1)[k] = opened[t][k]
    BY <1>1, <1>2, SMTT(30)
  <1>6. scopes[t][n] \in Id
    BY <1>1, <1>2, SMTT(30)
  <1>7. /\ t_correlation_id' \in [Threads -> Id]
        /\ scopes' \in [Threads -> Seq(Id)] /\ opened' \in [Threads -> Seq(Id)]
    BY <1>2, <1>5, <1>6, SMTT(30) DEF TypeInv, EndScope
  <1>8. Stacked'
    <2>1. Len(scopes'[t]) = n - 1 /\ Len(opened'[t]) = n - 1
      BY <1>3, <1>5
    <2>2. ASSUME NEW k \in 1..n - 1
          PROVE  scopes'[t][k] = IF k = 1 THEN NoId ELSE opened'[t][k - 1]
      <3>1. k \in 1..n /\ (k # 1 => k - 1 \in 1..n - 1)
        BY <1>2
      <3>2. scopes[t][k] = IF k = 1 THEN NoId ELSE opened[t][k - 1]
        BY <3>1, Zenon DEF Stacked
      <3> QED BY <1>3, <1>5, <3>1, <3>2, Zenon
    <2>3. ASSUME NEW u \in Threads \ {t}
          PROVE  /\ Len(scopes'[u]) = Len(opened'[u])
                 /\ \A k \in 1..Len(scopes'[u]) :
                      scopes'[u][k] = IF k = 1 THEN NoId ELSE opened'[u][k - 1]
      BY <1>4, <2>3 DEF Stacked
    <2> QED BY <2>1, <2>2, <2>3, Zenon DEF Stacked
  <1>9. ScopesNest'
    <2>1. n \in 1..n /\ (n # 1 => Len(SubSeq(opened[t], 1, n - 1)) = n - 1)
      BY <1>2, <1>5
    <2>2. scopes[t][n] = IF n = 1 THEN NoId ELSE opened[t][n - 1]
      BY <2>1, Zenon DEF Stacked
    <2>3. /\ SubSeq(opened[t], 1, n - 1) = <<>> <=> n = 1
          /\ n # 1 => SubSeq(opened[t], 1, n - 1)[n - 1] = opened[t][n - 1]
      <3>1. n \in Nat \ {0}
        BY <1>2
      <3> QED BY <1>1, <1>2, <3>1, Popped, Zenon
    <2>4. t_correlation_id'[t] =
            IF opened'[t] = <<>> THEN NoId ELSE opened'[t][Len(opened'[t])]
      BY <1>3, <2>1, <2>2, <2>3, Zenon
    <2> QED BY <1>4, <2>4, Zenon DEF ScopesNest
  <1> QED BY <1>3, <1>4, <1>5, <1>7, <1>8, <1>9

-----------------------------------------------------------------------------
(* The calls                                                                *)

\* Ids already given away are in one hand still after another id is generated.
LEMMA MintKeeps ==
  ASSUME minted \in Seq(Calls), NEW x \in Calls, minted' = minted \/ minted' = Append(minted, x)
  PROVE  /\ minted' \in Seq(Calls)
         /\ \A id \in 1..Len(minted) : id \in 1..Len(minted') /\ minted'[id] = minted[id]
         /\ minted' = Append(minted, x) => UUID \in 1..Len(minted') /\ minted'[UUID] = x
  BY SMTT(30) DEF UUID

\* A thread, a line or a request of a call that is under way keeps its id's
\* owner when ids are generated and other calls are sent.
LEMMA OwnsKept ==
  ASSUME TypeInv, NEW x \in Calls, minted' = minted \/ minted' = Append(minted, x),
         NEW c \in Calls, NEW id, Owns(c, id),
         root'[c] = root[c], sent'[root[c]] = sent[root[c]]
  PROVE  Owns(c, id)'
  <1>1. minted \in Seq(Calls)
    BY DEF TypeInv
  <1>2. CASE sent[root[c]] # NoMetadata
    BY <1>2, Zenon DEF Owns
  <1>3. CASE sent[root[c]] = NoMetadata
    <2>1. id \in 1..Len(minted) /\ minted[id] = root[c]
      BY <1>3, Zenon DEF Owns
    <2>2. id \in 1..Len(minted') /\ minted'[id] = minted[id]
      BY <1>1, <2>1, MintKeeps, Zenon
    <2> QED BY <1>3, <2>1, <2>2, Zenon DEF Owns
  <1> QED BY <1>2, <1>3, Zenon

\* Sending a request keeps the invariant of the requests, and the ids of all
\* calls under way.
LEMMA SendKeeps ==
  ASSUME TypeInv, Requests,
         NEW c \in Calls, NEW r \in {"ReplicateChunk", "other", "SayHello"}, NEW v \in Nat,
         NEW id \in Id \cup {NoMetadata}, NEW top \in Calls, Send(c, r, v, id, top),
         NEW x \in Calls, minted' = minted \/ minted' = Append(minted, x),
         \/ top = c
         \/ /\ state[top] # "unused" /\ id # NoMetadata
            /\ IF sent[top] # NoMetadata THEN id = sent[top]
               ELSE id \in 1..Len(minted') /\ minted'[id] = top
  PROVE  CallsKept /\ state'[c] # "unused" /\ root'[c] = top /\ sent'[c] = id
  <1>1. /\ state' \in [Calls -> {"unused", "pending", "running", "over"}]
        /\ sent' \in [Calls -> Id \cup {NoMetadata}] /\ root' \in [Calls -> Calls] /\ version' \in [Calls -> Nat]
        /\ rpc' \in [Calls -> {"none", "ReplicateChunk", "other", "SayHello"}]
    BY SMTT(30) DEF TypeInv, Send
  <1>2. minted' \in Seq(Calls)
    BY MintKeeps, Zenon DEF TypeInv
  <1>3. /\ state[c] = "unused" /\ state'[c] = "pending" /\ root'[c] = top /\ sent'[c] = id
        /\ \A d \in Calls : d # c => state'[d] = state[d] /\ root'[d] = root[d] /\ sent'[d] = sent[d]
    BY SMTT(30) DEF TypeInv, Send
  <1>4. ASSUME NEW d \in Calls, state[d] # "unused"
        PROVE  state'[d] # "unused" /\ \A k : Owns(d, k) => Owns(d, k)'
    <2>1. d # c /\ root[d] \in Calls /\ state[root[d]] # "unused"
      BY <1>3, <1>4 DEF TypeInv, Requests
    <2>2. state'[d] = state[d] /\ root'[d] = root[d] /\ sent'[root[d]] = sent[root[d]]
      BY <1>3, <2>1, Zenon
    <2>3. ASSUME NEW k, Owns(d, k) PROVE Owns(d, k)'
      BY <2>2, <2>3, OwnsKept, Zenon
    <2> QED BY <1>4, <2>2, <2>3, Zenon
  <1>5. ASSUME NEW d \in Calls
        PROVE  IF state'[d] = "unused" THEN sent'[d] = NoMetadata /\ root'[d] = d
               ELSE /\ state'[root'[d]] # "unused"
                    /\ sent'[d] # NoMetadata => Owns(d, sent[d])'
                    /\ sent'[root'[d]] # NoMetadata => sent'[d] # NoMetadata
    <2>1. CASE d = c
      <3>1. state'[top] # "unused"
        BY <1>3, <1>4, Zenon
      <3>2. sent'[top] # NoMetadata => id # NoMetadata
        BY <1>3, Zenon
      <3>3. id # NoMetadata => Owns(c, sent[c])'
        BY <1>3, Zenon DEF Owns
      <3> QED BY <1>3, <2>1, <3>1, <3>2, <3>3, Zenon
    <2>2. CASE d # c /\ state[d] = "unused"
      BY <1>3, <2>2, Zenon DEF Requests
    <2>3. CASE d # c /\ state[d] # "unused"
      <3>1. /\ root[d] \in Calls /\ state[root[d]] # "unused"
            /\ sent[d] # NoMetadata => Owns(d, sent[d])
            /\ sent[root[d]] # NoMetadata => sent[d] # NoMetadata
        BY <2>3 DEF TypeInv, Requests
      <3>2. /\ root[d] # c /\ state'[d] = state[d] /\ root'[d] = root[d] /\ sent'[d] = sent[d]
            /\ sent'[root[d]] = sent[root[d]] /\ state'[root[d]] # "unused"
        BY <1>3, <2>3, <3>1, Zenon
      <3>3. sent[d] # NoMetadata => Owns(d, sent[d])'
        BY <3>1, <3>2, OwnsKept, Zenon
      <3> QED BY <2>3, <3>1, <3>2, <3>3, Zenon
    <2> QED BY <2>1, <2>2, <2>3, Zenon
  <1>6. Requests'
    BY <1>5, Zenon DEF Requests
  <1>7. CallsKept
    BY <1>1, <1>2, <1>4, <1>6, Zenon DEF CallsKept
  <1> QED BY <1>3, <1>7
-----------------------------------------------------------------------------
(* The steps                                                                *)

\* Lines stay sound, and a new one is when its call owns its id.
LEMMA LinesKept ==
  ASSUME TypeInv, Lines, CallsKept, NEW c \in Calls \cup {NoCall}, NEW id \in Id,
         lines' \subseteq lines \cup {[call |-> c, id |-> id]},
         Sound([call |-> c, id |-> id])'
  PROVE  lines' \subseteq [call : Calls \cup {NoCall}, id : Id] /\ Lines'
  <1>1. [call |-> c, id |-> id] \in [call : Calls \cup {NoCall}, id : Id]
    OBVIOUS
  <1>2. lines' \subseteq [call : Calls \cup {NoCall}, id : Id]
    BY <1>1, Zenon DEF TypeInv
  <1>3. ASSUME NEW l \in lines PROVE Sound(l)'
    <2>1. Sound(l) /\ l.call \in Calls \cup {NoCall}
      BY DEF Lines, TypeInv
    <2> QED BY <2>1, Zenon DEF Sound, CallsKept
  <1>4. ASSUME NEW l \in lines' PROVE Sound(l)'
    <2>1. l \in lines \/ l = [call |-> c, id |-> id]
      OBVIOUS
    <2> QED BY <1>3, <2>1, Zenon
  <1> QED BY <1>2, <1>4, Zenon DEF Lines

\* A step that leaves the log and the threads alone.
LEMMA QuietStep ==
  ASSUME TraceInv, CallsKept, UNCHANGED logVars, serving' = serving
  PROVE  TraceInv'
  <1>1. UNCHANGED <<t_correlation_id, scopes, lines, opened>>
    BY DEF logVars
  <1>2. TypeInv'
    BY <1>1 DEF TraceInv, TypeInv, CallsKept
  <1>3. Stacked' /\ ScopesNest'
    BY <1>1 DEF TraceInv, Stacked, ScopesNest
  <1>4. Lines'
    <2>1. ASSUME NEW l \in lines PROVE Sound(l)'
      <3>1. Sound(l) /\ l.call \in Calls \cup {NoCall}
        BY DEF TraceInv, Lines, TypeInv
      <3> QED BY <3>1, Zenon DEF Sound, CallsKept
    <2> QED BY <1>1, <2>1, Zenon DEF Lines
  <1>5. Working'
    <2>1. ASSUME NEW t \in Handlers \cup Greeters, serving[t] # NoCall
          PROVE  state'[serving[t]] # "unused" /\ Owns(serving[t], t_correlation_id[t])'
      <3>1. serving[t] \in Calls /\ state[serving[t]] # "unused"
            /\ Owns(serving[t], t_correlation_id[t])
        BY <2>1, TracingConstants DEF TraceInv, TypeInv, Working
      <3>2. PICK c, k : c \in Calls /\ c = serving[t] /\ k = t_correlation_id[t]
        BY <3>1
      <3>3. state'[c] # "unused" /\ Owns(c, k)'
        BY <3>1, <3>2, Zenon DEF CallsKept
      <3>4. c = serving'[t] /\ k = t_correlation_id'[t]
        BY <1>1, <3>2
      <3> QED BY <3>2, <3>3, <3>4, Zenon DEF Owns
    <2> QED BY <1>1, <2>1, Zenon DEF TraceInv, Working
  <1> QED BY <1>2, <1>3, <1>4, <1>5, Zenon DEF TraceInv, CallsKept

\* A thread at work keeps its id while another thread starts or ends.
LEMMA OthersWork ==
  ASSUME TraceInv, CallsKept, NEW u \in Handlers \cup Greeters,
         serving'[u] = serving[u], scopes'[u] = scopes[u],
         t_correlation_id'[u] = t_correlation_id[u]
  PROVE  IF serving'[u] = NoCall THEN scopes'[u] = <<>>
         ELSE /\ Len(scopes'[u]) = 1 /\ state'[serving'[u]] # "unused"
              /\ Owns(serving[u], t_correlation_id[u])'
  <1>1. CASE serving[u] = NoCall
    BY <1>1, Zenon DEF TraceInv, Working
  <1>2. CASE serving[u] # NoCall
    <2>1. /\ serving[u] \in Calls /\ state[serving[u]] # "unused" /\ Len(scopes[u]) = 1
          /\ Owns(serving[u], t_correlation_id[u])
      BY <1>2, TracingConstants DEF TraceInv, TypeInv, Working
    <2>2. PICK c, k : c \in Calls /\ c = serving[u] /\ k = t_correlation_id[u]
      BY <2>1
    <2>3. state'[c] # "unused" /\ Owns(c, k)'
      BY <2>1, <2>2, Zenon DEF CallsKept
    <2>4. Owns(serving[u], t_correlation_id[u])'
      BY <2>2, <2>3, Zenon DEF Owns
    <2> QED BY <1>2, <2>1, <2>2, <2>3, <2>4, Zenon
  <1> QED BY <1>1, <1>2, Zenon

\* A handler or a greeter client takes up a call.
LEMMA StartStep ==
  ASSUME TraceInv, CallsKept, NEW t \in Handlers \cup Greeters, NEW c \in Calls, NEW id \in Id,
         serving[t] = NoCall, WithCorrelationId(t, id), serving' = [serving EXCEPT ![t] = c],
         state'[c] # "unused", Owns(c, id)',
         lines' \subseteq lines \cup {[call |-> c, id |-> id]}
  PROVE  TraceInv'
  <1>1. t \in Threads /\ TypeInv /\ Stacked /\ ScopesNest /\ Lines
    BY TracingConstants DEF TraceInv
  <1>2. /\ t_correlation_id' \in [Threads -> Id]
        /\ scopes' \in [Threads -> Seq(Id)] /\ opened' \in [Threads -> Seq(Id)]
        /\ Stacked' /\ ScopesNest'
        /\ Len(scopes'[t]) = Len(scopes[t]) + 1 /\ t_correlation_id'[t] = id
        /\ \A u \in Threads \ {t} : scopes'[u] = scopes[u]
                                    /\ t_correlation_id'[u] = t_correlation_id[u]
    BY <1>1, OpenNests, Zenon
  <1>3. /\ serving' \in [Threads -> Calls \cup {NoCall}] /\ serving'[t] = c
        /\ \A u \in Threads \ {t} : serving'[u] = serving[u]
    BY <1>1 DEF TypeInv
  <1>4. Sound([call |-> c, id |-> id])' /\ id \in Id /\ c # NoCall
    BY TracingConstants, Zenon DEF Sound, Id
  <1>5. lines' \subseteq [call : Calls \cup {NoCall}, id : Id] /\ Lines'
    BY <1>1, <1>4, LinesKept, Zenon
  <1>6. TypeInv'
    BY <1>2, <1>3, <1>5, Zenon DEF TypeInv, CallsKept
  <1>7. Len(scopes'[t]) = 1 /\ state'[serving'[t]] # "unused"
        /\ Owns(serving[t], t_correlation_id[t])' /\ serving'[t] # NoCall
    <2>1. Len(scopes[t]) = 0
      BY DEF TraceInv, Working
    <2>2. Len(scopes'[t]) = 1
      BY <1>2, <2>1
    <2>3. Owns(serving[t], t_correlation_id[t])'
      BY <1>2, <1>3, Zenon DEF Owns
    <2> QED BY <1>3, <1>4, <2>2, <2>3, Zenon
  <1>8. ASSUME NEW u \in Handlers \cup Greeters, u # t
        PROVE  IF serving'[u] = NoCall THEN scopes'[u] = <<>>
               ELSE /\ Len(scopes'[u]) = 1 /\ state'[serving'[u]] # "unused"
                    /\ Owns(serving[u], t_correlation_id[u])'
    <2>1. u \in Threads \ {t}
      BY <1>8, TracingConstants
    <2> QED BY <1>2, <1>3, <2>1, OthersWork, Zenon
  <1>9. Working'
    BY <1>7, <1>8, Zenon DEF Working
  <1> QED BY <1>2, <1>5, <1>6, <1>9, Zenon DEF TraceInv, CallsKept

\* A handler or a greeter client is done with a call.
LEMMA EndStep ==
  ASSUME TraceInv, CallsKept, NEW t \in Handlers \cup Greeters, serving[t] # NoCall,
         EndScope(t), serving' = [serving EXCEPT ![t] = NoCall],
         lines' \subseteq lines \cup {[call |-> serving[t], id |-> t_correlation_id[t]]}
  PROVE  TraceInv'
  <1>1. t \in Threads /\ TypeInv /\ Stacked /\ ScopesNest /\ Lines
    BY TracingConstants DEF TraceInv
  <1>2. /\ serving[t] \in Calls /\ state[serving[t]] # "unused" /\ Len(scopes[t]) = 1
        /\ Owns(serving[t], t_correlation_id[t]) /\ t_correlation_id[t] \in Id
    BY <1>1 DEF TraceInv, TypeInv, Working
  <1>3. scopes[t] # <<>>
    BY <1>2
  <1>4. /\ t_correlation_id' \in [Threads -> Id]
        /\ scopes' \in [Threads -> Seq(Id)] /\ opened' \in [Threads -> Seq(Id)]
        /\ Stacked' /\ ScopesNest' /\ Len(scopes'[t]) = Len(scopes[t]) - 1
        /\ \A u \in Threads \ {t} : scopes'[u] = scopes[u]
                                    /\ t_correlation_id'[u] = t_correlation_id[u]
    BY <1>1, <1>3, CloseNests, Zenon
  <1>5. /\ serving' \in [Threads -> Calls \cup {NoCall}] /\ serving'[t] = NoCall
        /\ \A u \in Threads \ {t} : serving'[u] = serving[u]
    BY <1>1 DEF TypeInv
  <1>6. PICK c \in Calls, k \in Id : c = serving[t] /\ k = t_correlation_id[t]
    BY <1>2
  <1>7. state'[c] # "unused" /\ Owns(c, k)' /\ c # NoCall
    BY <1>2, <1>6, TracingConstants, Zenon DEF CallsKept
  <1>8. Sound([call |-> c, id |-> k])'
    BY <1>7, Zenon DEF Sound
  <1>9. lines' \subseteq [call : Calls \cup {NoCall}, id : Id] /\ Lines'
    BY <1>1, <1>6, <1>8, LinesKept, Zenon
  <1>10. TypeInv'
    BY <1>4, <1>5, <1>9, Zenon DEF TypeInv, CallsKept
  <1>11. scopes'[t] = <<>>
    <2>1. scopes'[t] \in Seq(Id)
      BY <1>1, <1>4, Zenon
    <2>2. Len(scopes'[t]) = 0
      BY <1>2, <1>4
    <2> QED BY <2>1, <2>2, EmptySeq
  <1>12. ASSUME NEW u \in Handlers \cup Greeters, u # t
         PROVE  IF serving'[u] = NoCall THEN scopes'[u] = <<>>
                ELSE /\ Len(scopes'[u]) = 1 /\ state'[serving'[u]] # "unused"
                     /\ Owns(serving[u], t_correlation_id[u])'
    <2>1. u \in Threads \ {t}
      BY <1>12, TracingConstants
    <2> QED BY <1>4, <1>5, <2>1, OthersWork, Zenon
  <1>13. Working'
    BY <1>5, <1>11, <1>12, Zenon DEF Working
  <1> QED BY <1>4, <1>9, <1>10, <1>13, Zenon DEF TraceInv, CallsKept

\* A step that changes no call, no id and no state keeps the calls.
LEMMA CallsUnchanged ==
  ASSUME TraceInv, UNCHANGED <<state, rpc, version, sent, root, minted>>
  PROVE  CallsKept
  <1>1. /\ state' \in [Calls -> {"unused", "pending", "running", "over"}]
        /\ sent' \in [Calls -> Id \cup {NoMetadata}] /\ root' \in [Calls -> Calls] /\ version' \in [Calls -> Nat]
        /\ rpc' \in [Calls -> {"none", "ReplicateChunk", "other", "SayHello"}]
        /\ minted' \in Seq(Calls)
    BY DEF TraceInv, TypeInv
  <1>2. Requests'
    BY Zenon DEF TraceInv, Requests, Owns
  <1>3. \A d \in Calls : state[d] # "unused" =>
          state'[d] # "unused" /\ \A k : Owns(d, k) => Owns(d, k)'
    BY Zenon DEF Owns
  <1> QED BY <1>1, <1>2, <1>3, Zenon DEF CallsKept

\* A call that goes on to another state than "unused", perhaps with an id
\* generated for it, disturbs no other.
LEMMA CallMoves ==
  ASSUME TraceInv, NEW c \in Calls, NEW q \in {"running", "over"}, state[c] # "unused",
         state' = [state EXCEPT ![c] = q], UNCHANGED <<rpc, version, sent, root>>,
         NEW x \in Calls, minted' = minted \/ minted' = Append(minted, x)
  PROVE  CallsKept /\ state'[c] # "unused"
  <1>1. /\ state' \in [Calls -> {"unused", "pending", "running", "over"}]
        /\ sent' \in [Calls -> Id \cup {NoMetadata}] /\ root' \in [Calls -> Calls] /\ version' \in [Calls -> Nat]
        /\ rpc' \in [Calls -> {"none", "ReplicateChunk", "other", "SayHello"}]
    BY DEF TraceInv, TypeInv
  <1>2. minted' \in Seq(Calls)
    BY MintKeeps, Zenon DEF TraceInv, TypeInv
  <1>3. state'[c] # "unused" /\ \A d \in Calls : d # c => state'[d] = state[d]
    BY DEF TraceInv, TypeInv
  <1>4. \A d \in Calls : \A k : Owns(d, k) => Owns(d, k)'
    BY OwnsKept, Zenon DEF TraceInv
  <1>5. ASSUME NEW d \in Calls
        PROVE  IF state'[d] = "unused" THEN sent'[d] = NoMetadata /\ root'[d] = d
               ELSE /\ state'[root'[d]] # "unused"
                    /\ sent'[d] # NoMetadata => Owns(d, sent[d])'
                    /\ sent'[root'[d]] # NoMetadata => sent'[d] # NoMetadata
    <2>1. state'[d] = "unused" <=> state[d] = "unused"
      BY <1>3, Zenon
    <2>2. root[d] \in Calls
      BY DEF TraceInv, TypeInv
    <2>3. state'[root[d]] = "unused" <=> state[root[d]] = "unused"
      BY <1>3, <2>2, Zenon
    <2>4. ASSUME sent[d] # NoMetadata, state[d] # "unused" PROVE Owns(d, sent[d])'
      <3>1. Owns(d, sent[d])
        BY <2>4, Zenon DEF TraceInv, Requests
      <3> QED BY <3>1, OwnsKept, Zenon DEF TraceInv
    <2> QED BY <2>1, <2>3, <2>4, Zenon DEF TraceInv, Requests
  <1>6. Requests'
    BY <1>5, Zenon DEF Requests
  <1>7. CallsKept
    BY <1>1, <1>2, <1>3, <1>4, <1>6, Zenon DEF CallsKept
  <1> QED BY <1>3, <1>7

\* The id a handler gets for its call, sent or new, is the one the client sent, or
\* was made for the client's call if it sent none.
LEMMA IdMinted ==
  ASSUME TraceInv, NEW c \in Calls, state[c] # "unused", Mint(c),
         NEW id, id = GetCorrelationId(c)
  PROVE  /\ root[c] \in Calls /\ state[root[c]] # "unused"
         /\ minted' = minted \/ minted' = Append(minted, root[c])
         /\ id \in Id /\ id # NoMetadata
         /\ IF sent[root[c]] # NoMetadata THEN id = sent[root[c]]
            ELSE id \in 1..Len(minted') /\ minted'[id] = root[c]
  <1>1. /\ root[c] \in Calls /\ state[root[c]] # "unused" /\ minted \in Seq(Calls)
        /\ sent[c] # NoMetadata => Owns(c, sent[c]) /\ sent[c] \in Id
        /\ sent[root[c]] # NoMetadata => sent[c] # NoMetadata
    BY Zenon DEF TraceInv, TypeInv, Requests
  <1>2. minted' = minted \/ minted' = Append(minted, root[c])
    BY Zenon DEF Mint
  <1>3. CASE sent[c] # NoMetadata
    <2>1. id = sent[c] /\ minted' = minted
      BY <1>3 DEF GetCorrelationId, Mint
    <2> QED BY <1>1, <1>2, <1>3, <2>1, Zenon DEF Owns
  <1>4. CASE sent[c] = NoMetadata
    <2>1. id = UUID /\ minted' = Append(minted, root[c])
      BY <1>4 DEF GetCorrelationId, Mint
    <2>2. id \in 1..Len(minted') /\ minted'[id] = root[c]
      BY <1>1, <2>1, MintKeeps, Zenon
    <2>3. id \in Nat
      BY <1>1, <2>1 DEF UUID
    <2>4. id \in Id /\ id # NoMetadata
      BY <2>3, TracingConstants, Zenon DEF Id
    <2> QED BY <1>1, <1>2, <1>4, <2>2, <2>4, Zenon
  <1> QED BY <1>3, <1>4, Zenon

\* A step that only writes a line, of the call a thread is working on or of none.
LEMMA LineStep ==
  ASSUME TraceInv, UNCHANGED <<state, rpc, version, sent, root, minted>>,
         UNCHANGED <<t_correlation_id, scopes, opened>>, serving' = serving,
         NEW c \in Calls \cup {NoCall}, NEW id \in Id, Sound([call |-> c, id |-> id]),
         NEW level, lines' = lines \cup Written(level, c, id)
  PROVE  TraceInv'
  <1>1. CallsKept
    BY CallsUnchanged, Zenon
  <1>2. lines' \subseteq lines \cup {[call |-> c, id |-> id]}
    BY Zenon DEF Written
  <1>3. Sound([call |-> c, id |-> id])'
    BY Zenon DEF Sound, Owns
  <1>4. TypeInv /\ Lines /\ Stacked /\ ScopesNest /\ Working
    BY DEF TraceInv
  <1>5. lines' \subseteq [call : Calls \cup {NoCall}, id : Id] /\ Lines'
    BY <1>1, <1>2, <1>3, <1>4, LinesKept, Zenon
  <1>6. TypeInv'
    BY <1>4, <1>5, Zenon DEF TypeInv
  <1>7. Stacked' /\ ScopesNest' /\ Working'
    BY <1>4, ZenonT(60) DEF Stacked, ScopesNest, Working, Owns
  <1> QED BY <1>1, <1>5, <1>6, <1>7, Zenon DEF TraceInv, CallsKept

\* A scope of a test opens or closes.
LEMMA TestStep ==
  ASSUME TraceInv, NEW t \in Testers,
         lines' = lines, serving' = serving,
         UNCHANGED <<state, rpc, version, sent, root, minted>>,
         t_correlation_id' \in [Threads -> Id],
         scopes' \in [Threads -> Seq(Id)], opened' \in [Threads -> Seq(Id)],
         Stacked', ScopesNest',
         \A u \in Threads \ {t} : scopes'[u] = scopes[u]
                                  /\ t_correlation_id'[u] = t_correlation_id[u]
  PROVE  TraceInv'
  <1>1. CallsKept
    BY CallsUnchanged, Zenon
  <1>2. TypeInv /\ Lines
    BY DEF TraceInv
  <1>3. TypeInv'
    BY <1>2, Zenon DEF TypeInv
  <1>4. Lines'
    BY <1>2, Zenon DEF Lines, Sound, Owns
  <1>5. ASSUME NEW u \in Handlers \cup Greeters
        PROVE  IF serving'[u] = NoCall THEN scopes'[u] = <<>>
               ELSE /\ Len(scopes'[u]) = 1 /\ state'[serving'[u]] # "unused"
                    /\ Owns(serving[u], t_correlation_id[u])'
    <2>1. u \in Threads \ {t}
      BY TracingConstants
    <2> QED BY <1>1, <2>1, OthersWork, Zenon
  <1>6. Working'
    BY <1>5, Zenon DEF Working
  <1> QED BY <1>1, <1>3, <1>4, <1>6, Zenon DEF TraceInv, CallsKept

\* Every step keeps the invariant.
LEMMA TraceStep ==
  ASSUME TraceInv, [Next]_vars
  PROVE  TraceInv'
  <1>0. /\ Handlers \subseteq Threads /\ Greeters \subseteq Threads /\ Testers \subseteq Threads
        /\ NoCall \notin Calls /\ Current \in Nat /\ Versions \subseteq Nat
    BY TracingConstants
  <1>t. /\ TypeInv /\ Stacked /\ ScopesNest /\ Working /\ Requests /\ Lines
        /\ minted \in Seq(Calls) /\ UUID \in Nat
    BY DEF TraceInv, TypeInv, UUID
  <1>1. ASSUME NEW c \in Calls, OtherClient(c) PROVE TraceInv'
    <2>1. PICK k \in Kinds :
            \/ \E id \in {NoMetadata, NoId} \cup 1..Len(minted) :
                 Send(c, k[1], k[2], id, c) /\ UNCHANGED minted
            \/ Send(c, k[1], k[2], UUID, c) /\ minted' = Append(minted, c)
      BY <1>1, Zenon DEF OtherClient
    <2>2. k[1] \in {"ReplicateChunk", "other", "SayHello"} /\ k[2] \in Nat
      <3>1. CASE k \in {"ReplicateChunk", "SayHello"} \X Versions
        BY <1>0, <3>1
      <3>2. CASE k = <<"other", Current>>
        BY <1>0, <3>2
      <3> QED BY <3>1, <3>2, Zenon DEF Kinds
    <2>3. PICK id \in Id \cup {NoMetadata} :
            Send(c, k[1], k[2], id, c) /\ (minted' = minted \/ minted' = Append(minted, c))
      <3>1. UUID \in Id /\ {NoMetadata, NoId} \cup 1..Len(minted) \subseteq Id \cup {NoMetadata}
        BY <1>t DEF Id
      <3> QED BY <2>1, <3>1, Zenon
    <2>4. CallsKept
      <3> DEFINE r == k[1]
                 v == k[2]
      <3>1. /\ r \in {"ReplicateChunk", "other", "SayHello"} /\ v \in Nat
            /\ Send(c, r, v, id, c)
        BY <2>2, <2>3, Zenon
      <3> HIDE DEF r, v
      <3> QED BY <1>t, <2>3, <3>1, SendKeeps, SMTT(60)
    <2>5. UNCHANGED logVars /\ serving' = serving
      BY <1>1, Zenon DEF OtherClient
    <2> QED BY <2>4, <2>5, QuietStep, Zenon
  <1>2. ASSUME NEW g \in Greeters, GreeterConnects(g) PROVE TraceInv'
    <2>1. /\ scopes[g] = <<>> /\ lines' = lines \cup Written(Info, NoCall, t_correlation_id[g])
          /\ UNCHANGED <<t_correlation_id, scopes, opened>>
          /\ UNCHANGED <<state, rpc, version, sent, root, minted>> /\ serving' = serving
      BY <1>2 DEF GreeterConnects, Log, callVars
    <2>2. t_correlation_id[g] = NoId
      <3>1. g \in Threads /\ opened[g] \in Seq(Id) /\ Len(opened[g]) = 0
        BY <1>0, <1>t, <2>1 DEF TypeInv, Stacked
      <3>2. opened[g] = <<>>
        BY <3>1, EmptySeq
      <3> QED BY <3>1, <3>2, <1>t DEF ScopesNest
    <2>3. NoId \in Id /\ NoCall \in Calls \cup {NoCall} /\ Sound([call |-> NoCall, id |-> NoId])
      BY DEF Id, Sound
    <2> QED BY <2>1, <2>2, <2>3, LineStep, Zenon
  <1>3. ASSUME NEW w \in Handlers, HandlerLogs(w) PROVE TraceInv'
    <2>1. /\ serving[w] # NoCall /\ serving' = serving
          /\ UNCHANGED <<t_correlation_id, scopes, opened>>
          /\ UNCHANGED <<state, rpc, version, sent, root, minted>>
      BY <1>3 DEF HandlerLogs, callVars
    <2>2. PICK level : lines' = lines \cup Written(level, serving[w], t_correlation_id[w])
      BY <1>3, Zenon DEF HandlerLogs, Log
    <2>3. /\ serving[w] \in Calls /\ t_correlation_id[w] \in Id
          /\ state[serving[w]] # "unused" /\ Owns(serving[w], t_correlation_id[w])
      BY <1>0, <1>t, <2>1 DEF TypeInv, Working
    <2>4. PICK c \in Calls, id \in Id : c = serving[w] /\ id = t_correlation_id[w]
      BY <2>3
    <2>5. Sound([call |-> c, id |-> id]) /\ c \in Calls \cup {NoCall}
      BY <1>0, <2>3, <2>4, Zenon DEF Sound
    <2> QED BY <2>1, <2>2, <2>4, <2>5, LineStep, Zenon
  <1>4. ASSUME NEW g \in Greeters, GreeterEnds(g) PROVE TraceInv'
    <2>1. /\ serving[g] # NoCall /\ EndScope(g) /\ serving' = [serving EXCEPT ![g] = NoCall]
          /\ UNCHANGED <<state, rpc, version, sent, root, minted>>
      BY <1>4, Zenon DEF GreeterEnds
    <2>2. lines' \subseteq lines \cup {[call |-> serving[g], id |-> t_correlation_id[g]]}
      BY <1>4, Zenon DEF GreeterEnds, Log, Written
    <2>3. CallsKept /\ g \in Handlers \cup Greeters
      BY <2>1, CallsUnchanged, Zenon
    <2> QED BY <2>1, <2>2, <2>3, EndStep, Zenon
  <1>5. ASSUME NEW w \in Handlers, Finish(w) PROVE TraceInv'
    <2>1. /\ serving[w] # NoCall /\ EndScope(w) /\ serving' = [serving EXCEPT ![w] = NoCall]
          /\ state' = [state EXCEPT ![serving[w]] = "over"]
          /\ UNCHANGED <<rpc, version, sent, root>> /\ minted' = minted
      BY <1>5, Zenon DEF Finish
    <2>2. lines' \subseteq lines \cup {[call |-> serving[w], id |-> t_correlation_id[w]]}
      BY <1>5, Zenon DEF Finish, Log, Written
    <2>3. serving[w] \in Calls /\ state[serving[w]] # "unused"
      BY <1>0, <1>t, <2>1 DEF TypeInv, Working
    <2>4. PICK c \in Calls : c = serving[w]
      BY <2>3
    <2>5. CallsKept /\ w \in Handlers \cup Greeters
      BY <2>1, <2>3, <2>4, CallMoves, Zenon
    <2> QED BY <2>1, <2>2, <2>5, EndStep, Zenon
  <1>6. ASSUME NEW w \in Handlers, NEW c \in Calls, Begin(w, c) PROVE TraceInv'
    <2>1. /\ serving[w] = NoCall /\ state[c] = "pending" /\ Mint(c)
          /\ WithCorrelationId(w, GetCorrelationId(c))
          /\ serving' = [serving EXCEPT ![w] = c] /\ state' = [state EXCEPT ![c] = "running"]
          /\ UNCHANGED <<rpc, version, sent, root>>
      BY <1>6, Zenon DEF Begin
    <2>2. PICK id : id = GetCorrelationId(c)
      OBVIOUS
    <2>3. state[c] # "unused" /\ w \in Handlers \cup Greeters
      BY <2>1
    <2>4. /\ root[c] \in Calls /\ id \in Id
          /\ minted' = minted \/ minted' = Append(minted, root[c])
          /\ IF sent[root[c]] # NoMetadata THEN id = sent[root[c]]
             ELSE id \in 1..Len(minted') /\ minted'[id] = root[c]
      BY <2>1, <2>2, <2>3, IdMinted, Zenon
    <2>5. CallsKept /\ state'[c] # "unused"
      BY <2>1, <2>3, <2>4, CallMoves, Zenon
    <2>6. Owns(c, id)'
      BY <2>1, <2>4, Zenon DEF Owns
    <2>7. lines' \subseteq lines \cup {[call |-> c, id |-> id]}
      BY <1>6, <2>2, Zenon DEF Begin, Written
    <2> QED BY <2>1, <2>2, <2>3, <2>4, <2>5, <2>6, <2>7, StartStep, Zenon
  <1>7. ASSUME NEW g \in Greeters, NEW c \in Calls, GreeterSends(g, c) PROVE TraceInv'
    <2>1. /\ serving[g] = NoCall /\ WithCorrelationId(g, UUID) /\ minted' = Append(minted, c)
          /\ Send(c, "SayHello", Current, UUID, c) /\ serving' = [serving EXCEPT ![g] = c]
      BY <1>7, Zenon DEF GreeterSends
    <2>2. UUID \in 1..Len(minted') /\ minted'[UUID] = c
      BY <1>t, <2>1, MintKeeps, Zenon
    <2>3. PICK id \in Id : id = UUID
      BY <1>t DEF Id
    <2>4. id \in Id \cup {NoMetadata} /\ "SayHello" \in {"ReplicateChunk", "other", "SayHello"}
          /\ g \in Handlers \cup Greeters
      BY <2>3
    <2>5. CallsKept /\ state'[c] # "unused" /\ root'[c] = c /\ sent'[c] = id
      <3>1. Send(c, "SayHello", Current, id, c)
        BY <2>1, <2>3, Zenon
      <3> QED BY <1>0, <1>t, <2>1, <2>4, <3>1, SendKeeps
    <2>6. Owns(c, id)'
      BY <2>2, <2>3, <2>5, Zenon DEF Owns
    <2>7. lines' \subseteq lines \cup {[call |-> c, id |-> id]}
      BY <1>7, <2>3, Zenon DEF GreeterSends, Written
    <2> QED BY <2>1, <2>3, <2>4, <2>5, <2>6, <2>7, StartStep, Zenon
  <1>8. ASSUME NEW w \in Handlers, NEW c \in Calls, Forward(w, c) PROVE TraceInv'
    <2>1. /\ serving[w] # NoCall /\ Mint(serving[w])
          /\ Send(c, "other", Current, GetCorrelationId(serving[w]), root[serving[w]])
          /\ UNCHANGED logVars /\ serving' = serving
      BY <1>8, Zenon DEF Forward, MayForward
    <2>2. serving[w] \in Calls /\ state[serving[w]] # "unused"
      BY <1>0, <1>t, <2>1 DEF TypeInv, Working
    <2>3. PICK d, id : d \in Calls /\ d = serving[w] /\ id = GetCorrelationId(serving[w])
      BY <2>2
    <2>4. /\ root[d] \in Calls /\ state[root[d]] # "unused"
          /\ id \in Id /\ id # NoMetadata
          /\ minted' = minted \/ minted' = Append(minted, root[d])
          /\ IF sent[root[d]] # NoMetadata THEN id = sent[root[d]]
             ELSE id \in 1..Len(minted') /\ minted'[id] = root[d]
      BY <2>1, <2>2, <2>3, IdMinted, ZenonT(60)
    <2>5. id \in Id \cup {NoMetadata} /\ "other" \in {"ReplicateChunk", "other", "SayHello"}
      BY <2>4, Zenon
    <2>6. CallsKept
      <3>1. Send(c, "other", Current, id, root[d])
        BY <2>1, <2>3, Zenon
      <3> QED BY <1>0, <1>t, <2>4, <2>5, <3>1, SendKeeps
    <2> QED BY <2>1, <2>6, QuietStep, Zenon
  <1>9. ASSUME NEW t \in Testers, TestOpens(t) PROVE TraceInv'
    <2>1. /\ WithCorrelationId(t, Len(scopes[t])) /\ lines' = lines /\ serving' = serving
          /\ UNCHANGED <<state, rpc, version, sent, root, minted>>
      BY <1>9 DEF TestOpens, callVars
    <2>2. t \in Threads /\ Len(scopes[t]) \in Id
      BY <1>0, <1>t DEF TypeInv, Id
    <2>3. /\ t_correlation_id' \in [Threads -> Id]
          /\ scopes' \in [Threads -> Seq(Id)] /\ opened' \in [Threads -> Seq(Id)]
          /\ Stacked' /\ ScopesNest'
          /\ \A u \in Threads \ {t} : scopes'[u] = scopes[u]
                                      /\ t_correlation_id'[u] = t_correlation_id[u]
      BY <1>t, <2>1, <2>2, OpenNests, Zenon
    <2> QED BY <2>1, <2>3, TestStep, Zenon
  <1>10. ASSUME NEW t \in Testers, TestCloses(t) PROVE TraceInv'
    <2>1. /\ EndScope(t) /\ scopes[t] # <<>> /\ lines' = lines /\ serving' = serving
          /\ UNCHANGED <<state, rpc, version, sent, root, minted>>
      BY <1>10 DEF TestCloses, callVars
    <2>2. t \in Threads
      BY <1>0
    <2>3. /\ t_correlation_id' \in [Threads -> Id]
          /\ scopes' \in [Threads -> Seq(Id)] /\ opened' \in [Threads -> Seq(Id)]
          /\ Stacked' /\ ScopesNest'
          /\ \A u \in Threads \ {t} : scopes'[u] = scopes[u]
                                      /\ t_correlation_id'[u] = t_correlation_id[u]
      BY <1>t, <2>1, <2>2, CloseNests, Zenon
    <2> QED BY <2>1, <2>3, TestStep, Zenon
  <1>11. ASSUME UNCHANGED vars PROVE TraceInv'
    <2>1. UNCHANGED logVars /\ serving' = serving
          /\ UNCHANGED <<state, rpc, version, sent, root, minted>>
      BY <1>11 DEF vars, callVars
    <2> QED BY <2>1, CallsUnchanged, QuietStep, Zenon
  <1> QED
    BY <1>1, <1>2, <1>3, <1>4, <1>5, <1>6, <1>7, <1>8, <1>9, <1>10, <1>11, Zenon DEF Next

-----------------------------------------------------------------------------
\* The invariant holds initially and at every step.
LEMMA TraceInvariant == Spec => []TraceInv
  <1>1. Init => TraceInv
    <2> SUFFICES ASSUME Init PROVE TraceInv
      OBVIOUS
    <2>1. TypeInv
      BY TracingConstants DEF Init, LogInit, TypeInv, Id
    <2>2. Stacked /\ ScopesNest /\ Lines
      BY DEF Init, LogInit, Stacked, ScopesNest, Lines
    <2>3. Working
      BY TracingConstants DEF Init, LogInit, Working
    <2>4. Requests
      BY DEF Init, Requests
    <2> QED BY <2>1, <2>2, <2>3, <2>4 DEF TraceInv
  <1>2. TraceInv /\ [Next]_vars => TraceInv'
    BY TraceStep
  <1> QED BY <1>1, <1>2, PTL DEF Spec

\* For any threads and nesting, the id in force on a thread is that of the
\* innermost scope still open on it.
THEOREM IdsScoped == Spec => []ScopesNest
  <1>1. TraceInv => ScopesNest
    BY DEF TraceInv
  <1> QED BY <1>1, TraceInvariant, PTL

\* For any number of calls, handlers and nodes, each line of a call carries the
\* id its client sent, across ReplicateChunk.
THEOREM TracesFollowed == Spec => []TraceFollows
  <1>1. TraceInv => TraceFollows
    BY Zenon DEF TraceInv, Lines, Sound, Owns, TraceFollows
  <1> QED BY <1>1, TraceInvariant, PTL

\* For any number of calls, handlers and nodes, and whatever ids clients send,
\* lines of two clients' calls carry the same id only if one of the two sent it.
THEOREM TracesDistinct == Spec => []TracesApart
  <1>1. TraceInv => TracesApart
    <2> SUFFICES ASSUME TraceInv, NEW l \in lines, NEW m \in lines, l.id = m.id, l.id # NoId
                 PROVE  \/ root[l.call] = root[m.call]
                        \/ l.id \in {sent[root[l.call]], sent[root[m.call]]}
      BY DEF TracesApart
    <2>1. Owns(l.call, l.id) /\ Owns(m.call, m.id)
      BY Zenon DEF TraceInv, Lines, Sound
    <2> QED BY <2>1, Zenon DEF Owns
  <1> QED BY <1>1, TraceInvariant, PTL
=============================================================================
