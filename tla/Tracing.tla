------------------------------- MODULE Tracing -------------------------------
(***************************************************************************)
(* Correlation ids across clients and servers: the greeter client and      *)
(* server (services/greeter_demo), and the handlers of the storage nodes   *)
(* (storage_node_service_impl.cpp), of which ReplicateChunk calls GetChunk *)
(* of another node.  Handlers run on pooled threads, one after the other.  *)
(* A call is a request with the metadata its client sent.                  *)
(***************************************************************************)
EXTENDS Logger

CONSTANTS
  Calls,
  Handlers, Greeters, Testers,  \* threads: of servers, of greeter clients, of logger_test
  NoCall,
  NoMetadata,                   \* no correlation id in the metadata, not even an empty one
  Current,                      \* kCurrentProtocolVersion
  Versions,                     \* versions that requests come with
  MaxScopes                     \* bound on the scopes a test nests

ASSUME TracingConstants ==
  /\ Threads = Handlers \cup Greeters \cup Testers
  /\ Handlers \cap Greeters = {} /\ Handlers \cap Testers = {} /\ Greeters \cap Testers = {}
  /\ NoCall \notin Calls /\ NoId \notin Nat /\ Calls # {}
  /\ NoMetadata \notin Nat \cup {NoId}
  /\ MinLevel \in Nat /\ MaxScopes \in Nat /\ Versions \subseteq Nat /\ Current \in Nat

VARIABLES
  state,    \* of each call: "unused", "pending", "running", "over"
  rpc, version,
  sent,     \* the id in its metadata, which may be empty, or NoMetadata
  root,     \* the call of a client that it belongs to
  forwarded, \* the calls whose handler has called the source
  serving,  \* the call each thread works on
  minted    \* ids made so far, with the call of a client each was for

callVars == <<state, rpc, version, sent, root, forwarded, serving, minted>>
vars == <<logVars, callVars>>

Init ==
  /\ LogInit
  /\ state = [c \in Calls |-> "unused"] /\ rpc = [c \in Calls |-> "none"]
  /\ version = [c \in Calls |-> Current] /\ sent = [c \in Calls |-> NoMetadata]
  /\ root = [c \in Calls |-> c] /\ forwarded = {}
  /\ serving = [t \in Threads |-> NoCall] /\ minted = <<>>

\* A request on its way.
Send(c, r, v, id, top) ==
  /\ state[c] = "unused"
  /\ state' = [state EXCEPT ![c] = "pending"] /\ rpc' = [rpc EXCEPT ![c] = r]
  /\ version' = [version EXCEPT ![c] = v] /\ sent' = [sent EXCEPT ![c] = id]
  /\ root' = [root EXCEPT ![c] = top]

\* GenerateUuidV4: ids that differ from all others.
UUID == Len(minted) + 1

\* Mutant: the fallback is one fixed id.
GetCorrelationId_Fixed(c) == IF sent[c] # NoMetadata THEN sent[c] ELSE 0

\* The id of the metadata, or a new one: each evaluation without metadata
\* generates another.
GetCorrelationId(c) == IF sent[c] # NoMetadata THEN sent[c] ELSE UUID
Mint(c) == minted' = IF sent[c] # NoMetadata THEN minted ELSE Append(minted, root[c])

-----------------------------------------------------------------------------
(* Clients                                                                  *)

\* Requests by RPC and version; the version makes a difference to the trace of
\* ReplicateChunk and SayHello only.
Kinds == ({"ReplicateChunk", "SayHello"} \X Versions) \cup {<<"other", Current>>}

\* A client that is not part of the repository.  It sends no id, the empty one,
\* one that is in use (its own of an earlier call, or another client's), or a
\* new one.
OtherClient(c) ==
  /\ \E k \in Kinds :
       \/ \E id \in {NoMetadata, NoId} \cup 1..Len(minted) :
            Send(c, k[1], k[2], id, c) /\ UNCHANGED minted
       \/ Send(c, k[1], k[2], UUID, c) /\ minted' = Append(minted, c)
  /\ UNCHANGED <<logVars, forwarded, serving>>

\* main of the greeter client, each time it is run: a line, then the scope.
GreeterConnects(g) ==
  /\ serving[g] = NoCall /\ scopes[g] = <<>>
  /\ Log(g, Info, NoCall)
  /\ UNCHANGED <<t_correlation_id, scopes, opened, callVars>>

GreeterSends(g, c) ==
  /\ serving[g] = NoCall /\ scopes[g] = <<>>
  /\ WithCorrelationId(g, UUID) /\ minted' = Append(minted, c)
  /\ lines' = lines \cup Written(Info, c, UUID)
  /\ Send(c, "SayHello", Current, UUID, c)
  /\ serving' = [serving EXCEPT ![g] = c] /\ UNCHANGED forwarded

\* The answer, or the failure of a call whose handler may still be running.
GreeterEnds(g) ==
  /\ serving[g] # NoCall
  /\ \/ state[serving[g]] = "over" /\ Log(g, Info, serving[g])
     \/ Log(g, Error, serving[g])
  /\ EndScope(g) /\ serving' = [serving EXCEPT ![g] = NoCall]
  /\ UNCHANGED <<state, rpc, version, sent, root, forwarded, minted>>

-----------------------------------------------------------------------------
(* Handlers                                                                 *)

\* The first statements of every handler: the id, the scope; SayHello logs.
Begin(w, c) ==
  /\ serving[w] = NoCall /\ state[c] = "pending"
  /\ WithCorrelationId(w, GetCorrelationId(c)) /\ Mint(c)
  /\ lines' = lines \cup (IF rpc[c] = "SayHello" THEN Written(Info, c, GetCorrelationId(c)) ELSE {})
  /\ serving' = [serving EXCEPT ![w] = c] /\ state' = [state EXCEPT ![c] = "running"]
  /\ UNCHANGED <<rpc, version, sent, root, forwarded>>

\* A line of a storage handler, or of the store below it.
HandlerLogs(w) ==
  /\ serving[w] # NoCall /\ rpc[serving[w]] # "SayHello"
  /\ \E level \in {Trace, Info, Warn, Error} : Log(w, level, serving[w])
  /\ UNCHANGED <<t_correlation_id, scopes, opened, callVars>>

CheckProtocolVersion(v) == ~(v < Current \/ v > Current)

\* ReplicateChunk is past RunPreamble and calls the source once.
MayForward(w) ==
  /\ serving[w] # NoCall /\ rpc[serving[w]] = "ReplicateChunk"
  /\ CheckProtocolVersion(version[serving[w]]) /\ serving[w] \notin forwarded
  /\ forwarded' = forwarded \cup {serving[w]}

\* Mutant: the call to the source goes without metadata.
Forward_NoMetadata(w, c) ==
  /\ MayForward(w)
  /\ Send(c, "other", Current, NoMetadata, root[serving[w]])
  /\ UNCHANGED <<logVars, serving, minted>>

\* GetCorrelationId(context) is evaluated once more for the metadata.
Forward(w, c) ==
  /\ MayForward(w)
  /\ Send(c, "other", Current, GetCorrelationId(serving[w]), root[serving[w]])
  /\ Mint(serving[w])
  /\ UNCHANGED <<logVars, serving>>

\* The handler returns; SayHello logs its reply, or the version it refuses.
Finish(w) ==
  /\ serving[w] # NoCall
  /\ LET c == serving[w]
     IN  /\ IF rpc[c] = "SayHello"
            THEN Log(w, IF CheckProtocolVersion(version[c]) THEN Info ELSE Warn, c)
            ELSE UNCHANGED lines
         /\ state' = [state EXCEPT ![c] = "over"]
  /\ EndScope(w) /\ serving' = [serving EXCEPT ![w] = NoCall]
  /\ UNCHANGED <<rpc, version, sent, root, forwarded, minted>>

-----------------------------------------------------------------------------
(* logger_test: scopes within scopes.  Its lines are of no call and not kept. *)

TestOpens(t) ==
  /\ Len(scopes[t]) < MaxScopes
  /\ WithCorrelationId(t, Len(scopes[t])) /\ UNCHANGED <<lines, callVars>>

TestCloses(t) == scopes[t] # <<>> /\ EndScope(t) /\ UNCHANGED <<lines, callVars>>

Next ==
  \/ \E c \in Calls : OtherClient(c)
  \/ \E g \in Greeters : GreeterConnects(g) \/ GreeterEnds(g) \/ \E c \in Calls : GreeterSends(g, c)
  \/ \E w \in Handlers : \/ HandlerLogs(w) \/ Finish(w)
                         \/ \E c \in Calls : Begin(w, c) \/ Forward(w, c)
  \/ \E t \in Testers : TestOpens(t) \/ TestCloses(t)

Spec == Init /\ [][Next]_vars

-----------------------------------------------------------------------------
\* Each line of a call carries the id its client sent, even an empty one, on
\* every node the call reaches through ReplicateChunk, also on threads that
\* served others before and after the client has gone; and a line of no call
\* carries none.
TraceFollows ==
  \A l \in lines :
    IF l.call = NoCall THEN l.id = NoId
    ELSE sent[root[l.call]] # NoMetadata => l.id = sent[root[l.call]]

\* The traces of two clients mix only by the doing of one of them: if lines of
\* their calls carry the same id, one of the two sent that id.  The ids that
\* handlers make up, for calls without metadata, are never shared otherwise.
TracesApart ==
  \A l, m \in lines :
    l.id = m.id /\ l.id # NoId =>
      \/ root[l.call] = root[m.call]
      \/ l.id \in {sent[root[l.call]], sent[root[m.call]]}
=============================================================================
