-------------------------- MODULE StorageNodeService --------------------------
(***************************************************************************)
(* The RPC handlers of storage nodes                                       *)
(* (services/storage_node/src/storage_node_service_impl.cpp) over chunk    *)
(* stores that keep the promise of ChunkStoreContract: uploads streamed in *)
(* frames, downloads streamed out, and replication, in which the handler   *)
(* of one node is the client of another.  Workers are the threads of a     *)
(* node's gRPC server.  Streams may break and nodes may die at any time.   *)
(*                                                                         *)
(* Contents are sequences of blocks; the block is the unit of every size.  *)
(***************************************************************************)
EXTENDS Integers, Sequences, FiniteSets

CONSTANTS
  Nodes, Workers,
  NodeOf,         \* [Workers -> Nodes]
  Chunks,         \* chunk ids
  Blocks,
  Content,        \* [Chunks -> Seq(Blocks)]: the bytes an id is the digest of
  Nil,            \* no id (one that does not parse), no worker
  MaxChunkBytes,  \* [Nodes -> Nat]: max_chunk_bytes_, read from each node's file
  FrameSize,      \* kStreamFrameSizeBytes
  DeclaredSizes,  \* values of total_size_bytes that clients send
  Frames,         \* data frames that clients send
  Rpcs,           \* the RPCs that clients call
  MaxCalls, MaxFaults  \* bounds

ASSUME ServiceConstants ==
  /\ NodeOf \in [Workers -> Nodes]
  /\ Content \in [Chunks -> Seq(Blocks)]
  /\ MaxChunkBytes \in [Nodes -> Nat]
  /\ FrameSize \in Nat \ {0} /\ DeclaredSizes \subseteq Nat /\ Frames \subseteq Seq(Blocks)
  /\ Nil \notin Chunks \cup Workers \cup Nodes
  /\ {MaxCalls, MaxFaults} \subseteq Nat

VARIABLES
  mode,      \* what main of each node is doing
  store,     \* [Nodes -> [Chunks -> {"absent", "good", "rotted"}]]
  pc,        \* where each worker is
  id,        \* chunk_id of the call
  payload,   \* bytes received by PutChunk or ReplicateChunk
  rest,      \* bytes GetChunk has still to send
  peer,      \* GetChunk: the worker reading the stream, Nil for a client
  source,    \* ReplicateChunk: the node to read from
  server,    \* ReplicateChunk: the worker that serves the stream
  stream,    \* ReplicateChunk: frames under way to it, and how the stream ended
  reply,     \* answer of a call that is done
  calls, faults

handler == <<pc, id, payload, rest, peer, source, server, stream, reply>>
bounds  == <<calls, faults>>
vars    == <<mode, store, handler, bounds>>

Silent == [msgs |-> <<>>, end |-> "open"]

Init ==
  /\ mode = [n \in Nodes |-> "serving"]
  /\ store \in [Nodes -> [Chunks -> {"absent", "good"}]]
  /\ pc = [w \in Workers |-> "idle"]
  /\ id = [w \in Workers |-> Nil]
  /\ payload = [w \in Workers |-> <<>>] /\ rest = [w \in Workers |-> <<>>]
  /\ peer = [w \in Workers |-> Nil] /\ source = [w \in Workers |-> Nil]
  /\ server = [w \in Workers |-> Nil] /\ stream = [w \in Workers |-> Silent]
  /\ reply = [w \in Workers |-> Nil]
  /\ calls = 0 /\ faults = 0

-----------------------------------------------------------------------------
(* The store as a handler sees it: the results a call may have, each with    *)
(* the state in which it leaves the chunk.                                   *)

Outcome(r, s) == [result |-> r, left |-> s]

ChunkStatus == {"OK", "CHECKSUM_MISMATCH", "CHUNK_TOO_LARGE", "CAPABILITY_DENIED",
                "IO_ERROR", "NOT_FOUND", "CORRUPTION_DETECTED", "SOURCE_UNREACHABLE"}

MapStoreError(r) ==
  CASE r = "ok"                 -> "OK"
    [] r = "ChecksumMismatch"   -> "CHECKSUM_MISMATCH"
    [] r = "CorruptionDetected" -> "CORRUPTION_DETECTED"
    [] r = "NotFound"           -> "NOT_FOUND"
    [] OTHER                    -> "IO_ERROR"

StorePut(n, c, data) ==
  LET s == store[n][c] IN
  IF data # Content[c]
  THEN {Outcome("ChecksumMismatch", s)}
  ELSE {Outcome("ok", IF s = "absent" THEN "good" ELSE s), Outcome("IoError", s)}

StoreGet(n, c) ==
  LET s == store[n][c] IN
  {Outcome("IoError", s),
   Outcome(CASE s = "good" -> "ok" [] s = "rotted" -> "CorruptionDetected"
             [] OTHER -> "NotFound", s)}

StoreDelete(n, c) == {Outcome("ok", "absent"), Outcome("IoError", store[n][c])}

\* The store of node n after outcome o for chunk c.
Stored(n, c, o) == store' = [store EXCEPT ![n] = [@ EXCEPT ![c] = o.left]]

-----------------------------------------------------------------------------
(* Calls and answers.                                                        *)

Answer(rpc, supported, grpc, status) ==
  [rpc |-> rpc, supported |-> supported, grpc |-> grpc, status |-> status]

\* A handler returns: the worker keeps the answer until it is sent.
Return(w, a) ==
  /\ pc' = [pc EXCEPT ![w] = "done"]
  /\ reply' = [reply EXCEPT ![w] = a]
  /\ payload' = [payload EXCEPT ![w] = <<>>]
  /\ rest' = [rest EXCEPT ![w] = <<>>]

\* Until main notices a signal the server accepts calls as before.
Accepting(n) == mode[n] \in {"serving", "signalled"}

Accept(w, rpc) ==
  /\ rpc \in Rpcs /\ calls < MaxCalls
  /\ pc[w] = "idle" /\ Accepting(NodeOf[w])
  /\ calls' = calls + 1

\* The answer is on its way; the worker is free.
Sent(w) ==
  /\ pc[w] = "done"
  /\ pc' = [pc EXCEPT ![w] = "idle"]
  /\ reply' = [reply EXCEPT ![w] = Nil]
  /\ id' = [id EXCEPT ![w] = Nil]
  /\ peer' = [peer EXCEPT ![w] = Nil]
  /\ source' = [source EXCEPT ![w] = Nil]
  /\ server' = [server EXCEPT ![w] = Nil]
  /\ stream' = [stream EXCEPT ![w] = Silent]
  /\ UNCHANGED <<mode, store, payload, rest, bounds>>

\* RunPreamble; the token check of PutChunk and DeleteChunk accepts every token.
RunPreamble(supported) == IF supported THEN "OK" ELSE "FAILED_PRECONDITION"

\* What a handler that checks the version before it parses the id answers
\* before it does anything, "OK" to go on.
VersionThenId(supported, c) ==
  IF RunPreamble(supported) # "OK" THEN RunPreamble(supported)
  ELSE IF c = Nil THEN "INVALID_ARGUMENT" ELSE "OK"

\* PutChunk and DeleteChunk parse first.
IdThenVersion(supported, c) ==
  IF c = Nil THEN "INVALID_ARGUMENT" ELSE RunPreamble(supported)

-----------------------------------------------------------------------------
(* PutChunk.                                                                 *)

\* The answer to the first message of an upload, "OK" to go on.
PutAdmission(n, first) ==
  IF first.kind # "metadata" THEN "INVALID_ARGUMENT"  \* closed, or data first
  ELSE IF IdThenVersion(first.supported, first.id) # "OK"
       THEN IdThenVersion(first.supported, first.id)
  ELSE IF first.size > MaxChunkBytes[n] THEN "RESOURCE_EXHAUSTED" ELSE "OK"

FirstMessage ==
  [kind : {"metadata"}, supported : BOOLEAN, id : Chunks \cup {Nil}, size : DeclaredSizes]
    \cup [kind : {"data", "closed"}, supported : {TRUE}, id : {Nil}, size : {0}]

TooLarge(grpc) == IF grpc = "RESOURCE_EXHAUSTED" THEN "CHUNK_TOO_LARGE" ELSE "OK"

\* The handler runs and waits for the first message.
PutChunk(w) ==
  /\ Accept(w, "PutChunk")
  /\ pc' = [pc EXCEPT ![w] = "put_first"]
  /\ UNCHANGED <<mode, store, id, payload, rest, peer, source, server, stream, reply, faults>>

PutChunkFirst(w, first) ==
  LET grpc == PutAdmission(NodeOf[w], first) IN
  /\ pc[w] = "put_first"
  /\ \/ /\ grpc = "OK"
        /\ pc' = [pc EXCEPT ![w] = "put_read"]
        /\ id' = [id EXCEPT ![w] = first.id]
        /\ UNCHANGED <<payload, rest, reply>>
     \/ /\ grpc # "OK"
        /\ Return(w, Answer("PutChunk", first.supported, grpc, TooLarge(grpc)))
        /\ UNCHANGED id
  /\ UNCHANGED <<mode, store, peer, source, server, stream, bounds>>

\* Mutant: the size is checked after the frame was added.
FitsAfter_Late(w, frame) == Len(payload[w]) <= MaxChunkBytes[NodeOf[w]]

FitsAfter(w, frame) == Len(payload[w]) + Len(frame) <= MaxChunkBytes[NodeOf[w]]

\* A data frame of an upload.  Frames without data are skipped.
PutChunkRead(w, frame) ==
  /\ pc[w] = "put_read"
  /\ \/ /\ FitsAfter(w, frame)
        /\ payload' = [payload EXCEPT ![w] = @ \o frame]
        /\ UNCHANGED <<pc, rest, reply>>
     \/ /\ ~FitsAfter(w, frame)
        /\ Return(w, Answer("PutChunk", TRUE, "RESOURCE_EXHAUSTED", "CHUNK_TOO_LARGE"))
  /\ UNCHANGED <<mode, store, id, peer, source, server, stream, bounds>>

\* Read says there is no more: the client closed the stream, or it broke.
PutChunkStore(w) ==
  /\ pc[w] = "put_read"
  /\ \E o \in StorePut(NodeOf[w], id[w], payload[w]) :
       /\ Stored(NodeOf[w], id[w], o)
       /\ Return(w, Answer("PutChunk", TRUE, "OK", MapStoreError(o.result)))
  /\ UNCHANGED <<mode, id, peer, source, server, stream, bounds>>

-----------------------------------------------------------------------------
(* GetChunk, called by a client or by the ReplicateChunk handler r.          *)

Metadata(status, size) == [kind |-> "metadata", status |-> status, size |-> size]
DataFrame(data) == [kind |-> "data", data |-> data]

\* Mutant: the metadata are written only to report a failure.
GetChunkBody_DataFirst(w, r, c) ==
  \E o \in StoreGet(NodeOf[w], c) :
    LET ok == o.result = "ok" IN
    /\ IF r = Nil THEN UNCHANGED stream
       ELSE stream' = [stream EXCEPT ![r] =
              [msgs |-> IF ok THEN <<>> ELSE <<Metadata(MapStoreError(o.result), 0)>>,
               end  |-> IF ok THEN "open" ELSE "ok"]]
    /\ \/ /\ ok
          /\ pc' = [pc EXCEPT ![w] = "get_send"]
          /\ rest' = [rest EXCEPT ![w] = Content[c]]
          /\ UNCHANGED <<payload, reply>>
       \/ /\ ~ok
          /\ Return(w, Answer("GetChunk", TRUE, "OK", MapStoreError(o.result)))

\* A worker accepted the call: read the chunk and write the metadata, which
\* fit the window of every stream.  The stream to a client is not followed.
GetChunkBody(w, r, c) ==
  \E o \in StoreGet(NodeOf[w], c) :
    LET ok == o.result = "ok"
        m  == Metadata(MapStoreError(o.result), IF ok THEN Len(Content[c]) ELSE 0) IN
    /\ IF r = Nil THEN UNCHANGED stream
       ELSE stream' = [stream EXCEPT ![r] = [msgs |-> <<m>>, end |-> IF ok THEN "open" ELSE "ok"]]
    /\ \/ /\ ok
          /\ pc' = [pc EXCEPT ![w] = "get_send"]
          /\ rest' = [rest EXCEPT ![w] = Content[c]]
          /\ UNCHANGED <<payload, reply>>
       \/ /\ ~ok
          /\ Return(w, Answer("GetChunk", TRUE, "OK", MapStoreError(o.result)))

GetChunk(w, supported, c) ==
  LET grpc == VersionThenId(supported, c) IN
  /\ Accept(w, "GetChunk")
  /\ \/ grpc = "OK" /\ GetChunkBody(w, Nil, c)
     \/ /\ grpc # "OK"
        /\ Return(w, Answer("GetChunk", supported, grpc, "OK"))
        /\ UNCHANGED stream
  /\ UNCHANGED <<mode, store, id, peer, source, server, faults>>

\* Whether the reader of the stream that w serves is still there.
Connected(w) ==
  peer[w] # Nil => server[peer[w]] = w /\ stream[peer[w]].end = "open"

FrameLength(w) == IF Len(rest[w]) > FrameSize THEN FrameSize ELSE Len(rest[w])

\* Mutant: a frame that could not be written is tried again.
GetChunkWrite_Retries(w) ==
  /\ pc[w] = "get_send" /\ rest[w] # <<>> /\ Connected(w)
  /\ LET k == FrameLength(w) IN
     /\ rest' = [rest EXCEPT ![w] = SubSeq(@, k + 1, Len(@))]
     /\ IF peer[w] = Nil THEN UNCHANGED stream
        ELSE stream' = [stream EXCEPT ![peer[w]].msgs =
               Append(@, DataFrame(SubSeq(rest[w], 1, k)))]
  /\ UNCHANGED <<mode, store, pc, id, payload, peer, source, server, reply, bounds>>

\* The next frame; the loop ends when it cannot be written.  Write waits for a
\* reader that is slow, so the step may never come while a client does not read.
GetChunkWrite(w) ==
  /\ pc[w] = "get_send" /\ rest[w] # <<>>
  /\ \/ /\ Connected(w)
        /\ LET k == FrameLength(w) IN
           /\ rest' = [rest EXCEPT ![w] = SubSeq(@, k + 1, Len(@))]
           /\ IF peer[w] = Nil THEN UNCHANGED stream
              ELSE stream' = [stream EXCEPT ![peer[w]].msgs =
                     Append(@, DataFrame(SubSeq(rest[w], 1, k)))]
     \/ /\ peer[w] = Nil \/ ~Connected(w)
        /\ rest' = [rest EXCEPT ![w] = <<>>]
        /\ UNCHANGED stream
  /\ UNCHANGED <<mode, store, pc, id, payload, peer, source, server, reply, bounds>>

\* The handler returns OK after its last frame, or after a frame it could not
\* write; a reader that is still connected learns of it.
GetChunkReturn(w) ==
  /\ pc[w] = "get_send" /\ rest[w] = <<>>
  /\ Return(w, Answer("GetChunk", TRUE, "OK", "OK"))
  /\ IF peer[w] # Nil /\ Connected(w)
     THEN stream' = [stream EXCEPT ![peer[w]] = [@ EXCEPT !.end = "ok"]]
     ELSE UNCHANGED stream
  /\ UNCHANGED <<mode, store, id, peer, source, server, bounds>>

-----------------------------------------------------------------------------
(* ReplicateChunk.                                                           *)

ReplicateChunk(w, supported, c, n) ==
  LET grpc == VersionThenId(supported, c) IN
  /\ Accept(w, "ReplicateChunk")
  /\ \/ /\ grpc = "OK"
        /\ pc' = [pc EXCEPT ![w] = "repl_open"]
        /\ id' = [id EXCEPT ![w] = c]
        /\ source' = [source EXCEPT ![w] = n]
        /\ UNCHANGED <<payload, rest, reply>>
     \/ /\ grpc # "OK"
        /\ Return(w, Answer("ReplicateChunk", supported, grpc, "OK"))
        /\ UNCHANGED <<id, source>>
  /\ UNCHANGED <<mode, store, peer, server, stream, faults>>

\* The GetChunk of handler r reaches worker w of the source.
Served(r, w) ==
  /\ pc[r] = "repl_open" /\ server[r] = Nil /\ stream[r].end = "open"
  /\ NodeOf[w] = source[r] /\ Accepting(source[r]) /\ pc[w] = "idle"
  /\ server' = [server EXCEPT ![r] = w]
  /\ peer' = [peer EXCEPT ![w] = r]
  /\ GetChunkBody(w, r, id[r])
  /\ UNCHANGED <<mode, store, id, source, bounds>>

\* It fails: the source is down or shuts down, or its thread quota is used up.
Refused(r) ==
  /\ pc[r] = "repl_open" /\ server[r] = Nil /\ stream[r].end = "open"
  /\ \/ ~Accepting(source[r])
     \/ \A w \in Workers : NodeOf[w] = source[r] => pc[w] # "idle"
  /\ stream' = [stream EXCEPT ![r] = [@ EXCEPT !.end = "error"]]
  /\ UNCHANGED <<mode, store, pc, id, payload, rest, peer, source, server, reply, bounds>>

\* Read has no more for w: everything was read, or the stream broke and lost
\* what was under way.
ReadEnds(w) ==
  stream[w].end = "error" \/ (stream[w].end = "ok" /\ stream[w].msgs = <<>>)

ReplAnswer(status) == Answer("ReplicateChunk", TRUE, "OK", status)

\* Mutant: what the source offers is not compared with the limit.
OfferStatus_Unlimited(n, m) == IF m.kind = "metadata" THEN m.status ELSE "OK"

\* metadata().total_size_bytes(), which is 0 in a message without metadata.
OfferedSize(m) == IF m.kind = "metadata" THEN m.size ELSE 0

\* What becomes of a replication when the first message m arrives, "OK" to go on.
OfferStatus(n, m) ==
  IF m.kind = "metadata" /\ m.status # "OK" THEN m.status
  ELSE IF OfferedSize(m) > MaxChunkBytes[n] THEN "CHUNK_TOO_LARGE" ELSE "OK"

\* Mutant: a source that cannot be reached is asked again.
ReplicateOffer_Retries(w) ==
  /\ pc[w] = "repl_open"
  /\ \/ /\ stream[w].msgs # <<>>
        /\ LET status == OfferStatus(NodeOf[w], Head(stream[w].msgs)) IN
           \/ /\ status = "OK"
              /\ pc' = [pc EXCEPT ![w] = "repl_read"]
              /\ UNCHANGED <<payload, rest, reply>>
           \/ status # "OK" /\ Return(w, ReplAnswer(status))
        /\ stream' = [stream EXCEPT ![w].msgs = Tail(@)]
        /\ UNCHANGED server
     \/ /\ ReadEnds(w)
        /\ stream' = [stream EXCEPT ![w] = Silent]
        /\ server' = [server EXCEPT ![w] = Nil]
        /\ UNCHANGED <<pc, payload, rest, reply>>
  /\ UNCHANGED <<mode, store, id, peer, source, bounds>>

\* The first Read of the stream.
ReplicateOffer(w) ==
  /\ pc[w] = "repl_open"
  /\ \/ /\ stream[w].msgs # <<>>
        /\ LET status == OfferStatus(NodeOf[w], Head(stream[w].msgs)) IN
           \/ /\ status = "OK"
              /\ pc' = [pc EXCEPT ![w] = "repl_read"]
              /\ UNCHANGED <<payload, rest, reply>>
           \/ status # "OK" /\ Return(w, ReplAnswer(status))
        /\ stream' = [stream EXCEPT ![w].msgs = Tail(@)]
     \/ /\ ReadEnds(w)
        /\ Return(w, ReplAnswer("SOURCE_UNREACHABLE"))
        /\ UNCHANGED stream
  /\ UNCHANGED <<mode, store, id, peer, source, server, bounds>>

\* Further Reads: the data of messages that have some, added without a check of
\* the size.
ReplicateRead(w) ==
  /\ pc[w] = "repl_read" /\ stream[w].msgs # <<>>
  /\ LET m == Head(stream[w].msgs) IN
     payload' = [payload EXCEPT ![w] = IF m.kind = "data" THEN @ \o m.data ELSE @]
  /\ stream' = [stream EXCEPT ![w].msgs = Tail(@)]
  /\ UNCHANGED <<mode, store, pc, id, rest, peer, source, server, reply, bounds>>

\* Mutant: the status of the stream is not looked at.
FinishOk_Ignored(w) == TRUE

\* reader->Finish().ok()
FinishOk(w) == stream[w].end = "ok"

\* The end of the stream, and the call of Put, whose return may never come.
ReplicateStore(w) ==
  /\ pc[w] = "repl_read" /\ ReadEnds(w)
  /\ \/ /\ ~FinishOk(w)
        /\ Return(w, ReplAnswer("SOURCE_UNREACHABLE"))
        /\ UNCHANGED store
     \/ /\ FinishOk(w)
        /\ \E o \in StorePut(NodeOf[w], id[w], payload[w]) :
             Stored(NodeOf[w], id[w], o) /\ Return(w, ReplAnswer(MapStoreError(o.result)))
  /\ UNCHANGED <<mode, id, peer, source, server, stream, bounds>>

-----------------------------------------------------------------------------
(* The remaining RPCs are one step each.                                     *)

DeleteChunk(w, supported, c) ==
  LET grpc == IdThenVersion(supported, c) IN
  /\ Accept(w, "DeleteChunk")
  /\ \/ /\ grpc = "OK"
        /\ \E o \in StoreDelete(NodeOf[w], c) :
             /\ Stored(NodeOf[w], c, o)
             /\ Return(w, Answer("DeleteChunk", TRUE, "OK", MapStoreError(o.result)))
     \/ /\ grpc # "OK"
        /\ Return(w, Answer("DeleteChunk", supported, grpc, "OK"))
        /\ UNCHANGED store
  /\ UNCHANGED <<mode, id, peer, source, server, stream, faults>>

VerifyChunk(w, supported, c) ==
  LET grpc == VersionThenId(supported, c) IN
  /\ Accept(w, "VerifyChunk")
  /\ \E status \in IF grpc = "OK" THEN {MapStoreError(o.result) : o \in StoreGet(NodeOf[w], c)}
                                  ELSE {"OK"} :
       Return(w, Answer("VerifyChunk", supported, grpc, status))
  /\ UNCHANGED <<mode, store, id, peer, source, server, stream, faults>>

GetNodeStats(w, supported) ==
  /\ Accept(w, "GetNodeStats")
  /\ Return(w, Answer("GetNodeStats", supported, RunPreamble(supported), "OK"))
  /\ UNCHANGED <<mode, store, id, peer, source, server, stream, faults>>

\* The reflection service that main registers: a stream on which the client
\* asks as long as it likes.
ServerReflectionInfo(w) ==
  /\ Accept(w, "ServerReflectionInfo")
  /\ pc' = [pc EXCEPT ![w] = "reflect"]
  /\ UNCHANGED <<mode, store, id, payload, rest, peer, source, server, stream, reply, faults>>

ReflectionEnds(w) ==
  /\ pc[w] = "reflect"
  /\ Return(w, Answer("ServerReflectionInfo", TRUE, "OK", "OK"))
  /\ UNCHANGED <<mode, store, id, peer, source, server, stream, bounds>>

-----------------------------------------------------------------------------
(* The network, the nodes and their disks.                                   *)

Break(w) ==
  /\ pc[w] \in {"repl_open", "repl_read"} /\ stream[w].end # "error"
  /\ faults < MaxFaults /\ faults' = faults + 1
  /\ stream' = [stream EXCEPT ![w] = [@ EXCEPT !.end = "error"]]
  /\ UNCHANGED <<mode, store, pc, id, payload, rest, peer, source, server, reply, calls>>

\* The process of node n dies, and with it its calls and its ends of streams.
Crash(n) ==
  LET Dead(w) == NodeOf[w] = n
      Cut(w)  == ~Dead(w) /\ source[w] = n /\ stream[w].end = "open"
      Clear(f, v) == [w \in Workers |-> IF Dead(w) THEN v ELSE f[w]]
  IN
  /\ mode[n] # "down" /\ faults < MaxFaults /\ faults' = faults + 1
  /\ mode' = [mode EXCEPT ![n] = "down"]
  /\ pc' = Clear(pc, "idle") /\ id' = Clear(id, Nil) /\ reply' = Clear(reply, Nil)
  /\ payload' = Clear(payload, <<>>) /\ rest' = Clear(rest, <<>>)
  /\ peer' = Clear(peer, Nil) /\ source' = Clear(source, Nil) /\ server' = Clear(server, Nil)
  /\ stream' = [w \in Workers |-> IF Dead(w) THEN Silent
                                  ELSE IF Cut(w) THEN [stream[w] EXCEPT !.end = "error"]
                                  ELSE stream[w]]
  /\ UNCHANGED <<store, calls>>

Start(n) ==
  /\ mode[n] = "down" /\ mode' = [mode EXCEPT ![n] = "serving"]
  /\ UNCHANGED <<store, handler, bounds>>

\* g_shutdown_requested is set; a second signal changes nothing.
SignalHandler(n) ==
  /\ mode[n] = "serving" /\ mode' = [mode EXCEPT ![n] = "signalled"]
  /\ UNCHANGED <<store, handler, bounds>>

\* The loop of main sees the flag and calls Shutdown, which refuses new calls,
\* cancels none, and returns when no handler is left; then the process ends.
Shutdown(n) ==
  /\ \/ mode[n] = "signalled" /\ mode' = [mode EXCEPT ![n] = "draining"]
     \/ /\ mode[n] = "draining" /\ \A w \in Workers : NodeOf[w] = n => pc[w] = "idle"
        /\ mode' = [mode EXCEPT ![n] = "down"]
  /\ UNCHANGED <<store, handler, bounds>>

Rot(n, c) ==
  /\ store[n][c] = "good" /\ faults < MaxFaults /\ faults' = faults + 1
  /\ store' = [store EXCEPT ![n] = [@ EXCEPT ![c] = "rotted"]]
  /\ UNCHANGED <<mode, handler, calls>>

\* Steps the handler of w takes on its own once a message or the end of a
\* stream is there.
Handle(w) == GetChunkReturn(w) \/ ReplicateOffer(w) \/ ReplicateRead(w) \/ Sent(w)

Next ==
  \/ \E w \in Workers :
       \/ PutChunk(w) \/ \E first \in FirstMessage : PutChunkFirst(w, first)
       \/ \E frame \in Frames : PutChunkRead(w, frame)
       \/ PutChunkStore(w)
       \/ \E v \in BOOLEAN, c \in Chunks \cup {Nil} :
            \/ GetChunk(w, v, c) \/ DeleteChunk(w, v, c) \/ VerifyChunk(w, v, c)
            \/ \E n \in Nodes : ReplicateChunk(w, v, c, n)
       \/ \E v \in BOOLEAN : GetNodeStats(w, v)
       \/ ServerReflectionInfo(w) \/ ReflectionEnds(w)
       \/ Handle(w) \/ GetChunkWrite(w) \/ ReplicateStore(w)
       \/ Refused(w) \/ Break(w)
       \/ \E r \in Workers : Served(r, w)
  \/ \E n \in Nodes : \/ Crash(n) \/ Start(n) \/ SignalHandler(n) \/ Shutdown(n)
                      \/ \E c \in Chunks : Rot(n, c)

Spec == Init /\ [][Next]_vars

\* The threads of the handlers and of main run.  No client is obliged to call,
\* to send, to read or to close a stream.
FairSpec ==
  /\ Spec
  /\ \A w \in Workers : WF_vars(Handle(w))
  /\ \A n \in Nodes : WF_vars(Shutdown(n))

\* What the code only hopes for, since no call has a deadline: Put returns to a
\* replication, a source that it asks answers or is seen to fail, and goes on
\* sending while the replication reads.
OthersAnswer ==
  \A w \in Workers :
    WF_vars(\/ ReplicateStore(w)
            \/ Refused(w) \/ \E s \in Workers : Served(w, s)
            \/ peer[w] # Nil /\ GetChunkWrite(w))

-----------------------------------------------------------------------------

Places == {"idle", "put_first", "put_read", "get_send", "repl_open", "repl_read", "reflect", "done"}

\* The state has its shape, and a stream between two handlers keeps to the
\* protocol: its first message is the metadata and all others are data, so that
\* a replication neither reads a size that is not there nor drops data.
TypeOK ==
  /\ mode \in [Nodes -> {"serving", "signalled", "draining", "down"}]
  /\ store \in [Nodes -> [Chunks -> {"absent", "good", "rotted"}]]
  /\ pc \in [Workers -> Places]
  /\ id \in [Workers -> Chunks \cup {Nil}]
  /\ payload \in [Workers -> Seq(Blocks)] /\ rest \in [Workers -> Seq(Blocks)]
  /\ peer \in [Workers -> Workers \cup {Nil}] /\ server \in [Workers -> Workers \cup {Nil}]
  /\ source \in [Workers -> Nodes \cup {Nil}]
  /\ \A w \in Workers :
       /\ stream[w].end \in {"open", "ok", "error"}
       /\ pc[w] \in {"repl_open", "repl_read"} =>
            \A k \in 1..Len(stream[w].msgs) :
              stream[w].msgs[k].kind = IF k = 1 /\ pc[w] = "repl_open" THEN "metadata" ELSE "data"

\* No handler ever buffers more than max_chunk_bytes_ of its own node: uploads
\* check every frame, and replication, which does not, is held to the limit
\* by the size the source announced, whatever limit the source has.
WithinLimit == \A w \in Workers : Len(payload[w]) <= MaxChunkBytes[NodeOf[w]]

\* A replication never fails with CHECKSUM_MISMATCH: what the source sends was
\* verified by its Get, arrives whole and in order, and a stream that broke on
\* the way is recognised by Finish before its prefix reaches Put.
NoSpuriousMismatch ==
  \A w \in Workers : reply[w] # Nil =>
    ~(reply[w].rpc = "ReplicateChunk" /\ reply[w].status = "CHECKSUM_MISMATCH")

\* Handlers that only other handlers can hold up, a replication and the GetChunk
\* that serves one, return if stores and sources answer: also when nodes
\* replicate from one another with all their threads in use, when streams
\* break and when the source dies or the reader gives up.
HandlersReturn ==
  OthersAnswer =>
    \A w \in Workers :
      pc[w] \in {"repl_open", "repl_read"} \/ (pc[w] = "get_send" /\ peer[w] # Nil)
        ~> pc[w] \in {"done", "idle"}

\* A client decides how long the handler runs: it uploads, or has opened an
\* upload, it downloads, or it has a reflection stream.
HeldByClient(w) ==
  \/ pc[w] \in {"put_first", "put_read", "reflect"}
  \/ pc[w] = "get_send" /\ peer[w] = Nil

\* If stores and sources answer, Shutdown waits for clients only: a node
\* that drains and has no stream that a client holds open ends, whatever its
\* other handlers were doing, also when the nodes they replicate from, or that
\* replicate from it, drain as well.
DrainEnds ==
  OthersAnswer =>
    \A n \in Nodes :
      mode[n] = "draining" /\ (\A w \in Workers : NodeOf[w] = n => ~HeldByClient(w))
        ~> mode[n] = "down"

\* A request of an unsupported protocol version is answered FAILED_PRECONDITION
\* by every handler, because the version is checked first.
VersionFirst ==
  \A w \in Workers : reply[w] # Nil /\ ~reply[w].supported => reply[w].grpc = "FAILED_PRECONDITION"
===============================================================================
