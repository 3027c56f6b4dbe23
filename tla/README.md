# NimbusFS: a verification development in TLA+

NimbusFS is a distributed chunk store. A storage node keeps chunks, immutable
byte strings named by their SHA-256 digest, as files on a local disk and serves
them over gRPC; nodes copy chunks from one another. Coordinator, metadata service,
client library and command line tools are still placeholders, so the storage node
and the common library are the system that can be verified. Paths below are
relative to `src/`.

## The system

| Part | State | Operations | What is hard about it |
|---|---|---|---|
| `LocalDiskChunkStore` | files under `data_root_`, 256 stripe mutexes, two atomic counters | constructor, `Put`, `Get`, `VerifyOnly`, `Delete`, `Exists` (and the read-only `GetStats`, `ListAllChunkIds`) | threads on one stripe and on several, every file-system call may fail, kill and power failure between any two, media errors, `Put` re-entering its own mutex |
| `IChunkStore` | none, an interface | the same calls | what callers may rely on |
| `BoundedBlockingQueue` | items, shutdown flag, mutex, two condition variables | `Push`, `TryPush`, `Pop`, `TryPop`, `Shutdown`, `SizeApprox` | lost wake-ups, spurious wake-ups, deadlines racing notifications, shutdown with sleepers |
| `StorageNodeServiceImpl` | buffers of calls under way; the store | `PutChunk`, `GetChunk`, `VerifyChunk`, `DeleteChunk`, `ReplicateChunk`, `GetNodeStats` | streams that break, nodes that die, size limits that differ between nodes, handlers calling handlers on a limited number of threads |
| storage node `main` | the process | start, thread quota, shutdown at a signal | what is under way at shutdown |
| `FaultInjectingChunkStore` | one-shot, nth-call and latency faults, a call counter | the store calls, `Inject*`, `ClearInjectedFaults` | a test double called from several threads |
| `ChunkId`, `Sha256` | none | parse, format, hash | a lax conversion below a strict parser; file names that must lead back to ids |
| `PathValidator` | none | `Validate`, `NormalizeForDisplay` | where a hand-written scan begins and ends |
| `Config`, `ConfigSchema` | the file read, the environment | load, validate, four getters | overrides on some nodes and not on others, signed and unsigned widths, two pieces of code that judge types |
| `Lease`, `Clock` | issue time and duration | `IssueNow`, `IsExpired` | two clocks that disagree and are set back |
| `Logger`, correlation ids, greeter demo, protocol version, `Uuid` | an id per thread, lines written | log, open and close a scope, send, serve and forward a call | pooled threads, calls that lead to calls on other nodes |
| `CapabilityToken` | none | a stub that accepts | nothing |

A handler of `StorageNodeServiceImpl` runs on a gRPC thread and calls the store;
`ReplicateChunk` is a client of another node's `GetChunk`. The store is called by
all handler threads at once. The queue is a library class that no service uses yet.

The tree as it is committed does not compile as a whole: `main.cpp` and the service
call members of `Config` and `Logger` that those classes do not have. The models
follow the code that is there. `Config::Load`, `GetClusterInt` and `GetNodeInt`, as
`main.cpp` and the service call them, are taken for `LoadFromFile` and `GetInt64` of
the section in question with every error giving the default.

## Modules

| Module | Stands for |
|---|---|
| `LocalDiskChunkStore` | the store, one action per file-system call or counter update |
| `ChunkStoreContract` | the promise of `IChunkStore`: atomic calls on a map from ids to contents |
| `BoundedBlockingQueue` | the queue, one action per critical section |
| `StorageNodeService` | the RPC handlers of several nodes, over stores that keep the contract |
| `FaultInjectingChunkStore` | the store that tests use to inject faults, one action per critical section |
| `PathValidator` | `Validate` and `NormalizeForDisplay`, one action per round of a loop |
| `ChunkId` | parsing and writing ids, over the conversions of `Sha256` |
| `Config` | loading, validating and reading one file on several nodes |
| `Lease` | a lease between two clocks |
| `Logger` | the id of each thread, scopes, and lines |
| `Tracing` | extends `Logger`: clients, handlers on pooled threads, replication, as far as ids go |
| `MC...` | constants of the small instances; `MCCommonLibrary` puts the four library parts, which share no state, side by side |
| `LocalDiskChunkStoreProofs`, `...Counting`, `...Refinement` | proofs about the store: types, exclusion, whole files and temporary files; then the two counters; then durability and the contract |
| `BoundedBlockingQueueProofs`, `StorageNodeServiceProofs`, `FaultInjectingChunkStoreProofs`, `TracingProofs` | proofs about the module of that name |
| `CommonProofs` | proofs about `PathValidator`, `ChunkId`, `Config` and `Lease` |

Definitions whose names contain an underscore and a word (`GetStat_KeepsLock`)
are deliberate bugs: each stands before the definition it spoils, and replacing
the one by the other must make TLC report the property named for it in
`PROJECT.json`. No specification uses them.

### LocalDiskChunkStore

`pc`, `op`, `id`, `buf`, `sz` and `ret` are what a thread inside a call holds; `lock`
is `stripe_locks_` with the owner's depth; `chunk_count` and `bytes_used` are the
atomics, with arithmetic modulo `UintModulus` (2^64 in the code). `final` is what
the running system sees of the `.chunk` files, `tmp` the temporary file of a
thread in `Put`, `strays` the temporary files nobody will touch again. `disk` is,
for each chunk, the set of versions a power failure may leave: a rename or unlink
adds one, `fsync` of the shard directory reduces it to what is visible. A renamed
file whose contents were not synced may survive as garbage. `shards` says of each
shard directory whether it exists and whether its own entry is durable:
`create_directories` makes up to two levels and nothing syncs their entries in the
levels above, so a power failure may take a new directory with everything in it,
synced or not. `acked`, `orphaned` (chunks lost with their directory since a `Put`
last said ok) and `rotted` are history.

SHA-256 is taken to be collision free, so a chunk id stands for its contents and
`Garbage` for bytes that match no id. `RelockOutcomes` is what `std::mutex::lock`
does when the caller owns the mutex, which `Put` makes happen by calling `Exists`
inside its own guard. That is undefined; a build may block, throw, or let the
thread in. With "blocks" or "throws" alone no `Put` of matching bytes ever
succeeds, so everything said about files and counters is about executions in
which the thread is let in, as the authors and their tests evidently intend (and as
a recursive mutex would do it). `Faults` names the calls that may fail.
The POSIX branch of `Put` is modelled; the Windows build, which does not sync
directories, behaves as if "dirsync" always failed. Ids handed to the store have
parsed. Creating directories and opening the temporary file are one step, and so
are writing, syncing and closing it, because no other thread can see the file and
a crash between them leaves the same stray.

### BoundedBlockingQueue

Everything between acquiring `mutex_` and releasing it, by a return or inside a wait,
is one action. A waiting thread is at `push_wait` or `pop_wait` until it is
notified or wakes for no reason (`_woken`) or its deadline passes (`_expired`);
it then competes for the mutex and evaluates its predicate again. Items are the
numbers of the calls, so each is different. `pushed` and `popped` are history.

### StorageNodeService

A worker is a thread of a node's gRPC server. `PutChunk` occupies it from the moment
the call is accepted, waits for the first message (`PutChunkFirst`) and reads frames
until the client closes the stream or it breaks, which the handler cannot tell apart.
`ReplicateChunk` sends a `GetChunk` that is served by an idle worker of the
source (`Served`) or fails because the source is down or out of threads
(`Refused`); frames travel in order in `stream`, and a broken stream loses what
was under way. Contents are short sequences of blocks. The store's calls are atomic
with the outcomes of the contract. The token check accepts every token, as the
code's stub does. Each node has its own `max_chunk_bytes_`: nodes that read one file
agree on it (`LimitAgreed`), but during a roll-out they read two. gRPC and the
operating system are external.

`mode` is what `main` of a node is doing. A signal sets a flag (`SignalHandler`);
the polling loop sees it later and calls `Shutdown`, which refuses new calls and
returns when no handler is left. Calls accepted between signal and poll are served.
`main` also registers gRPC's reflection service, whose stream
(`ServerReflectionInfo`) lasts as long as its client likes and holds up `Shutdown` as any
handler does.

### FaultInjectingChunkStore

The fields keep their names; `pending_latency` is only zero or not. A call reads
the latency, sleeps, decides under `fault_state_mutex_` (`ShouldInjectFault`) and
goes to the delegate, which answers for itself, so faults may be armed and cleared
while calls sleep. `call_counter` is a natural number: no test makes 2^64 calls.
`oneShots`, `passed` and `early` are history. `TypeOK` bounds `call_counter` by the
calls that have decided: a call counts once, and only when it decides. A fault hits the next call to
*decide*, which may have begun before the fault was armed.

### PathValidator, ChunkId, Config, Lease

`start`, `end` and `i` are the offsets of the code's loops. `Validate` is followed by
`NormalizeForDisplay` on the same path whatever the verdict. What they should
compute is stated without a scan: seven kinds of defect, and the path without each
slash that follows a slash. The allowed characters are a constant set.

A character of an id is what `isxdigit`, `isupper` and `stoi` can tell apart, a digit
with its value or a kind of other character. `PairRead` and `PairValue` keep
what `stoi` accepts beyond two digits (leading space, signs, upper case), because
the point of `ParseExact` is that `Parse` keeps it out.

A value of a file is a JSON kind with a number, a text of the environment is what
the four getters make of it. A key is a word with a spelling: the name of its
variable keeps the word alone, so two spellings share a variable. Words of 64 and
32 bits are `Word` and `IntWord`. The schema is a constant, any set of entries.

Issuer and judge of a lease have a clock each, set forward and back at will as long
as they differ by at most the tolerance, which is the tolerance's purpose.

### Logger and Tracing

A `ScopedCorrelationId` keeps the value it found (`scopes`) and puts it back; `opened`
is history. A line is the call it is about, for the property only, with the id of
its thread. Every handler opens a scope with the id of the metadata or a new
one; `ReplicateChunk` evaluates `GetCorrelationId` a second time for the call it
makes. Uuids are numbers that never repeat, and `minted` remembers for
whom each was made. Clients that are not part of the repository send what they like:
no id, the empty one, a new one, or one already in use, theirs or another
client's. Such clients share a trace by their own choice, which is why `TracesApart`
says that calls share an id only if one of their clients sent it. A replication that was
asked for without an id is logged under two made-up ids, one on each node, since the
second evaluation makes up another; no property says otherwise. Nested scopes occur only in `logger_test`, whose
threads (`Testers`) are part of the model.

## Runs

All instances are small sets of threads and chunks; every bound is a constant in the
`.cfg`.

| Run | Instance | Checks |
|---|---|---|
| `store_any_fault` | 2 threads, 1 chunk, all calls, all failures but the removal of a temporary file, 2 crashes, 1 media error, counter modulo 2 | `TypeOK`, `StripeExclusion`, `NoTornChunk`, `NoTempLeak` |
| `store_accounting` | 2 threads, 2 chunks of different size on 2 stripes and in 1 directory, put and delete, failures except stat and directory sync, 1 crash, directories that are new, unsynced or durable | `CountExact`, `BytesExact`, `AckedPutSurvives` |
| `store_contract` | 2 threads, 1 chunk, all calls, failures except stat, 1 crash, 1 media error, fair | `DeleteOkMeansGone`, `ImplementsContract`, `CallCompletes` |
| `queue` | 3 producers, 2 consumers, capacity 2, 4 pushes, fair | `TypeOK`, `NoLostWakeup`, `Fifo`, `WaitersProceed`, `ShutdownReleases`, `DeadlinesHold` |
| `service` | 2 nodes, 1 worker each, all RPCs and reflection, a chunk of 3 blocks in frames of 2, limits 3 and 2, 2 calls of clients, 1 break, crash or media error, signals, fair | `TypeOK`, `WithinLimit`, `NoSpuriousMismatch`, `HandlersReturn`, `DrainEnds` |
| `common_library` | all paths of up to 6 of 5 characters with limits 5 and 2; texts and digests of 2 bytes; 2 nodes, 38 files, 4 environments each, 4 schemas; clocks up to 6 | `VerdictRight`, `DisplayCollapses`, `ValidShownAsIs`, `ParseExact`, `RoundTrip`, `LimitAgreed`, `ValidateForesees`, `ExpiryWithinSkew` |
| `tracing` | 3 calls, 2 handler threads, a greeter client, a thread of the test, clients sending any of the ids above, 2 versions, symmetric | `ScopesNest`, `TraceFollows`, `TracesApart` |
| `fault_injection` | 2 threads, 4 calls of any kind, 3 faults armed, n from 0 to 2, symmetric | `TypeOK`, `OneShotHitsOnce`, `FailsAfterN` |

Why these bounds are enough to be interesting: two threads suffice for every race the
stripes allow, since a stripe has one owner; two crashes are needed for a kill
followed by a power failure; two chunks in one directory let the sync of one
`Put` make another's entry durable. Three producers and two consumers at a queue of two
places let one thread be notified, another steal the place and a third sleep on. A
chunk of three blocks takes two frames, so a stream can break between them, and
fits one node's limit and not the other's. Three faults let an nth-call fault, a
one-shot within it and a replacement meet, and four calls go past n in each case.
Nodes with one worker each are the hardest case for replication both ways, since
each handler holds the thread the other needs. Six characters exceed the longest
path and hold two components with their slashes, one longer than allowed. Three
calls are a replication, the call it makes and a stranger on the same thread.

`CHECK_DEADLOCK FALSE` stands where the system may stop: a store whose `Put` is stuck in
its mutex, a service whose bounded number of calls is used up.

Fairness. `LocalDiskChunkStore`: a thread that can take its next step takes it
(weak fairness per thread), nothing about callers, and nothing about who gets a mutex, which
is why `CallCompletes` starts at the moment the stripe is owned.
`BoundedBlockingQueue`: a thread that was woken gets the mutex, and deadlines
pass; no one is obliged to call, to shut down, or to wake without reason.
`StorageNodeService`: the threads of the handlers run when a message or the end of a
stream is there for them, and `main` polls its flag and, once the handlers are gone,
ends. No client is obliged to send, to read or to close anything. What the code cannot
see to, because none of its calls has a deadline, is not fairness of the
specification but the hypothesis `OthersAnswer` of the two properties: `Put` returns to
a replication, and a source that is asked serves, or is seen to fail, and goes on
sending while the replication reads. Both properties are therefore about handlers that
hold up one another. `HandlersReturn` is about replications and the `GetChunk` calls that
serve them; `DrainEnds` about a node none of whose handlers a client holds
(`HeldByClient`: an upload, a download or a reflection stream), since `Shutdown` has no
deadline either and waits for such a client for ever.

### Disagreements the runs show

| Run | What TLC finds |
|---|---|
| `store_put_blocks` | `Put` locks its stripe and calls `Exists`, which locks it again. Where that blocks, `Put` never returns, although the store's tests expect it to. |
| `store_dedup_durable` | The process dies between `rename` and the directory sync; after the restart `Put` finds the file and answers ok without syncing; a power failure then loses a chunk that was acknowledged. |
| `store_delete_blind` | `Delete` takes a failing `file_size` for absence and answers ok; the chunk is still there. |
| `service_version_first` | `PutChunk` and `DeleteChunk` parse the id before they check the protocol version, which `docs/protocol-versioning.md` wants checked first. |

## Proofs

For every finite set of threads and chunks, every stripe and shard function, every set
of faults and outcomes of re-locking, and every bound:

* `TypeCorrect`: the store's `TypeOK`. The inductive invariant `TypeInv` adds
  `LocalsInv`, what the locals hold at each point of a call: an id inside any
  call, the bytes of that id inside `Put` once the digest was compared, a temporary
  file exactly between open and rename, and a synced, whole one before rename. `OwnerInv`,
  the converse of `LockInv` below, says that a locked stripe has an owner inside its
  guard, so that no return path keeps one.
* `Exclusive`: `StripeExclusion`, from `LockInv`: a thread inside a guard owns
  its stripe.
* `Whole`: `NoTornChunk`. The property is about visible files only and is not
  inductive, since a power failure brings back other versions: `WholeInv`
  says the same of every version in `disk`.
* `CountCorrect`: `CountExact`, if stat does not fail. It needs `PresenceInv`,
  what a thread that owns the stripe knows of its file, which rests on `LockInv`.
  That the counter does not wrap rests on there being fewer chunks than 2^64.
* `NoTempLeft`: `NoTempLeak`, for every set of failures: a file is left behind only by
  a crash or by a `remove` that fails (`StrayInv`).
* `BytesCorrect`: `BytesExact`, if stat does not fail and all chunks together have
  fewer bytes than 2^64 (`BytesFit`). The sum of sizes (`TotalLength`) is written as the
  number of bytes, each a pair of its chunk and its place, so that sums are
  cardinalities and no induction is needed. The invariant adds `SizeInv`: every version
  of a file, visible or not, and the size a `Delete` has read, is the size of its chunk.
* `AcksKept`, `AcksKeptOnce`: `AckedPutSurvives`, if a directory can be synced and no
  crash follows a kill (`KillLast`), or if there is at most one crash. A chunk lost with its
  new directory is the exception the property names; every other loss is excluded. The
  invariant `DurableInv` says that as long as a crash may still come, no
  acknowledged chunk can be missing after it, and a visible one only while its `Put` is
  about to sync the directory. Without `KillLast` the statement is false, which is the run
  `store_dedup_durable`.
* `StoreRefines`: `ImplementsContract`, if stat does not fail and locking a mutex twice
  does not throw (`Dependable`). The mapping takes a chunk to absent, good or bad
  (`storedBar`), and a call to the phase it is in (`phaseBar`): it takes effect where
  it unlinks or renames the file, or where it finds what decides its answer. `EffectMap` and
  `StutterMap` say once what a step must do to be a step of the contract or none;
  `CallRefines` goes through the steps of the calls, `NextRefines` through the rest. Where
  stat fails, `Delete` can answer ok with the chunk there; where the lock throws,
  `Put` fails in a way that `IChunkStore` does not list.
* `DeletesGone`: the action property `DeleteOkMeansGone`, if stat does not fail: the
  failure in the run `store_delete_blind` is the only reason for what it shows.
* `QueueTypes`, `WakeupsKept`, `InOrder`: the queue's `TypeOK`, `NoLostWakeup`
  and `Fifo`. The invariant adds that consumers wait only to pop, producers only to
  push, and that a producer inside a call holds its item. `NoLostWakeup` is
  stated as a count and is inductive: every step that adds an item or a place
  also wakes a sleeper or finds none, and every thread that goes to sleep saw
  nothing to take.
* `OneShotsSpent`, `NthCallsCounted`: `OneShotHitsOnce` and `FailsAfterN` of the
  fault injection. With the types of the counters (`Numbers`) their conjunction
  `Counted` is inductive: the decision and the consumption are one critical section.
  `TypeCorrect` there is its `TypeOK`; `UndecidedMoves` follows the number of calls
  that have not decided from step to step.
* `ServiceTyped`, `BuffersBounded`, `ReplicasWhole`: the service's `TypeOK`,
  `WithinLimit` and `NoSpuriousMismatch`, for any nodes, workers, limits, frame size
  and faults. Neither of the last two is inductive: replication adds frames without a
  check. `ServiceInv` says, for each replication (`Reading`), that metadata come
  first and state the true size, that what was buffered, what is under way and what
  the source still holds are consecutive pieces of the chunk (`Flow`), and that a
  stream ends with "ok" only when the last piece is under way. So the buffer is
  a prefix of a chunk that fits, and what reaches `Put` is all of it.
* `PathsJudged`, `PathsShown`: `VerdictRight` and `ValidShownAsIs` for paths of any
  length, from the loop invariant `PathInv`: the part before the component looked
  at is free of defects, and for a valid path what is shown is a prefix of it.
* `PathsCollapsed`: `DisplayCollapses`, from `Collapsing`: what is shown is what is to
  be kept of the path so far, counted, and it ends in a slash when that does, which is
  why comparing with the last character kept is as good as comparing with the path.
* `IdsSpelledOnce`, `IdsReadBack`: `ParseExact` and `RoundTrip`, for digests of any
  length, from the arithmetic of two digits to a byte.
* `LeasesJudged`: `ExpiryWithinSkew`; the invariant is that the clocks stay within the
  tolerance of one another.
* `OneLimit`, `ValidationForesees`: `LimitAgreed` and `ValidateForesees`, for any nodes,
  files, environments and schemas; the invariant is that a node holds the
  deployed file and that what it took from it is what it would take again.
* `IdsScoped`, `TracesFollowed`, `TracesDistinct`: `ScopesNest`, `TraceFollows` and
  `TracesApart`, for any calls, threads and depth of scopes. `TraceInv` says of
  everything that holds an id, a line, a request or a thread at work, that it is the id
  the client sent or, if the client sent none, one made for its call (`Owns`), and that a
  scope put aside what the scope around it had set.

Assumptions on constants are named (`ConstantsOK`, `QueueConstants`, `FaultConstants`,
`ServiceConstants`, `PathConstants`, `IdConstants`, `ConfigConstants`,
`LeaseConstants`, `TracingConstants`); TLC evaluates them in the runs.

A caution for whoever extends the proofs: version 1.4.5 of the prover accepts false
statements about functions updated more than once in one expression (`[f EXCEPT
![a] = x, ![b] = y]`, or one EXCEPT applied to another: it concludes a # b).
Modules that proofs are about therefore update a function once per step or define it
pointwise, as `ReturnNotifying` does. It also expands `@` wrongly inside a nested EXCEPT
(`![w] = [@ EXCEPT !.f = g(@)]`); the modules write `![w].f = g(@)` instead. As
a cross-check, deliberate bugs of the store (its locks, its counters, its durability and
its refinement among them), the queue, the service, the fault injection, the path display
and the correlation ids were put into their modules, and the proofs failed at the steps about them.

Only model-checked: liveness, for which the prover has no rule of fairness here
(`CallCompletes`, `WaitersProceed`, `ShutdownReleases`, `DeadlinesHold`, `HandlersReturn`,
`DrainEnds`). Every invariant, and the refinement, that a passing run checks is proved.

## Not modelled

* `GetStats` and `ListAllChunkIds` change nothing. The two counters are
  read one after the other, so a report may mix moments; no code relies on it.
* The two levels of a shard directory are one in the model: losing either loses the
  chunks below it, and any set of directories may be lost together.
* Files changed by hand, and disks that lie about `fsync`.
* The digest itself (OpenSSL) and `ChunkId::Hash`; collisions are taken not to happen.
* `Logger::Audit`, which nothing calls, and sinks, rotation and formatting of lines.
* A source that falls silent without closing its connection may do so in the model, and
  its caller then waits for ever; the liveness properties exclude it by `OthersAnswer`.
  What the reflection service answers is not modelled.
* An override that does not parse, a wrong type and a missing key all end in the
  default without a word. The model has this behaviour; the repository states
  nothing it could be held to. The same goes for a thread pool size beyond an int.
* `CapabilityToken`, a stub that accepts every token, and the coordinator, metadata
  service, client library and command line tools, which print a line. There is no
  behaviour in them to model yet.

## What could come next

* The service over the store's own module instead of the contract's outcomes: the
  refinement that is proved here is what would carry its theorems over.
* Coordinator and metadata service, once they exist: leases and capability tokens are
  there for them and have no user yet.
