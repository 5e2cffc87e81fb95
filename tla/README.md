# A TLA+ verification project for julie-semantic-sidecar

julie-semantic-sidecar turns text into embedding vectors with llama.cpp. It
runs in three ways: `prepare` downloads a model into a shared cache, `serve`
answers newline-delimited JSON on stdin and stdout, and `broker` serves the same
protocol to many connections on a local socket, sharing one accelerator with
the brokers of other models. This directory models the parts whose correctness
depends on the order of steps, on failures or on boundaries: the broker, the
model cache, the choice of a device, the embedding call, the stdio server and the
Windows transport. TLC checks them on small instances, and TLAPS proves
all safety properties of the passing runs for instances of every size.

Source lines in comments are given without the leading `src/src/` or
`src/src/broker/`: `queue.rs:69` is `src/src/broker/queue.rs` line 69.

## The system

| Component | State | Operations | Hard because | Correct if |
|---|---|---|---|---|
| Broker queue, `broker/queue.rs` | two FIFO queues, a burst counter, a condition variable | `try_enqueue`, `dequeue` | many producers, one sleeping consumer, two classes | capacity kept, no lost wakeup, neither class starves |
| Broker engine, `broker/engine.rs`, `lease.rs` | the loaded engine, the accelerator lease, demotion and terminal failure | `load_with`, `embed` with its recovery | a lock file shared by processes that crash; a retry in the middle of a request | one accelerated engine at a time; a request always finds an engine or a recorded failure |
| Broker process, `broker/mod.rs`, `watchdog.rs`, `transport/unix.rs` | service lease, socket file, `endpoint_bound`, owner stdin | start-up of `serve_with_loader`, `bind`, the owner watchdog | two threads and several processes share a path; every call may fail | one broker per model, reachable at its own socket, gone when its owner is |
| Broker serving, `broker/mod.rs`, `watchdog.rs` | connection threads with one-slot channels, the scheduler loop, the armed request | `handle_connection`, the loop, `arm`, abort | replies travel through queue and scheduler; engines hang, clients vanish | every accepted line is settled once and at last |
| Model cache, `prepare.rs` | final files, partial files, lock files | `acquire`, `clean_stale_partials` | processes killed at any point; a directory listing that is no snapshot | one writer, nothing unverified under a final name, garbage removed, live downloads spared |
| Stdio server, `protocol.rs`, `stdio_guard.rs` | the line buffer, descriptor 1 | `read_request`, `process_line`, the guard around the load | an input cap, chunks that cut lines anywhere, error classes, native code that prints | one reply per line, framing kept after an oversized line, nothing but replies on stdout |
| llama.cpp engine, `engine.rs`, `truncate.rs` | backend, model, contexts | load with fallback, truncation, grouping, isolation by bisection | partial failure of a batch; limits met exactly | every healthy item gets its own vector, no context over its limits |
| Backend selection, `backend_select.rs`; health, `health.rs` | the selection cache file | `select_runtime`, probes, read and merge of the file | a stale cache, two writers, a device that fails after it won | a device as it was measured, no lost update, a model that serves at last, a truthful report |
| Windows transport, `transport/windows.rs` | pipes, overlapped operations, registered handles | `accept`, `read`, `write`, `cancel_pending`, `cancel_io` | a kernel that completes, aborts and reuses at any moment | no freed memory written, no operation left waiting that a cancel met, no stranger cancelled |
| Sanitizing, manifests, command line, packaging | none at run time | pure functions, formatting | - | not modelled |

How they interact. A connection thread reads a line (protocol), pushes it with
the sending end of a channel into the queue and blocks on the channel. The
scheduler thread takes requests, arms the request watchdog, calls the protocol,
which calls the broker engine, sends the result through the channel and
disarms. The watchdog aborts a process whose request runs too long. The broker
engine shares `accelerator_lease` with other processes through a lock file; the
process shares the service lock and the socket path with other brokers of the
same model. `serve` and `broker` clean partial files from the cache that
`prepare` writes. Both load their engine through backend selection.

## Modules

**`BrokerQueue`** - `queue.rs` entire. `interactive` and `batch` are the two
`VecDeque`s, `interactive_since_batch_waited` the burst counter, `expired` the
set of queued requests whose deadline has passed, `scheduler` where the
consumer is (`waiting` in `Condvar::wait`, `ready` to look, `out` with a
request), `taken` the last value `dequeue` returned. A step is a critical
section of the mutex: `TryEnqueue`, and `Dequeue`, which pops by `take_next` or
goes to sleep. Spurious wakeups happen.

**`BrokerQueueFairness`** adds history to it: for each queued value, what was
served while it waited. **`BrokerQueueProofs`** has the proofs of both.

**`BrokerEngine`** - any number of brokers around one accelerator lock. The
steps of a broker are taking the lock (`TryAcquire`), the load and its checks
(`LoadReturns`), `embed` (`EmbedReturns`, `EmbedRefused`), and, after
exhaustion, the steps of the recovery one by one: `DropInner`, `DropLease`,
`ReloadReturns`, `RetryReturns`. `EngineCrash` is possible everywhere and frees the
lock; the broker may then be started again. The loader is the code's own `load`,
abstracted to the engines it can return. Its definitions are named `Engine...` where
`BrokerLifecycle` has one of the same kind, because the proofs extend both. Proofs in **`BrokerProcessProofs`**.

**`BrokerLifecycle`** - the broker processes of one model. Each has a main
thread (`pc`) and the owner-watchdog thread (`wd`); each system call is a step,
and each fallible call may fail. `socket` is the process whose listener the
file at the path is. `failed_late` is history: the processes that failed in a
call after `UnixListener::bind`, other than by finding their socket removed by
their own exiting watchdog. Both removals of the socket file whose result the code
ignores (watchdog.rs:32, unix.rs:54) may fail; `unremoved` is history, the processes
whose watchdog met such a failure. Proofs in **`BrokerProcessProofs`**.

**`Broker`** - one serving broker: the connection threads, the scheduler loop
and the request watchdog, composed with the queue, whose actions it uses
(`Q == INSTANCE BrokerQueue WITH Requests <- Conns`). A request is named by its
connection, because a connection has at most one. **`RequestService`** is what a
client may rely on, without queue, scheduler or watchdog; `Broker` implements it
(`Service == INSTANCE RequestService WITH ...`). **`MCBroker`** has the lines of
the instance, **`BrokerProofs`** the proofs.

**`Prepare`** - `acquire` and `clean_stale_partials`, each file-system call a
step, with processes killed at any point. `final`, `partials`, `lock_files` and
`lock` are the cache directory; `Legacy` is a partial file of an unknown model.
The cleaner reads the directory name by name, and files that appear meanwhile
may or may not be listed. **`MCPrepare`** adds the symmetry, **`PrepareProofs`**
the proofs.

**`BackendSelection`** - processes that start on one cache directory and load one
model each: the modules, the device that is forced or cached or measured, the
critical section of `mutate_runtime_cache` step by step, the final load, and after
its failure the withdrawal of the decision and the load on the CPU. The driver may
change between two starts (`ChangeMachine`), each file operation and each load may
fail, processes are killed. `store` is the file, a function from keys to
decisions. It may hold entries of an old version, which name the backend that won
and not its device (`LegacyChoice`, for any device that may have won); the first
candidate of the backend then stands in (`Indexed`), as in backend_select.rs:331-338.
History: `measured`, the devices found faster than the CPU and under which key;
`misread`, the processes whose read of the file failed; `assumed`, those that took a
stand-in device; `incomplete`, those one of whose probes failed; `floorless`, those
in which something the CPU itself needs failed. `Health` is what `health.rs`
reports of the result. **`MCBackendSelection`** has the machine,
**`BackendSelectionProofs`** the proofs.

**`Embedding`** - one `embed` call: `BuildInput` fits a text to the token limit
(`BodyBudget` and `Fit` of `truncate.rs`), `GroupInput` grows groups under the
limits, and the encode actions work off the runs of inputs, halving one that fails
for the sake of an input. A text is its token count and the prefix lengths that
survive detokenizing and tokenizing. `poison` is the set of inputs no encode
succeeds with; any backend failure may also end the call. **`MCEmbedding`** has
texts at and around each limit, **`EmbeddingProofs`** the proofs.

**`Serve`** - the stdio server: the guard on descriptor 1 around the load, the
capped line reader over chunks of any size, the checks of the envelope, dispatch,
validation, the engine's outcomes, writing. The input is a sequence of newlines and
other bytes. What the object on a line says is chosen when it is parsed. `lost` says
that the restoring `dup2`, which the code does not check, failed, so that descriptor
1 stays with stderr. `lines`, `blanks` and `sent` are history. **`MCServe`** has the objects, **`ServeProofs`** the
proofs.

**`WindowsPipe`** - the accept thread, the connection threads and the cancelling
threads around the kernel's state of each handle: open, with an operation pending
or over, with its `OVERLAPPED` allocated. The kernel reuses the value of a closed
handle at once. The cancel flags are swapped where the code swaps them, before the
wait. `owed` and `spent` are history: the cancels that have ended no operation yet,
and those of them that an operation which was already over has used up. Proofs in
**`WindowsPipeProofs`**.

## Runs

| Run | Instance | Shows |
|---|---|---|
| `queue` | 4 requests, capacity 3, burst 2; 227,000 states | `NoLostWakeup`; `OvertakingBounded` and `InteractiveDelayBounded`: the exact bounds on how often one class passes the other; `EveryRequestTaken` |
| `engine` | 3 brokers; 25,000 states | `AtMostOneAccelerator`; `NoIdleLease`; `LiveEngineOrTerminalFailure`: the two `expect`s never fire; `ExhaustionIsRecovered`: a client sees exhaustion from a CPU engine only |
| `lifecycle` | 2 processes, all faults; 8,200 states | `OnlyHolderRuns`; `EndpointBelongsToServer` and `OthersLeaveSocketAlone` as far as late failures allow; `EofWhileServingRemovesSocket`, unless the removal itself fails; `OwnerLossEndsBroker` |
| `lifecycle_late_faults` | the same | violated: see Findings |
| `broker` | 3 connections, 3 lines, capacity 2, burst 1; 505,000 states | `PendingInOnePlace`: a waiting connection's request is queued, in hand or answered, and in one of these only; `SleepsOnlyWhenAllAnswered`; `ArmedExactlyWhileBusy`; `ImplementsRequestService`: the refinement with its fairness, so that every line is settled once, fitly and at last |
| `prepare` | 2 models, 2 prepares, 1 cleaner, all lock files present; 331,000 states up to symmetry | `OneWriterPerModel`; `SuccessMeansCached`; `NoUnverifiedFinal`; `ActiveDownloadsUndisturbed`; `AbandonedPartialsRemoved` |
| `prepare_liveness` | 1 model, 2 prepares, 1 cleaner | `EveryPrepareEnds` |
| `prepare_under_lock` | 1 model, no lock file yet | violated: see Findings |
| `selection` | 2 processes, 1 model, a machine that changes and one whose driver cannot be identified, a store with and without old entries; 289,000 states | `OnlyMeasuredDevices`: from the store or by a probe of its own, a process loads on a device that won under its own key, or on the stand-in an old entry makes it take; `CacheNeedsIdentity`; `CpuIsTheFloor`: a load that began ends with a model that serves, whatever else fails, waits or is killed; `SelectionExplained`: health is true of the engine that serves; `NoLostDecision` |
| `embedding` | up to 4 texts, both poolings, every set of bad inputs | `ContextsBounded`; `InputsFitTightly`: truncation against a direct definition; `OnlyPoisonIsZeroed`; `PoisonIsCheap`: the logarithmic cost the code claims; and `TypeOK` |
| `serve` | inputs of up to 6 bytes in all chunkings, cap 2, batches of 2; 2.64 million states | `FramesExact`; `OneReplyPerLine`; `ReplyFitsRequest`; `StdoutPure` |
| `windows_pipe` | 2 handle values; 112,392 states | `KernelMemoryLive`; `OnlyAcceptsCancelled`; `CancelNotLost`: the operation a cancel meets does not go on waiting |

`CHECK_DEADLOCK FALSE` is set where the system may stop: all processes or the call
ended, or the broker is down. The type invariants of the other modules, and
`CapacityRespected`, `BurstStartsFresh`, `DemotionIsPermanent`, `NoAddressInUse`,
`LockInUse` and `OneOwner`, are proved and not part of a run.

**Bounds.** Four requests with capacity 3 fill the queue and leave one producer
refused; burst 2 is the least at which a burst can be half spent. In `Broker`,
capacity 2 and three connections give a full queue with a request in hand, and
burst 1 makes both classes alternate. Three brokers around the accelerator are one
that leaves, one that follows and one that competes with it. Two broker
processes are one that leaves and its successor; the safety properties of the
lifecycle are also proved for any number. Two models let the
cleaner hold one lock and miss the other. A broker process lives once; the
number of processes bounds the launches. Two selecting processes are a reader and
a writer of the store, in each role; two devices and two speeds, one below the
CPU's and one equal to it, let either device win and either miss by nothing; both are of one backend, so that
the stand-in for an old entry may be the one that was not measured. Four texts fill a group of three and open
another, and bisect twice; the constants of the encoder are scaled so that a
group ends by tokens, by sequences and by the end of the request. Six bytes
(`MaxInput`) with a cap of two hold an oversized line with a good one before or after it; the objects
depart from a good one in up to two places, which is enough for every order of
two checks. Two handle values are one that is closed and its reuse while another
is in use. There are no state constraints. The theorems below hold without these
bounds.

**Fairness.** Queue: `Dequeue` is taken when it can be, because the scheduler
loop calls `dequeue` again after every request. Engine: a recovery goes on or
the process crashes, because it runs inside an armed request; nothing is assumed
of the first load, which no watchdog covers. Lifecycle: both threads are
scheduled, but loading a model may take for ever. Broker: the scheduler thread's
own steps, the passing of time (`BecomeOverdue`), the watchdog (`Abort`) and the
receipt of a reply that is there; nothing is assumed of the engine (`Process`
may never happen) nor of clients (neither reading nor writing a line may ever
happen). Prepare: every step of a process that was not killed, because the
network waits have timeouts. A blocked prepare gets the lock when it is free and
stays free, and cannot rely on the lock call returning an error (`LockFails` is
not fair). Weak fairness is enough: the prepares are finitely many and each runs
once. Embedding: the call runs on one thread, which goes on; no property of its
run is a liveness property. Selection: a load that began goes on (`Load`), that is,
native calls and file operations return, with success or an error; a native call that
hangs is ended by the owner of the process (`OwnerLossEndsBroker`), and is outside
`CpuIsTheFloor`. Who waits for the lock of the store gets it when it stays free, and
cannot rely on the lock call failing (`LockFails` is not fair). `Serve` and
`WindowsPipe` state safety only: a client and an accept may take for ever.

## Findings

1. `lifecycle_late_faults` - README.md:27 says that the lock holder alone
   removes a stale socket. A broker in which a thread cannot be started, or
   chmod fails, after the bind drops the service lock before its process ends;
   its watchdog, if the owner goes away at this moment, removes the path, which
   may be a successor's socket.
2. `prepare_under_lock` - prepare.rs:210-212 says that partials are deleted only
   under the model's lock. If the lock file is created after the cleaner's
   listing has passed its name, the partial of the running first download is
   deleted without it.

Divergences of words and code that follow from reading, and have no run:
README.md:25-26 says that an acquired accelerator lock is kept for the process's
lifetime, while engine.rs:68-70 and 131 give it back for a CPU engine, as the tests
want. protocol.rs:4 says that blank lines are skipped without a response; the broker
queues them and answers when the queue is full or their deadline passed
(mod.rs:79-87, 142-152). protocol.rs:74 says that an error is returned on a writer's
failure only; a read error returns one too (protocol.rs:90, 193). backend_select.rs:5-6
says that only a faster accelerator wins; for an old entry without a device index the
first candidate of its backend is loaded, which need not be the device that won, nor
have been timed as faster, and health goes on to name the stored device
(backend_select.rs:331-338, 563). stdio_guard.rs:9-10 says that a load that fails or
panics still leaves descriptor 1 correct; if the unchecked `dup2` at stdio_guard.rs:76
fails, all replies go to stderr. `StdoutPure` is what remains: the reader of stdout
then sees nothing at all, and never a stray byte. A Windows cancel is good for one
operation: `cancel_io` while nothing is pending sets the flag, a next read that has
its data at once consumes it (windows.rs:138), and the read after that may wait for
ever. No text promises more, and `CancelNotLost` says no more.

## Proofs

All theorems hold for every value of the constants. The assumptions are that
`Nobody`, `NoBroker`, `Nothing`, `NoPipe` and `Legacy` are no process, request or handle, that
capacity and burst are positive numbers, that lines, objects, texts and pins are of their types, that the encoder's limits
are natural numbers, and that no accelerator is called `cpu`, `none` or `unknown`.

- `BrokerQueueProofs`. `QueueInv` is the conjunction of `TypeOK`, the capacity,
  the wakeup and the burst property; the latter three need each other only
  through the types, and the conjunction is inductive (`QueueInvariant`). From it
  follow `QueueCapacity`, `QueueNoLostWakeup` and `QueueBurstStartsFresh`. The
  fairness bounds are not inductive, because they do not say how much of the
  present burst is spent. `HistoryInv` strengthens each: a batch value that is
  i-th has been overtaken by at most one burst per place it moved up plus the
  *spent* part of the current one (`OvertakingAccount`), and dually for
  interactive values (`DelayAccount`). `QueueOvertakingBounded` and
  `QueueInteractiveDelayBounded` follow. `ObservedIsQueue` shows that the history
  only observes.
- `BrokerProcessProofs`, the engine (`BrokerEngine`). The inductive
  `EngineInv` ties the phases of the recovery to the lease and the engine: whoever
  has an accelerated engine or probes for one holds the lock.
  `AcceleratorExclusion`, `LeaseIsUsed`, `EngineAlwaysAnswers`, `EngineStaysDemoted`
  and the action property `ExhaustionNeverReturned` follow.
- `BrokerProcessProofs`, the process. `LockInv` - a process behind the lock holds it, and the
  address is free between removal and bind - is inductive whatever fails:
  `HolderRunsAlone`, `AddressIsFree`. `SocketInv` adds, for each process that did
  not fail late, when its watchdog may still touch the socket (`Watch`), and, as
  long as nobody failed late, that the socket is its own from bind to removal
  (`Bound`): `ServerOwnsEndpoint`, `StrangersLeaveSocketAlone`.
- `PrepareProofs`. `WriterInvariant` ties the steps of a prepare to the lock and
  to what it has received: `CacheHasOneWriter`, `SuccessIsLasting`,
  `FinalFilesAreVerified`. No assumption about the cleaners is needed.
  `CleanerInvariant` says how far a cleaner has come with each file that was stale
  when it began - not read, seen, or found under a held lock: `CleanersFinishTheirWork`.
  `ProbeInvariant` needs `LockFiles = Models`: a cleaner that comes to the partials
  holds each model's lock or has noted it as held (`CleanersSpareDownloads`). The
  run `prepare_under_lock` shows that the assumption is needed.
- `BrokerProofs`. `BrokerInv` accounts for every request: each class of the queue
  holds a connection once and no connection is in both (`QueueOK`), and a
  connection waits without a reply exactly if it is queued or in the scheduler's
  hands (`Account`). `PendingInOnePlace` alone is not inductive: it does not say
  what a queue may hold. From it follow `RequestsAreNotLost`,
  `SleeperLeavesNobodyWaiting`, `WatchdogFollowsRequests`, and, step by step,
  `BrokerIsRequestService`, the safety part of the refinement. `BrokerIsQueue`
  shows that what the broker does to its queue is what `BrokerQueue` allows, so that
  the theorems about the queue hold of it inside the broker; `BrokerQueueBounded`
  is the one about its capacity.
- `BackendSelectionProofs`. `SelectionInv` says of the store that each decision in
  it was measured under its key and explains itself (`StoreSound`), of a process in
  the critical section that it holds the lock and what it read is still the store
  (`Locking`), and what is decided at each step (`Decided`). A decision rests on a
  measured device of its backend (`Backed`), and on the very device it names, if it
  names one (`Timed`); a process that took a stand-in is in `assumed`.
  `DevicesAreMeasured`, `StoreNeedsIdentity`, `StoreLockIsReleased`, `HealthExplains`
  and the action property `DecisionsAreKept` follow.
- `ServeProofs`. Three invariants, one for each concern. `LoopInv`: where
  descriptor 1 leads at each stage, for good if it could not be restored, and that replies and blank lines add up to
  the lines, but for the one in work: `StdoutStaysPure`, `LinesAreAnsweredOnce`.
  `ExchangeInv`: nothing of an earlier request is left when a line is parsed:
  `RepliesFit`. `FrameInv`: as many lines as newlines were consumed, and what is
  buffered is all of the line that has begun, or that is too long: `LinesAreFramed`,
  for inputs, caps and chunks of every size. It rests on lemmas that count the
  newlines of a part of the input. `ProtocolMeetsBroker` joins the two models of
  `process_line`: the reply `Serve` computes, seen as the broker sees it
  (`BrokerLine`, `BrokerReply`), is one that `ProcessLine` of `Broker` allows for
  the line.
- `WindowsPipeProofs`. `PipeInv` ties each piece of kernel state to the thread
  responsible for it: an `OVERLAPPED` is allocated exactly from start to wait, the
  registered handle is the one being accepted on, who cancels a connection holds
  a clone, and a cancel that is owed is still flagged, on its way or spent on an
  operation that was over (`CancelOnItsWay`). `KernelWritesLiveMemory`, `CancelPendingHitsAccepts`,
  `CancelsTakeEffect` and `PipesHaveOneOwner` follow.
- `EmbeddingProofs`. `OnlyPoisonIsZeroed` alone is not inductive: it does not say
  which inputs are still to be encoded. `EmbeddingInv` does: the runs on the
  worklist are in order and disjoint, and an input has a vector exactly if it is in
  none of them. `InputsAreFitted` and `ZeroOnlyForPoison` follow. `RoomInv` adds
  that `current_max` is not below any input of the group being grown, and that every
  run of several inputs fits the limits, each input counted as often as there are
  sequences: `ContextsAreBounded`. `CostInv`
  is an account: with one bad input, the encodes made and those still owed for the
  worklist stay within one per group and twice the number of halvings:
  `PoisonCostsLog`. The recursive functions of the model are unfolded by exhibiting
  a function that satisfies their equations, and inductions over a length are
  carried out on sets, as the least element of the set of counterexamples
  (`LeastExists`, `GreatestExists`, `Induction`).
  `HalvingsIsLog` is what makes `Halvings` the logarithm, rounded up.

Model-checked only: all liveness (the prover does not treat fairness) -
`EveryRequestTaken`, `EofWhileServingRemovesSocket`, `OwnerLossEndsBroker`,
`EveryPrepareEnds`, `CpuIsTheFloor`, the fairness part of `ImplementsRequestService` - and `ENABLED`.

## Abstractions

- In `Broker`, a line is its method and the key that carries its id; a reply is its kind,
  whether it carries the id, and whether it stops the connection. Texts, vectors,
  wording and logging are left out.
- Time: a deadline passes, a request becomes overdue, at any moment.
- The request watchdog samples the armed instant and tests it after the unlock
  (watchdog.rs:62-64), so that it may abort just after a request ended. `Broker`
  has the abort while the request is armed; the late abort is one of the crashes
  that are possible in every state.
- A connection's `line` is forgotten when the reply is written; the code
  overwrites it with the next.
- `Serve` takes a JSON object apart into what `dispatch` reads of it; the text of
  a request is a string or not, and a vector is right or wrong.
- A device's probe is the total of its two times, which is all that is compared.
  The probe's texts and what a probe does inside are left out; it gives a time or
  fails.
- `Embedding` fails a call by `TokenizeFails` at any text, which stands for an error
  of the detokenizing inside `fit` as well (engine.rs:499-508), also where no round
  trip is made. The length of an input is the sum of the fitted text, the EOS marker
  and the special tokens; that the last tokenization (engine.rs:511-517) yields this sum is taken
  for granted.
- `ChangeMachine` stops when every process has made its discovery: nobody would see
  the change.
- A read and a write of a Windows connection take the same steps and are one
  operation.
- Checksums: a file is good or bad. URLs, sizes and the events of `prepare` are
  left out; a fetch succeeds or fails.
- The `backend-selection.lock` of the cache directory is probed by the cleaner
  like a model's lock; its name belongs to no partial, and it is left out.
- An owner's EOF between `UnixListener::bind` and the store of `endpoint_bound`
  leaves the socket file. The next lock holder removes it.
- The lifecycle is that of the Unix transport; on Windows there is no file to remove.

## Not modelled

The llama.cpp library and the HTTP client (external); formatting; the command line
(argument parsing); the constant model table; `sanitize.rs`, three lines on strings,
from whose result `Embedding` starts; the security descriptor of a Windows pipe
and the modes of directories and files, which are constants handed to the system;
the package manifest tool, a sequential program of the build that hashes and
compares lists of files and shares no state with a running sidecar; build scripts.

Noted while reading, without a model: the broker's failure replies read
`request_id` only and drop an id given as `id` (mod.rs:178-188, against
protocol.rs:506-519); the demotion reason replaces `model_not_prepared` in a health
report if the model file vanished before the CPU reload (health.rs:229).

## Plan

Done, in this order: queue, engine, lifecycle, serving and its abstract service,
model cache; then backend selection, embedding, the stdio server, the Windows
transport; and the proofs of their safety properties. What is left to do:

1. Abstract specifications of the accelerator lock and of the model cache, which
   `BrokerEngine` and `Prepare` implement.
2. The safety half of `EofWhileServingRemovesSocket`: in no state has a broker that
   served gone in good order and left its socket behind.
3. Liveness of the Windows accept loop under the fairness of the kernel.
