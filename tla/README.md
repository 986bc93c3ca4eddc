# Jiboia, specified

TLA+ specifications of [jiboia](../src/README.md), a service that receives data
over HTTP, joins it into larger chunks, and uploads those to object storages,
telling external queues about each object. The specifications follow the Go
code, function by function; `PROJECT.json` gives, for each definition, the lines
it stands for. TLC checks them on small instances; TLAPS proves every safety
property and refinement among what the runs check, for all values of the
constants.

    tlc -config MCUploader.cfg MCUploader      # any run of PROJECT.json
    tlapm UploaderProofs.tla                   # any *Proofs module, or SeqLemmas

## 1. The system

A *flow* is a pipeline of stages. Each stage owns a bounded Go channel, which
the stage before it fills, and one goroutine (several, for the workers) that
empties it:

    HTTP handlers --Enqueue--> [Accumulator] --Enqueue--> Uploader --channel--> workers --> storages, queues
      breaker, semaphore         breaker, retry                        (max_concurrent_uploads of them)

An application runs several flows, an HTTP server and a signal handler in one
run group (oklog/run), and stops them one after another.

| Component | State | Operations | Talks to | Hard | Correct when |
|---|---|---|---|---|---|
| **Ingestion routes** `httpin/ingest_routes.go` | per route a semaphore; per flow a two-step circuit breaker; per request a goroutine | `ServeHTTP` | entrypoint's `Enqueue`; breaker `Allow`/callback | six return paths, two resources taken and given back; handlers interleave with the breaker's timer; clients that stall | tokens and trials are given back; every request whose body comes is answered; the breaker recovers |
| **Accumulator** `accumulator_by_size.go`, `accumulator_by_time_n_size.go` | channel, mutex + `shuttingDown`, `current`, `currentBufferLen`, breaker, `doneChan`; with time also ticker and `oldestDataTime` | `Enqueue`, `Run`, `append`, `flush`, `enqueueOnNext`, `shutdown` | uploader's `Enqueue`, through a breaker, until accepted | callers race with shutdown; retries block the loop; ticks wait while it does | no loss, no doubling, order kept; chunks within the limit; flushed at shutdown |
| **Uploader** `uploader.go` | channel, mutex + `shuttingDown`, `next` channel, `doneChan` | `Enqueue`, `Run`, `sendWorkToNext`, `shutdown` | workers, over `next` | callers race with shutdown; `next` closed by the sender after a drain | as above; `next` closed only when drained |
| **Worker** `worker.go` | the unit at hand, a goroutine per storage and queue, error channel | `Run`, `work`, `sendDataAndNotify`, `drainWorkChan` | storages, queues | fan-out and join, partial failure, shared channel, drain | announced means stored; each unit worked on once; ends when cancelled |
| **Run group** `app.go` | one actor per signal handler, API, stage | `Start`, `Stop`, interrupts | every stage: cancel, then wait for `Done()` | order of stops; a stop before a stage has started | nothing lost on stop; `Start` returns |
| **Circuit breakers** `circuitbreaker/*`, sony/gobreaker | state, generation, counts | `Allow`, `Execute`, callback | accumulator, handlers | callbacks of old generations; trials never reported | half-open lets one trial pass |
| **Configuration** `config/*` | none | parse, default, validate | `createFlows` | sizes, limits, boundary values | what validates can be started |
| **Storages, queues** `objstorage/*`, `externalqueue/*` | external | `Upload`, `Enqueue` | the world | timeouts or none, partial writes | an error is reported when something failed |
| **File paths** `uploader/filepather` | none | `Filename`, `Prefix` | uploader | two readings of the clock | the folder is of the unit's time |
| **Compression** `compression/*` | none | `NewReader`, `NewWriter` | workers, handlers | settings first used by a running flow | what validates can be used |
| **Metrics, logs, traces** | gauges, counters | observe | all | stale gauges | no control depends on them |

The places where each of these can go wrong in a way a test would hardly reach
are the `hazards` of `PROJECT.json`, with the properties that cover them.

## 2. The modules

| Module | Models | Extends / instantiates |
|---|---|---|
| `DataFlow` | the promise of a stage (`domain.DataFlow` with `Done`): accept, deliver in order, finish when delivered | — |
| `Inbox` | what accumulators and uploader share: the channel, the mutex, `Enqueue` | — |
| `Uploader` | `NonBlockingUploader` | Inbox; refines DataFlow |
| `FilePather` | the uploader with the folders `filepather` gives its units, and the clock | Uploader |
| `Accumulator` | `BySize` | Inbox; refines DataFlow |
| `TimedAccumulator` | `ByTimeAndSize` | Accumulator; refines DataFlow |
| `WorkerPool` | what the workers are to the rest of a flow: take a unit, finish it, drain, end | — |
| `Worker` | all workers of a flow, on their shared channel | refines WorkerPool |
| `Gobreaker` | sony/gobreaker as the flows configure it (external) | — |
| `Ingestion` | the handlers of a flow's two routes | Gobreaker |
| `Flow` | accumulator, uploader and workers composed, and the chain of interrupts | INSTANCE Accumulator, Uploader, WorkerPool; refines DataFlow |
| `Lifecycle` | the run group over several flows, from spawn to return | — |
| `Sizes` | `config.ToBytes`: sizes with units, in an int64 | — |
| `Startup` | from the configuration file to the run group: defaults, validation, constructors | Sizes |
| `SeqLemmas` | facts about sequences and recursive functions that the proofs share | — |
| `UploaderProofs`, `AccumulatorProofs` | proofs about Uploader and FilePather; about Accumulator and TimedAccumulator | FilePather; TimedAccumulator |
| `WorkerProofs`, `IngestionProofs`, `LifecycleProofs`, `StartupProofs` | proofs about the module of that name | that module |
| `FlowProofs` | proofs about Flow | Flow; INSTANCE UploaderProofs, AccumulatorProofs |
| `MC*` | small instances for TLC | |

### How state and actions correspond to the code

**Inbox.** `chan` is `internalDataChan`; `gate` is `shutdownMutex` with
`shuttingDown`: `"open"`, `"pending"` (a writer waits in `Lock`, so Go's
`RWMutex` lets no new reader in), `"shut"`. `caller[c] = "sending"` is a goroutine
that holds the read lock and is at the `select` of `Enqueue`. `Push` is the send,
and deliberately does not look at `chanState`: that it never happens on a closed
channel (a Go panic) is the property `NoSendOnClosed`. `accepted` is a history of
the payloads acknowledged with `nil`.

**Uploader.** `run` is the place of the Run goroutine: the `select` of the loop,
then `shutdown` step by step: `Lock` (`locking`), `shuttingDown = true; Unlock`
(to `closing`), `close(internalDataChan)`, the drain, `close(next)`. `hand` is the
payload inside `sendWorkToNext`, which may block on a full `next`. `HandOff` is
the rendezvous of a sender with a parked receiver, the only way through an
unbuffered channel.

**FilePather.** Between receiving a payload and sending it on, `sendWorkToNext`
calls `Prefix`, which calls `Date()` and then `Hour()`; each reads the clock.
`moments` are the times of the reception and of the two readings, `Labelled`
makes each step of Uploader keep them: a payload leaves `hand` only when both
readings have been made. Time is in hours, `Folder` is the hour that a date and
an hour stand for together. The random part of the prefix and the file name are
UUIDs.

**Accumulator.** `current` is the slice being built; `item` the payload `append`
is working on when it must flush before it can go on; `offer` says which of the
two `enqueueOnNext` is offering. The four `Append…` actions are the four ways
through `append` up to its first offer; `FlushAccepted` and `TooBigAccepted` are
its continuation. `MergedLen` is `currentBufferLen`, with the code's value of
`-separatorLen` for an empty buffer. A refused offer trips the breaker (it trips
on any failure), an open breaker is passed again after its interval, and the
10 ms sleep between retries needs no step. With a disabled (dummy) breaker an
offer can be refused many times without an interval in between; the effect on
the rest of the state is that of `OfferRefused` followed by `BreakerTimeout`.

**TimedAccumulator.** Time is counted in ticks of the one-second ticker, as two
ages: of `oldestDataTime`, and of the oldest payload really in the chunk; a tick
that waits in the ticker's channel (capacity 1, later ones are dropped) keeps the
ages of the moment it fired.

**Worker.** `progress[u][s]` is the goroutine of slot `s` for unit `u`; `content`
and `announced` are the world. A call that returns an error may have had its
effect or not; what it may leave depends on the adapter (`StorageLeaves`,
`QueueLeaves`): a local file may be half-written, S3 and HTTP leave an object or
none, the no-op queue neither fails nor holds a message. The calls in `Hanging`
may return or not: S3 has no timeout unless one is configured, SQS has none.
`compressor` is chosen once, because what makes `compress` fail is a level that
`NewWriter` does not take, which fails every unit of the flow alike. `Take` is the
receive with `compress` and the start of the slots; `work` returns (`WorkReturns`)
when all slots have ended, or at once when the unit could not be compressed. Mapped
by `Hand`, every step of a slot is a stutter of WorkerPool.

**Ingestion.** A request is what its body turns out to be. `ServeHTTP` returns
from `RejectBody`, from `Decompress` of a corrupt body, and from `Enqueue`; only
the last calls the breaker's callback, as in the code. `DecompressPanics` is the
allocation of `localReadAll` with a negative or impossible size: the recovering
middleware answers 500, and token and callback are gone (`lost` counts them). A
body may be `"stalled"`: `buf.ReadFrom` then waits for the client, and since the
`http.Server` has no `ReadTimeout` nothing makes that end. `Resumes` is the client
going on, or the connection breaking, if it ever does. `Gobreaker` keeps the
breaker's generation by voiding the `live` callbacks at each change of state.

**Flow.** Composes the modules: the accumulator's Run goroutine *is* the
uploader's only caller, so an offer is `OfferBegins` (`RLock`) followed by
`OfferAccepted` or `OfferRefused`, which are steps of both modules at once. The
workers are those of WorkerPool, for which their work on a unit is one step; that
Worker implements it is what justifies the composition. `app` is the interrupt
being executed. To its callers the whole is a stage: `Phase` is open as long as the
accumulator is, and finished when the run group is done.

**Lifecycle.** Spawned goroutines, the `doneChan` each stage makes when it first
runs, and the loop of interrupts, each receiving from what `Done()` returned. How
a cancelled stage ends is one step (its details are Uploader, Accumulator,
Worker and their composition Flow); a stage in `MayHang`, a worker whose storage
never answers, may not take it.

**Sizes, Startup.** A written size is a number and a unit; `Exponential` is the
`switch` of `ToBytes` (which has no case for `tb`), `Powers` its loop of
multiplications, `Wrapped` their overflow. A configuration is a record of the
fields that decide whether the application starts; a flow's name is a sequence of segments, a storage or
queue its type and what its settings are like, as its constructor sees them
(`S3Accepts` and the like). `phase` is the
constructor that comes next; each `Create…` action is one constructor, or a group
of them, which panics or lets the next follow. What of a configuration is
validated, and what is left to the constructors, follows the code: nothing about
storages, the accumulator's capacity and separator, the compression level, or
the numbers of storages and queues is validated, nor are the characters of a flow's name, but for spaces. `Paths` are the two
routes of a flow. `Owner` is the flow whose handler chi calls for a path: chi
reads a segment `{a}` as a parameter that stands for any segment (`Fits`), gives
patterns that differ in the names of their parameters one node (`Node`), tries
text before parameters (`TriedFirst`), and keeps in a node the handler registered
last. The constants `Parameters` and `Refused` say which segments are parameters
and which make chi panic (`PatternIsSound`), as does a parameter named twice.

## 3. What the runs check

| Run | Instance | Shows |
|---|---|---|
| `uploader` | 2 callers, 2 payloads, inbox 2, `next` 1, 4 accepted; 4 hours in days of 2 | no send on a closed channel; conservation and order; `next` is closed only when drained; after a refusal nothing is accepted; folders are never of the future nor a day old; shutdown completes; refines DataFlow |
| `accumulator` | 2 callers, payloads of size 0, 2, 3, 6 for limit 6 and separator 1, inbox 2, 4 accepted | conservation through merging and retrying; chunks within the limit and equal to those of the e2e test's `assembleResult`; flushed when done; refines DataFlow |
| `timed_accumulator` | as above with one caller, 3 accepted, flush after 2 ticks | whatever is accepted and has bytes is delivered, with no help from a shutdown; no flush is early; at shutdown all that was accepted is delivered; refinement with ticks in the way |
| `timed_accumulator_oldest` | same, violation | finding: "older than" is measured on the newest payload |
| `worker` | 2 workers, 2 slots (local storage with SQS, S3 with the no-op queue), 2 units, channel of 1, a compressor that works or does not; the first unit's S3 upload may hang | announced is stored; each unit in one place; join waits for all; drained when done; every other unit worked on, and every other worker ends, whatever hangs; refines WorkerPool |
| `ingestion` | 3 handlers, 2 routes, limit 1, plain/compressed/corrupt/empty/stalled bodies on one route and compressed ones on the other, a sound or an impossible buffer size | tokens balance but for panics; one trial at a time; all requests answered while a token is left, but those of clients that stall; recovery from readable trials |
| `ingestion_stuck` | 2 handlers, violation | finding: a rejected trial leaves the breaker half-open for ever |
| `flow` | 2 callers, 2 workers, inboxes of 2 and 1, 3 accepted | nothing acknowledged is lost end to end; the uploader outlives the accumulator; the chain of interrupts does not lock up; refines DataFlow |
| `lifecycle` | signal, API, a flow of 4 stages and one of 2; a worker of the first may hang | stages stop in order; once all have started, a stop completes unless it waits for that worker for ever |
| `lifecycle_startup` | same, violation | finding: a stop before a stage has started hangs |
| `startup` | 2,116 configurations | what runs satisfies the assumptions of the stage modules; the paths of a plain name reach its flow, but for a later flow named like the versioned one; sizes in kb, mb and gb mean what they say |
| `startup_sizes` | same, violation | finding: `tb` is ignored |

**Bounds.** `MaxAccepted` bounds the payloads accepted in a behaviour. For
the uploader it is what the stage can hold (inbox, hand and `next`: 4), and
for the accumulator it equals inbox, item and a chunk of one payload, so channels
fill, are refused at, and drain; in `flow` it lets the uploader's inbox refuse a
chunk while it has not yet been scheduled. Two
callers suffice for the races of `Enqueue`: the mutex distinguishes one reader
from none, and the second lets one be inside while another is refused. The sizes
of payloads are chosen so that sums fall below, exactly on, and above the limit,
and one payload alone reaches it. Two workers, slots and routes are what sharing
needs; when the first unit hangs, the worker that does not have it takes the
second and goes on to its drain. The two routes of a flow share the breaker and are
otherwise alike, so in `ingestion` one receives every kind of body and the other
those that take a token; three handlers let two wait for the token of a third. A
day has two hours, so that the date can change with and without the hour of the
day being another, and four hours let two midnights pass. `MaxAge` keeps the ages of
the timed accumulator finite: beyond the flush period they are not told apart.
In `Sizes` a kilobyte is 4 and an int64 ends at 4096, small enough for every unit
to be tried and for sizes to overflow; `MCStartup` changes up to two fields of a
configuration that starts, to each boundary and to a wrong value, in one flow or
in the second of two, so that each default, each check and each panic is met, and
pairs that would hide one another; and it names three flows in each possible way
out of `a`, `v1/a`, `v1/v1/a`, `{a}`, `{b}` and `v1/{a}`. Once the bound on accepted
payloads is reached callers only stop calling, which they may do anyway; no property depends
on their continuing.

**Fairness.** Goroutines that can take a step take it (WF). Where a `select` has
several ready cases Go chooses at random, so a case that is ready again and again
is chosen (SF): cancellation against data, a tick against data. Timers fire (WF).
A storage or queue call returns, with or without an error, if its adapter sets a
timeout or its service answers: no fairness is assumed of the calls in `Hanging`,
and of the stages in `MayHang`. Nor is any of `Resumes`: a client that stalls need not
go on, and the server sets it no limit. In `Accumulator`, the
next stage does not refuse every offer for ever (SF on `OfferAccepted`); in
`Flow`, where the next stage is the uploader, this is not assumed but follows.
Callers, signals, cancellations and failures are never obliged to happen.

**Deadlock** is checked wherever the system cannot stop for good; `Worker`,
`Lifecycle` and `Startup` end (all workers done, `Start` returned, the
application running or rejected), so their runs allow it; for the first two,
liveness properties say how far they must have come. So does that of `ingestion`:
when panics have taken the tokens of both routes, all handlers can be waiting for
one; `RequestsAreAnswered` says that nothing else but its own client can keep a
handler waiting.

## 4. What is proved

Each safety invariant, action property and refinement of a passing run, and the
type invariant of each stage, is also a theorem, for any set of callers, handlers, payloads, workers, slots, routes,
actors and configurations, any capacities and any bound.

An invariant is seldom inductive as it stands. In each module `IInv` (in
`TimedAccumulator`, `TimedIInv`) is the conjunction that is; the proofs show that
`Init` establishes it and that each action preserves it, one step per action and
below it one per conjunct that the action can disturb.

**Uploader** (`UploaderProofs`): types, `NoSendOnClosed`, `Conservation`,
`ClosedMeansDrained`, `RefusalIsFinal`, the refinement of DataFlow.
`NoSendOnClosed` needs that the channel is closed only after `gate` is shut and
that a shut gate means no reader inside: `GateFollowsRun`, `ClosesFollowRun`,
`ShutMeansNoReaders`. `ClosedMeansDrained` needs in addition that a finished drain
left nothing in hand or channel (`HandFollowsRun`) and `Conservation`; finality of
refusals needs `RefusalMeansShut`. In the refinement each action is a step of
DataFlow or a stutter, `Conservation` supplying that what is delivered is a prefix
of what was accepted.

**File paths** (also `UploaderProofs`): `FoldersAreOfTheirTime`, for days of any
length. Each labelled step is one of Uploader's or leaves its variables alone, so
the uploader's invariant holds of it; with it goes `MomentsInOrder`, that what was
read is in order and not in the future, and the rest is arithmetic of quotients
and remainders.

**Accumulator** (`AccumulatorProofs`): types, no send on a closed channel,
`Conservation`, `DoneMeansFlushed`, finality of refusals, `ChunksWithinLimit`,
`ChunksAreAssembled`, the refinement. The chunks need facts about three loops over
sequences, each a recursive function: `MergedLen` (of a sequence with one more
element), `WithBytes` (of a concatenation) and `Assembly` (of a sequence with one
more payload). `ChunkFits` says that a `current` that is not empty has bytes and is within
the limit, and that what is on offer is not empty; `KeptHaveBytes` that what was kept is what
was received without the empty payloads. `Assembling` relates the chunks to those
of `assembleResult` at each point of `append` and `flush`, where one is ahead of the
other. The refinement maps DataFlow's `accepted` to the accepted payloads that have
bytes, so that `Enqueue` of an empty one is a stutter.

**Timed accumulator** (also `AccumulatorProofs`): `NoEarlyFlush`, the refinement,
`IInv` of Accumulator and with it, in `TimedIsSafe`, the other safety properties, since each step but `ServeTick` is one of Accumulator's or
leaves its variables alone, and `ServeTick` keeps `IInv` too. `TimedIInv` adds
`TickIsOld`: the age that a waiting tick carries is at most the age now, since an
append after the tick fired sets both to zero. `ServeTick` flushes where
`assembleResult` does not, so `Assembling` and `ChunksAreAssembled` are of `BySize`
only.

**Worker** (`WorkerProofs`): types, `AnnouncedIsStored`, `EveryUnitInOnePlace`,
`FinishedIsAttemptedEverywhere`, `DoneMeansFinished`, for any number of workers, slots
and adapters. `NoCopies` (the channel holds a unit once), `Apart` (two workers never
the same unit, none both held and waiting) and `NothingLost` together say where a
unit is; `SlotsInOrder` and `SlotsFollowUnit` tie each slot's goroutine to its storage
and queue and to a worker that has taken its unit; `DoneIsDrained` says that a worker
which has returned holds nothing and that the channel is closed and empty.
`WorkerRefinement` shows `ImplementsPool`: of the invariant it needs only the types,
that a unit in hand is not `NoUnit`, since what a slot does touches nothing that the
pool has.

**Ingestion** (`IngestionProofs`): `TokensAreConserved`, `OneTrial`. There may be
infinitely many handlers; `FewDecompress` says that those holding a token are
finitely many, so that they can be counted. `TrialIsLive` says that a half-open
breaker has either admitted nobody and has no live callback, or one handler, whose
callback is the live one.

**Flow** (`FlowProofs`): `UploaderOutlivesAccumulator`, `EndToEnd`,
`StoppedMeansWorked`. Each step of the flow is, for the accumulator, a step of
Accumulator or one that leaves its variables alone, and the same for the uploader;
so both stages' invariants hold without being proved again (`FlowProofs` instantiates
`AccumulatorProofs` and `UploaderProofs` with clocks that stand still).
What is new is between the stages: `InterruptsInOrder` (what is cancelled and has
returned at each interrupt), `EndsWhenCancelled` (a stage leaves its loop only when
cancelled), `OffersAreAccepted` (what the accumulator has had accepted is what the
uploader has accepted). `FlowRefinement` puts the stages' promises together: the
flow accepts when the accumulator does, which is read off the accumulator's own
refinement (`AccumulatorIntake`); it delivers when a worker takes a chunk, and what
the workers have taken, unmerged, begins what was accepted (`TakenBegins`) because
unmerging distributes over concatenation (`UnmergedConcat`) and the two stages
conserve in order; and it finishes with the last interrupt, when
`StoppedMeansWorked` says that taken is all. `FlowServesPool` is the other half of
the composition with WorkerPool: the uploader and the run group do to the workers'
channel and context no more than Worker lets its surroundings do.

**Lifecycle** (`LifecycleProofs`): `StoppedInOrder`, for any list of actors.
`ToldInTurn` (only actors up to the interrupt under way have been told to stop),
`TurnWaits` (the `doneChan` of each stage before it is closed), `ClosedMeansReturned` (a closed
`doneChan` is of an actor that has).

**Startup** (`StartupProofs`): `RunningIsSound`, `PlainRoutesReachTheirFlow`,
`SmallSizesAreAsWritten`, for any set of configurations with any number of flows and
names of any length. `Settings` is what the defaults keep of the types and what they
establish, `ValidIsBuilt` that nothing is built from a configuration that is not
valid, `FlowsInOrder` how far `createFlows` is and what the constructors passed so
far imply of each flow. `PlainRoutes` holds beside flows with any names, those with
parameters included: a path of text alone is its own node (`LiteralNode`) and is
tried before every other that it fits (`LiteralRoute`), so its owner has that very path
(`LiteralOwner`); and what else has the path of a plain name can only be a flow
with the name of its versioned path (`PlainPaths`, `SharedPath`).

**Assumptions.** All are named, and TLC evaluates them in the runs. Sizes,
capacities, limits and hours are naturals, and `LimitOfBytes > 1`, `SeparatorLen <
LimitOfBytes` and an accumulator's capacity of at least 2 are what its constructor
checks; the uploader's `next`, the workers' channel, the flush period and the day
are not zero. Workers and routes exist, and a flow's workers and callers are finitely
many, since goroutines are. `NoUnit` is not a unit, and what may hang is a call (or a
stage). A configuration is a record of the configuration's fields. `Context` follows
the order in which the actors were added. `Kilo` is more than 1 and a word not empty.
`RunningIsSound` proves of what `createFlows` builds what the stage modules assume of
their constants, so that the assumptions are not only evaluated on the instances.

**Induction over data** is done without induction principles that take a predicate:
`SeqLemmas` derives from the least element of a set of naturals (`Least`, `UpTo`,
`SequencesUpTo`) that a property given as a set holds of all lengths, and from that
that a loop over sequences has one and only one recursive function (`FoldExists`,
`LoopIsFold`). No module with a proof reaches a RECURSIVE operator.

**Only model-checked** is every liveness property, because fairness and ENABLED are
outside the prover: `ShutdownCompletes` of Uploader and Accumulator,
`AcceptedIsTaken`, `TimedShutdownCompletes`, `NothingLingers`, `FedIsFinished`,
`WorkersEnd`, `RequestsAreAnswered`, `RecoversFromGoodTrials`, `StopCompletes`,
`StopsOnceStarted`. The findings below are counterexamples of TLC.

## 5. Findings

1. **A stop before the stages have been scheduled hangs** (`lifecycle_startup`).
   `Done()` returns the field `doneChan`, which `Run` itself makes. If the API
   cannot listen, or `Stop` or a signal comes first, an interrupt can receive from
   a nil channel, for ever.
2. **A half-open breaker is lost with a rejected trial** (`ingestion_stuck`). The
   return paths for bodies that are too large, unreadable, empty or corrupt do not
   call the callback `Allow` returned.
3. **`force_flush_after_seconds` counts from the newest payload**
   (`timed_accumulator_oldest`): `append` overwrites `oldestDataTime`.
4. **`tb` is not a unit** (`startup_sizes`): the regular expression accepts it,
   the `switch` has no case for it, and `5tb` is 5 bytes.

Also noted, without a run:

* Without a `ReadTimeout` (`api.go:46`) a client that stalls holds its handler for
  ever; if its request was the trial of a half-open breaker, all others are
  refused for as long.
* Each of a flow's two routes has a semaphore, so twice `max_concurrency` bodies
  can be decompressed at once (`config_example.yaml:61`).
* `README.md:61` counts `max_concurrent_uploads` once, but the workers hold that
  many units, the channel to them as many again, and each goroutine of the
  stages before them one more.
* A size that overflows to zero (`16384eb`) starts a flow without its
  accumulator. `pb` is multiplied four times and `eb` five, one less than they
  mean.
* `config_example.yaml:142` writes `force_flush_after_seconds` inside
  `circuit_breaker`, where it is not read.
* Flows with different names can share a path: `v1/x` validates beside `x`, and
  `{a}` beside `{b}`. The one configured later gets the data of both on it. Of plain
  names (`IsPlain`: text alone, not a versioned path) the first is the only way,
  which is what `PlainRoutesReachTheirFlow` says.
* A compression level that is not a number, or that the codec does not take,
  validates; every worker then drops every unit, while the handlers go on
  answering 200 (`config_example.yaml` documents `level`).
* An `initial_buffer_size` that overflows to a negative number, or is beyond any
  allocation, validates; each compressed request then panics and takes a token of
  its route with it. The route stops answering when the last is gone.
* A worker that hangs in an S3 or SQS call keeps `Start` from returning and, the
  interrupts being sequential, the flows behind its own from being flushed.
* `date=` and `hour=` are read separately (`filepather.go:65`): data labelled
  across midnight is put in the first hours of the day before.

## 6. Not modelled, and the plan

* Metrics, logging, tracing and `main` carry no control: no branch of the program
  reads a gauge or a counter, so a model of them would check nothing else.
* Authentication (`httpmiddleware/auth.go`), the choice of a decompression
  algorithm and the operational routes are functions of the request alone, and
  part of what a request is.
* Codecs, HTTP, chi, S3 and SQS are external; of them the models keep what a call
  may return and leave behind, and of chi how it routes segments of text and
  parameters; segments that join the two, or give a parameter a regular expression,
  are not considered. File names, keys, URLs and the fields of messages
  are left out: they are unique by a UUID, and no property tells them apart.
* The end-to-end validator (`test/validator`) is a test tool.
* The data race on `payloadMaxSizeErr` (`ingest_routes.go:73`) writes a value that
  nobody reads. How much memory full queues take is a sum of the bounds that the
  type invariants state, with sizes nobody bounds.

Modules, in the order they were written, the core of the system first: `Inbox`,
`DataFlow`, `Uploader`, `Accumulator` with their proofs; `TimedAccumulator`,
`Worker`, `Gobreaker`, `Ingestion`; `Flow`, `Lifecycle`; `Sizes`, `Startup`;
`FilePather`, and with it the calls that hang, the panics in handlers, the
settings of adapters and compressors, and the routes; then the proofs about all
of them, and `WorkerPool`, which joins `Worker` and `Flow`. What could still be added:

* the handlers of `Ingestion` in front of `Flow`, whose callers have the same
  interface but more states;
* what the chunks of the timed accumulator are, given when its ticks came: a
  reference that flushes at those moments, in place of `Assembly`.
