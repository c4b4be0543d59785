# metrify in TLA+

metrify collects runtime metrics on hosts (the *agent*) and keeps them on a
*server* in memory, in a JSON file and, if configured, in PostgreSQL. This
directory models the parts of it whose correctness depends on the order in
which goroutines, processes and failures act, checks the models with TLC on
small instances, and proves the most important results with TLAPS for every
instance. Paths below are relative to `src/`.

## 1. Inventory

| Component | State | Operations | Talks to |
|---|---|---|---|
| In-memory store, `internal/service/storage.go` | two maps, one `RWMutex`, table `metrics` | `UpdateGauge`, `UpdateCounter`, `GetGauge`, `GetCounter`, `MarshalJSON`, `saveDB` | called by every HTTP and gRPC handler and by the dumper; PostgreSQL through `RetryDB` |
| Retries, `internal/service/retry.go` | loop counter | `Retry` (agent), `RetryDB` (server) | HTTP server, PostgreSQL |
| Metrics file, `storage.go`, `cmd/server/main.go` | the file at `FileStorePath` | `FlushToFile`, `ReadFromFile`, `runMetricDumper` | the store, the update handler, start and stop of the process |
| Agent process, `cmd/agent/main.go` | `metricChan`, context, `WaitGroup`, `pollCounter` | two collectors, `RateLimit` senders, `main` | the client |
| Agent clients, `internal/agent` | the request in flight | `UpdateMetric`, `UpdateMetrics`, signing, encryption | `Retry`, the server |
| HTTP handlers, `internal/handler/handler.go`, `internal/router` | none of their own | three update routes, reads, `Ping` | store, file, audit |
| HTTP middleware, `internal/handler/middleware.go`, `compresser.go`, `hasher.go` | the body and headers of a request | gzip, HMAC, RSA, content type | handlers |
| gRPC service, `internal/rpc` | none of its own | `UpdateMetrics`, trusted subnet interceptor | store |
| Audit, `internal/audit` | one file, one mutex; receivers | `Publish`, file and HTTP receivers | handlers |
| Server start and stop, `cmd/server/main.go` | errgroup, context | HTTP or gRPC branch, dumper, database, profile listener | everything on the server |
| Profiling, `internal/pprof` | signal channel, profile files | `ListenSignals`, `CPUCapture`, `Capture` | the errgroup, the Go runtime |
| Object pool, `pkg/pool` | a `sync.Pool` | `Get`, `Put` | nothing: no program uses it |
| Configuration, `flags.go` of both programs, `configLoader.go` | none after start | `parseFlags`, `getConfigPath`, `setDefaults`, `FromFile` | both `main`s |
| `cmd/reset`, `cmd/gostan`, `internal/service/nocall.go`, `internal/proto`, `docs` | none at run time | code generation, analysis, generated code | not modelled |

What is hard in this code, and therefore what the models are about:

* *Shared maps.* Go maps must not be read and written at once, and
  `counters[name] += delta` and the walk of `json.Marshal` take several steps.
  One mutex keeps them apart, is held over the INSERT, its retries and their
  sleeps, and every return path must release it.
* *Two copies of the truth.* The map is changed before the row is inserted and
  is not rolled back; the file is written outside the lock; a restart reads the
  file and not the table.
* *Crashes.* `os.WriteFile` truncates, then writes. A process may die at any
  point, and `main` may return while handlers run: nothing waits for
  `srv.Shutdown`.
* *Bounded channel, two-sided shutdown.* Collectors send without looking at the
  context, senders return on it, `main` waits for collectors only.
* *Pointers in messages.* `PollCount` travels as a pointer to a variable its
  collector goes on changing.
* *Retries of what may have been done*, by the agent (a request) and by the
  server (an INSERT).
* *Layers of one request.* gzip, HMAC, RSA and content type are taken off in an
  order the agent has to match; handlers and the compressing writer share the
  decision when the status goes out.
* *A shared log.* Requests append to one file under a mutex, with three looks at
  a context that an impatient client cancels.
* *One group, many ends.* Dumper, listener and transport end in any order and for
  their own reasons; the errgroup keeps the first error, `Shutdown` may time out,
  and captures that nobody waits for write files while the process leaves.
* *Two doors, one store.* The same batch by HTTP and by gRPC meets different ideas
  of what is valid, one metric at a time.
* *Three sources of a setting*, read by two parsers of one command line.

What makes each component correct:

* *store*: linearizable, no two goroutines in the maps, the table replays to it;
* *file*: what is saved stays saved, an answered update gets saved, a graceful
  stop loses nothing;
* *agent*: no metric lost or doubled before the client has it, order kept, no
  send on the closed channel, and an end when told to;
* *client and handlers*: nil means applied; nothing is applied more often than it
  was sent, and twice only if an answer was not waited for; what an error leaves in
  the store depends on how far the request came, and on nothing else; calls return;
* *middleware*: a request changes the store only if all it claims was checked, the
  answer tells how much of the body was applied, its label is true, the agent is
  understood;
* *gRPC service*: each protocol applies the metrics in front of the first one it stops
  at, so that one store holds a prefix of what the other holds;
* *audit*: the log is true, a missing record was reported, receivers are
  independent, requests end;
* *start and stop*: the last flush is made however the group ends, the exit status
  tells a failure of the transport, a dead transport ends the process, and a server
  told to stop stops;
* *profiling*: a profile file holds one whole profile;
* *configuration*: a setting comes from the strongest place that names it, and a
  program that starts does its work.

The file `PROJECT.json` lists the hazards at their lines with the properties
that would break if they went wrong. Some are simply what the code does, and no
property of the code can hold against them; a property then names the case as an
exception, and the hazard says so in its note instead of naming the property. They are
collected in section 6.

## 2. Modules

    Int64 <- Metrics <- AtomicStore
                 ^          ^
                 |          | refinement (INSTANCE ... WITH phase <- ...)
    RWMutex <- MemStorage --+     <- MCMemStorage, MemStorageProofs
    Persistence                   <- MCPersistence, PersistenceProofs
    Agent                         <- MCAgent, AgentProofs
    AtLeastOnce <- Delivery       <- MCDelivery, DeliveryProofs
                                     (refinement, limit <- ...)
    HttpPipeline                  <- MCHttpPipeline
        ^
    Entries -- Rpc == INSTANCE GrpcEntry  <- MCEntries, EntriesProofs
    Audit                         <- MCAudit, AuditProofs
    ServerLifecycle               <- MCServerLifecycle, ServerLifecycleProofs
    Configuration                 <- ConfigurationProofs

Each module abstracts its neighbours to what they promise in their own module:
`Persistence` and `Delivery` see the store as `AtomicStore` allows, `Agent` hands
batches to a client whose errors it drops, as `runSender` does, and `Delivery`
starts from such batches; `HttpPipeline` follows one request through the layers
that `Delivery` leaves out, `Audit` several through the end of their handlers.
`Entries` composes the two entries of the server; `ServerLifecycle` is the process
in which all of this runs and `Configuration` what comes before it.

**Int64, Metrics.** Signed words of parameterised width (`Half` stands for
2^63, so that two additions overflow in a check), names, values, the two maps
and the calls of the `Storage` interface. A missing key is `Absent`.

**RWMutex.** `sync.RWMutex` as its users see it: a writer first takes the inner
mutex (`Announce`) and holds the lock when the readers inside have left; a
reader that arrives after the announcement is parked, and `Unlock` admits all
parked readers before another writer can announce itself. Go's library is not
part of the repository, so these definitions are marked external.

**MemStorage.** A process is a goroutine inside one call. `LoadCounter` and
`StoreCounter` are the halves of `+=`; `EncodeGauges` and `EncodeCounters` the
walk of `json.Marshal`; `Inserted`, `RetryableError`, `FinalError`, `Sleep` and
`GiveUp` the loop of `RetryDB` with its bound `i < attempts`. `FinalError`
covers both an SQL state that is not retried and an error that is not a
`PgError`; the latter may leave the row in the table. `WriteHeld` and
`ReadHeld` guard the first access of a critical section; the accesses after it
have no guard, as in the code: that the lock is still held is a result, not an
assumption. `base` is what `ReadFromFile` left in the maps at startup. Nothing in the code
reads the table back; `TableRebuildsStore` replays it, a gauge by its last row and a
counter by adding up, for names that are used with one kind.

**AtomicStore.** What the interface promises: a call takes effect at one
instant between invocation and return, exactly once.

**Persistence.** The file as *missing*, *empty* (just truncated), *corrupt* or a
snapshot; a snapshot is the set of updates it reflects, numbered in the order of
the requests. The store appears here as `AtomicStore` allows: an update and a
snapshot are one step. `Marshal`, `Open` (with `O_TRUNC`) and `Write` are the
steps of `FlushToFile`, taken by the dumper and by handlers; `Tick` and `Done`
are the dumper's `select`; `Stop`, `CloseListener` and `Exit` are the context,
`runHTTPServer` and the return of `main` after `g.Wait()`; `Crash` is `kill -9`.
Two documents written over each other give the second one or garbage.
`promised`, `acked`, `saved`, `damage` are history variables.

**Agent.** A metric is a triple of collector, poll and place. `Send` blocks on
the full channel; `Receive`, `Drained` and `ChannelClosed` are the three ways
out of the senders' inner `select`, with `batchUpdate` choosing between one
call per metric and one call per drain; `Call` is the client, which reads the
pointers when it encodes the request. `Signal`, `Close`, `Exit` are `main`. `wg` is the
counter of the `WaitGroup`: `main` adds 2, each collector takes one away when it returns,
`Close` waits for 0. `Send` is possible on the closed channel and is the panic that ends
the program; that it never happens is a result, not a guard.

**Delivery.** `Begin`, `Post`, `Receive`, `TransportError`, `Sleep` and `GiveUp`
are `sendRequest` with the loop of `Retry`, or the unary gRPC call with its
deadline; `Apply` and `Answer` are the update handlers, one metric at a time;
`Lose` is the network. `BuildError` is a call that ends before it has sent anything
(encoding, compressing or encrypting fails, gRPC has no form for the metric), `Refuse` an
answer given before the handler (400, 401, 415, the trusted subnet). A request has a life of its own: its handler runs and
answers although its client has stopped waiting, because neither handler looks at
the context. `err` in `Apply` is a row that could not be saved: the store has
changed all the same, the batch goes on, the gRPC handler stops, the route of one
metric says nothing. The gRPC handler is modelled as the client meets it once it
is served; the shipped `main` registers it and never calls `Serve`.

**AtLeastOnce.** What a caller of the client may rely on: metrics are applied in
order, at most `limit` times each, possibly after the return; nil means all of
them were applied, and saved where failed saves are reported.

**HttpPipeline.** One request as its wrappings (gzip, RSA), headers and payload,
through `WithRequestCompress`, `WithResponseCompress`, `WithHashedRequest`,
`WithDecrypt`, the content type check and the handler of its route, and back
through `CompressWriter`. `Header` and `Written` are `WriteHeader` and `Write`,
`Closed` the deferred `Close`. `Abort` and `PanicAfter` are panics, which
`net/http` turns into a dropped connection. A batch is any sequence of metrics, good or
odd (no value, no name, unknown type), in any places. `UpdateMetricsBatch` applies all of
them, or those in front of the first without a value, and answers 400 if the store returned
an error for one (`failed`, `BatchAnswer`). The agent's requests are
`AgentRequests`; all other combinations come from unknown clients. A JSON document with a
member of the wrong type stands with the broken ones: it is refused, whatever the decoder
had filled in by then.

**GrpcEntry.** One call of `UpdateMetrics`: `Call` and `Send` are the client with
`withRealIP` and `transformMetricToProto`, or any other client; `Intercept` is the
interceptor of the trusted subnet; `UpdateMetric`, `UpdateMetricFails`, `RefuseMetric`
and `Answer` are the loop of the handler with `metricFromProto`. A metric is known by what
it lacks.

**Entries.** Extends `HttpPipeline` and instantiates `GrpcEntry`. When an HTTP
request has been answered and its batch had nothing around it, the same batch goes to
another server by gRPC, so that the two stores can be compared.

**ServerLifecycle.** `main` (`OpenDB`, `StartGroup`, `Exit`), `runMetricDumper`
(`Tick` to `LastFlush`), both branches of the transport (`RegisterGrpc`, `Prepare` to
`ServerLeaves`), the goroutine that calls `Shutdown`, `ListenSignals` and the
captures it starts. `CtxDone` is the errgroup's context; `GroupKeeps` its first
error. A profile file is known by whose pieces are in it: `Create` truncates it under
whoever is writing, `WriteHead` and `WriteRest` write at the writer's own offset.
`Usr` is a profiling signal: ignored before `Notify`, dropped by a full channel, a
panic once the channel is closed.

**Configuration.** `parseFlags` of both programs in the order of the code: the path of
the file, the file or the defaults, the environment, the registration of the flags
(which assigns), the command line; then what the program becomes. A value is known by
its source, and settings that are read alike stand for one another: five names
instead of nine or fourteen. That the path of `-config` comes before that of CONFIG
only tells which of two files is read, and a file here is the settings it names.
`AgentFatal` is a key file that is none or an unknown protocol, `Running` what the
agent's tickers and its number of senders make of it.

**Audit.** `Publish` walks the receivers; `Encode`, `Lock`, `Open`, `Write` and
`FileError` are `FileReceiver.Receive` with its three looks at the context,
`Post`, `PostAccepted` and `PostError` are `HTTPReceiver.Receive`. `WriteStart` and
`WriteRest` are a short write that `os.File.Write` continues. `Leave` is the client
closing the connection, which cancels the context.

## 3. Runs

| Run | Question | Bounds |
|---|---|---|
| `MemStorage` | Is the store linearizable whatever the database does, is the map access exclusive, does the table rebuild the store, does every call return? | 3 goroutines, 2 updates, any number of reads, 1 gauge with 2 values, 1 counter with words -2..1, `MaxRetry` 3 as in the code, with and without database, from a restored store without the gauge and with the counter at its limit |
| `Persistence` | Does what is saved stay saved, does a graceful stop save, is a synchronous answer backed by a write, does an answer get saved in the end? | 2 handlers and the dumper, 2 updates, 2 starts, 1 I/O error, `STORE_INTERVAL` -1, 0, 1, restore on and off |
| `Persistence_sync` | Does the file read back as the store after concurrent synchronous flushes? **No** (section 6) | 2 handlers, 2 updates, 1 start |
| `Agent` | Is nothing lost, doubled, reordered or sent on a closed channel; does the backlog drain; does a shutdown end? | 2 collectors, 2 polls each, 1 gauge per poll (and `PollCount`), capacity 2, 2 senders, both modes |
| `Agent_shutdown` | Does every shutdown end? **No** (section 6) | as above |
| `Agent_pollcount` | Does `PollCount` carry the count of its poll? **No** (section 6) | as above |
| `Delivery` | What do nil and an error mean to the caller, when is a metric applied twice, when does an old value replace a new one? | 2 senders, 2 calls, 2 attempts, batches of one and two metrics, both protocols and modes |
| `Entries` | Is every claim of a request checked before it changes the store, does the server understand the agent, do the two protocols agree? | one request: every route, every combination of headers, wrappings, signature and payload, with and without keys; batches of up to 3, an odd metric anywhere; each bare batch again by gRPC, with and without a trusted subnet |
| `HttpPipeline_gzip` | Can a client decode every answer by its label? **No** (section 6) | the requests of `Entries` with batches of up to 2, HTTP only |
| `Audit` | Is the audit log true and whole, is what is missing reported, do requests end? | 2 requests, no, one or two receivers, any failure |
| `ServerLifecycle` | Is the last flush made, does the exit status tell, are profiles readable, does a dead transport end the process, does a server told to stop stop? | both protocols, with and without periodic flushes, valid and invalid key or subnet, 2 captures, 1 request at a time |
| `Configuration` | Where does each setting come from, and what becomes of the program? | both programs, any file, any environment, up to 2 options in any order |

Why these are enough. A race on the store needs two goroutines, and the third makes a
stream of readers that could starve a writer. The counter starts at its limit, so the
first update overflows it and the second goes on from the other end; two updates are also two
rows of one name whose order matters. `MaxRetry` 3 gives both attempts of `RetryDB` and
its exhaustion. Two handlers overlap a flush in every order; two
starts are a crash or a stop, a restore, and an update after it; every excuse of
the persistence properties (`damage`) occurs in the run. A channel of two with
six metrics is full and empty again, with a collector blocked and two senders
draining at once. Two senders are one call that overtakes another; two attempts
are a first, a retry of it and the exhaustion of `Retry`; a batch of a gauge and a
counter has a first, a second and a last metric. `HttpPipeline` and `GrpcEntry`
are finite as they are: requests do not share anything there, and in a batch of three an
odd metric has good ones before and after it, and one of each kind that one protocol
accepts and the other does not stand in either order. Two requests on the audit file are a
line cut in two and a torn line followed by another. Two captures are an
overlap of the same kind or of two kinds (three were checked too, with the same
result); a request that is still handled when `Shutdown` gives up is one like many. Two
options are a configuration file after and before another option, which is all that
`getConfigPath` tells apart. `Delivery` uses symmetry in
the senders, in a run without liveness. `CHECK_DEADLOCK FALSE` is set where the system may stop: the
server that went down for the last start, the agent that exited, the client out
of calls, the request that was answered, the program that was started. In
`MemStorage` a goroutine can always read, and deadlock is checked.

`MaxUpdates`, `MaxStarts`, `MaxFaults`, `MaxPolls`, `MaxCalls` only cap how long a behaviour
is; no action of the code depends on them. `MaxArgs` caps the command line.

## 4. Fairness

* *MemStorage.* A goroutine that can run does (weak fairness of the update,
  read and database steps of each). `Lock` has strong fairness: Go's mutex goes
  into starvation mode after a millisecond and hands itself to the oldest
  waiter. The database answers every INSERT, with a row or an error. Nobody has
  to make a call.
* *Persistence.* Weak fairness of the dumper only: the ticker fires and the
  goroutine runs. Requests, stops and exits are not forced, errors not bounded
  in favour of the property: only `MaxFaults` ends them.
* *Agent.* Weak fairness of collectors and senders, of `Close` and `Exit`.
  `SenderDone` has strong fairness: a cancelled context stays ready in the
  `select`, Go chooses at random among ready cases, and a report tick is ready
  only now and then. No signal has to arrive.
* *Audit.* Weak fairness of a request's steps (system calls return, the HTTP
  client gives up after 3 s) and strong fairness of `Lock`, as in *MemStorage*. The
  receiver need not answer and the client need not leave.
* *ServerLifecycle.* Weak fairness of `main`, of flushes, of the transport and of the
  goroutine that shuts down, whose timer fires after five seconds. The listener may fail but
  need not (`ListenError` has no fairness), so that only a signal or a failure ends it. `DumperDone` and
  `ListenerDone` have strong fairness, as `SenderDone` in *Agent*: ticks and profiling
  signals make other cases of their `select` ready now and then. No request has to end
  and no signal has to arrive. Captures need not go on either.

*Delivery*, *Entries* and *Configuration* are checked for safety only. That a call
of the client comes back is a matter of its own timers; that it does not try for
ever is the `limit` in `AtLeastOnce`.

## 5. What is proved

Every safety invariant, every action property and both refinements that the passing
runs check are theorems, for every value of the constants: any number of goroutines,
senders, requests and captures, any bound on what a behaviour may do, any size of
batch and length of command line. Each proof rests on an inductive invariant `IInv`
(`PipelineInv` and `EntriesInv` for the two entries) that TLC checked on the run's
instance before it was proved; it is left out of the runs, which check what it
implies. `Invariance` is always `Spec => []IInv`.

`MemStorageProofs`. `NoConcurrentMapAccess` is not inductive: that nobody else is
inside follows from the lock, and that the lock is held follows from where a goroutine
is. `IInv` adds exactly that: `MutexInv` ties the program counters to `slot`, `readers`
and `parked`; `CallInv` ties them to the call and the pending answer; `StillCurrent`
says that the counter a goroutine has loaded and the gauges it has encoded are still
those of the maps.

* `TypeCorrect`, `MutualExclusion`: every counter stays an int64 word, with the rest of
  `TypeOK`; `NoConcurrentMapAccess`.
* `Refinement`: `Spec => Atomic!Spec`. The linearization points are `StoreGauge`,
  `StoreCounter`, `Get` and `EncodeCounters`; every other step maps to an invocation, a
  return or a stutter (`PhaseStep`, `NextAtomic`). `StillCurrent` is what makes
  `StoreCounter` the atomic addition and `EncodeCounters` the snapshot of one instant.
* `RowsRebuild`: `TableRebuildsStore`. It speaks of moments at which no row is under way;
  `TableInv` says what holds in between: the rows give the entry as it is, or as it was
  before the one update whose row is still to come (`Pending`). That there is one at most
  is the mutex again (`Alone`). What the rows make of an entry is stated by the sequence
  `after` of its intermediate results, which every new row makes longer by one; so the
  proof goes along the steps of the program and needs no induction over the table.

`PersistenceProofs` (`FileKeepsWhatItHas`, `ShutdownSaves`, `SyncAcknowledgement`,
`TypeCorrect`). The properties speak of the file; why they hold is in the flushers' local
state. `FlushInv`: without an overlap one flusher at most is between its snapshot and
the end of its write, and with a dumper nobody else ever is. `SnapshotInv`: its snapshot
is not older than what the file has held. `HandlerInv` and `ReplyInv` follow an update from
the store through the snapshot to the file, `FinalInv` does the same for the flush after
the stop, `DownInv` starts afresh after a crash.

`AgentProofs` (`NeverSendsOnClosed`, `ExactlyOnce`, `Ordered`, `PollCountBounded`,
`TypeCorrect`). That nobody sends on the closed channel needs the counter:
`WaitGroupInv` says that it is the number of collectors that have not returned, so that at
0, where `Close` goes on, nobody is left to send. The rest of
`IInv` is these properties and `CollectorInv`, which
ties a collector's place in its poll to its counter: it is what shows that a metric about
to be sent is new and newer than all others of its collector (`SendIInv`), and that a
`PollCount` in a batch is not ahead of the counter (`SentIsCounted`). Four lemmas are
about the channel as a sequence (`NothingInEmpty`, `AppendSeq`, `TailSeq`,
`AscendingConcat`).

`DeliveryProofs` (`DuplicatesAreLate`, `StaleNeedsLateness`, `RefusalsAreExact`,
`Refinement`, `TypeCorrect`). The heart is `CountInv`: a metric has been applied as often
as there are requests whose handler has come past it, a cardinality that one step of one
handler raises by one (`Passed`). Since a call has at most `MaxRetry` requests this is
the `limit` of `AtLeastOnce`, and if no request was late there was only one
(`OutcomeInv`). `RefusalsAreExact` covers each way in which a call fails: not sent, refused
before the handler, or a row not saved. `AttemptInv` is the loop of `Retry` (another attempt only after the last
was given up), `RequestInv` the life of a request, `SavedInv` what its answer tells about
rows, `CallInv` the numbering of the calls. `Refinement` is
`Spec => DeliversAtLeastOnce`: `Begin`, the first `Apply` and so on map to the steps of
`AtLeastOnce`, what only the network and the timers do to stutters.
`StaleOnlyWhenLate` is an action property.

`EntriesProofs` (`ChangesChecked`, `AnswersTellEffect`, `AgentArrives`, `TypeCorrect` for
`HttpPipeline`; `EntriesAgree` for `Entries`). `LayersOK` is what each layer adds: which
wrappings are off, and that a signature was verified over the bytes that were there
then, so that the handler may rely on all of it. `NothingYet` keeps the answer
and the store untouched until the handler, `AgentInv` says for a request of the agent how
far it comes, and how it ends. For both entries
`BareInv` tells what HTTP does with a batch gRPC could carry (all of it, or up to the first
metric without a value), and `RpcInv` how much of it
the gRPC handler has taken and why it stopped there. `EntriesAgree` is for batches of any
length with odd metrics in any places.

`AuditProofs` (`LogTellsWhatHappened`, `EventsAreRecorded`, `TypeCorrect`). The lock is
what keeps a cut line last in the file (`LastInv`) and a line being written in its place
(`LinesInv`); `PlaceInv` ties a request to its receiver, `WireInv` the event it posts to
what `Publish` reports. `EventsAreRecorded` is then the case of a request
that has been through with all its receivers.

`ServerLifecycleProofs` (`ShutdownFlushes`, `ExitTells`, `ProfilesAreReadable`,
`DeadTransport`, `TypeCorrect`). `LeaveInv` says that whatever has left the group has
seen its context cancelled (but for the gRPC branch), `ErrorInv` whose error the errgroup
has kept. For the profiles: captures under way together overlap (`UnderWayInv`), the
runtime works for one that was accepted (`ProfilingInv`), and a capture that has no rival
finds its file empty when it begins and only its own piece in it when it continues
(`FileInv`); a second capture that truncates the file and waits is harmless, and the
proof shows where: `ProfilesReadable` needs the whole of `CaptureInv`.

`ConfigurationProofs` (`SourceOfSettings`, `WhenAgentSends`, `ConfigOnCommandLine`). The
invariant follows `parseFlags` along the command line: `SourceInv` gives the source of
each setting by the place reached and the options passed so far, `FileInv` whether the
file was read, `StartedInv` that a program runs only with all its options parsed.

The assumptions are those named in the modules and nothing more: capacity, number of
gauges, size of a batch, attempts and half of a word's range are positive; deltas are words
and restored contents have the type of the maps; bodies are not empty; the routes, the
receivers, the protocols and the layers are those of the code; `None` and `NoCapture`
name nobody, and the dumper is no handler. TLC evaluates them in the runs.

Only model-checked: the liveness properties `EveryCallReturns`, `EventuallySaved`,
`BacklogDrains`, `ExitsOrWedges`, `EveryRequestEnds` and `StopEnds`, because fairness and
`ENABLED` are outside TLAPS's reach, and the four disagreements of section 6, which are
counterexamples. That `after` in `TableRebuildsStore` is unique is induction over data;
it is plain from its definition and nothing depends on it.

## 6. Disagreements between the code and what the repository says

1. *Concurrent synchronous flushes* (`Persistence_sync`). `FlushToFile` takes
   its snapshot under the read lock and writes the file under none. With
   `STORE_INTERVAL=0` two handlers can leave a corrupt file, or the older of two
   snapshots, although both flushes returned nil.
   `TestMemStorage_FlushToFile_and_ReadFromFile` (`storage_test.go:251`) expects
   the file to read back as the store.
2. *Shutdown of the agent* (`Agent_shutdown`). On a signal the senders return at
   once. A collector that waits for room in the full channel does not look at
   the context, so `wg.Wait()` never returns. `cmd/README.md:12` lists the
   handling of termination signals as the task of this code. `ExitsOrWedges`
   shows that this is the only way to hang.
3. *PollCount by pointer* (`Agent_pollcount`). The collector sends the address of
   its running counter; a `PollCount` that waited in the channel is encoded with
   the count of a later poll. `PollCountInRange` bounds the damage: never less
   than the count at its poll, never more than the counter.
4. *Unlabelled gzip* (`HttpPipeline_gzip`). For a status of 300 and above
   `CompressWriter.WriteHeader` leaves `Content-Encoding` out, but `Write` and
   `Close` go on compressing: the client reads a gzip stream as text.
   `TestCompressWriter_WriteHeader_DoesNotSetGzipOnErrorStatus`
   (`compresser_test.go:62`) means such an answer to be plain.
   `UpdateGauge` neither writes nor sets a status: its answer is an unlabelled gzip
   stream as well.

What else the models show, and no text of the repository denies:

* An encrypted update is never applied (`AgentUnderstood`): the agent signs before it
  encrypts, the server checks the hash before it decrypts, and without a signature the
  content type of an encrypted body is refused.
* An error answer may stand for an applied batch: the batch handler goes on after an
  error of the store, applies every metric and answers 400 (`AnswerTellsEffect`); the gRPC
  handler stops, with what came before left in the store (`RefusedBatch`). The routes for
  one metric drop the error and answer 200.
* A metric without a value in a JSON batch breaks the connection with the metrics before it
  applied and those after it lost.
* An applied update need not be audited: the routes with the value in the path and the
  gRPC service do not audit, a batch answered with 400 has changed the store, and a client
  that leaves takes its event with it; `AuditedHappened` is the direction that holds.
* Besides overlapping flushes, a write that fails or is cut off by a crash and a file that
  cannot be read at the start lose what was saved: the persistence properties excuse them
  (`damage`), because no code guards against them.
* With `-protocol grpc` the server registers its service, serves nothing and goes on
  (`DeadTransportEndsGroup` names this as the only dead transport that does not end the
  process).
* A profiling signal after `ListenSignals` has closed its channel, while requests or
  flushes keep the process alive, ends it with a panic, perhaps before the last flush
  (`LastFlushMade` lists this among the exits that miss it). A second SIGUSR1 during a
  capture, however, is harmless although it truncates the file: the runtime writes the
  profile when the first capture stops (`ProfilesReadable`).
* The server knows neither `-c` nor `-config` when it parses its flags and exits with
  status 2; the agent knows `-config` only (`FileArgument`). PROTOCOL and
  TRUSTED_SUBNET in the environment never count, and the subnet defaults to the path of
  the crypto key (`SettingsHaveTheirSource`). An agent with a configuration file has no
  sender unless RATE_LIMIT or `-l` is given, and panics if the file leaves out an interval
  that it needs and nothing else names it (`AgentSends`).
* A row of `metrics` does not tell its kind: the INSERT (`storage.go:134`) writes name and
  value and leaves `type` empty. A name used for a gauge and for a counter cannot be
  rebuilt from the table, and `TableRebuildsStore` leaves such names out.
* The two protocols disagree about a metric without a value, a name or a known type, and
  what follows it in the batch shares its fate (`TransportsAgree`): one of the two stores
  may miss all of a batch but for its beginning.

## 7. Not modelled, and the plan

Values of gauges are told apart by identity only, except for "NaN or infinite",
which matters to `json.Marshal`. Names, JSON text, SQL text and log lines are not
represented. The two collectors' metric lists are reduced to their number, and reading
the runtime's statistics to nothing. The subnet, the keys and the DSN are valid or
not; addresses are not normalised. In `ServerLifecycle` requests have no content, and in
`Configuration` a value is its source: `STORE_INTERVAL` as a number is the subject of
`Persistence`, `RATE_LIMIT` of `Agent`.

The column `value` is DOUBLE PRECISION (`migrations`), which rounds a delta beyond 2^53;
the rows of `MemStorage` are exact.

No safety property of the runs is left without a theorem. Next are abstract
specifications for components that have none: for `Audit` a log in which each
event is appended once or its failure is reported, for `Persistence` a durable set that
only an overlap, a torn write or a skipped restore may shrink, each with the detailed
module shown to implement it.

Out of scope for good: the object pool (a typed wrapper of `sync.Pool` that no program
uses), the code generator, the analyzers, generated code, migrations and container
files (no state of the running system).
