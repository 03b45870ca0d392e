# ice-rpc in TLA+

ice-rpc is an RPC layer over iceoryx2 shared-memory publish/subscribe. A
*channel* is a pair of services, `{channel}_req` and `{channel}_resp`; every
consuming process publishes requests on the first and subscribes to the second,
the one provider process does the opposite, and requests and responses are
matched by a 16-byte correlation id. Around it are a stream library
(`ice-rpc-rx`), the `#[service]` macro, a JSON view with an HTTP gateway and a
Node.js addon, and a read-only monitor. This directory models these parts from
`src/`, model-checks them with TLC on small instances and proves with TLAPS, for
every instance, the central properties of a channel and of a process.

## The system and what models it

| part of the system | source | modules |
|---|---|---|
| publication, buffers | `transport/publish.rs`, `tuning.rs` | `Bus` |
| consumer side | `transport/client.rs` | `Consumer` |
| provider side | `transport/server.rs`, `bridge.rs` | `Provider` |
| one channel | the above together | `RpcChannel` |
| promise of a call | `native_call`, `Observable` | `CallContract` (abstract) |
| cancellation token | `rt/cancel.rs`, `CancellableCall` | `CancelToken` |
| receive loop, wake-ups | `pump.rs`, `notify.rs`, `waitset.rs` | `Wakeup` |
| opening of a channel, liveness probe | `open.rs`, `mod.rs`, `monitor.rs` | `ChannelPorts` |
| execution facade | `rt/mod.rs` | `Rt` |
| service locator | `locator.rs` | `Locator`, `InitOrder` |
| start and end of a process | `lib.rs`, `shutdown.rs`, `server.rs`, `lifecycle.rs` | `Startup` |
| context and trace of a call | `types/context.rs`, `types/header.rs` | `CallContext` |
| generated proxy, client, handler | `codegen/{proxy,client,server}.rs`, `bridge.rs` | `ServiceCall` |
| attribute and signatures | `model.rs`, `codegen/helpers.rs` | `ServiceMacro` |
| streams, subscriptions | `stream.rs`, `event.rs`, `subscribe.rs`, `terminals.rs` | `RxEvents`, `RxStream` |
| operators | `transform/*.rs`, `creation.rs` | `RxOperators`, `RxTimed` |
| subject | `subject.rs` | `Subject` |
| JSON host, Node.js bridge | `json_host.rs`, `json.rs`, `bridge.rs` | `JsonHost` |
| JSON calls, HTTP gateway | `json.rs`, `http_gateway.rs`, `codegen/json.rs`, `consumer.rs` | `JsonCall`, `HttpText` |
| Node.js gateway | `state.rs`, `services.rs`, `napi_api.rs` | `Gateway`, `NodePool` |
| monitor | `collector.rs`, `correlate.rs`, `loss.rs`, `health.rs`, `traces.rs`, `main.rs` | `Observer`, `ObserverHealth`, `ObserverProcess` |
| monitor's front ends | `config.rs`, `metrics.rs`, `console.rs` | `ObserverView` |

`MC*` modules hold the sets and functions the configurations use and put
components side by side for a run; they hold nothing of the system. `PROJECT.json`
lists every part with its files, the line range each definition stands for, and the
main hazards of the code with the properties that cover them.

The parts meet as follows. `Bus`, `Consumer` and `Provider` share the buffers of
a channel and are composed in `RpcChannel`, which implements `CallContract`. It
uses the cancellation token as a Boolean and assumes that a fired token gets its
task polled: `CancelToken` discharges that. It assumes that a sample in a buffer
is received: `Wakeup` discharges that. It opens the ports in one step:
`ChannelPorts` has the steps. It lets handlers emit anything: `ServiceCall` and
`JsonHost` say what the generated handlers and JavaScript emit. `Startup` and
`Gateway` are the processes around a channel, `NodePool` the calls a Node.js
process has in flight when it stops.

## The transport

### Bus

The services as the transport uses them. `reqBuf[k]` is the buffer the
provider's request subscriber keeps for consumer `k`'s publisher, `respBuf[k]`
the buffer of consumer `k`'s response subscriber. What is assumed of iceoryx2:
one bounded FIFO per publisher and subscriber; with `enable_safe_overflow(false)`
a full subscriber is skipped while the others receive the sample; `send()`
answers how many received it; the ports of a killed process stay registered,
with their buffers, until its node is reaped. `DeliveredRequest` and
`DeliveredResponse` are `try_publish`'s `delivered > 0`. An observer is a
subscriber with a buffer nobody on the channel controls.

### Consumer

`handlers` is the handler table, `got[c]` the unbounded channel behind the
stream of call `c`, `terminated[c]` the flag of the `Observable`, `disp[k]` the
response dispatch thread. `native_call` is split where other threads can
interleave: `NativeCall` (handler inserted), then `PublishRequest` or
`PublishFail` for the outcome of `publish_until_delivered`. The dispatch thread
takes a sample and clones its handler (`Dispatch`), pushes (`PushEvent`,
`PushFollowUp`) and releases (`ReleaseHandler`), because the stream may be
dropped between any two of these. `DropStream` and `PublishCancel` are the
stream's cleanup. `ConsumerShutdown`, `ConsumerRelease` and `ConsumerCrash` are
the process.

The retry loop of a publication is one step, taken when it is decided: success
when somebody takes the sample, failure at the last unsuccessful attempt before
the deadline. Reads of intermediate events by the application change nothing the
transport looks at and are left out; the read of a terminal event is not.

### Provider

`thread` is the channel thread, `registry` and `token` the in-flight calls and
their cancellation tokens, `task[c]` the task of a call. A request is handled in
one step up to the first poll of its task (`HandleRequest`), since only the
channel thread touches the registry entry before it. A task is `polling` on the
channel thread or on the executor, may emit (`Emit`, `EmitFails`), return
(`Finish`) or yield (`Yield`), and is polled again by the executor (`Poll`).
`Reject` and `RejectUndecodable` publish the answer to a request that cannot be
served while the channel thread waits.

* A handler is arbitrary: it emits any sequence of event kinds, may go on after
  a terminal event (`observable_to_responses` keeps polling), and may end with
  no terminal event at all (an abrupt close, or a response that does not encode).
* The release profile has `panic = "abort"`, so a panicking handler is a
  `ProviderCrash`.
* `ProviderStart` reaps the dead node and opens the ports in one step, and one
  provider process serves a channel at a time.
* A consumer publishes only requests and Cancels, so the other kinds
  `handle_request` ignores never arrive.
* The sample the receive loop drops when it stops in mid-drain is dropped with
  the buffer by `ThreadStops`: after the stop nobody can tell.
* A failure to encode an `RpcError` has the outcome of a failed loan.

### CancelToken

`cancel()`, `poll_cancelled` and `poll_cancelled_cached` one atomic access or
critical section at a time, polled by `CancellableCall`s (`Cached`) and
`WaitForCancel`s, first inline with the no-op waker or directly by the executor.
The executor is external: a wake-up queues a parked task and is remembered
during a poll. Wakers only queue; `InFlightCalls::cancel` fires them under the
registry's lock and relies on that. `RpcChannel` uses the token as one Boolean
and assumes that a fired token gets its task polled; this module is where that
assumption is discharged.

### Wakeup

The senders of one process publish, read the coalescer's stamp, store it and
notify; the receive loop polls, spins, parks and drains, checks for a signal and
stops. Samples are counted. Time is a set of ages that `Tick` increases and that
saturate at the window.

* The clock is read together with the stamp; what another sender does between the
  load and the store is interleaved.
* `SpinTime >= Window` (`TimesAssumption`): the spins of an idle loop last as long
  as the window in which a notification is skipped. That is the code's own premise
  (`notify.rs:14-16`), and `SamplesAreAnnounced` fails without it.
* `lost` is a ghost. It says that the last wake-up was wasted: the notification
  failed, or it arrived between the deadline of a wait and its drain, where the
  loop consumes it and grants no new spins. A successful notification or a received
  sample resets it. In these cases only the deadline of the wait brings the sample.
* A deadline may expire at any time, and a pending notification is reported
  before it: an assumption about iceoryx2.
* A receive that fails is a step (`ReceiveError`), bounded by `MaxErrors`: an error
  that never goes away would keep the thread from ever looking at its listener.
* The sample at hand when the busy path notices a signal is dropped, as in the
  code.

### ChannelPorts

Processes open the services of a channel one by one, with the retries of
`retry_open`, and are killed, stopped or probed in between. `bus[s]` says whether
a service is absent, being created or ready, and with which configuration; `held`
the services a process has a tag on, `publishers` who has a response publisher.

* The bus is external. The tags and ports of a killed process stay until somebody
  reaps its node (`src/docs/wire-compat.md:160`); creating a node reaps unless its
  configuration says otherwise, and `shared_node` uses iceoryx2's own. The explicit
  cleanup may fail.
* A creator that dies in the middle leaves a service the others see as in flux or
  hanging.
* A restart is another process of the model. The runs use two of the four
  services; four only repeat the loop.

### Rt, CallContext

`Rt` runs the tasks of one channel's thread through `run_or_spawn` in each build
(tokio with and without a handle, smol, no runtime), with the waker that the first
poll leaves. The runtimes are external. `CallContext` polls the tasks of several
requests on several threads and keeps the two thread-local slots, the values the
open scopes restore and the headers of the requests the handlers emit. The
reception of a request includes its first poll; leaving nested scopes is one step;
a thread polls one task at a time.

### Locator, InitOrder, Startup

`Locator` is `get` with its two fast paths, one step per lock. `InitOrder` is
`topological_order` as a fold, checked against the definition of a topological
order over every graph on three services. `Startup` is a process: tasks that run
`run_provider!`, the generated `init`, the seal and the registry of channels, the
threads that open ports, the callers and their port cache, the node slot, and the
main task that signals, joins and releases.

### ServiceCall, ServiceMacro

`ServiceCall` is one call through the generated code. Its inputs are the two
contracts the peers were built from, the mode of the proxy, the form of the call
and the events of the implementation; a request carries version, method id and
the layout it was encoded with, and decodes at the other end only if the layouts
agree. Method ids may collide. Responses are encoded with one type on both sides.
`ServiceMacro` reads attributes and signatures: names are sequences of characters,
types are trees. Patterns of arguments and generated identifiers are left to the
Rust compiler.

## Streams (`ice-rpc-rx`)

A *source* is the sequence of the results its polls return, `Pending` included.
`RxOperators` has one action per operator, one iteration of its loop per step,
and the consumer polls on past a terminal event. `RxTimed` adds time, the source's
emitter, the token, and the wakers a poll registers: a parked task runs only when
one of them is called. In a poll of `timeout` a ready event is preferred over an
expired timer, as `rt::timeout` does. `RxStream` is one channel with several
senders and every way of consuming it; `Subject` takes one step per critical
section and per send.

## JSON, HTTP and Node.js

`JsonHost` is a call served by JavaScript: the handler waits for the bridge's
first event, converts every envelope, and the table of open calls loses an entry
only when JavaScript resolves it. `start_call` (insert, callback, take back on
failure) is one step on the executor; calls of JavaScript that return an error
change nothing and are guards. `JsonCall` follows one request from either front
end through the generated invoker to its answer; provider and bus are an
environment that fails or delivers any events, and a stream does not close without
a terminal event. Not-a-number is left out. `HttpText` is the parsing of a path
and a query over bytes, on ASCII inputs. `Gateway` has the phases of the state
cell with `initialize_all` on the executor and every shutdown on the libuv pool.

`NodePool` has the calls that occupy that pool. A call opens the ports of the
channel, or finds them, registers the handle of a new response thread, reads the
tokens, and publishes in a later step: the tokens may be cancelled in between. An
attempt that nobody takes goes back to reading them, at most `MaxRetries` times,
which stands for the deadline of the publication. Every opening has a thread of its
own, so that a shutdown and the openings that follow it are told apart. A signal that
interrupts the wait between two attempts ends the call, as a failure does. A response
thread that cannot attach its wait set is left out.

## Monitor

`Observer` drains two directions whose subscribers skip samples when full, pairs
requests with responses, holds early responses and counts. Ages stand for
instants. A sample gets its number in one step (`with_seq`) and is published, or
abandoned, in another, so that samples of one port overtake one another as those of
two threads do. `ObserverHealth` is discovery, attachment, liveness and inventory on a
machine that changes between any two steps and whose scans may fail (`MayFail`). Its
`CanOpen` asks for the service alone: a view also needs the notification service
and, on the bus, a free subscriber slot, so `ServiceIsObserved` speaks of channels
that have both. The run lets the listings of channels and of nodes fail, not the
liveness scan of a process: `CrashesAreReal` and `DeathIsSeen` do not hold with scans
that cannot tell, as said below.
`ObserverProcess` is the threads: signals, the polling fallback, the trace writer,
the restored terminal. `ObserverView` computes configurations, quantiles and
frames, checked against reference definitions.

## Runs

Five runs check the channel and the token:

| run | instance | what it shows |
|---|---|---|
| `ChannelCalls` | 1 consumer, 2 calls, 2 request slots, 1 response slot, 2 events a call | `TerminalIsLast`, `NoGap`, `OpenMeansDelivered`, `NoCancelAfterRead` |
| `ChannelFaults` | the same, 2 incarnations, kills, stops, failed loans, an unserved call, undecodable payloads | both tables are exact, Cancels find their call, and `RpcChannel` implements `CallContract`, faults included |
| `ChannelShared` | 2 consumers, an observer, a one-way call, a JSON host, 3 events | order survives lost samples (`InOrder`) |
| `ChannelLive` | 1 consumer, 2 calls, 1 event | Cancels end work, answers release handlers |
| `CancelToken` | a `CancellableCall` and a `WaitForCancel` | no lost wake-up, every waiting task ends |

Three more check the components around it. Each of their modules puts several
components side by side: the variable `scene` names the one that a behaviour is
about, the others rest in an initial state, and a property of a component is
stated for its scenes. The components do not act on each other there; a scene is
exactly the component's own specification on the instance in the table. What a run
checks is one property per concern, a conjunction of the properties that the
component modules state one by one; the formulas about liveness are in the run's
module, where they are restricted to their scenes.

`Tasks` (`MCTasks`), what runs inside a process:

| scene | instance | what it shows |
|---|---|---|
| `wakeup` | 2 senders, window and spin of one tick, 2 slots, failing notifications | the loop blocks beside a sample only if a wake-up is pending, on its way or was wasted; every sample is taken although notifications are skipped or fail; a stop ends the loop |
| `rt` | 4 builds, 3 tasks that answer, yield or start a timer, 1 blocking closure | every task completes, with a context where it needs one; handles resolve |
| `operators` | sources of up to 3 items, second sources of 2 | each operator equals its reference; merge, switch_map, retry keep their promises |
| `timed` | 4 events, 2 ticks, read-ahead 2 | delay shifts and loses nothing; timeout fires on silence only and ends |
| `stream`, `subject` | 2 senders, 2 slots, 4 events; 2 producers, 2 subscribers, replay 2 | accepted is delivered, one terminal callback; subscribers agree and are released |

| property | what it joins |
|---|---|
| `SamplesAreAnnounced`, `LoopServes` | `Wakeup`; `SampleTaken`, `LoopEnds` |
| `OperatorsCorrect`, `OperatorsOnTime` | `RxOperators`: reference, terminals, hooks, merge, switch_map, retry; `RxTimed`: delay, timeout, token |
| `StreamsDeliver`, `SubjectsAgree` | `RxStream`: delivery, terminals, abrupt close, cleanup, callbacks; `Subject`: agreement, terminal, live subscribers |
| `TasksEnd` | `Rt` (with `ContextIsThere`), operators, timers, subscriptions: whoever waits is woken |

`Processes` (`MCProcesses`), processes and the calls between them:

| scene | instance | what it shows |
|---|---|---|
| `ports` | a provider, a consumer and a reader, the provider with another configuration; 1 retry, 1 kill, 1 probe | failed opens hold nothing, errors name the remedy that applies, the probe hides no provider, every opening ends |
| `order` | every graph on 3 services and an external name, 2 listing orders | dependencies first, each service once |
| `startup` | 3 services, 2 channels, 2 callers, failures, a chain and a cycle | ready means served, failures serve nothing, a channel is opened once, clean exit, a shutdown completes |
| `two_startups` | 2 providers of one process, services of one id on one channel | nothing is served twice, dispatch tables are unambiguous |
| `locator` | 3 tasks, 2 types under one name, 2 registrations | type-safe, stable cache |
| `context`, `context_threads`, `context_untraced` | 3 requests on 1 thread, 2 requests on 2, with and without tracing, 2 nested calls | a handler sees its own context and token; traces form a tree, spans are unique |
| `call` | every mode and form against contracts of two builds, ids that collide | the right method or a refusal, fast failure, modes agree |
| `macro` | attributes of 2 parameters, 11 return types | names fit the bus, parameters commute, stream types are read |

| property | what it joins |
|---|---|
| `PortsSound`, `ProcessesSettle` | `FailedHoldsNothing`, `RemedyFits`, `ProbeHidesNoProvider`; `OpeningEnds`, `ShutdownCompletes` |
| `StartupSound` | `ReadyMeansServed`, `FailureServesNothing`, `OpenedOnce`, `CleanExit`, `ServedOnce`, `TablesUnambiguous` |
| `InitializedInOrder`, `LocatorSound` | `EachOnce`, `DependenciesFirst`; `CacheIsStable`, `TypeIsRight` |
| `CallsKeepContext` | `ContextFollowsTask`, `TraceIsTree`, `SpansAreUnique` |
| `RightMethodOrRefused`, `AnsweredAsLocal` | with `OldPeersNeverRun`; `FailFast`, `ModesAgree` |
| `MacroReads` | `NamesFit`, `OrderIsFree`, `StreamTypes` |

`Tools` (`MCTools`), the monitor and the Node.js bridge:

| scene | instance | what it shows |
|---|---|---|
| `tables`, `one_call`, `calls` | 1 or 2 calls, buffers and tables of 1, with and without Cancels | gauges and latencies are exact, no loss is missed, tables bounded, entries leave |
| `loss` | 2 calls, 2 Cancels on one port, buffer of 2 | samples that overtake one another: no loss is missed, and what is counted beyond follows from the order |
| `health` | 1 channel, 2 processes, failing scans, 3 changes | attachments and crashes are real, deaths and services are noticed |
| `process` | 6 traces, every sink, a queue of 1, a signal at any moment | records are never lost silently, the terminal is restored, a signal ends the process |
| `view` | arguments of up to 4 words, small samples, frames around the screen height | configuration, quantiles and frames equal their definitions |
| `json`, `json_table`, `json_ends` | calls with every envelope; 3 calls on a table of 2; 2 calls with one id | the wire is well formed and follows JavaScript; no call ends silently; unanswered calls end |
| `http` | all short paths, encoded texts and pairs | routing and decoding are total |
| `call`, `calls_race` | every method, argument and misfit; 2 racing requests | conversions agree, refused calls publish nothing, answers follow the stream |
| `gateway`, `pool` | 1 registration, 2 inits, 2 shutdowns; 3 calls, one without end, on 2 threads | a refused init is harmless, a running gateway has its bridge, few calls go out late, shutdowns settle |

| property | what it joins |
|---|---|
| `MonitorCounts`, `HealthIsTrue` | `GaugeIsExact`, `LatencyOnce`, `LossesAreCounted`, `TablesBounded`; `AttachmentTruth`, `OneViewPerDirection`, `ObservedIsKnown`, `CrashesAreReal` |
| `MonitorLosesNothing`, `ViewIsRight` | `NoRecordLost`, `ExitFlushes`, `TerminalRestored`, `RecentIsLatest`; `ConfigMeansArgs`, `QuantileIsTight`, `FrameFits`, `EndsSurvive`, `LatestShown` |
| `MonitorSettles` | `CallsLeave`, `HeldSettles`, `DeathIsSeen`, `ServiceIsObserved`, `SignalEnds` |
| `HostFollowsJs`, `RequestsAreRead` | `WireWellFormed`, `WireFollowsJs`, `NoSilentEnd`; `RouteIsWhole`, `DecodeIsTotal`, `QueryIsRead`, `ConventionsAgree`, `RefusedIsUnpublished`, `AnswerFollowsStream` |
| `GatewaySound`, `NodeSharesSafely` | `RefusedInitIsHarmless`, `RunningHoldsBridge`, `ServedThroughBridge`; `NoSilentEnd` on a full table, `CachedViewStays`, `LateSendsAreFew`, `ReleasedAfterThreads` |
| `NodeSettles` | `UnansweredEnds`, `ClosedEnds`, `EndlessIsAnswered`, `GatewayShutdownCompletes`, `ShutdownSettles`, `ThreadsStop`, `UncutCallsSettle` |

The last four (`"expect": "violation"`) each show one place where the code and a
sentence of its documentation or comments disagree.

**Bounds.** Two of each actor are enough for two calls to compete for a slot, for
a response to reach a consumer that did not ask for it, for two wakers on one
token and for a race between two tasks; a third is added where two cannot show the
case (a table of two, a pool of two). Buffers and tables hold one or two entries,
so that every run meets them full. `MaxEvents` bounds the events of a call: two
show an event behind a terminal one, three a hole in the middle. `MaxStarts = 2` is
one restart, `MaxCrashes = 1` one kill. Retries are cut to one: the second attempt
already follows a failure. Times are a few ticks, always at least one more than
the limit they are compared with. Every `Max…` constant is a bound of the model
and none of the code, except `MaxPending` and `MaxVersion`, which are limits of the
code scaled down. The calls of `ChannelCalls` are interchangeable, so it uses
symmetry; the liveness runs do not. Deadlock is not checked where the system comes
to rest: a channel whose calls are over, a computation that has its result, a
process that has ended. Where everyone waiting on everyone would be wrong, a
liveness property says so (`EveryTaskCompletes` in `TasksEnd`, `OpeningEnds` and
`ShutdownCompletes` in `ProcessesSettle`, `SignalEnds` in `MonitorSettles`,
`ShutdownSettles` in `NodeSettles`).

**Fairness** is weak fairness of what the code runs unconditionally.
`RpcChannel`: a publication returns within its deadline, both receive loops run
until stopped, one poll of a handler ends, a fired token gets its task polled.
Nothing is assumed of a handler that waits, nor of an application reading or
dropping its stream; it is used without kills and stops. `CancelToken`: `cancel()`
runs to its end, the executor polls what is queued. `Wakeup`: the thread is
scheduled and time passes; no sender is obliged to do anything. `ChannelPorts`: a
thread that opens keeps running. `Rt`, `Startup`, `Gateway`, `NodePool`,
`JsonHost`, `JsonCall`, `ObserverProcess`: threads, pool and executor run; signals,
JavaScript and calls come or not, except that `NodePool` lets a service that is not
in `Endless` end its stream. `Subject`: a task that holds the emit lock goes on and
a subscriber that can have it takes it. Strong fairness is a premise of four
properties of the monitor and of nothing else: the interval of the sweep elapses
again and again (`SweepsComeDue`, for `CallsLeave` and `HeldSettles`), so do those of
discovery, where a listing that fails works again later (`ListingsWork`, for
`ServiceIsObserved`), and of the liveness check (`LivenessScansWork`, for
`DeathIsSeen`).

## Where code and documentation disagree

Four disagreements have a run, and PROJECT.json quotes the sentence. `SharedGap`:
one consumer with room counts as delivery of a response meant for a full one.
`ObserverTakes`: an observer's subscriber counts as a provider. `HostGap`: the JSON
host goes on after an event that was not published. `AbruptEnd`: a response that
does not encode ends the task and not the caller's stream.

The following were met while the other modules were written. The modules follow the
code, no property promises what the sentence says, and no run of this project
demonstrates them.

* Transport. A notification may be coalesced while the receiver is parked
  (`notify.rs:14-16` says only while it is awake); the deadline of the wait bounds
  the delay. A handler that blocks in its first poll blocks the thread of its
  channel. A one-way request of another build is answered with an `RpcError`
  (`client.rs:550`), and a one-way handler has no cancellation token
  (`context.rs:393`). The requests one handler emits all carry that handler's span
  (`header.rs:158-161`).
* Opening. The probe counts the publisher of a killed provider until its node is
  reaped (`monitor.rs:265`), and waits for the lock of an opening (`monitor.rs:275`).
  Opening a view reaps dead nodes (`cleanup.rs:3`). A failed creation of the node is
  kept, and reported as retryable (`error.rs:42`).
* Processes. A service registered around the seal is stranded, gets a second thread
  for its channel, or is not joined (`server.rs:666`, `lib.rs:255`, `lib.rs:465`).
  The services of a cycle follow the order of a `HashMap` (`locator.rs:217`). Two
  first `get`s build two proxies (`locator.rs:455`).
* Streams. `take_until` polled after its end may answer a second terminal; a token
  cancelled while the source is idle wakes nobody; an event that is ready when the
  subscription is dropped may still reach its callback.
* Node.js and JSON. After a completed shutdown a new `init` meets the cancelled
  token (`napi_api.rs:209`); an `init` is accepted while the release runs
  (`napi_api.rs:195`), and a stop inside `init` leaves a bridge in an idle cell
  (`state.rs:104`). Entries of late or one-way calls stay in the table until
  JavaScript resolves them (`bridge.rs:34`, `bridge.rs:230`). A stream without end
  keeps its pool thread; a shutdown leaves an open call without an end; a call after
  the release opens ports again. A missing provider is `E_TRANSPORT`
  (`gateway_nodejs/Readme.md:264`). A query text that reads as a number is no string
  (`http_gateway.rs:5`), and `none` and floats are no strings either
  (`http_gateway.rs:295`).
* Monitor. A held response may expire as an orphan although its request came
  (`collector.rs:36`); one beyond the limit of held samples is not counted
  (`metrics.rs:208`). `--max-inflight 0` holds one call (`correlate.rs:79`). A scan
  that could not tell revives a crashed process, and the next one counts its crash
  again (`metrics.rs:244`). A hole in the numbers of a port does not prove a loss
  (`loss.rs:3-6`): two threads that overtake one another (0, 2, 1, 3) are counted as
  two lost samples, and a publication that failed as one. Failed scans are
  counted as scans (`health.rs:89`).
* Macro. `Result<Observable<T, E>, _>` yields other types than documented
  (`helpers.rs:66`), and an empty name is accepted (`model.rs:196`).

## Theorems

For every number of calls, consumers, tasks, senders and processes, every buffer
size, every set of faults and every bound; the only assumptions are the named
`ASSUME`s on the constants and those in the table.

| theorem | module | statement |
|---|---|---|
| `TypeCorrect` | `RpcChannelProofs` | `Spec => []TypeOK` |
| `HandlerTableSafe` | `RpcChannelProofs` | `Spec => []HandlerTable` |
| `NothingAfterTerminal` | `RpcChannelProofs` | `Spec => []TerminalIsLast` |
| `RegistryExact` | `RpcChannelProofs` | `Spec => []RegistryIsExact` |
| `CancelAlwaysReaches` | `RpcChannelProofs` | `Spec => []CancelReaches` |
| `ReadCallsAreNotCancelled` | `RpcChannelProofs` | `Spec => []NoCancelAfterRead` |
| `OpenIsDelivered` | `RpcChannelProofs` | `Spec => []OpenMeansDelivered`, if `Observed = FALSE` |
| `StreamsInOrder` | `ContractProofs` | `Spec => []InOrder` |
| `NothingIsMissing` | `ContractProofs` | `Spec => []NoGap`, if `Alone` |
| `ImplementsContract` | `ContractProofs` | `Spec => ContractSpec`, if `Alone` |
| `PortsAreSound` | `ChannelPortsProofs` | `Spec => []PortsSound` |
| `StartupIsSound` | `StartupProofs` | `Spec => []StartupSound`, if `StartSets` |
| `NoWakeupIsLost` | `TaskProofs` | `Spec => []NoLostWakeup` |
| `ContextIsKept` | `TaskProofs` | `Ctx!Spec => []Ctx!CallsKeepContext` |
| `OperatorsKeepTime` | `TimedProofs` | `Spec => []DelayShifts /\ [][TimeoutOnlyOnSilence /\ TimeoutAfterDuration]_vars /\ [][TokenStopsReading]_vars`, if `Duration` is a natural number |
| `HostIsFaithful` | `HostProofs` | `Spec => []HostFollowsJs` |
| `SamplesAnnounced` | `ProcessProofs` | `Spec => []SamplesAreAnnounced` |
| `GatewayIsSound` | `ProcessProofs` | `Gate!Spec => []Gate!GatewaySound` |
| `LocatorIsSound` | `ProcessProofs` | `Loc!Spec => Loc!LocatorSound` |
| `PoolIsSafe` | `ProcessProofs` | `Pool!Spec => [](Pool!LateSendsAreFew /\ Pool!ReleasedAfterThreads)`, if `Calls` is finite without `Shutdown` and `Threads` is a positive number |
| `NoTraceIsLost` | `ProcessProofs` | `Mon!Spec => [](Mon!NoRecordLost /\ Mon!ExitFlushes /\ Mon!TerminalRestored /\ Mon!RecentIsLatest)`, if `MonitorConfig` |

`Alone` is one consumer, no observer and no JSON host. None of the three can be
dropped: `SharedGap`, `ObserverTakes` and `HostGap` are the counterexamples.
`MonitorConfig` says that the sampling rate and the size of the buffer of recent lines
are not zero: the size is a constant of the code, and a rate of zero means no sink
(`collector.rs:130`), which is a case of its own. `StartSets` says that the tasks of a
process have names of their own and that the order of initialization lists every
registered service; the order is a parameter of `Startup`, which the run `Processes`
sets to the `topological_order` of `InitOrder` and whose promise (`EachOnce`) it
checks. A proof module extends the module it is about (`ContractProofs` through
`RpcChannelProofs`), so that its theorems speak of the definitions that the runs check.
Two also hold proofs about instances of other components: `TaskProofs` extends
`CancelToken` and has an instance of `CallContext` (`Ctx`); `ProcessProofs` extends
`Wakeup` and has instances of `Gateway`, `Locator`, `NodePool` and `ObserverProcess`
(`Gate`, `Loc`, `Pool`, `Mon`).

**Streams.** Neither `HandlerTable` nor `TerminalIsLast` is inductive: both
depend on what the dispatch thread holds between its steps. `StreamInv` says that
the thread works only for calls of its own process that were made
(`DispatchInv`), that a stream with a terminal event has lost its handler or is
about to (`EndedInv`), that the thread never holds an event for a stream that has
ended and releases an open one only when it has (`PushInv`), and that a call has
an entry from its publication until its stream ends or is released (`StageInv`).
Only consumer actions disturb it.

**Cancels.** `CancelReaches` needs the whole life of a call at the provider.
`ServiceInv` says that a request waits in its owner's buffer while its call has
no task, and that a Cancel there belongs to a call dropped unread (`SampleInv`);
that two samples of one call are its request and, behind it, its Cancel
(`OrderInv`); that a request the channel thread answers itself has no task yet
(`ThreadInv`); and what the stage of a call says of the provider (`CallInv`). A
handled Cancel therefore finds its call registered, never started or over.

**Wake-ups.** `TokenInv` ties the flag to the progress of `cancel()` (`FlagInv`),
says that before a cancellation every cached or just registered waker is in the
list (`ListInv`), and that a poll that answered Pending with the task's own waker
will be reached by the cancellation or has been woken (`PendingInv`).

**Order.** `EventOrder` numbers the events of a call from 1 to `emitted`
(`BufferInv`), orders those in a buffer (`Below`), and puts what the dispatch
thread holds after what it pushed (`PushedInv`) and before what is still buffered
(`Fits`, `StreamedInv`). Samples may be lost, never swapped.

**Contract.** Without a lost sample the order becomes a sequence without holes.
`QuietInv` says that a call the provider has not started to serve has emitted
nothing. `GapInv` says that behind the events that left it the buffer of a call
with a handler holds the next ones without a gap, up to the last one emitted as
long as the call may go on emitting (`BufferedInv`), and that the dispatch thread
pushes the next event of a stream (`NextInv`). The
refinement maps the stage of a call to the phase of `CallContract` (`PhaseOf`) and
its stream to itself; every action is then a `Begin`, a `Deliver`, a `Close` or a
stutter. Kills, restarts and failed publications end a call's events and make no
hole, because a handler stops at its first event that was not delivered.

**Wake-ups of the receive loop.** `SamplesAreAnnounced` says that the loop does not
block beside a sample nobody will wake it for. It is not inductive, because a
notification may have been skipped long before, on account of one that is consumed by
now. `WakeInv` adds `Covered`, which holds whether the loop polls, spins or blocks:
while the last stamp is inside the window, so that a sender may skip, a notification
is pending, a sender has still to send one, the last wake-up was wasted, or the loop
still spins and has been idle no longer than the stamp is old. Time ages both alike,
and the spins are not spent before the window is over: this is where
`SpinTime >= Window` is needed.

**Start and end of a process.** Not one of the six parts of `StartupSound` is
inductive: each speaks of what threads serve, and a service reaches a thread through
the order of initialization, the registry, the list of the task that drained it and
the arguments of a spawn. `StartInv` follows it there. A provider task holds the mode
of the service it initializes (`LockInv`), so a service that is in one of these
places is marked as started, or is about to be by the one task that holds it
(`PlaceInv`); it is in one place only (`TableInv`), next to no other of its id
(`IdInv`). One task drains the registry, nothing is spawned before the seal, and a
seal comes from a task that did not fail (`SealInv`). The lock of the port cache
covers an opening, and a response thread means a filled cache or the caller that is
about to fill it (`CallerInv`). Every thread is with the task that spawned it,
registered, or among those main joins (`ThreadInv`), so that once the awaited tasks
are over main has them all (`ExitInv`). A task that is alone finds each service it
provides where its progress has put it (`ReadyInv`); with two tasks that is false,
as a service registered around the seal shows.

**Context of a call.** `CallsKeepContext` speaks of what a handler sees when it is
polled, and has to be kept through every poll in between. `ContextInv` says that a
thread which polls a task has that task's innermost scope and its token in its slots,
and in its frames, from the outermost in, the scopes that leaving them will put back,
down to the empty slots (`ThreadInv`); that a context belongs to the request its
task was received with and knows its depth (`TaskInv`); that a span is minted once,
after the spans its request names (`HopInv`); and that a request is the root of a
trace or names a span of the handler that emitted it (`RequestInv`).

**Gateway, locator, pool.** `GatewayInv` says that until a shutdown has emptied the
cell the guard belongs to a gateway that runs and whose `init` has returned, and that
the bridge is there before any task of the initialization. `LocatorInv` adds to the
answers the types of what is registered, cached and held by a `get` on its way; that
the cache is stable then follows from `or_insert` in each step. `PoolInv` says that a
task is queued once (`QueueInv`) and that no more tasks are on threads than the pool
has (`SizeInv`). A call that goes out has a response thread whose handle was
registered before the call read the tokens (`CallInv`), and the tokens are cancelled
before the handles are taken (`ShutdownInv`): the shutdown therefore joins the thread
of every call that went out or still may (`WaitInv`). The calls that may go out
late were on threads of the pool when the shutdown, on a thread of its own, cancelled the
tokens, which makes them fewer than the threads (`LateInv`, by a count of finite sets).

**JSON host.** What a caller has received is compared with what JavaScript pushed,
although events wait in a channel between the two, the reader of that channel may
stop, and JavaScript may answer a call that is gone. `HostInv` says of a call that,
as long as its handler reads, what is on the wire followed by what is in the channel is
what JavaScript pushed, event by event; that a resolution is the last push; and that a
terminal event is the last one on the wire (`CallOK`). It says of a table that it keeps
its limit and that each entry is an unresolved call of that bridge under its own id
(`TableOK`, `EntryOK`); that a call of the live bridge that is being read is in the
table or has been resolved (`OpenOrResolved`); and that one that ended has its terminal
event (`Answered`). `PushEffects` reduces `emit` and `resolve` to their effect on one
call. TLC checked `HostInv` first, on two small instances.

**Threads of the monitor.** `NoRecordLost` counts records across three threads.
`SinkInv` says that the writer holds a line exactly while it writes it and ends only
when the sender is closed and the queue is empty; `ThreadInv` is the chain of joins:
main leaves after the acquisition thread, which leaves after the writer, and the view
gives the screen back before the join. `RecentIsLatest` is inductive by a lemma on
sequences (`KeepsLatest`): to append a line and drop the oldest one beyond the limit
leaves the last lines of what was written.

**Operators on time.** That `delay` shifts a stream is not inductive, because an event
spends its time in a queue. `Parted` says that what was sent is what the consumer has
received, then what the queue holds, then what is unread, in this order and each
unchanged, that a received event is `Duration` old (ages stop there), and that a held
one will be when its time has run out. `Clocked` says for `timeout` that the timer is
armed once an event has been delivered, and that the age of every delivered event and
the ticks left make up at least `Duration`. Both are kept by a tick because ages grow as timers
shrink.

**Opening.** `PortsInv` gives the records their shape (`ShapeInv`), says that a
process holds nothing before it opens and after it failed, that publishers belong
to open or killed processes and that a ready service is held by somebody
(`HoldInv`), and that a broken service or a dead creator follows a crash and a
service has the configuration of a process (`OriginInv`): what an error blames
has happened. `ServeInv` says how far an opening has come: a process holds the
services it has opened so far, and an open provider all of them and its publisher.
A probe that answers no while it serves would have missed one of these.

**Model-checked only.**

* Liveness, all of it: fairness and `ENABLED` are beyond the proof system.
* What recursive or folded definitions compute, which takes an induction over data:
  `InitializedInOrder` (`InitOrder`), `RequestsAreRead` (`HttpText`, `JsonCall`),
  `MacroReads`, `ViewIsRight`, `OperatorsCorrect`, and the sums and quantiles behind
  `MonitorCounts`.
* `RightMethodOrRefused` and `AnsweredAsLocal`: a call of `ServiceCall` is a
  computation of a few steps over a pair of contracts, and what is hard about it is
  the variety of the contracts, which the run enumerates.
* `StreamsDeliver` and `SubjectsAgree` compare streams through filters of sequences,
  and `HealthIsTrue` counts by a fold: their inductive steps need facts about these
  operators that take an induction over data.
* The `JsonCall` part of `NodeSharesSafely` (`CachedViewStays`): it is not out of reach,
  and no proof has been written.

## Not modelled

* iceoryx2, tokio, smol, napi, libuv and trillium are external: modelled by how the
  code uses them, as the notes above say. The HTTP server's stop is trillium's.
* Byte layouts and rkyv encoding, timestamps, random ids and hash values: a request
  decodes or does not, an id is fresh or collides.
* Rendering: the text of the live view, the Prometheus exposition, payload
  decoders for display (`monitor/decode.rs`, `codegen/decoder.rs`), logging, error
  texts, W3C trace strings.
* File-system work: `sweep_orphan_shm_markers`, configuration files.
* Payload sizes: the initial slice length of a channel has no effect here, and a
  failed loan is a fault of `RpcChannel`.
* Requests that reach the subscriber of a provider that then fails to open its
  other ports: `RpcChannel` opens ports in one step.
* A waker that polls a task from inside `cancel()` while the registry is locked:
  the executors in use only queue.
* Token trees and generated identifiers of the macros; traits, re-exports and lock
  wrappers (`service_traits.rs`, `codegen.rs`, `sync.rs`).
* Examples, benchmarks and tests.
