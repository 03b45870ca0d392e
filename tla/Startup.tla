------------------------------- MODULE Startup --------------------------------
(***************************************************************************)
(* The life of an ice-rpc process: run_provider (lib.rs), the registry and *)
(* its initialization (locator.rs), the generated init (macros,            *)
(* lifecycle.rs), the deferred start of the channels and their threads     *)
(* (server.rs), the consumer ports (client.rs), the node (transport/mod.rs)*)
(* and the clean shutdown (shutdown.rs).                                   *)
(***************************************************************************)
EXTENDS Naturals, Sequences, FiniteSets, Functions

CONSTANTS
    Services,    \* the services of the process
    topological_order(_, _),  \* the order of initialization (InitOrder)
    Providers,   \* tasks that run run_provider!
    Provides,    \* Provides[p]: the services a task starts
    ChannelOf,   \* the channel of each service
    IdOf,        \* the service id of each service
    Json,        \* the services provided through a JSON dispatcher
    Deps,        \* the dependency graphs
    Callers,     \* tasks that call a service of another process
    Attempts,    \* retries of a transient open failure (OPEN_RETRY_ATTEMPTS)
    MainAwaits,  \* whether main awaits the tasks, or has spawned them
    MayFail      \* whether on_init and the opening of ports may fail

VARIABLES
    deps,        \* the dependency graph
    entries,     \* services registered in the locator
    prov,        \* each provider task: [pc, todo, order, failed]
    lock,        \* lock[s]: the task that holds the mode of proxy s
    started,     \* services whose server_started is set, or dispatcher taken
    sealed,      \* CHANNELS_SEALED
    pending,     \* services in the channel registry
    threads,     \* IPC threads: [channel, table, state, tries]
    handles,     \* threads the shutdown registry knows
    spawned,     \* the thread a task has spawned and not registered yet
    callers,     \* pc of each caller
    cache,       \* the consumer port cache: [locked, filled]
    node,        \* the node slot: "empty", "node" or the "error" it cached
    cancelled,   \* the global cancellation token
    main         \* [pc, joins]: main's progress, and the threads it waits for

vars == <<deps, entries, prov, lock, started, sealed, pending, threads, handles, spawned, callers,
          cache, node, cancelled, main>>

registry == <<deps, entries, lock, started, sealed, pending>>
ipc == <<threads, handles, spawned, node>>
rest == <<callers, cache, cancelled, main>>

None == "none"
Tasks == Providers \cup Callers

Init ==
    /\ deps \in Deps /\ entries = {}
    /\ prov = [p \in Providers |-> [pc |-> "register", todo |-> Provides[p], order |-> <<>>, failed |-> FALSE]]
    /\ lock = [s \in Services |-> None] /\ started = {} /\ sealed = FALSE /\ pending = {}
    /\ threads = <<>> /\ handles = {} /\ spawned = [t \in Tasks |-> {}]
    /\ callers = [c \in Callers |-> "call"] /\ cache = [locked |-> None, filled |-> FALSE]
    /\ node = "empty" /\ cancelled = FALSE /\ main = [pc |-> "body", joins |-> {}]

Alive == main.pc # "exit"

\* spawn_native_service, and the thread of spawn_response_dispatcher (no table).
SpawnThread(t, channel, table, state) ==
    /\ threads' = Append(threads, [channel |-> channel, table |-> table, state |-> state, tries |-> 0])
    /\ spawned' = [spawned EXCEPT ![t] = {Len(threads) + 1}]

RegisterThread(t) == handles' = handles \cup spawned[t] /\ spawned' = [spawned EXCEPT ![t] = {}]

-----------------------------------------------------------------------------
(* run_provider_inner: the services are registered one by one ...          *)

register(p) ==
    /\ prov[p].pc = "register"
    /\ \E s \in prov[p].todo :
         entries' = entries \cup {s} /\ prov' = [prov EXCEPT ![p].todo = @ \ {s}]
    /\ UNCHANGED <<deps, lock, started, sealed, pending, ipc, rest>>

\* ... then initialize_all lists the registry, a HashMap: in any order.
Listings(set) == Bijection(1..Cardinality(set), set)

initialize_all(p) ==
    /\ prov[p].pc = "register" /\ prov[p].todo = {}
    /\ \E names \in Listings(entries) :
         prov' = [prov EXCEPT ![p].pc = "init", ![p].order = topological_order(names, deps)]
    /\ UNCHANGED <<registry, ipc, rest>>

Service(p) == Head(prov[p].order)

\* A service whose init returns false aborts the startup of its task.
InitFailed(p) == [prov EXCEPT ![p].pc = "ended", ![p].failed = TRUE]
Initialized(p) == [prov EXCEPT ![p].pc = "init", ![p].order = Tail(@)]

\* init of the generated proxy takes the write lock of its mode. A provider
\* already started is done; a JSON dispatcher already taken is an error.
AlreadyStarted(s) == s \in started

BeginInit(p) ==
    /\ prov[p].pc = "init" /\ prov[p].order # <<>> /\ lock[Service(p)] = None
    /\ IF AlreadyStarted(Service(p))
       THEN /\ prov' = IF Service(p) \in Json THEN InitFailed(p) ELSE Initialized(p)
            /\ UNCHANGED <<lock, started>>
       ELSE /\ prov' = [prov EXCEPT ![p].pc = IF Service(p) \in Json THEN "check" ELSE "hook"]
            /\ started' = started \cup ({Service(p)} \cap Json)
            /\ lock' = [lock EXCEPT ![Service(p)] = p]
    /\ UNCHANGED <<deps, entries, sealed, pending, ipc, rest>>

on_init(p) ==
    /\ prov[p].pc = "hook"
    /\ \/ prov' = [prov EXCEPT ![p].pc = "check"] /\ UNCHANGED lock
       \/ MayFail /\ prov' = InitFailed(p) /\ lock' = [lock EXCEPT ![Service(p)] = None]
    /\ UNCHANGED <<deps, entries, started, sealed, pending, ipc, rest>>

\* register_native_service reads the seal ...
ReadSeal(p) ==
    /\ prov[p].pc = "check"
    /\ prov' = [prov EXCEPT ![p].pc = IF sealed THEN "spawn" ELSE "push"]
    /\ UNCHANGED <<registry, ipc, rest>>

Registered(p) ==
    /\ started' = started \cup {Service(p)} /\ lock' = [lock EXCEPT ![Service(p)] = None]
    /\ prov' = Initialized(p)

\* ... and either joins the registry, unless its id is taken on the channel,
conflicting_name(s) == \E q \in pending : ChannelOf[q] = ChannelOf[s] /\ IdOf[q] = IdOf[s]

JoinRegistry(p) ==
    /\ prov[p].pc = "push"
    /\ IF conflicting_name(Service(p))
       THEN /\ prov' = InitFailed(p) /\ lock' = [lock EXCEPT ![Service(p)] = None]
            /\ UNCHANGED <<started, pending>>
       ELSE pending' = pending \cup {Service(p)} /\ Registered(p)
    /\ UNCHANGED <<deps, entries, sealed, ipc, rest>>

\* or starts a thread of its own and registers it.
SpawnOwn(p) ==
    /\ prov[p].pc = "spawn" /\ SpawnThread(p, ChannelOf[Service(p)], {Service(p)}, "opening")
    /\ prov' = [prov EXCEPT ![p].pc = "spawned"]
    /\ UNCHANGED <<registry, handles, node, rest>>

RegisterOwn(p) ==
    /\ prov[p].pc = "spawned" /\ RegisterThread(p) /\ Registered(p)
    /\ UNCHANGED <<deps, entries, sealed, pending, threads, node, rest>>

\* start_registered_channels: only the first caller goes on, and it drains the
\* registry into its own list,
Seal(p) ==
    /\ prov[p].pc = "init" /\ prov[p].order = <<>> /\ sealed' = TRUE
    /\ prov' = [prov EXCEPT ![p].pc = IF sealed THEN "waiting" ELSE "drain"]
    /\ UNCHANGED <<deps, entries, lock, started, pending, ipc, rest>>

Drain(p) ==
    /\ prov[p].pc = "drain" /\ pending' = {}
    /\ prov' = [prov EXCEPT ![p].pc = "start", ![p].todo = pending]
    /\ UNCHANGED <<deps, entries, lock, started, sealed, ipc, rest>>

\* then starts and registers a thread per channel, one after the other.
StartChannel(p) ==
    /\ prov[p].pc = "start" /\ spawned[p] = {}
    /\ \E ch \in {ChannelOf[s] : s \in prov[p].todo} :
         LET table == {s \in prov[p].todo : ChannelOf[s] = ch}
         IN  SpawnThread(p, ch, table, "opening") /\ prov' = [prov EXCEPT ![p].todo = @ \ table]
    /\ UNCHANGED <<registry, handles, node, rest>>

RegisterChannel(p) ==
    /\ prov[p].pc = "start" /\ spawned[p] # {} /\ RegisterThread(p)
    /\ UNCHANGED <<registry, prov, threads, node, rest>>

ChannelsStarted(p) ==
    /\ prov[p].pc = "start" /\ prov[p].todo = {} /\ spawned[p] = {}
    /\ prov' = [prov EXCEPT ![p].pc = "waiting"]
    /\ UNCHANGED <<registry, ipc, rest>>

wait_for_shutdown(p) ==
    /\ prov[p].pc = "waiting" /\ cancelled /\ prov' = [prov EXCEPT ![p].pc = "ended"]
    /\ UNCHANGED <<registry, ipc, rest>>

Provide(p) ==
    \/ register(p) \/ initialize_all(p) \/ BeginInit(p) \/ on_init(p) \/ ReadSeal(p) \/ JoinRegistry(p)
    \/ SpawnOwn(p) \/ RegisterOwn(p) \/ Seal(p) \/ Drain(p) \/ StartChannel(p) \/ RegisterChannel(p)
    \/ ChannelsStarted(p) \/ wait_for_shutdown(p)

-----------------------------------------------------------------------------
(* The node is created on first use; the slot keeps a failure as well.     *)

shared_node == node' \in IF node # "empty" THEN {node} ELSE {"node"} \cup (IF MayFail THEN {"error"} ELSE {})

\* One attempt of retry_open on thread i. Any failure may be retryable but one
\* with a remedy of its own, so that a failed attempt may always be the last.
Open(i) ==
    /\ threads[i].state = "opening" /\ shared_node
    /\ \/ node' = "node" /\ threads' = [threads EXCEPT ![i].state = "serving"]
       \/ /\ MayFail /\ threads[i].tries < Attempts /\ ~cancelled
          /\ threads' = [threads EXCEPT ![i].tries = @ + 1]
       \/ MayFail /\ threads' = [threads EXCEPT ![i].state = "done"]
    /\ UNCHANGED <<registry, prov, handles, spawned, rest>>

\* The receive loop ends on the token, and drops the thread's ports.
NeverStops == FALSE
StopRequested == cancelled
Stop(i) ==
    /\ threads[i].state = "serving" /\ StopRequested
    /\ threads' = [threads EXCEPT ![i].state = "done"]
    /\ UNCHANGED <<registry, prov, handles, spawned, node, rest>>

\* A receive loop sees a termination signal: request_shutdown.
request_shutdown(i) ==
    /\ threads[i].state = "serving" /\ ~cancelled /\ cancelled' = TRUE
    /\ UNCHANGED <<registry, prov, ipc, callers, cache, main>>

-----------------------------------------------------------------------------
(* A consumer's call: consumer_ports holds the cache's lock while it opens *)
(* the ports, starts the dispatcher, registers it and fills the cache.     *)

NoLock == TRUE
CacheFree == cache.locked = None

consumer_ports(c) ==
    /\ callers[c] = "call" /\ CacheFree
    /\ IF cache.filled THEN callers' = [callers EXCEPT ![c] = "done"] /\ UNCHANGED cache
       ELSE callers' = [callers EXCEPT ![c] = "open"] /\ cache' = [cache EXCEPT !.locked = c]
    /\ UNCHANGED <<registry, prov, ipc, cancelled, main>>

\* The attempts of retry_open, of which only the outcome is kept.
open_consumer_ports(c) ==
    /\ callers[c] = "open" /\ shared_node
    /\ \/ /\ node' = "node" /\ callers' = [callers EXCEPT ![c] = "spawned"]
          /\ SpawnThread(c, "remote", {}, "serving") /\ UNCHANGED cache
       \/ /\ MayFail /\ callers' = [callers EXCEPT ![c] = "done"]
          /\ cache' = [cache EXCEPT !.locked = None] /\ UNCHANGED <<threads, spawned>>
    /\ UNCHANGED <<registry, prov, handles, cancelled, main>>

spawn_response_dispatcher(c) ==
    /\ callers[c] = "spawned" /\ RegisterThread(c) /\ callers' = [callers EXCEPT ![c] = "insert"]
    /\ UNCHANGED <<registry, prov, threads, node, cache, cancelled, main>>

InsertPorts(c) ==
    /\ callers[c] = "insert" /\ cache' = [locked |-> None, filled |-> TRUE]
    /\ callers' = [callers EXCEPT ![c] = "done"]
    /\ UNCHANGED <<registry, prov, ipc, cancelled, main>>

Call(c) == consumer_ports(c) \/ open_consumer_ports(c) \/ spawn_response_dispatcher(c) \/ InsertPorts(c)

-----------------------------------------------------------------------------
(* main: the body of #[ice_rpc::main], then shutdown_and_release.          *)

BodyEnds ==
    MainAwaits => (\A p \in Providers : prov[p].pc = "ended") /\ (\A c \in Callers : callers[c] = "done")

cancel ==
    /\ main.pc = "body" /\ BodyEnds /\ cancelled' = TRUE /\ main' = [main EXCEPT !.pc = "handles"]
    /\ UNCHANGED <<registry, prov, ipc, callers, cache>>

\* join_all takes the dispatchers, then the channel threads, and joins them.
Dispatchers == {i \in handles : threads[i].table = {}}
Take(from, to, taken) ==
    /\ main.pc = from /\ main' = [pc |-> to, joins |-> main.joins \cup taken] /\ handles' = handles \ taken
    /\ UNCHANGED <<registry, prov, threads, spawned, node, callers, cache, cancelled>>

ThreadsToJoin == handles \ Dispatchers
join_all == Take("handles", "threads", Dispatchers) \/ Take("threads", "join", ThreadsToJoin)

Joined ==
    /\ main.pc = "join" /\ \A i \in main.joins : threads[i].state = "done"
    /\ main' = [main EXCEPT !.pc = "ports"]
    /\ UNCHANGED <<registry, prov, ipc, callers, cache, cancelled>>

PortsReleased == FALSE
release_process_ports ==
    /\ main.pc = "ports" /\ cache.locked = None /\ cache' = [cache EXCEPT !.filled = PortsReleased]
    /\ main' = [main EXCEPT !.pc = "node"]
    /\ UNCHANGED <<registry, prov, ipc, callers, cancelled>>

release_shared_node ==
    /\ main.pc = "node" /\ node' = "empty" /\ main' = [main EXCEPT !.pc = "exit"]
    /\ UNCHANGED <<registry, prov, threads, handles, spawned, callers, cache, cancelled>>

Main == cancel \/ join_all \/ Joined \/ release_process_ports \/ release_shared_node

-----------------------------------------------------------------------------
Next ==
    /\ Alive
    /\ \/ \E p \in Providers : Provide(p)
       \/ \E i \in DOMAIN threads : Open(i) \/ Stop(i) \/ request_shutdown(i)
       \/ \E c \in Callers : Call(c)
       \/ Main

\* Every task is polled and every thread is scheduled; no signal need come.
MaxThreads == Cardinality(Services) + Cardinality(Callers)
Fairness ==
    /\ WF_vars(Main /\ Alive)
    /\ \A p \in Providers : WF_vars(Provide(p) /\ Alive)
    /\ \A c \in Callers : WF_vars(Call(c) /\ Alive)
    /\ \A i \in 1..MaxThreads : WF_vars(i \in DOMAIN threads /\ (Open(i) \/ Stop(i)) /\ Alive)

Spec == Init /\ [][Next]_vars /\ Fairness

-----------------------------------------------------------------------------
Running(i) == threads[i].state # "done"
Providing == {i \in DOMAIN threads : threads[i].table # {}}

\* A service is served by one thread at most, however many tasks initialize the
\* registry that holds it: two threads would answer every call of it twice
\* (server_started and the dispatcher's take in the generated init).
ServedOnce == \A i, j \in Providing : i # j => threads[i].table \cap threads[j].table = {}

\* No dispatch table holds two services of one id, of which it would keep only
\* the last ("two services must never race into a duplicate service_id",
\* register_native_service).
TablesUnambiguous ==
    \A i \in Providing : \A s, t \in threads[i].table : IdOf[s] = IdOf[t] => s = t

\* When the only provider of the process fails to initialize a service, no
\* channel of the process ever serves, not even for the services initialized
\* before it (initialize_all returns before start_registered_channels).
FailureServesNothing == (\A p \in Providers : prov[p].failed) => Providing = {}

\* A provider that reports ready has started a thread for each of its services,
\* whatever order and channels they have (start_registered_channels drains the
\* registry before run_provider_inner logs "All services are ready").
ReadyMeansServed ==
    \A p \in Providers : prov[p].pc = "waiting" /\ ~prov[p].failed =>
        \A s \in Provides[p] : \E i \in Providing : s \in threads[i].table

\* A channel is opened once, however many tasks call on it at the same time
\* ("Held across creation so two threads never open the same channel twice",
\* consumer_ports).
OpenedOnce == \A i, j \in DOMAIN threads \ Providing : i = j

\* When a main that awaits its provider returns, no IPC thread runs, the port
\* cache is empty and the node is gone, so that iceoryx2 unlinks all the process
\* created ("Clean shutdown: cancels the tokens, waits for the IPC threads,
\* releases the node", ShutdownGuard::shutdown).
CleanExit == ~Alive => ~cache.filled /\ node = "empty" /\ \A i \in DOMAIN threads : ~Running(i)

\* A service is served by one thread, under an id of its own, and by none when all
\* providers failed; a provider that is alone and says it is ready serves all its
\* services. Until the ports are released a channel is opened once however many
\* tasks call on it; a main that awaits its tasks opens no other later, and leaves
\* no thread, port or node behind (run_provider, register_native_service,
\* consumer_ports, ShutdownGuard::shutdown).
StartupSound ==
    /\ ServedOnce /\ TablesUnambiguous /\ FailureServesNothing
    /\ (\A p, q \in Providers : p = q) => ReadyMeansServed
    /\ MainAwaits \/ main.pc \notin {"node", "exit"} => OpenedOnce
    /\ MainAwaits => CleanExit

===============================================================================
