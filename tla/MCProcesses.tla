-------------------------------- MODULE MCProcesses --------------------------------
(***************************************************************************)
(* Processes and the calls between them, side by side: the ports they open *)
(* (ChannelPorts), their start and stop, the locator, the context of a     *)
(* call, and the code #[service] generates.  A behaviour of this module is *)
(* a behaviour of one of these components, named by scene, while the       *)
(* others rest in their initial states (those that have many, in none: 0). *)
(***************************************************************************)
EXTENDS ChannelPorts, FiniteSets, FiniteSetsExt, SequencesExt, TLC

VARIABLES scene, names, graph, order, deps, entries, prov, lock, started, sealed, pending, threads,
          handles, spawned, callers, cache, node_slot, stopped, main, entry, cached, built,
          registers, get, requests, tasks, running, current, token, frames, minted, in, pc,
          req, ran, wire, got, said, input, model

graph_vars == <<names, graph, order>>
start_vars == <<deps, entries, prov, lock, started, sealed, pending, threads, handles,
                spawned, callers, cache, node_slot, stopped, main>>
loc_vars == <<entry, cached, built, registers, get>>
ctx_vars == <<requests, tasks, running, current, token, frames, minted>>
call_vars == <<in, pc, req, ran, wire, got, said>>
macro_vars == <<input, model>>

\* A parameter of #[service].
Param(key, value) == [key |-> key, value |-> value]

\* The order of initialization, of three services and an external name (InitOrder).
Graph == INSTANCE InitOrder WITH Services <- {"a", "b", "c"}, External <- {"x"}
InitOrderOf(listing, needs) == Graph!topological_order(listing, needs)

\* The provider resolves another iceoryx2 configuration than its clients.
MCServices == <<"req", "resp">>
MCViewed == <<"resp">>
MCConfigOf == [p \in Procs |-> IF p \in Providers THEN "b" ELSE "a"]

\* A chain, and a cycle with a service that depends on it.
MCDeps == {[a |-> {"b"}, b |-> {"c"}, c |-> {}], [a |-> {"b"}, b |-> {"a"}, c |-> {"a"}]}

\* Builds of one service: methods reordered, removed, retyped or made one-way, with
\* and without a new version, under method ids that are distinct and that collide.
Two(name, args) == [name |-> name, args |-> args, oneway |-> FALSE]
One(name, args) == [name |-> name, args |-> args, oneway |-> TRUE]
MethodTables ==
    { <<Two("get", "key"), Two("del", "key"), One("note", "text")>>,
      <<Two("del", "key"), Two("get", "key"), One("note", "text")>>,
      <<Two("get", "key"), One("note", "text")>>,
      <<Two("get", "text"), Two("del", "key"), One("note", "text")>>,
      <<Two("get", "key"), One("del", "key"), Two("note", "text")>> }
Contracts == [version : {1, 2}, methods : MethodTables]
Event(kind, value) == [kind |-> kind, value |-> value]
Complete == Event("Complete", "")
Streams ==
    { <<Complete>>, <<Event("Next", "a"), Complete>>, <<Event("Next", "a"), Event("Error", "no")>>,
      <<Event("Next", "a"), Event("Next", "b"), Complete>>, <<Event("technical", "Internal")>> }
MethodIds ==
    { [get |-> 1, del |-> 2, note |-> 3], [get |-> 1, del |-> 1, note |-> 3],
      [get |-> 1, del |-> 2, note |-> 1] }
CallInputs ==
    { i \in [mode : {"Provider", "ProviderJson", "Consumer"},
             form : {"async", "blocking", "trait", "inherent"},
             name : {"get", "del", "note"}, consumer : Contracts, provider : Contracts,
             ids : MethodIds, stream : Streams, hosted : BOOLEAN, protocol : {1, 2}] :
        /\ i.mode # "Consumer" => i.provider = i.consumer /\ i.hosted /\ i.protocol = 1
        /\ ~i.hosted \/ i.protocol # 1 => i.provider = i.consumer }

Start == INSTANCE Startup WITH
    Services <- {"a", "b", "c"}, topological_order <- InitOrderOf, Providers <- {"p1"},
    Provides <- [p1 |-> {"a", "b", "c"}], ChannelOf <- [a |-> "ab", b |-> "ab", c |-> "c"],
    IdOf <- [a |-> 1, b |-> 2, c |-> 3], Json <- {}, Deps <- MCDeps, Callers <- {"k1", "k2"},
    Attempts <- 1, MainAwaits <- TRUE, MayFail <- TRUE, cancelled <- stopped,
    node <- node_slot
Starts == INSTANCE Startup WITH
    Services <- {"a", "b"}, topological_order <- InitOrderOf, Providers <- {"p1", "p2"},
    Provides <- [p1 |-> {"a"}, p2 |-> {"b"}], ChannelOf <- [a |-> "ab", b |-> "ab"],
    IdOf <- [a |-> 1, b |-> 1], Json <- {"b"}, Deps <- {[a |-> {}, b |-> {}]}, Callers <- {},
    Attempts <- 1, MainAwaits <- TRUE, MayFail <- FALSE, cancelled <- stopped,
    node <- node_slot
Loc == INSTANCE Locator WITH
    Getters <- {"g1", "g2", "g3"},
    TypeOf <- [g1 |-> "proxy", g2 |-> "proxy", g3 |-> "namesake"],
    Registered <- {"proxy", "namesake"}, MaxGets <- 1, MaxRegisters <- 2
Ctx == INSTANCE CallContext WITH
    Threads <- {"t1"}, Tracing <- TRUE, MaxRequests <- 3, MaxDepth <- 2, MaxIds <- 8
CtxThreads == INSTANCE CallContext WITH
    Threads <- {"t1", "t2"}, Tracing <- TRUE, MaxRequests <- 2, MaxDepth <- 2, MaxIds <- 8
CtxUntraced == INSTANCE CallContext WITH
    Threads <- {"t1", "t2"}, Tracing <- FALSE, MaxRequests <- 2, MaxDepth <- 2, MaxIds <- 8
Call == INSTANCE ServiceCall WITH
    Inputs <- CallInputs
M == INSTANCE ServiceMacro WITH Attrs <- {}, Traits <- {}, Returns <- {}, NameLen <- 2, MaxVersion <- 3
SomeNames == {<<>>, <<"a">>, <<"A", "-">>, <<"_", "a">>, <<"a", ".">>, <<"a", "a", "1">>}
Params ==
    {Param("name", n) : n \in SomeNames} \cup {Param("group", n) : n \in SomeNames}
    \cup {Param("version", v) : v \in {0, 2, 4}} \cup {Param("max_slice_len", v) : v \in {0, 1}}
    \cup {Param("blocking", 0), Param("other", 0)}
SomeAttrs == {<<>>} \cup {<<p>> : p \in Params} \cup {<<p, q>> : p, q \in Params}
SomeReturns ==
    {M!Nothing, M!Unit, M!Leaf("T"), M!Stream, M!Path("Vec", <<M!Leaf("T")>>), M!Path("Vec", <<M!Stream>>),
     M!Path("Box", <<M!Path("Vec", <<M!Stream>>)>>),
     M!Path("Box", <<M!Path("Box", <<M!Path("Vec", <<M!Stream>>)>>)>>),
     M!Path("Result", <<M!Stream, M!Leaf("X")>>), M!Path("Ref", <<M!Lifetime, M!Leaf("T")>>),
     M!Path("Vec", <<M!Path("Ref", <<M!Lifetime, M!Leaf("T")>>)>>)}
Macro == INSTANCE ServiceMacro WITH
    Attrs <- SomeAttrs, Traits <- {<<"A">>, <<"A", "a">>, <<"A", "a", "a">>},
    Returns <- SomeReturns, NameLen <- 2, MaxVersion <- 3

\* Every dependency graph on three services and an external name, two orders the
\* HashMap of the registry may list them in.
OrderInit ==
    /\ graph \in [{"a", "b", "c"} -> SUBSET {"a", "b", "c", "x"}]
    /\ names \in {<<"a", "b", "c">>, <<"c", "a", "b">>} /\ order = <<>>
OrderStep == order = <<>> /\ order' = Graph!topological_order(names, graph) /\ UNCHANGED <<names, graph>>

-----------------------------------------------------------------------------
SceneInit ==
    /\ scene \in {"ports", "order", "startup", "two_startups", "locator", "context",
                 "context_threads", "context_untraced", "call", "macro"}
    /\ Init
    /\ IF scene = "order" THEN OrderInit ELSE names = 0 /\ graph = 0 /\ order = 0
    /\ (IF scene = "two_startups" THEN Starts!Init ELSE Start!Init)
    /\ scene # "startup" /\ scene # "two_startups" => deps = [a |-> {"b"}, b |-> {"c"}, c |-> {}]
    /\ Loc!Init
    /\ IF scene = "context_untraced" THEN CtxUntraced!Init ELSE IF scene = "context_threads" THEN CtxThreads!Init ELSE Ctx!Init
    /\ IF scene = "call" THEN Call!Init ELSE in = 0 /\ pc = 0 /\ req = 0 /\ ran = 0 /\ wire = 0 /\ got = 0 /\ said = 0
    /\ IF scene = "macro" THEN Macro!Init ELSE input = 0 /\ model = 0

PortsNext == scene = "ports" /\ Next
    /\ UNCHANGED <<scene, graph_vars, start_vars, loc_vars, ctx_vars, call_vars, macro_vars>>
GraphNext == scene = "order" /\ OrderStep
    /\ UNCHANGED <<scene, vars, start_vars, loc_vars, ctx_vars, call_vars, macro_vars>>
StartNext == scene = "startup" /\ Start!Next
    /\ UNCHANGED <<scene, vars, graph_vars, loc_vars, ctx_vars, call_vars, macro_vars>>
StartsNext == scene = "two_startups" /\ Starts!Next
    /\ UNCHANGED <<scene, vars, graph_vars, loc_vars, ctx_vars, call_vars, macro_vars>>
LocNext == scene = "locator" /\ Loc!Next
    /\ UNCHANGED <<scene, vars, graph_vars, start_vars, ctx_vars, call_vars, macro_vars>>
CtxNext == scene = "context" /\ Ctx!Next
    /\ UNCHANGED <<scene, vars, graph_vars, start_vars, loc_vars, call_vars, macro_vars>>
CtxThreadsNext == scene = "context_threads" /\ CtxThreads!Next
    /\ UNCHANGED <<scene, vars, graph_vars, start_vars, loc_vars, call_vars, macro_vars>>
CtxUntracedNext == scene = "context_untraced" /\ CtxUntraced!Next
    /\ UNCHANGED <<scene, vars, graph_vars, start_vars, loc_vars, call_vars, macro_vars>>
CallNext == scene = "call" /\ Call!Next
    /\ UNCHANGED <<scene, vars, graph_vars, start_vars, loc_vars, ctx_vars, macro_vars>>
MacroNext == scene = "macro" /\ Macro!Next
    /\ UNCHANGED <<scene, vars, graph_vars, start_vars, loc_vars, ctx_vars, call_vars>>

SceneNext == PortsNext \/ GraphNext \/ StartNext \/ StartsNext \/ LocNext \/ CtxNext \/
             CtxThreadsNext \/ CtxUntracedNext \/ CallNext \/ MacroNext
all == <<scene, vars, graph_vars, start_vars, loc_vars, ctx_vars, call_vars, macro_vars>>

\* A process that is opening goes on (LiveSpec of ChannelPorts).
PortsFair ==
    \A p \in Procs : WF_vars(scene = "ports" /\ open_service(p)) /\ WF_vars(scene = "ports" /\ open_ports(p))

\* main, the providers, the callers and the IPC threads run (Fairness of Startup).
StartFair ==
    /\ WF_start_vars(scene = "startup" /\ Start!Main /\ Start!Alive)
    /\ WF_start_vars(scene = "startup" /\ Start!Provide("p1") /\ Start!Alive)
    /\ \A c \in {"k1", "k2"} : WF_start_vars(scene = "startup" /\ Start!Call(c) /\ Start!Alive)
    /\ \A i \in 1..Start!MaxThreads :
         WF_start_vars(scene = "startup" /\ i \in DOMAIN threads /\ (Start!Open(i) \/ Start!Stop(i)) /\ Start!Alive)

SceneSpec ==
    /\ SceneInit /\ [][SceneNext]_all
    /\ PortsFair /\ StartFair
-----------------------------------------------------------------------------
(* The services and ports of a channel (ChannelPorts).                     *)
\* Whatever the peers do, retry_open ends: with the ports, or with an error.
OpeningEnds ==
    \A p \in Procs : []<>(scene = "ports" => ~Opening(p))

(* The order of initialization (InitOrder).                                *)
\* Every service is initialized exactly once, whatever the graph: a cycle loses
\* none and repeats none (topological_order).
EachOnce ==
    scene = "order" /\ order # <<>> => Len(order) = 3 /\ ToSet(order) = {"a", "b", "c"}

\* A service that depends on no cycle comes after every local service it lists,
\* whatever order the registry lists them in; an external name never delays it
\* (topological_order, ServiceInit::dependencies).
DependenciesFirst ==
    scene = "order" /\ order # <<>> =>
        \A s \in {"a", "b", "c"} \ Graph!Blocked(graph) : \A d \in graph[s] \ {"x"} :
            Graph!Position(order, d) < Graph!Position(order, s)

(* A provider process from start to exit (Startup).                        *)
\* Once the token is cancelled the process ends: each thread main waits for
\* leaves its open or its loop (join_all: "The joins are bounded").
ShutdownCompletes ==
    []<>(scene = "startup" /\ stopped => ~Start!Alive)

-----------------------------------------------------------------------------
\* A service is served by one thread, under an id of its own, and by none when all
\* providers failed; a provider that is alone and says it is ready serves all its
\* services. A channel is opened once however many tasks call on it, and a main that
\* awaits its tasks leaves no thread, port or node behind (run_provider,
\* register_native_service, consumer_ports, ShutdownGuard::shutdown).
StartupSound ==
    /\ scene = "startup" => Start!StartupSound
    /\ scene = "two_startups" => Starts!StartupSound

\* Every service is initialized once, after the local services it depends on unless
\* they reach a cycle (topological_order).
InitializedInOrder ==
    /\ EachOnce
    /\ DependenciesFirst

\* However gets race, the cache keeps the first proxy it was given, and a get
\* answers an instance of the type that was asked for (ServiceLocator::get).
LocatorSound ==
    [][/\ scene = "locator" => Loc!CacheIsStable /\ (Loc!TypeIsRight)']_all

\* A handler sees the context and the token of its own call whatever its thread
\* polled before, and the requests it emits continue its trace: every hop names a
\* span of its caller and has one of its own (CallContext::scope, child_trace).
CallsKeepContext ==
    /\ scene = "context" => Ctx!CallsKeepContext
    /\ scene = "context_threads" => CtxThreads!CallsKeepContext
    /\ scene = "context_untraced" => CtxUntraced!CallsKeepContext

\* Whatever two builds made of a contract, the provider runs the method the caller
\* named, on the arguments it passed, or refuses; a request of another version or
\* protocol never reaches an implementation (handle_request, the generated handler).
RightMethodOrRefused ==
    scene = "call" => Call!RightMethodOrRefused /\ Call!OldPeersNeverRun

\* A call that waits is answered to the end, with an error where the provider cannot
\* serve it, and a remote call of the same contract yields what the local call does
\* (reject_undecodable, observable_to_responses, normalize_wire_event).
AnsweredAsLocal ==
    scene = "call" => Call!TypeOK /\ Call!FailFast /\ Call!ModesAgree

\* An accepted #[service] has names that fit the bus and numbers in their range,
\* reads the same in any order of its parameters, and each method has the types of
\* the stream it answers with (model.rs, codegen/helpers.rs).
MacroReads ==
    /\ scene = "macro" => /\ Macro!TypeOK
                          /\ Macro!NamesFit
                          /\ Macro!OrderIsFree
                          /\ Macro!StreamTypes

\* An opening ends whatever its peers do, and a process whose token is cancelled
\* ends (retry_open, join_all).
ProcessesSettle ==
    OpeningEnds /\ ShutdownCompletes
=============================================================================
