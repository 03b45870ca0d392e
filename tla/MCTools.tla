---------------------------------- MODULE MCTools ----------------------------------
(***************************************************************************)
(* The programs around the library, side by side: the monitor and the      *)
(* Node.js bridge.  A behaviour of this module is a behaviour of one of    *)
(* their components, named by scene, while the others rest in their        *)
(* initial states (those that have many, in none: 0).                      *)
(***************************************************************************)
EXTENDS JsonHost, Integers, SequencesExt, FiniteSetsExt, Functions, TLC

VARIABLES scene, bus, queue, views, at, mon, services, nodes, events, deaths, pass, known,
          attached, discovery_errors, pids, snapshot, gauges, screened, sink, flag, slot,
          handlers, polling, main, obs, writer, screen, traced, sender, lines, hand,
          written, failed, dropped, recent, input, output, served, tables, cell, bridges,
          handed, pushed, http_input, parsed, requests, cache, built, phase, bridge, guard,
          script, proxy, taken, inits, shutdowns, queued, sealed, threads, cancelled, task,
          waiting, ports, dispatch, handles, joins, pool_cancelled, uses, retries, went

tables_vars == <<bus, queue, views, at, mon>>
health_vars == <<services, nodes, events, deaths, pass, known, attached, discovery_errors,
                 pids, snapshot, gauges>>
process_vars == <<screened, sink, flag, slot, handlers, polling, main, obs, writer, screen,
                  traced, sender, lines, hand, written, failed, dropped, recent>>
view_vars == <<input, output>>
table_vars == <<served, tables, cell, bridges, handed, pushed>>
http_vars == <<http_input, parsed>>
call_vars == <<requests, cache, built>>
gate_vars == <<phase, bridge, guard, script, proxy, taken, inits, shutdowns, queued, sealed,
               threads, cancelled>>
pool_vars == <<task, waiting, ports, dispatch, handles, joins, pool_cancelled, uses,
               retries, went>>

\* Values that are also flags are among the words on purpose.
Words == {"--channel", "--detail-channel", "--mode", "--live", "--max-inflight", "7", "detail", "--help"}
MCArgs == UNION {[1..n -> Words] : n \in 0..4}
MCSamples == UNION {[1..n -> {1, 2, 3, 5}] : n \in 0..2}
Lines(kind, n, width) == [i \in 1..n |-> [text |-> <<kind, i>>, width |-> width]]
MCFrames ==
    {[metrics |-> Lines("metric", a, 6), messages |-> Lines("message", b, w),
      max_lines |-> max, max_width |-> 4] : a \in 1..14, b \in 0..5, w \in {3, 6}, max \in 8..12}

\* Slash and two letters; `%`, `+`, two digits and a letter that is no digit; a
\* letter and the bytes with a meaning in a query, `=` also inside a text.
MCPaths == UNION {[1..n -> {47, 97, 98}] : n \in 0..5}
MCEncoded == UNION {[1..n -> {37, 43, 49, 52, 71}] : n \in 0..4}
MCPlain == {<<>>, <<38>>, <<37>>, <<43>>, <<32>>, <<97, 61, 97>>, <<37, 52, 49>>}

\* The calls of the three scenes of JsonHost.
DistinctIds == [a |-> 1, b |-> 2, w |-> 3]
ClashingIds == [a |-> 1, b |-> 1]

Tables == INSTANCE Observer WITH
    Calls <- {"c1", "c2"}, ReqPubs <- {"k1"}, RespPubs <- {"p1"}, BufferSize <- 1,
    DRAIN_BUDGET <- 1, MAX_DEFERRED <- 1, MAX_DEFERRED_SAMPLES <- 1, max_inflight <- 1,
    ORPHAN_GRACE <- 1, call_ttl <- 1, Kinds <- {"next", "complete"}, Stamps <- {0, 2},
    MaxResponses <- 1, MaxCancels <- 0
OneCall == INSTANCE Observer WITH
    Calls <- {"c1"}, ReqPubs <- {"k1"}, RespPubs <- {"p1"}, BufferSize <- 1, DRAIN_BUDGET <- 1,
    MAX_DEFERRED <- 1, MAX_DEFERRED_SAMPLES <- 1, max_inflight <- 1, ORPHAN_GRACE <- 1,
    call_ttl <- 1, Kinds <- {"next", "complete"}, Stamps <- {0, 2}, MaxResponses <- 3,
    MaxCancels <- 0
Loss == INSTANCE Observer WITH
    Calls <- {"c1", "c2"}, ReqPubs <- {"k1"}, RespPubs <- {"p1"}, BufferSize <- 2,
    DRAIN_BUDGET <- 1, MAX_DEFERRED <- 1, MAX_DEFERRED_SAMPLES <- 1, max_inflight <- 1,
    ORPHAN_GRACE <- 1, call_ttl <- 1, Kinds <- {}, Stamps <- {}, MaxResponses <- 0,
    MaxCancels <- 2
Leave == INSTANCE Observer WITH
    Calls <- {"c1", "c2"}, ReqPubs <- {"k1"}, RespPubs <- {"p1"}, BufferSize <- 1,
    DRAIN_BUDGET <- 1, MAX_DEFERRED <- 1, MAX_DEFERRED_SAMPLES <- 1, max_inflight <- 1,
    ORPHAN_GRACE <- 1, call_ttl <- 1, Kinds <- {"next", "complete"}, Stamps <- {2},
    MaxResponses <- 1, MaxCancels <- 0
Health == INSTANCE ObserverHealth WITH
    Channels <- {"a"}, Configured <- {}, Pids <- {"p1", "p2"},
    MayFail <- {"channels", "nodes"}, MaxEvents <- 3, MaxScans <- 1, views <- attached,
    at <- pass
Process == INSTANCE ObserverProcess WITH
    Sinks <- {"none", "memory", "file"}, TRACE_QUEUE <- 1, RECENT_KEEP <- 2,
    trace_sample_rate <- 2, MaxCompleted <- 6, queue <- lines, live <- screened
View == INSTANCE ObserverView WITH
    Args <- MCArgs, Samples <- MCSamples, Bounds <- <<1, 2, 4>>, Frames <- MCFrames
Table == INSTANCE JsonHost WITH
    CidOf <- DistinctIds, MaxPending <- 2, MaxEvents <- 1, MaxBridges <- 2,
    Calls <- {"a", "b", "w"}, OneWay <- {"w"}, JsValues <- {Object({"data"}, "value")},
    calls <- served, pending <- tables, live <- cell, created <- bridges, told <- handed,
    sent <- pushed
FewValues == {Object({}, "null"), Object({"data"}, "value"), Object({"data"}, "misfit")}
Ending == INSTANCE JsonHost WITH
    CidOf <- ClashingIds, MaxPending <- 2, MaxEvents <- 1, MaxBridges <- 2,
    Calls <- {"a", "b"}, OneWay <- {}, JsValues <- FewValues, calls <- served,
    pending <- tables, live <- cell, created <- bridges, told <- handed, sent <- pushed
Http == INSTANCE HttpText WITH
    Paths <- MCPaths, Encoded <- MCEncoded, Plain <- MCPlain, input <- http_input,
    out <- parsed
C == INSTANCE JsonCall WITH Requests <- {}, Inputs <- {}, Registered <- {}, MaxEvents <- 0, calls <- requests
NoQuery == [k \in {} |-> ""]
HttpInput(verb, service, method, query, body, given) ==
    [front |-> "http", origin |-> TRUE, verb |-> verb, service |-> service, method |-> method,
     query |-> query, body |-> body, read |-> "First", sent |-> given]
NodeInput(service, method, body, read, given) ==
    [front |-> "node", origin |-> TRUE, verb |-> "", service |-> service, method |-> method,
     query |-> NoQuery, body |-> body, read |-> read, sent |-> given]

\* Every value of every type, and every tuple of arguments of a method.
ValuesOf(type) ==
    CASE type = "String" -> {"", "Alice", "42", "null"}
      [] type = "bytes" -> C!Bytes
      [] type = "Option" -> {"None", "42"}
      [] type = "bool" -> {"true", "false"}
      [] type = "i64" -> {"42", "1234"}
Tuples(m) ==
    LET types == C!Methods[m].types
        values == UNION {ValuesOf(t) : t \in {"String", "bytes", "Option", "bool", "i64"}}
    IN  {t \in [1..Len(types) -> values] : \A i \in 1..Len(types) : t[i] \in ValuesOf(types[i])}

\* Requests that carry the arguments the way the provider would write them.
Canonical ==
    UNION {{HttpInput("POST", "db", m, NoQuery, C!deserialize_request_to_value(m, t), <<t>>) : t \in Tuples(m)}
           \cup {NodeInput("db", m, C!deserialize_request_to_value(m, t), read, <<t>>) :
                 t \in Tuples(m), read \in {"First", "All"}} : m \in DOMAIN C!Methods}

\* Values of every kind where a method expects others, and objects with a field
\* missing or of another type.
Odd == {C!Null, C!J("str", "Alice"), C!J("str", "QQ=="), C!J("num", "42"), C!J("num", "1.5"), C!J("bool", "true"),
        C!Obj(<<>>), C!Obj([name |-> C!J("str", "Alice")]),
        C!Obj([name |-> C!J("str", "Alice"), key |-> C!J("str", "QQ==")]),
        C!Obj([name |-> C!Null, limit |-> C!J("num", "1.5"), key |-> C!J("num", "42")]),
        C!Obj([on |-> C!J("bool", "true"), id |-> C!J("num", "1.5")])}
Misfits ==
    {HttpInput("POST", "db", m, NoQuery, j, <<>>) : m \in DOMAIN C!Methods, j \in Odd}
    \cup {NodeInput("db", m, j, "First", <<>>) : m \in DOMAIN C!Methods, j \in Odd}
    \cup {NodeInput("nobody", "ping", C!Null, "First", <<>>), NodeInput("db", "nothing", C!Null, "All", <<>>)}
    \cup {HttpInput(verb, s, m, NoQuery, C!Null, <<>>) :
          verb \in {"GET", "POST", "PUT"}, s \in {"", "db", "nobody"}, m \in {"ping", "nothing"}}
    \cup {[HttpInput("GET", "db", "ping", NoQuery, C!Null, <<>>) EXCEPT !.origin = FALSE]}
    \cup {HttpInput("GET", "db", "find", [name |-> "Alice", limit |-> t, key |-> "QQ=="], C!Null, <<>>) :
          t \in {"", "none", "42", "1.5"}}

\* A few requests, for two that run at once.
FewInputs ==
    {HttpInput("GET", "db", "age", [name |-> "Alice"], C!Null, <<>>),
     HttpInput("GET", "nobody", "age", NoQuery, C!Null, <<>>),
     NodeInput("db", "age", C!J("str", "Alice"), "All", <<>>),
     NodeInput("db", "note", C!Obj([on |-> C!J("bool", "true"), id |-> C!J("num", "42")]), "First", <<>>)}
Call == INSTANCE JsonCall WITH
    Requests <- {"r1"}, Inputs <- Canonical \cup Misfits, Registered <- {}, MaxEvents <- 3,
    calls <- requests
Race == INSTANCE JsonCall WITH
    Requests <- {"r1", "r2"}, Inputs <- FewInputs, Registered <- {"db"}, MaxEvents <- 2,
    calls <- requests
Gate == INSTANCE Gateway WITH
    MaxRegistrations <- 1, MaxInits <- 2, MaxShutdowns <- 2, js <- script
Pool == INSTANCE NodePool WITH
    Calls <- {"c1", "c2", "c3"}, Endless <- {"c3"}, Threads <- 2, MaxRetries <- 1,
    queue <- waiting, cancelled <- pool_cancelled, cached <- ports, registered <- handles,
    on <- uses, out <- went

-----------------------------------------------------------------------------
SceneInit ==
    /\ scene \in {"tables", "one_call", "loss", "calls", "health", "process", "view", "json",
                 "json_table", "json_ends", "http", "call", "calls_race", "gateway", "pool"}
    /\ IF scene = "calls" THEN Leave!Init ELSE IF scene = "loss" THEN Loss!Init ELSE IF scene = "one_call" THEN OneCall!Init ELSE Tables!Init
    /\ Health!Init
    /\ Process!Init
    /\ scene # "process" => screened = FALSE /\ sink = "none"
    /\ IF scene = "view" THEN View!Init ELSE input = 0 /\ output = 0
    /\ Init
    /\ IF scene = "json_ends" THEN Ending!Init ELSE Table!Init
    /\ IF scene = "http" THEN Http!Init ELSE http_input = 0 /\ parsed = 0
    /\ IF scene = "calls_race" THEN Race!Init ELSE Call!Init
    /\ Gate!Init
    /\ Pool!Init

TablesNext == scene = "tables" /\ Tables!Next
    /\ UNCHANGED <<scene, health_vars, process_vars, view_vars, vars, table_vars, http_vars,
                   call_vars, gate_vars, pool_vars>>
OneCallNext == scene = "one_call" /\ OneCall!Next
    /\ UNCHANGED <<scene, health_vars, process_vars, view_vars, vars, table_vars, http_vars,
                   call_vars, gate_vars, pool_vars>>
LossNext == scene = "loss" /\ Loss!Next
    /\ UNCHANGED <<scene, health_vars, process_vars, view_vars, vars, table_vars, http_vars,
                   call_vars, gate_vars, pool_vars>>
LeaveNext == scene = "calls" /\ Leave!Next
    /\ UNCHANGED <<scene, health_vars, process_vars, view_vars, vars, table_vars, http_vars,
                   call_vars, gate_vars, pool_vars>>
HealthNext == scene = "health" /\ Health!Next
    /\ UNCHANGED <<scene, tables_vars, process_vars, view_vars, vars, table_vars, http_vars,
                   call_vars, gate_vars, pool_vars>>
ProcessNext == scene = "process" /\ Process!Next
    /\ UNCHANGED <<scene, tables_vars, health_vars, view_vars, vars, table_vars, http_vars,
                   call_vars, gate_vars, pool_vars>>
ViewNext == scene = "view" /\ View!Next
    /\ UNCHANGED <<scene, tables_vars, health_vars, process_vars, vars, table_vars,
                   http_vars, call_vars, gate_vars, pool_vars>>
HostNext == scene = "json" /\ Next
    /\ UNCHANGED <<scene, tables_vars, health_vars, process_vars, view_vars, table_vars,
                   http_vars, call_vars, gate_vars, pool_vars>>
TableNext == scene = "json_table" /\ Table!Next
    /\ UNCHANGED <<scene, tables_vars, health_vars, process_vars, view_vars, vars,
                   http_vars, call_vars, gate_vars, pool_vars>>
EndingNext == scene = "json_ends" /\ Ending!Next
    /\ UNCHANGED <<scene, tables_vars, health_vars, process_vars, view_vars, vars,
                   http_vars, call_vars, gate_vars, pool_vars>>
HttpNext == scene = "http" /\ Http!Next
    /\ UNCHANGED <<scene, tables_vars, health_vars, process_vars, view_vars, vars,
                   table_vars, call_vars, gate_vars, pool_vars>>
CallNext == scene = "call" /\ Call!Next
    /\ UNCHANGED <<scene, tables_vars, health_vars, process_vars, view_vars, vars,
                   table_vars, http_vars, gate_vars, pool_vars>>
RaceNext == scene = "calls_race" /\ Race!Next
    /\ UNCHANGED <<scene, tables_vars, health_vars, process_vars, view_vars, vars,
                   table_vars, http_vars, gate_vars, pool_vars>>
GateNext == scene = "gateway" /\ Gate!Next
    /\ UNCHANGED <<scene, tables_vars, health_vars, process_vars, view_vars, vars,
                   table_vars, http_vars, call_vars, pool_vars>>
PoolNext == scene = "pool" /\ Pool!Next
    /\ UNCHANGED <<scene, tables_vars, health_vars, process_vars, view_vars, vars,
                   table_vars, http_vars, call_vars, gate_vars>>

SceneNext == TablesNext \/ OneCallNext \/ LossNext \/ LeaveNext \/ HealthNext \/ ProcessNext
             \/ ViewNext \/ HostNext \/ TableNext \/ EndingNext \/ HttpNext \/ CallNext \/
             RaceNext \/ GateNext \/ PoolNext
all == <<scene, tables_vars, health_vars, process_vars, view_vars, vars, table_vars,
         http_vars, call_vars, gate_vars, pool_vars>>

\* The observer's thread keeps looping and time passes.  A pass that finds the
\* sweep due runs it, so the sweep is not passed over for ever.
LeaveFair == WF_tables_vars(scene = "calls" /\ Leave!Loop) /\ WF_tables_vars(scene = "calls" /\ Leave!Tick)
SweepsComeDue == SF_tables_vars(scene = "calls" /\ Leave!Sweep)

\* The pass goes on.  Its intervals elapse again and again, and a listing that
\* fails works again later.
HealthFair == WF_health_vars(scene = "health" /\ Health!Loop)
ListingsWork ==
    SF_health_vars(scene = "health" /\ Health!ListWorks) /\ SF_health_vars(scene = "health" /\ Health!Attach)
LivenessScansWork == SF_health_vars(scene = "health" /\ Health!LivenessWorks)

\* The threads of the monitor's process run.
ProcessFair ==
    /\ WF_process_vars(scene = "process" /\ Process!Main) /\ WF_process_vars(scene = "process" /\ Process!Observe)
    /\ WF_process_vars(scene = "process" /\ Process!WriteTraces)
    /\ WF_process_vars(scene = "process" /\ Process!Poll)

\* The executor runs the handler of every call.
EndingFair == \A c \in {"a", "b"} : WF_table_vars(scene = "json_ends" /\ Ending!Serve(c))

\* The executor runs every request.
RaceFair == \A r \in {"r1", "r2"} : WF_call_vars(scene = "calls_race" /\ Race!invoke_service(r))

\* The pool runs its tasks and a stopped thread ends.
GateFair ==
    /\ WF_gate_vars(scene = "gateway" /\ Gate!Pool)
    /\ WF_gate_vars(scene = "gateway" /\ \E t \in DOMAIN threads : Gate!ThreadStops(t))

\* The threads of the pool and of the channel run, and a service answers (LiveSpec
\* of NodePool).
PoolFair ==
    /\ WF_pool_vars(scene = "pool" /\ Pool!Take)
    /\ WF_pool_vars(scene = "pool" /\ Pool!shutdown_and_release)
    /\ WF_pool_vars(scene = "pool" /\ \E i \in DOMAIN dispatch : Pool!ThreadStops(i))
    /\ \A c \in {"c1", "c2", "c3"} : /\ WF_pool_vars(scene = "pool" /\ Pool!Compute(c))
                                     /\ WF_pool_vars(scene = "pool" /\ Pool!Respond(c))

SceneSpec ==
    /\ SceneInit /\ [][SceneNext]_all
    /\ LeaveFair /\ HealthFair /\ ProcessFair /\ EndingFair /\ RaceFair /\ GateFair /\
       PoolFair
-----------------------------------------------------------------------------
(* Calls and held responses leave the tables (Observer).                   *)
\* A tracked call leaves the table: answered, evicted or past its TTL (sweep).
CallsLeave ==
    SweepsComeDue => []<>(scene = "calls" => mon.entries = <<>>)

\* A held response is paired or given up (resolve_deferred).
HeldSettles ==
    SweepsComeDue => []<>(scene = "calls" => mon.deferred = <<>>)

(* Discovery and liveness (ObserverHealth).                                *)
\* An emitter that stays dead is reported as dead, while the scans for emitters
\* can tell (check_liveness).
DeathIsSeen ==
    LivenessScansWork => \A p \in {"p1", "p2"} :
        <>[](scene = "health" /\ p \in DOMAIN pids /\ nodes[p] = "dead") => <>[](p \in DOMAIN pids /\ ~pids[p])

\* A service that stays gets observed (attach_known_channels is retried).
ServiceIsObserved ==
    ListingsWork =>
        (<>[](scene = "health" /\ <<"a", "req">> \in services) => []<>(<<"a", "req">> \in ToSet(attached)))

(* The process of the monitor (ObserverProcess).                           *)
\* A termination signal ends the process, whatever could be registered and
\* however busy the sink is (shutdown.rs, main.rs).
SignalEnds ==
    []<>(scene = "process" /\ (flag \/ slot) => main = "exit")

(* Calls served by JavaScript end (JsonHost), two under one correlation id.*)
\* A call JavaScript never answers ends all the same (JSON_CALL_TIMEOUT).
UnansweredEnds ==
    []<>(scene = "json_ends" => \A c \in {"a", "b"} : ~(served[c].pc = "reading" /\ pushed[c] = <<>>))

\* A call JavaScript resolved, or whose bridge is gone, ends (PendingCalls::take
\* drops the sender, which closes the stream).
ClosedEnds ==
    []<>(scene = "json_ends" => \A c \in {"a", "b"} :
                 ~(served[c].pc = "reading"
                   /\ (cell # served[c].bridge \/ (pushed[c] # <<>> /\ Last(pushed[c]).op = "resolve"))))

(* Two calls at once (JsonCall).                                           *)
\* A single-value request is answered once its stream has an event, even when
\* the service goes on streaming and never completes (ReadMode::First).
EndlessIsAnswered ==
    []<>(scene = "calls_race" => \A r \in {"r1", "r2"} :
             ~(requests[r].pc = "reading" /\ requests[r].in.read = "First" /\ requests[r].stream # <<>>))

(* The life of a gateway (Gateway).                                        *)
\* A shutdown JavaScript asked for completes, whatever is called meanwhile
\* (ShutdownTask, shutdown_and_release).
GatewayShutdownCompletes ==
    []<>(scene = "gateway" => \A k \in DOMAIN shutdowns : shutdowns[k].pc = "done")

(* Calls and a shutdown in the pool of Node.js (NodePool).                 *)
\* A requested shutdown completes, with calls before and behind it in the queue of
\* the pool, as long as fewer calls never end than the pool has threads.
ShutdownSettles ==
    []<>(scene = "pool" => task[Pool!Shutdown] \in {"idle", "settled"})

\* Once the tokens are cancelled every response thread stops, those the shutdown
\* does not wait for included.
ThreadsStop ==
    []<>(scene = "pool" /\ pool_cancelled => \A i \in DOMAIN dispatch : dispatch[i] = "gone")

\* A call is answered, fails or is cancelled, unless its service never ends the
\* stream or a shutdown stops the thread that would have dispatched its answer.
UncutCallsSettle ==
    []<>(scene = "pool" => \A c \in {"c1", "c2", "c3"} :
             task[c] \in {"idle", "settled"} \/ (task[c] = "open" /\ (pool_cancelled \/ c = "c3")))

-----------------------------------------------------------------------------
\* The monitor counts right on a bus that skips it: the gauge is the table, every
\* request is in flight, closed or unmatched, a call has one latency, no hole in the
\* sequence numbers goes uncounted and none is made up while they arrive in order,
\* and no table passes its limit (collector.rs, correlate.rs, loss.rs).
MonitorCounts ==
    /\ scene = "tables" => /\ Tables!GaugeIsExact
                           /\ Tables!LatencyOnce
                           /\ Tables!LossesAreCounted
                           /\ Tables!TablesBounded
    /\ scene = "one_call" => /\ OneCall!GaugeIsExact
                             /\ OneCall!LatencyOnce
                             /\ OneCall!LossesAreCounted
                             /\ OneCall!TablesBounded
    /\ scene = "loss" => Loss!GaugeIsExact /\ Loss!LossesAreCounted

\* The health the monitor reports is that of its own views, a direction is observed
\* once, a failed listing drops nothing, and while the scans for emitters can tell
\* no crash is counted twice (attach_known_channels, check_liveness).
HealthIsTrue ==
    /\ scene = "health" => /\ Health!AttachmentTruth
                           /\ Health!OneViewPerDirection
                           /\ Health!ObservedIsKnown
                           /\ Health!CrashesAreReal

\* A trace record is written, refused by the output, queued or counted as dropped, and
\* when the process has exited none is left queued and the terminal is as it was,
\* whenever the signal came (TraceSink, LiveConsole, main).
MonitorLosesNothing ==
    /\ scene = "process" => /\ Process!NoRecordLost
                            /\ Process!ExitFlushes
                            /\ Process!TerminalRestored
                            /\ Process!RecentIsLatest

\* Arguments mean what the reference reading says, a quantile is the bound of the
\* bucket its rank falls in, and a frame fits the screen with its first and last
\* lines and the latest messages (config.rs, metrics.rs, console.rs).
ViewIsRight ==
    /\ scene = "view" => /\ View!ConfigMeansArgs
                         /\ View!QuantileIsTight
                         /\ View!FrameFits
                         /\ View!EndsSurvive
                         /\ View!LatestShown

\* A request from HTTP or JavaScript reaches the method and the arguments it spells,
\* one that is refused publishes nothing, and the answer is what its stream said
\* (http_gateway.rs, json.rs, codegen/json.rs).
RequestsAreRead ==
    /\ scene = "http" => Http!RouteIsWhole /\ Http!DecodeIsTotal /\ Http!QueryIsRead
    /\ scene = "call" => /\ Call!ConventionsAgree
                         /\ Call!RefusedIsUnpublished
                         /\ Call!AnswerFollowsStream

\* An init that is refused changes nothing, a running gateway holds its bridge, and
\* no call is served before the bridge it needs is there (state.rs, napi_api.rs).
GatewaySound ==
    scene = "gateway" => Gate!GatewaySound

\* Two first requests end up with the one cached view; only calls that had read the
\* tokens send under cancelled ones, fewer than the pool has threads; a shutdown ends
\* after every thread that could answer a request that went out; a call the table of
\* open calls has no room for ends with an error (get_or_create,
\* publish_until_delivered, shutdown_and_release, PendingCalls::insert).
NodeSharesSafely ==
    [][/\ scene = "json_table" => (Table!NoSilentEnd)'
       /\ scene = "calls_race" => Race!CachedViewStays
       /\ scene = "pool" => (Pool!ReleasedAfterThreads)' /\ (Pool!LateSendsAreFew)']_all

\* Calls and held responses leave the tables, a service that stays is observed, a
\* process that stays dead is reported, and a signal ends the monitor.
MonitorSettles ==
    CallsLeave /\ HeldSettles /\ DeathIsSeen /\ ServiceIsObserved /\ SignalEnds

\* A call ends although JavaScript never answers or its bridge is gone, a single-value
\* request is answered from a stream without end, every shutdown completes as long as
\* fewer calls never end than the pool has threads, and in the end no response thread
\* is left, joined or not.
NodeSettles ==
    /\ UnansweredEnds
    /\ ClosedEnds
    /\ EndlessIsAnswered
    /\ GatewayShutdownCompletes
    /\ ShutdownSettles
    /\ ThreadsStop
    /\ UncutCallsSettle
=============================================================================
