---------------------------- MODULE ObserverHealth ----------------------------
(***************************************************************************)
(* What the monitor knows of the machine: the channels it discovers and    *)
(* attaches to, the liveness of the processes it saw samples of            *)
(* (collector.rs, liveness.rs), the throttled inventory of the nodes       *)
(* (health.rs) and the gauges it publishes (metrics.rs).                   *)
(*                                                                         *)
(* Services and processes come and go between any two steps of the loop,   *)
(* and any scan of iceoryx2 may fail.                                      *)
(***************************************************************************)
EXTENDS SequencesExt, FiniteSetsExt, Functions, Integers

CONSTANTS
    Channels,      \* channel names
    Configured,    \* the --channel arguments; {}: discover every channel
    Pids,          \* process ids
    MayFail,       \* the scans of iceoryx2 that may fail
    MaxEvents, MaxScans  \* bounds: changes of the machine, inventory scans and failed listings

VARIABLES
    services,      \* the services that exist: pairs of channel and direction
    nodes,         \* the state of every process' node
    events,        \* how many times the machine changed
    deaths,        \* how many processes died
    at,            \* the next part of the pass
    known,         \* Monitor.known_channels
    views,         \* Monitor.views
    discovery_errors,
    pids,          \* Monitor.pids
    snapshot,      \* Scanner.snapshot
    gauges         \* what the metrics registry publishes

machine == <<services, nodes, events, deaths>>
vars == <<machine, at, known, views, discovery_errors, pids, snapshot, gauges>>

Directions == <<"req", "resp">>
Fails(scan) == IF scan \in MayFail THEN BOOLEAN ELSE {FALSE}

Init ==
    /\ services = {} /\ nodes = [p \in Pids |-> "alive"] /\ events = 0 /\ deaths = 0
    /\ at = "list" /\ known = {} /\ views = <<>> /\ discovery_errors = 0 /\ pids = <<>>
    /\ snapshot = [nodes |-> {}, scans |-> 0, errors |-> 0]
    /\ gauges = [channels |-> <<>>, services |-> 0, nodes |-> {}, nodes_alive |-> 0,
                 node_crashes |-> 0, discovery_errors |-> 0]

-----------------------------------------------------------------------------
(* The machine.  A service exists while some process holds it open, the    *)
(* observer included; a killed process leaves a dead node behind.          *)

Change == events < MaxEvents /\ events' = events + 1
observer == <<at, known, views, discovery_errors, pids, snapshot, gauges>>

ServiceAppears(c, d) ==
    /\ Change /\ <<c, d>> \notin services /\ services' = services \cup {<<c, d>>}
    /\ UNCHANGED <<nodes, deaths, observer>>
ServiceGoes(c, d) ==
    /\ Change /\ <<c, d>> \in services /\ ~Contains(views, <<c, d>>)
    /\ services' = services \ {<<c, d>>} /\ UNCHANGED <<nodes, deaths, observer>>
ProcessDies(p) ==
    /\ Change /\ nodes[p] = "alive" /\ nodes' = [nodes EXCEPT ![p] = "dead"]
    /\ deaths' = deaths + 1 /\ UNCHANGED <<services, observer>>
ProcessStarts(p) ==
    /\ Change /\ nodes[p] = "dead" /\ nodes' = [nodes EXCEPT ![p] = "alive"]
    /\ UNCHANGED <<services, deaths, observer>>

-----------------------------------------------------------------------------
(* The pass of Monitor::run.  Each part runs on an interval of its own, so *)
(* a pass may skip it; the gauges are published every time.                *)

Skip(here, next) == at = here /\ at' = next /\ UNCHANGED <<machine, known, views, discovery_errors, pids, snapshot, gauges>>

discover_channels == {s[1] : s \in services}

ListLost(failed) == IF failed THEN {} ELSE discover_channels

\* A failed discovery keeps the list.
ListAfter(failed) ==
    IF Configured # {} THEN Configured ELSE IF failed THEN known ELSE discover_channels

refresh_channel_list(failed) ==
    /\ at = "list" /\ at' = "attach" /\ known' = ListAfter(failed)
    /\ discovery_errors' = discovery_errors + (IF Configured = {} /\ failed THEN 1 ELSE 0)
    /\ UNCHANGED <<machine, views, pids, snapshot, gauges>>

\* Every known channel, request first; open_if_missing opens what exists.
Missing(v, s) == ~Contains(v, s)
\* DirectionView::open creates nothing: it fails on a service nobody created.
CanOpen(s) == s \in services
open_if_missing(v, s) == IF Missing(v, s) /\ CanOpen(s) THEN Append(v, s) ELSE v

attach_known_channels ==
    /\ at = "attach" /\ at' = "health"
    /\ views' = FoldLeft(open_if_missing, views,
                    FlattenSeq([i \in 1..Cardinality(known) |->
                        [j \in 1..2 |-> <<SetToSeq(known)[i], Directions[j]>>]]))
    /\ UNCHANGED <<machine, known, discovery_errors, pids, snapshot, gauges>>

\* Every node with its state, dead ones included.
list_nodes == {<<p, nodes[p]>> : p \in Pids}

\* Scanner::refresh: a failed scan keeps the nodes of the last one.
refresh(failed) ==
    [nodes |-> IF failed THEN snapshot.nodes ELSE list_nodes,
     scans |-> snapshot.scans + 1,
     errors |-> snapshot.errors + (IF failed THEN 1 ELSE 0)]

\* Built from the views, not from the inventory.
channel_health == [s \in known \X ToSet(Directions) |-> Contains(views, s)]

\* The inventory is replaced, and only by a scan.
set_health(g, snap) == [g EXCEPT !.nodes = snap.nodes]
set_channels(g) == [g EXCEPT !.channels = channel_health]
set_observer(g) == [g EXCEPT !.services = Cardinality(known), !.discovery_errors = discovery_errors]

\* refresh_health: set_health when a scan was due, set_channels, set_services
\* and set_observer always.
refresh_health(due, failed) ==
    /\ at = "health" /\ at' = "drain" /\ snapshot' = IF due THEN refresh(failed) ELSE snapshot
    /\ gauges' = set_observer(set_channels(IF due THEN set_health(gauges, snapshot') ELSE gauges))
    /\ UNCHANGED <<machine, known, views, discovery_errors, pids>>

\* process: a sample names its emitter, which was alive when it published.
drain(p) ==
    /\ at = "drain" /\ at' = "liveness" /\ views # <<>>
    /\ pids' = IF p \in DOMAIN pids THEN pids ELSE (p :> TRUE) @@ pids
    /\ UNCHANGED <<machine, known, views, discovery_errors, snapshot, gauges>>

\* is_pid_alive: a scan that failed tells nothing, and counts as alive.
is_pid_alive(p, failed) == failed \/ nodes[p] = "alive"

\* An emitter is a crash when it was alive at the last check and is not now.
Crashed(now) == {p \in DOMAIN pids : pids[p] /\ ~now[p]}
set_nodes(g, alive, crashed) == [g EXCEPT !.nodes_alive = alive, !.node_crashes = @ + crashed]
check_liveness(failed) ==
    LET now == [p \in DOMAIN pids |-> is_pid_alive(p, failed[p])]
    IN  /\ at = "liveness" /\ at' = "list" /\ pids' = now
        /\ gauges' = set_nodes(gauges, Cardinality({p \in DOMAIN now : now[p]}), Cardinality(Crashed(now)))
        /\ UNCHANGED <<machine, known, views, discovery_errors, snapshot>>

Machine ==
    \/ \E c \in Channels, d \in ToSet(Directions) : ServiceAppears(c, d) \/ ServiceGoes(c, d)
    \/ \E p \in Pids : ProcessDies(p) \/ ProcessStarts(p)

Attach == attach_known_channels
List == \E f \in (IF discovery_errors < MaxScans THEN Fails("channels") ELSE {FALSE}) : refresh_channel_list(f)
ListWorks == refresh_channel_list(FALSE)
Liveness == \E f \in [Pids -> Fails("pids")] : check_liveness(f)
LivenessWorks == check_liveness([p \in Pids |-> FALSE])
Loop ==
    \/ List \/ Attach \/ Liveness
    \/ \E due \in (IF snapshot.scans < MaxScans THEN BOOLEAN ELSE {FALSE}), f \in Fails("nodes") : refresh_health(due, f)
    \/ \E p \in Pids : drain(p)
    \/ Skip("list", "attach") \/ Skip("attach", "health") \/ Skip("drain", "liveness") \/ Skip("liveness", "list")

Next == Machine \/ Loop

\* The loop runs, each interval elapses again and again, and a scan that
\* fails works again later.
Spec == Init /\ [][Next]_vars /\ WF_vars(Loop) /\ SF_vars(ListWorks) /\ SF_vars(Attach) /\ SF_vars(LivenessWorks)

-----------------------------------------------------------------------------
\* The attachment gauge tells the views of this pass, never one inventory
\* interval late (set_channels, channel_health).
AttachmentTruth ==
    at \in {"drain", "liveness"} =>
        gauges.channels = [s \in known \X ToSet(Directions) |-> s \in ToSet(views)]

\* A direction is subscribed to once: a second view would count every sample
\* twice (open_if_missing).
OneViewPerDirection == \A i, j \in DOMAIN views : views[i] = views[j] => i = j

\* What is observed stays listed: a failed discovery drops no channel
\* (refresh_channel_list).
ObservedIsKnown == \A i \in DOMAIN views : views[i][1] \in known

\* While the scans for emitters can tell, no process is reported as crashed more
\* often than one died: "never report a spurious death" (liveness.rs), "counts the
\* disappeared emitters" (check_liveness).
CrashesAreReal == gauges.node_crashes =< deaths

=============================================================================
