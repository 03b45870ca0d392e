------------------------------- MODULE Gateway --------------------------------
(***************************************************************************)
(* The life of a Node.js gateway (ice-rpc-nodejs: state.rs, services.rs,   *)
(* napi_api.rs): the JavaScript thread registers a provider, calls init    *)
(* and asks for shutdowns, initialize_all runs on the executor and every   *)
(* shutdown on the libuv pool, over process-wide state that no shutdown    *)
(* resets.                                                                 *)
(***************************************************************************)
EXTENDS Naturals, Sequences

CONSTANTS
    MaxRegistrations, MaxInits, MaxShutdowns   \* calls JavaScript makes

VARIABLES
    phase,      \* the phase of the state cell
    bridge,     \* whether the cell holds a bridge
    guard,      \* and a shutdown guard
    js,         \* "idle", or "begun": init between begin_start and complete_start
    proxy,      \* registrations so far: the last one is the locator's entry
    taken,      \* proxies whose JSON dispatcher was taken
    inits,      \* the initialize_all tasks: [pc, proxy]
    shutdowns,  \* the shutdown tasks: [pc, guard, joins]
    queued,     \* whether the registry holds a service waiting for the seal
    sealed,     \* CHANNELS_SEALED
    threads,    \* the channel threads, "up" or "gone"
    cancelled   \* the global cancellation token

vars == <<phase, bridge, guard, js, proxy, taken, inits, shutdowns, queued, sealed, threads, cancelled>>
cell == <<phase, bridge, guard>>
channels == <<queued, sealed, threads>>

Init ==
    /\ phase = "Idle" /\ bridge = FALSE /\ guard = FALSE /\ js = "idle"
    /\ proxy = 0 /\ taken = {} /\ inits = <<>> /\ shutdowns = <<>>
    /\ queued = FALSE /\ sealed = FALSE /\ threads = <<>> /\ cancelled = FALSE

-----------------------------------------------------------------------------
(* The JavaScript thread: one call at a time.                              *)

\* mark_configured comes after provide, which has replaced the locator's entry.
\* A stop cannot make it fail: it only ever leaves Running.
register_service ==
    /\ js = "idle" /\ proxy < MaxRegistrations /\ phase # "Running"
    /\ proxy' = proxy + 1 /\ phase' = "Configured"
    /\ UNCHANGED <<bridge, guard, js, taken, inits, shutdowns, channels, cancelled>>

\* A refused init has not built a guard yet, so it drops none.
Refused == UNCHANGED cancelled

\* The phase is reserved; the resources and the initialization come later.
InitializeAtOnce == phase' = "Running" /\ js' = "begun" /\ inits' = Append(inits, [pc |-> "snapshot", proxy |-> 0])
Reserve == phase' = "Running" /\ js' = "begun" /\ UNCHANGED inits

begin_start ==
    /\ js = "idle" /\ Len(inits) < MaxInits
    /\ IF phase = "Running"
       THEN Refused /\ UNCHANGED <<phase, js, inits>>
       ELSE Reserve /\ UNCHANGED cancelled
    /\ UNCHANGED <<bridge, guard, proxy, taken, shutdowns, channels>>

\* The new guard replaces, and so drops, one still in the cell.
complete_start ==
    /\ js = "begun" /\ js' = "idle" /\ bridge' = TRUE /\ guard' = TRUE
    /\ cancelled' = (cancelled \/ guard)
    /\ inits' = Append(inits, [pc |-> "snapshot", proxy |-> 0])
    /\ UNCHANGED <<phase, proxy, taken, shutdowns, channels>>

shutdown ==
    /\ js = "idle" /\ Len(shutdowns) < MaxShutdowns
    /\ shutdowns' = Append(shutdowns, [pc |-> "queued", guard |-> FALSE, joins |-> {}])
    /\ UNCHANGED <<cell, js, proxy, taken, inits, channels, cancelled>>

-----------------------------------------------------------------------------
(* initialize_all, spawned by init.                                        *)

Snapshot(i) ==
    /\ inits[i].pc = "snapshot"
    /\ inits' = [inits EXCEPT ![i] = [pc |-> IF proxy = 0 THEN "start" ELSE "init", proxy |-> proxy]]
    /\ UNCHANGED <<cell, js, proxy, taken, shutdowns, channels, cancelled>>

\* init of a ProviderJson proxy: its dispatcher is taken once, and registered,
\* on a thread of its own once the channels were started.
init(i) ==
    /\ inits[i].pc = "init"
    /\ IF inits[i].proxy \in taken
       THEN inits' = [inits EXCEPT ![i].pc = "failed"] /\ UNCHANGED <<taken, queued, threads>>
       ELSE /\ taken' = taken \cup {inits[i].proxy} /\ inits' = [inits EXCEPT ![i].pc = "start"]
            /\ IF sealed THEN threads' = Append(threads, "up") /\ UNCHANGED queued
                         ELSE queued' = TRUE /\ UNCHANGED threads
    /\ UNCHANGED <<cell, js, proxy, shutdowns, sealed, cancelled>>

start_registered_channels(i) ==
    /\ inits[i].pc = "start" /\ inits' = [inits EXCEPT ![i].pc = "ready"] /\ sealed' = TRUE
    /\ IF ~sealed /\ queued THEN threads' = Append(threads, "up") /\ queued' = FALSE
                            ELSE UNCHANGED <<threads, queued>>
    /\ UNCHANGED <<cell, js, proxy, taken, shutdowns, cancelled>>

\* run_receive_loop reads the token before every turn.
ThreadStops(t) ==
    /\ threads[t] = "up" /\ cancelled /\ threads' = [threads EXCEPT ![t] = "gone"]
    /\ UNCHANGED <<cell, js, proxy, taken, inits, shutdowns, queued, sealed, cancelled>>

-----------------------------------------------------------------------------
(* ShutdownTask::compute, on the libuv pool.                               *)

EmptyCell == bridge' = FALSE /\ guard' = FALSE /\ phase' = "Idle"

stop(k) ==
    /\ shutdowns[k].pc = "queued" /\ EmptyCell
    /\ shutdowns' = [shutdowns EXCEPT ![k].pc = "stopped", ![k].guard = guard]
    /\ UNCHANGED <<js, proxy, taken, inits, channels, cancelled>>

\* shutdown_and_release cancels the tokens, joins the threads registered so
\* far, then releases the ports and the node.
Cancel == cancelled' = TRUE

cancel(k) ==
    /\ shutdowns[k].pc = "stopped" /\ Cancel
    /\ shutdowns' = [shutdowns EXCEPT ![k].pc = "joining", ![k].joins = DOMAIN threads]
    /\ UNCHANGED <<cell, js, proxy, taken, inits, channels>>

\* A guard whose own shutdown never ran cancels the tokens when it is dropped.
release(k) ==
    /\ shutdowns[k].pc = "joining" /\ \A t \in shutdowns[k].joins : threads[t] = "gone"
    /\ shutdowns' = [shutdowns EXCEPT ![k].pc = "done"]
    /\ cancelled' = (cancelled \/ shutdowns[k].guard)
    /\ UNCHANGED <<cell, js, proxy, taken, inits, channels>>

-----------------------------------------------------------------------------
JavaScript == register_service \/ begin_start \/ complete_start \/ shutdown
Task == \E i \in DOMAIN inits : Snapshot(i) \/ init(i) \/ start_registered_channels(i)
Pool == \E k \in DOMAIN shutdowns : stop(k) \/ cancel(k) \/ release(k)
Next == JavaScript \/ Task \/ Pool \/ \E t \in DOMAIN threads : ThreadStops(t)

Spec == Init /\ [][Next]_vars

\* The pool, the executor and the threads run; JavaScript calls what it likes.
LiveSpec == Spec /\ WF_vars(Pool) /\ WF_vars(\E t \in DOMAIN threads : ThreadStops(t))

Stopped == \E k \in DOMAIN shutdowns : shutdowns[k].pc # "queued"

\* Nothing but a shutdown cancels the tokens: an init that is refused because
\* the gateway already runs leaves its threads alone (state.rs, the reservation
\* begin_start makes before the guard is built).
RefusedInitIsHarmless == cancelled => Stopped

\* Once init has returned, a Running gateway holds its bridge and its guard,
\* whatever shutdowns ran beside it (state.rs, Phase::Running).
RunningHoldsBridge == phase = "Running" /\ js = "idle" => bridge /\ guard

\* Until a shutdown runs, a thread that serves calls finds a bridge to hand
\* them to: init stores it before it spawns the initialization.
ServedThroughBridge == ~Stopped /\ threads # <<>> => bridge

\* An init that is refused changes nothing, a running gateway holds its bridge, and no
\* call is served before the bridge it needs is there (state.rs, napi_api.rs).
GatewaySound == RefusedInitIsHarmless /\ RunningHoldsBridge /\ ServedThroughBridge

=============================================================================
