---------------------------------- MODULE MCTasks ----------------------------------
(***************************************************************************)
(* Threads, tasks and streams, side by side: the receive loop of a channel *)
(* (Wakeup), the executors (Rt) and the streams of ice-rpc-rx.  A          *)
(* behaviour of this module is a behaviour of one of them, named by scene, *)
(* while the others rest in their initial states (RxOperators, which has   *)
(* many, in none: 0).  The fairness of a component is stated for its scene *)
(* and assumed by the properties that need it.                             *)
(***************************************************************************)
EXTENDS Wakeup, RxEvents, SequencesExt, FiniteSets, TLC

VARIABLES scene, mode, next, thread, state, waker, fired, broken, closure, st, src, alt, out,
          calls, given, op, sent, chan, closed, delayed, sleep, done, read, task, wakers,
          cancelled, timed_out, age, channel, accepted, offered, half, gone, reading,
          pulled, seen, result, terminated, alive, cleanup, unsubscribed, token, emit,
          replay, completed, error, subscribers, todo, inbox, stage, emissions, emitted,
          since

runtime_vars == <<mode, next, thread, state, waker, fired, broken, closure>>
ops_vars == <<st, src, alt, out, calls, given>>
timed_vars == <<op, sent, chan, closed, delayed, sleep, done, read, task, wakers, cancelled,
                timed_out, age>>
stream_vars == <<channel, accepted, offered, half, gone, reading, pulled, seen, result,
                 terminated, alive, cleanup, unsubscribed, token>>
subject_vars == <<emit, replay, completed, error, subscribers, todo, inbox, stage,
                  emissions, emitted, since>>

\* Sources of up to three values or pending polls, then a terminal or an abrupt
\* close; shorter ones for a second source and for the attempts of a retry.
Ends == {<<>>, <<Complete>>, throw_error("b1"), from_technical_error("Timeout"),
         from_technical_error("Internal")}
Streams(results, n) == {b \o e : b \in BoundedSeq(results, n), e \in Ends}
MCSources == Streams({NextEv(1), NextEv(2), Pending}, 2) \cup {from(<<1, 2, 1>>), from(<<1, 1, 2>>)}
             \cup {from_future(ok, 1, "b1", w) : ok \in BOOLEAN, w \in BOOLEAN}
MCSeconds == Streams({NextEv(11), Pending}, 2)
MCAttempts == Streams({NextEv(1), Pending}, 1)
MCKeep(v) == v = 2
MCF(v) == v + 5
MCG(c) == IF c = "b1" THEN "b2" ELSE c
MCProject(v) == IF v = 1 THEN <<NextEv(11), Pending, NextEv(12), Complete>>
                         ELSE <<Pending, NextEv(21), NextEv(22)>>

Runtime == INSTANCE Rt WITH
    Tasks <- <<"yields", "timer", "ready">>, Closures <- {"c1"},
    Modes <- {"handle", "no_handle", "full", "light"}, Workers <- 1
Built == INSTANCE RxOperators WITH
    Operators <- {}, Sources <- {}, Seconds <- {}, Attempts <- {}, Keep <- MCKeep, F <- MCF, G <- MCG,
    Project <- MCProject
MCOperators ==
    {Built!filter, Built!distinct_until_changed, Built!first_with, Built!map, Built!map_err, Built!scan(0),
     Built!tap, Built!finalize, Built!start_with(3), Built!defer, Built!catch_error, Built!merge,
     Built!take_until, Built!switch_map}
    \cup {Built!take(n) : n \in 0..2} \cup {Built!skip(n) : n \in 0..2}
    \cup {Built!retry_with(n, d, o) : n \in 0..2, d \in BOOLEAN, o \in BOOLEAN}
Ops == INSTANCE RxOperators WITH
    Operators <- MCOperators, Sources <- MCSources, Seconds <- MCSeconds,
    Attempts <- MCAttempts, Keep <- MCKeep, F <- MCF, G <- MCG, Project <- MCProject
Timed == INSTANCE RxTimed WITH
    Duration <- 2, DELAY_READ_AHEAD <- 2, MaxEvents <- 4, out <- timed_out, queue <- delayed
Stream == INSTANCE RxStream WITH
    Senders <- {"s1", "s2"}, Capacity <- 2,
    Modes <- {"recv", "next", "first", "last", "collect", "for_each", "subscribe"},
    MaxSends <- 4, mode <- reading, chan <- channel
Subject == INSTANCE Subject WITH
    Producers <- {"p1", "p2"}, Subscribers <- {"s1", "s2"}, capacity <- 2, MaxCalls <- 3,
    queue <- inbox, calls <- emissions

-----------------------------------------------------------------------------
SceneInit ==
    /\ scene \in {"wakeup", "rt", "operators", "timed", "stream", "subject"}
    /\ Init
    /\ Runtime!Init
    /\ scene # "rt" => mode = "handle" /\ closure["c1"].place = "pool"
    /\ IF scene = "operators" THEN Ops!Init ELSE st = 0 /\ src = 0 /\ alt = 0 /\ out = 0 /\ calls = 0 /\ given = 0
    /\ Timed!Init
    /\ scene # "timed" => op = "delay"
    /\ Stream!Init
    /\ scene # "stream" => reading = "recv"
    /\ Subject!Init

WakeupNext == scene = "wakeup" /\ Next
    /\ UNCHANGED <<scene, runtime_vars, ops_vars, timed_vars, stream_vars, subject_vars>>
RuntimeNext == scene = "rt" /\ Runtime!Next
    /\ UNCHANGED <<scene, vars, ops_vars, timed_vars, stream_vars, subject_vars>>
OpsNext == scene = "operators" /\ Ops!Next
    /\ UNCHANGED <<scene, vars, runtime_vars, timed_vars, stream_vars, subject_vars>>
TimedNext == scene = "timed" /\ Timed!Next
    /\ UNCHANGED <<scene, vars, runtime_vars, ops_vars, stream_vars, subject_vars>>
StreamNext == scene = "stream" /\ Stream!Next
    /\ UNCHANGED <<scene, vars, runtime_vars, ops_vars, timed_vars, subject_vars>>
SubjectNext == scene = "subject" /\ Subject!Next
    /\ UNCHANGED <<scene, vars, runtime_vars, ops_vars, timed_vars, stream_vars>>

SceneNext == WakeupNext \/ RuntimeNext \/ OpsNext \/ TimedNext \/ StreamNext \/ SubjectNext
all == <<scene, vars, runtime_vars, ops_vars, timed_vars, stream_vars, subject_vars>>

\* The loop's thread runs and time passes (LiveSpec of Wakeup).
WakeupFair == WF_vars(scene = "wakeup" /\ Loop) /\ WF_vars(scene = "wakeup" /\ Tick)

\* Every thread runs, every event a task waits for happens, and a worker serves
\* each task that stays schedulable (Fairness of Rt).
RuntimeFair ==
    /\ WF_runtime_vars(scene = "rt" /\ Runtime!Thread)
    /\ \A t \in 1..3 : /\ WF_runtime_vars(scene = "rt" /\ Runtime!Worker(t))
                       /\ WF_runtime_vars(scene = "rt" /\ Runtime!Poll(t))
                       /\ WF_runtime_vars(scene = "rt" /\ Runtime!Fire(t))
    /\ WF_runtime_vars(scene = "rt" /\ (Runtime!Start("c1") \/ Runtime!Finish("c1") \/ Runtime!Await("c1")))

\* The consumer keeps polling (Spec of RxOperators).
OpsFair == WF_ops_vars(scene = "operators" /\ Ops!Next)

\* A woken task is polled, time passes and an armed timer fires (Fairness of
\* RxTimed).
TimedFair ==
    /\ WF_timed_vars(scene = "timed" /\ Timed!Poll) /\ WF_timed_vars(scene = "timed" /\ Timed!Tick)
    /\ WF_timed_vars(scene = "timed" /\ Timed!TimerFires)

\* The push task of a subscription runs (Spec of RxStream).
StreamFair == WF_stream_vars(scene = "stream" /\ Stream!PushStep)

\* A task that holds the emit lock goes on, and the lock reaches every waiter
\* (Spec of Subject).
SubjectFair ==
    /\ \A t \in {"p1", "p2", "s1", "s2"} : WF_subject_vars(scene = "subject" /\ Subject!Step(t))
    /\ \A s \in {"s1", "s2"} : WF_subject_vars(scene = "subject" /\ Subject!subscribe(s))

SceneSpec ==
    /\ SceneInit /\ [][SceneNext]_all
    /\ WakeupFair /\ RuntimeFair /\ OpsFair /\ TimedFair /\ StreamFair /\ SubjectFair
-----------------------------------------------------------------------------
(* The receive loop and its wake-ups (Wakeup).                             *)
\* A sample put in an empty buffer is received, or the loop has ended, even when its
\* notification was coalesced, failed or was drained early: the wait has a deadline.
SampleTaken ==
    []<>(scene = "wakeup" => queue = 0 \/ took \/ loop.at = "ended")

\* A stop request, or a signal, ends the loop, also on a channel that is never idle.
LoopEnds ==
    []<>(scene = "wakeup" /\ (stop \/ signal) => loop.at = "ended")

(* Executors (Rt).                                                         *)
\* Every task completes, although its first poll may leave a waker that does
\* nothing and its event may fire before the runtime polls it: "A completion that
\* fires in the window between the inline poll and that first scheduled poll is
\* not lost" (Spawner::run_or_spawn).
EveryTaskCompletes ==
    []<>(scene = "rt" => \A t \in 1..3 : state[t] = "done")

\* Awaiting a blocking closure always returns, also when the closure panics: the
\* panic drops the sender of a dedicated thread and is caught on the pool, where
\* it is an Err and never a value (spawn_blocking, blocking_call, catch_panic).
HandlesResolve ==
    []<>(scene = "rt" => closure["c1"].result # "none" /\ (closure["c1"].state = "panicked" => closure["c1"].result # "ok"))

\* A task that starts a timer in its first poll does so with a runtime's context,
\* or is not polled inline (run_or_spawn).
PolledInContext == [](scene = "rt" => Runtime!ContextIsThere)

(* Operators (RxOperators).                                                *)
\* Every poll loop ends: a consumer that keeps polling is told None.
Drains ==
    []<>(scene = "operators" => ~Ops!Live)

(* Operators with a clock (RxTimed).                                       *)
\* delay loses nothing: every event, and the end, is delivered in the end,
\* also those the read-ahead bound left in the source when the task parked.
DelayDelivers ==
    <>[](scene = "timed" /\ op = "delay" => Timed!Delivered = sent /\ (closed => Timed!Over))

\* A stalled source cannot hang the consumer of a timeout: it is told the end.
TimeoutEnds ==
    []<>(scene = "timed" /\ op = "timeout" => Timed!Over)

(* The channel behind an Observable (RxStream).                            *)
\* Awaiting the Subscription resolves: after a terminal or a close, as after
\* an unsubscribe, the push task stops and the token ends up cancelled.
SubscriptionResolves ==
    []<>(scene = "stream" /\ reading = "subscribe"
                /\ (unsubscribed \/ Stream!Closed \/ \E i \in 1..Len(accepted) : is_terminal(accepted[i]))
             => token /\ result # Stream!NoResult)

(* Subjects (Subject).                                                     *)
\* A subscription always completes, whatever the other subscribers do: nobody
\* waits for a consumer.
SubscribeReturns ==
    \A s \in {"s1", "s2"} : []<>(scene = "subject" => stage[s] \in {"done", "dropped"})

-----------------------------------------------------------------------------
\* What an operator hands out is what its reference definition makes of its
\* source, whenever the source is pending: nothing follows a terminal, the hooks of
\* tap and finalize run once, merge loses and starves neither side, switch_map
\* follows the latest projection to its end, retry spends exactly its attempts
\* (poll_next of the operators in transform/).
OperatorsCorrect ==
    /\ scene = "operators" => /\ Ops!OperatorMatchesReference
                              /\ Ops!NothingAfterTerminal
                              /\ Ops!HooksRunOnce
                              /\ Ops!MergeKeepsBoth
                              /\ Ops!MergeIsFair
                              /\ Ops!SwitchMapFollowsLatest
                              /\ Ops!RetryFollowsPolicy

\* delay hands an event out its duration after the source gave it; a timeout is
\* reported after a silence of its duration and never while an event waits; a
\* cancelled token stops the reading (transform/utility.rs, conditional.rs).
OperatorsOnTime ==
    [][/\ scene = "timed" => /\ Timed!TimeoutOnlyOnSilence
                             /\ Timed!TimeoutAfterDuration
                             /\ Timed!TokenStopsReading
                             /\ (Timed!DelayShifts)']_all

\* What a sender was told is accepted reaches the reader in order, each way of
\* reading returns what the stream ended with, a close without a terminal is
\* reported as such, the cleanup tells an answered call from an abandoned one, and
\* a subscriber hears of the end once (stream.rs, event.rs, subscribe.rs).
StreamsDeliver ==
    /\ scene = "stream" => /\ Stream!TypeOK
                           /\ Stream!AcceptedIsDelivered
                           /\ Stream!TerminalReturns
                           /\ Stream!AbruptCloseReported
                           /\ Stream!CleanupTellsAnswered
                           /\ Stream!OneTerminalCallback

\* The subscribers of a subject receive the same emissions in the same order, each
\* from the replay its subscription began with; nothing follows the terminal; dead
\* receivers leave the list at the next emission (subject.rs, under the emit lock).
SubjectsAgree ==
    [][/\ scene = "subject" => /\ Subject!DeadLeaveOnEmission
                               /\ (Subject!SubscribersAgree)'
                               /\ (Subject!TerminalIsFinal)'
                               /\ (Subject!SubscriberListIsClean)']_all

\* The receive loop takes every sample although notifications are coalesced or
\* lost, and a stop or a signal ends it (run_receive_loop).
LoopServes ==
    SampleTaken /\ LoopEnds

\* What waits is woken: every task of an executor completes, every handle
\* resolves, operators, timers and subscriptions come to their end, and nobody
\* waits for a slow subscriber.
TasksEnd ==
    /\ PolledInContext
    /\ EveryTaskCompletes
    /\ HandlesResolve
    /\ Drains
    /\ DelayDelivers
    /\ TimeoutEnds
    /\ SubscriptionResolves
    /\ SubscribeReturns
=============================================================================
