------------------------------- MODULE Subject -------------------------------
(***************************************************************************)
(* Subject, the multicast source of ice-rpc-rx (src/subject.rs).           *)
(*                                                                         *)
(* Producers call next, complete and error, subscribers call subscribe and *)
(* drop what they got, all at once.  Every call takes the emit lock, works *)
(* on the state in one critical section of the state lock, and sends       *)
(* outside it, one subscriber or one replayed value at a time.             *)
(***************************************************************************)
EXTENDS RxEvents, FiniteSets, SequencesExt

CONSTANTS
    Producers, Subscribers,
    capacity,       \* values replayed to a late subscriber
    MaxCalls        \* bound: calls of the producers

VARIABLES
    emit,           \* the holder of the emit lock, or Free
    replay, completed, error, subscribers,   \* State
    todo,           \* of each task: the sends it still has to make
    queue,          \* the channel of each subscriber
    stage,          \* of each subscriber: "new", "in", "done" or "dropped"
    calls,          \* calls made by the producers
    emitted,        \* the events the subject accepted, in order
    since           \* how many of them each subscriber's snapshot included

vars == <<emit, replay, completed, error, subscribers, todo, queue, stage, calls, emitted, since>>
stateVars == <<replay, completed, error, subscribers>>

Tasks == Producers \cup Subscribers
Free == "free"

Init ==
    /\ emit = Free /\ replay = <<>> /\ completed = FALSE /\ error = FALSE /\ subscribers = <<>>
    /\ todo = [t \in Tasks |-> <<>>] /\ queue = [s \in Subscribers |-> <<>>]
    /\ stage = [s \in Subscribers |-> "new"] /\ calls = 0
    /\ emitted = <<>> /\ since = [s \in Subscribers |-> 0]

\* State::is_terminated, State::terminal_event, State::retain_live.
is_terminated == completed \/ error
terminal_event == IF error THEN <<ErrorEv(Business("b1"))>>
                  ELSE IF completed THEN <<Complete>> ELSE <<>>
is_closed(s) == stage[s] = "dropped"
retain_live == SelectSeq(subscribers, LAMBDA s : ~is_closed(s))

Snapshot(ev) == [i \in 1..Len(retain_live) |-> [to |-> retain_live[i], ev |-> ev]]

\* The critical section of next, complete and error: keep what late
\* subscribers need, drop the dead ones, copy the list to send to.
Broadcast(p, ev) ==
    /\ subscribers' = retain_live
    /\ emitted' = Append(emitted, ev)
    /\ todo' = [todo EXCEPT ![p] = Snapshot(ev)]

\* Keeping the last `capacity` values.
Keep(v) == IF capacity = 0 THEN replay
           ELSE Append(IF Len(replay) = capacity THEN Tail(replay) ELSE replay, v)

LockIgnored == TRUE
LockFree == emit = Free

next(p, v) ==
    /\ LockFree /\ emit' = p /\ calls < MaxCalls /\ calls' = calls + 1
    /\ IF is_terminated THEN UNCHANGED <<stateVars, emitted, todo>>
       ELSE /\ replay' = Keep(v) /\ Broadcast(p, NextEv(v)) /\ UNCHANGED <<completed, error>>
    /\ UNCHANGED <<queue, stage, since>>

complete(p) ==
    /\ LockFree /\ emit' = p /\ calls < MaxCalls /\ calls' = calls + 1
    /\ IF is_terminated THEN UNCHANGED <<stateVars, emitted, todo>>
       ELSE /\ completed' = TRUE /\ Broadcast(p, Complete) /\ UNCHANGED <<replay, error>>
    /\ UNCHANGED <<queue, stage, since>>

error_(p) ==
    /\ LockFree /\ emit' = p /\ calls < MaxCalls /\ calls' = calls + 1
    /\ IF is_terminated THEN UNCHANGED <<stateVars, emitted, todo>>
       ELSE /\ error' = TRUE /\ Broadcast(p, ErrorEv(Business("b1")))
            /\ UNCHANGED <<replay, completed>>
    /\ UNCHANGED <<queue, stage, since>>

\* subscribe: the snapshot of the replay and of the terminal ...
subscribe(s) ==
    /\ stage[s] = "new" /\ LockFree /\ emit' = s
    /\ stage' = [stage EXCEPT ![s] = "in"]
    /\ since' = [since EXCEPT ![s] = Len(emitted)]
    /\ LET sends == [i \in 1..Len(replay) |-> NextEv(replay[i])] \o terminal_event
       IN todo' = [todo EXCEPT ![s] = [i \in 1..Len(sends) |-> [to |-> s, ev |-> sends[i]]]]
    /\ UNCHANGED <<stateVars, queue, calls, emitted>>

\* One send outside the state lock: it never waits, and fails silently once
\* the receiver is gone.
SendOne(t) ==
    /\ todo[t] # <<>>
    /\ LET x == Head(todo[t])
       IN queue' = IF is_closed(x.to) THEN queue
                   ELSE [queue EXCEPT ![x.to] = Append(@, x.ev)]
    /\ todo' = [todo EXCEPT ![t] = Tail(@)]
    /\ UNCHANGED <<emit, stateVars, stage, calls, emitted, since>>

Release == emit' = Free

\* The call returns and releases the emit lock.
Return(p) ==
    /\ p \in Producers /\ emit = p /\ todo[p] = <<>> /\ Release
    /\ UNCHANGED <<stateVars, todo, queue, stage, calls, emitted, since>>

\* ... and the registration, in a second section, unless it is terminated.
RegisterIfLive == ~is_terminated
Register(s) ==
    /\ s \in Subscribers /\ emit = s /\ stage[s] = "in" /\ todo[s] = <<>> /\ Release
    /\ subscribers' = IF RegisterIfLive THEN Append(subscribers, s) ELSE subscribers
    /\ stage' = [stage EXCEPT ![s] = "done"]
    /\ UNCHANGED <<replay, completed, error, todo, queue, calls, emitted, since>>

DropObservable(s) ==
    /\ stage[s] = "done" /\ stage' = [stage EXCEPT ![s] = "dropped"]
    /\ UNCHANGED <<emit, stateVars, todo, queue, calls, emitted, since>>

Step(t) == SendOne(t) \/ Return(t) \/ Register(t)

Next ==
    \/ \E p \in Producers : next(p, calls + 1) \/ complete(p) \/ error_(p)
    \/ \E s \in Subscribers : subscribe(s) \/ DropObservable(s)
    \/ \E t \in Tasks : Step(t)

\* A call that was polled goes on; async-lock hands the lock to a waiter.
Spec == Init /\ [][Next]_vars /\ \A t \in Tasks : WF_vars(Step(t))
             /\ \A s \in Subscribers : WF_vars(subscribe(s))

-----------------------------------------------------------------------------
LastN(s, n) == SubSeq(s, IF Len(s) > n THEN Len(s) - n + 1 ELSE 1, Len(s))

\* What a subscriber is promised: the last values emitted before it
\* subscribed, the terminal if there was one, then every later event.
Promised(s) ==
    LET before == SubSeq(emitted, 1, since[s])
    IN LastN(NextsOf(before), capacity)
       \o (IF EndOf(before) = None THEN <<>> ELSE <<EndOf(before)>>)
       \o SubSeq(emitted, since[s] + 1, Len(emitted))

\* Every subscriber observes the subject's events in the order the subject
\* accepted them, none missing and none twice, however the broadcasts and the
\* subscriptions interleave; it has them all when no broadcast is running.
SubscribersAgree ==
    \A s \in Subscribers : stage[s] \in {"in", "done"} =>
        /\ IsPrefix(queue[s], Promised(s))
        /\ emit = Free => queue[s] = Promised(s)

\* Nothing is accepted after complete or error, and the state says so.
TerminalIsFinal ==
    /\ \A i \in 1..Len(emitted) : is_terminal(emitted[i]) => i = Len(emitted)
    /\ is_terminated <=> emitted # <<>> /\ is_terminal(Last(emitted))
    /\ ~(completed /\ error)

\* The list holds each live subscriber once, and a dead one only until the
\* next emission; one that subscribed after the end is never kept.
SubscriberListIsClean ==
    /\ Cardinality(ToSet(subscribers)) = Len(subscribers)
    /\ \A s \in Subscribers : stage[s] = "done" /\ since[s] = Len(emitted) /\ is_terminated =>
           ~Contains(subscribers, s)
    /\ \A s \in Subscribers : stage[s] = "done" /\ ~is_terminated => Contains(subscribers, s)

\* A receiver that is gone when a broadcast starts leaves the list with it.
DeadLeaveOnEmission ==
    Len(emitted') > Len(emitted) => \A s \in Subscribers : is_closed(s) => ~Contains(subscribers', s)

==============================================================================
