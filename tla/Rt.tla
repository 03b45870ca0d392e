---------------------------------- MODULE Rt ----------------------------------
(***************************************************************************)
(* The execution facade (ice-rpc-rx, rt/mod.rs): a channel's thread hands  *)
(* every request's task to Spawner::run_or_spawn, which polls it in place  *)
(* and gives it to the runtime if it yields; blocking closures run on      *)
(* dedicated threads or on the pool.                                       *)
(***************************************************************************)
EXTENDS Naturals, Sequences, FiniteSets

CONSTANTS
    Tasks,       \* sequence of task kinds, in the order the thread takes them
    Closures,    \* blocking closures
    Modes,       \* the builds, with what Spawner::capture found
    Workers      \* number of threads that poll the runtime's tasks

(* Kinds of tasks: "ready" completes in its first poll, "yields" waits for *)
(* an event, "timer" also starts a runtime resource in its first poll, and *)
(* "nested" blocks its thread, in its first poll, until the next task of   *)
(* the channel has completed (a blocking call to its own service).         *)

VARIABLES
    mode,        \* "handle" and "no_handle" (tokio), "full" (smol, rt-async), "light" (rt-none)
    next,        \* the task the channel's thread takes next
    thread,      \* what the channel's thread does: "free", "polling" or "pending"
    state,       \* state of each task
    waker,       \* the waker its last poll left: "none", "noop" or "task"
    fired,       \* the event each task waits for has happened
    broken,      \* tasks that touched the runtime without a context
    closure      \* [place, state, signal, result] of each blocking closure

vars == <<mode, next, thread, state, waker, fired, broken, closure>>

T == DOMAIN Tasks

Init ==
    /\ mode \in Modes
    /\ next = 1 /\ thread = "free"
    /\ state = [t \in T |-> "new"] /\ waker = [t \in T |-> "none"]
    /\ fired = [t \in T |-> FALSE] /\ broken = {}
    /\ closure \in [Closures -> [place : {"dedicated", "pool"}, state : {"new"}, signal : {"none"}, result : {"none"}]]

-----------------------------------------------------------------------------
(* Spawner.                                                                *)

\* The light client owns no executor: the task gets a thread of its own.
SpawnState == IF mode = "light" THEN "own_thread" ELSE "queued"

\* Only a thread with a runtime may poll in place; without a captured runtime
\* there is none to enter.
PollsInline == mode \in {"handle", "full"}

\* Spawner::spawn schedules an initial poll, whatever the inline poll left.
Spawn(t) == SpawnState

\* The task the channel's thread is at.
Current == next - 1

run_or_spawn ==
    /\ thread = "free" /\ next \in T
    /\ next' = next + 1
    /\ IF PollsInline
       THEN thread' = "polling" /\ state' = [state EXCEPT ![next] = "inline"]
       ELSE thread' = "free" /\ state' = [state EXCEPT ![next] = Spawn(next)]
    /\ UNCHANGED <<mode, waker, fired, broken, closure>>

\* A nested call answers once the next task has completed.
Unblocked(t) == Tasks[t] = "nested" /\ t + 1 \in T => state[t + 1] = "done"

PollReady(t) == Tasks[t] \in {"ready", "nested"} \/ fired[t]

\* A timer needs a runtime's context: the handle is entered around the poll.
Touches(t, context) == IF Tasks[t] = "timer" /\ ~context THEN {t} ELSE {}

InlinePoll ==
    /\ thread = "polling" /\ Unblocked(Current)
    /\ broken' = broken \cup Touches(Current, mode \in {"handle", "full"})
    /\ IF PollReady(Current)
       THEN thread' = "free" /\ state' = [state EXCEPT ![Current] = "done"] /\ UNCHANGED waker
       ELSE thread' = "pending" /\ waker' = [waker EXCEPT ![Current] = "noop"] /\ UNCHANGED state
    /\ UNCHANGED <<mode, next, fired, closure>>

HandOver ==
    /\ thread = "pending" /\ thread' = "free"
    /\ state' = [state EXCEPT ![Current] = Spawn(Current)]
    /\ UNCHANGED <<mode, next, waker, fired, broken, closure>>

-----------------------------------------------------------------------------
(* The executor (external): a woken task is queued, a worker polls it.     *)

Polling == {t \in T : state[t] = "polling"}

Worker(t) ==
    /\ state[t] = "queued" /\ Cardinality(Polling) < Workers
    /\ state' = [state EXCEPT ![t] = "polling"]
    /\ UNCHANGED <<mode, next, thread, waker, fired, broken, closure>>

Poll(t) ==
    /\ state[t] \in {"polling", "own_thread"} /\ Unblocked(t)
    /\ broken' = broken \cup Touches(t, TRUE)
    /\ IF PollReady(t)
       THEN state' = [state EXCEPT ![t] = "done"] /\ UNCHANGED waker
       ELSE /\ waker' = [waker EXCEPT ![t] = "task"]
            /\ state' = [state EXCEPT ![t] = IF @ = "polling" THEN "parked" ELSE "own_thread"]
    /\ UNCHANGED <<mode, next, thread, fired, closure>>

\* The event a task waits for; it calls the waker the last poll left.
Fire(t) ==
    /\ ~fired[t] /\ Tasks[t] \in {"yields", "timer"} /\ state[t] # "new"
    /\ fired' = [fired EXCEPT ![t] = TRUE]
    /\ state' = [state EXCEPT ![t] = IF waker[t] = "task" /\ @ = "parked" THEN "queued" ELSE @]
    /\ UNCHANGED <<mode, next, thread, waker, broken, closure>>

-----------------------------------------------------------------------------
(* Blocking closures.  The awaiter of a dedicated thread waits on a        *)
(* channel, which delivers () or closes when its sender is dropped.        *)

Start(c) ==
    /\ closure[c].state = "new"
    /\ closure' = [closure EXCEPT ![c].state = "running"]
    /\ UNCHANGED <<mode, next, thread, state, waker, fired, broken>>

\* What a closure that ended leaves for its awaiter.
Signal(panics) == IF panics THEN "closed" ELSE "sent"

Finish(c) ==
    /\ closure[c].state = "running"
    /\ \E panics \in BOOLEAN :
         closure' = [closure EXCEPT ![c].state = IF panics THEN "panicked" ELSE "returned",
                                    ![c].signal = Signal(panics)]
    /\ UNCHANGED <<mode, next, thread, state, waker, fired, broken>>

\* A pooled panic is caught where the closure runs and comes back as an Err.
Outcome(c) == IF closure[c].place = "dedicated" THEN "unit"
              ELSE IF closure[c].signal = "sent" THEN "ok" ELSE "err"

Await(c) ==
    /\ closure[c].signal # "none" /\ closure[c].result = "none"
    /\ closure' = [closure EXCEPT ![c].result = Outcome(c)]
    /\ UNCHANGED <<mode, next, thread, state, waker, fired, broken>>

-----------------------------------------------------------------------------
Thread == run_or_spawn \/ InlinePoll \/ HandOver

Next ==
    \/ Thread
    \/ \E t \in T : Worker(t) \/ Poll(t) \/ Fire(t)
    \/ \E c \in Closures : Start(c) \/ Finish(c) \/ Await(c)

Fairness ==
    /\ WF_vars(Thread)
    /\ \A t \in T : WF_vars(Worker(t)) /\ WF_vars(Poll(t)) /\ WF_vars(Fire(t))
    /\ \A c \in Closures : WF_vars(Start(c) \/ Finish(c) \/ Await(c))

Spec == Init /\ [][Next]_vars /\ Fairness

-----------------------------------------------------------------------------
\* A task that starts a timer in its first poll does so with a runtime's context,
\* whatever the thread that booted the channel had: without a captured runtime
\* the task is spawned, never polled in place (Spawner::run_or_spawn).
ContextIsThere == broken = {}

===============================================================================
