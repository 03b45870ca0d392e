------------------------------ MODULE NodePool ------------------------------
(***************************************************************************)
(* The outgoing calls of a Node.js addon and its shutdown, on the libuv    *)
(* pool they share (napi_api.rs): a call occupies its thread from the open *)
(* of the channel until its stream has ended (rt::block_on), and the       *)
(* shutdown cancels the tokens, joins the thread that dispatches the       *)
(* responses and drops the cached ports (shutdown_and_release).            *)
(***************************************************************************)
EXTENDS Naturals, Sequences, FiniteSets

CONSTANTS
    Calls,      \* callService and callServiceStream calls
    Endless,    \* those whose service never ends what the call waits for
    Threads,    \* size of the pool
    MaxRetries  \* bound: the attempts the deadline of a publication leaves room for

VARIABLES
    task,       \* where every task is
    queue,      \* tasks no thread has taken
    cached,     \* the thread of the ports the process caches, or 0
    dispatch,   \* the response threads, "up" or "gone"
    registered, \* those whose handle is in the ShutdownRegistry
    joins,      \* those the shutdown waits for
    cancelled,  \* the tokens
    on,         \* the thread of the ports a call uses
    retries,    \* the attempts of a call that nobody took
    out         \* whether the request of a call went out, "late" under cancelled tokens
vars == <<task, queue, cached, dispatch, registered, joins, cancelled, on, retries, out>>

Shutdown == "shutdown"
Tasks == Calls \cup {Shutdown}
OnThread == {"compute", "opening", "publish", "send", "open", "taking", "joining"}

Init ==
    /\ task = [t \in Tasks |-> "idle"] /\ queue = <<>>
    /\ cached = 0 /\ dispatch = <<>> /\ registered = {} /\ joins = {} /\ cancelled = FALSE
    /\ on = [c \in Calls |-> 0] /\ retries = [c \in Calls |-> 0] /\ out = [c \in Calls |-> "no"]

Move(t, at) == task' = [task EXCEPT ![t] = at]

\* JavaScript: the promise is returned at once and its task queued.
Submit(t) ==
    /\ task[t] = "idle" /\ Move(t, "queued") /\ queue' = Append(queue, t)
    /\ UNCHANGED <<cached, dispatch, registered, joins, cancelled, on, retries, out>>

\* A free thread of the pool takes the oldest task.
Take ==
    /\ queue # <<>> /\ Cardinality({t \in Tasks : task[t] \in OnThread}) < Threads
    /\ Move(Head(queue), "compute") /\ queue' = Tail(queue)
    /\ UNCHANGED <<cached, dispatch, registered, joins, cancelled, on, retries, out>>

-----------------------------------------------------------------------------
StartThread == Append(dispatch, "up")
CacheFree == \A c \in Calls : task[c] # "opening"

\* consumer_ports: the call finds the ports of the channel, or opens them under
\* the lock of the cache and starts their thread, even under cancelled tokens; an
\* open that fails ends the call.
consumer_ports(c) ==
    /\ task[c] = "compute" /\ CacheFree
    /\ \/ cached # 0 /\ Move(c, "publish") /\ on' = [on EXCEPT ![c] = cached] /\ UNCHANGED dispatch
       \/ /\ cached = 0 /\ Move(c, "opening")
          /\ dispatch' = StartThread /\ on' = [on EXCEPT ![c] = Len(dispatch) + 1]
       \/ cached = 0 /\ Move(c, "settled") /\ UNCHANGED <<dispatch, on>>
    /\ UNCHANGED <<queue, cached, registered, joins, cancelled, retries, out>>

\* The handle is registered once the thread runs, and the ports are cached.
register_shutdown_handle(c) ==
    /\ task[c] = "opening" /\ Move(c, "publish")
    /\ registered' = registered \cup {on[c]} /\ cached' = on[c]
    /\ UNCHANGED <<queue, dispatch, joins, cancelled, on, retries, out>>

\* publish_until_delivered: the tokens are read before every attempt.
NeverStops == FALSE
shutdown_requested == cancelled
publish_until_delivered(c) ==
    /\ task[c] = "publish" /\ Move(c, IF shutdown_requested THEN "settled" ELSE "send")
    /\ UNCHANGED <<queue, cached, dispatch, registered, joins, cancelled, on, retries, out>>

\* The attempt, later: the request goes out, or the call fails (the deadline
\* included), or nobody takes it and the tokens are read again.
try_publish(c) ==
    /\ task[c] = "send"
    /\ \/ Move(c, "open") /\ out' = [out EXCEPT ![c] = IF cancelled THEN "late" ELSE "sent"]
       \/ Move(c, "settled") /\ UNCHANGED out
    /\ UNCHANGED <<queue, cached, dispatch, registered, joins, cancelled, on, retries>>
backoff(c) ==
    /\ task[c] = "send" /\ retries[c] < MaxRetries /\ Move(c, "publish")
    /\ retries' = [retries EXCEPT ![c] = @ + 1]
    /\ UNCHANGED <<queue, cached, dispatch, registered, joins, cancelled, on, out>>

\* The event the call waits for reaches its handler, on the thread of its ports.
Respond(c) ==
    /\ task[c] = "open" /\ c \notin Endless /\ dispatch[on[c]] = "up" /\ Move(c, "settled")
    /\ UNCHANGED <<queue, cached, dispatch, registered, joins, cancelled, on, retries, out>>

\* run_receive_loop reads the token before every turn.
ThreadStops(i) ==
    /\ dispatch[i] = "up" /\ cancelled /\ dispatch' = [dispatch EXCEPT ![i] = "gone"]
    /\ UNCHANGED <<task, queue, cached, registered, joins, cancelled, on, retries, out>>

-----------------------------------------------------------------------------
cancel ==
    /\ task[Shutdown] = "compute" /\ cancelled' = TRUE /\ Move(Shutdown, "taking")
    /\ UNCHANGED <<queue, cached, dispatch, registered, joins, on, retries, out>>

\* join_all waits for the handles it finds.
join_all ==
    /\ task[Shutdown] = "taking" /\ Move(Shutdown, "joining")
    /\ joins' = registered /\ registered' = {}
    /\ UNCHANGED <<queue, cached, dispatch, cancelled, on, retries, out>>

Joined == \A i \in joins : dispatch[i] = "gone"
release ==
    /\ task[Shutdown] = "joining" /\ Joined /\ CacheFree
    /\ Move(Shutdown, "settled") /\ cached' = 0
    /\ UNCHANGED <<queue, dispatch, registered, joins, cancelled, on, retries, out>>

Compute(c) ==
    \/ consumer_ports(c) \/ register_shutdown_handle(c)
    \/ publish_until_delivered(c) \/ try_publish(c) \/ backoff(c)
shutdown_and_release == cancel \/ join_all \/ release
Next ==
    \/ \E t \in Tasks : Submit(t)
    \/ \E c \in Calls : Compute(c) \/ Respond(c)
    \/ Take \/ shutdown_and_release
    \/ \E i \in DOMAIN dispatch : ThreadStops(i)
Spec == Init /\ [][Next]_vars

\* The pool runs its tasks, a thread that reads the token stops, and the services
\* that end their streams do.
LiveSpec ==
    /\ Spec /\ WF_vars(Take) /\ WF_vars(shutdown_and_release)
    /\ WF_vars(\E i \in DOMAIN dispatch : ThreadStops(i))
    /\ \A c \in Calls : WF_vars(Compute(c)) /\ WF_vars(Respond(c))

-----------------------------------------------------------------------------
\* A request goes out under cancelled tokens only if its call had read them before
\* (publish_until_delivered), and such calls are fewer than the pool has threads, as
\* the shutdown holds one: however many calls follow, they end as cancelled.
LateSendsAreFew == Cardinality({c \in Calls : out[c] = "late"}) < Threads

\* The ports are dropped once the response threads are gone ("the `static` port
\* cache is released after"): when the shutdown has settled no thread is up that
\* could still answer a request that went out, though a thread started too late to
\* be joined may be.
ReleasedAfterThreads ==
    task[Shutdown] = "settled" => \A c \in Calls : out[c] # "no" => dispatch[on[c]] = "gone"

=============================================================================
