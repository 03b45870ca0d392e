----------------------------- MODULE CallContext -----------------------------
(***************************************************************************)
(* The ambient context of the calls being served (types/context.rs): one   *)
(* slot per thread for the context and one for the cancellation token,     *)
(* installed around every poll of a handler task and restored after it,    *)
(* with in-process calls nested in a poll, and the trace that the requests *)
(* a handler emits carry to the next hop (types/header.rs, client.rs).     *)
(***************************************************************************)
EXTENDS Naturals, Sequences, Functions

CONSTANTS
    Threads,        \* threads that poll handler tasks
    Tracing,        \* the `tracing` feature
    MaxRequests,    \* requests emitted
    MaxDepth,       \* in-process calls nested in one handler
    MaxIds          \* ids minted

VARIABLES
    requests,   \* headers emitted: [trace, parent, span, oneway, by]
    tasks,      \* request -> [pc, ctx, locals, cancelled]
    running,    \* thread -> the request whose task it polls, or 0
    current,    \* thread -> CURRENT
    token,      \* thread -> CURRENT_CANCEL: the request it cancels, or 0
    frames,     \* thread -> the values its open scopes restore
    minted      \* ids minted so far
vars == <<requests, tasks, running, current, token, frames, minted>>
slots == <<running, current, token, frames>>

None == [call |-> 0, depth |-> 0, trace |-> 0, parent |-> 0, span |-> 0]
NoTask == [pc |-> "none", ctx |-> None, locals |-> <<>>, cancelled |-> FALSE]

Init ==
    /\ requests = <<>> /\ tasks = [i \in 1..MaxRequests |-> NoTask] /\ minted = 0
    /\ running = [t \in Threads |-> 0] /\ current = [t \in Threads |-> None]
    /\ token = [t \in Threads |-> 0] /\ frames = [t \in Threads |-> <<>>]

-----------------------------------------------------------------------------
\* TraceContext: a trace is absent when its id is zero.
Trace(id, parent) == [trace |-> id, parent |-> parent]
is_present(trace) == trace.trace # 0
child_of(trace, span) == Trace(trace.trace, span)

\* Continues a trace, or starts one with the next id.
continued_or_root(trace, span) ==
    IF is_present(trace) THEN child_of(trace, span) ELSE Trace(minted + 1, span)

child_trace(ctx) == continued_or_root(ctx, ctx.span)

\* The trace of a request: the handler's, or a root that names its own span.
OutgoingTrace(ctx) == IF ctx # None THEN child_trace(ctx) ELSE Trace(minted + 1, minted + 2)

Emit(t, oneway) ==
    LET trace == OutgoingTrace(current[t])
    IN  /\ Len(requests) < MaxRequests /\ minted + 2 <= MaxIds
        /\ requests' = Append(requests,
             [trace |-> trace.trace, parent |-> trace.parent, span |-> trace.parent,
              oneway |-> oneway, by |-> running[t]])
        /\ minted' = IF current[t] # None THEN minted ELSE minted + 2
        /\ UNCHANGED <<tasks, slots>>

\* native_call, send_one_way: from a handler that is being polled, or from code
\* that runs on a thread between two polls, a spawned task included.
native_call(t) == Emit(t, FALSE)
send_one_way(t) == Emit(t, TRUE)

-----------------------------------------------------------------------------
\* CallContext::new: the receiver mints a span of its own.
next_span_id(i) == minted + 1
new(i) ==
    [call |-> i, depth |-> 0, trace |-> requests[i].trace, parent |-> requests[i].parent,
     span |-> next_span_id(i)]

\* CallContext::local, in the trace of the ambient context.
local(i, depth, ctx) ==
    LET trace == IF ctx # None THEN child_trace(ctx) ELSE Trace(minted + 2, 0)
    IN  [call |-> i, depth |-> depth, trace |-> trace.trace, parent |-> trace.parent,
         span |-> minted + 1]

\* What a scope puts back when it is dropped.
Cleared(f) == [f EXCEPT !.current = None, !.token = 0]
Restored(f) == f

\* The transport's half of a poll: the token of a two-way call.
install_call_cancellation(t, i) ==
    token' = [token EXCEPT ![t] = IF requests[i].oneway THEN @ ELSE i]

\* The contexts a poll enters: the call's, then those of the in-process calls
\* it waits for.
Scopes(task) == IF Tracing THEN <<task.ctx>> \o task.locals ELSE <<task.ctx>>

BeginPoll(t, i, task) ==
    LET scopes == Scopes(task)
        before(k) == IF k = 1 THEN current[t] ELSE scopes[k - 1]
    IN  /\ running' = [running EXCEPT ![t] = i]
        /\ frames' = [frames EXCEPT ![t] =
             [k \in 1..Len(scopes) |-> [current |-> before(k), token |-> token[t]]]]
        /\ current' = [current EXCEPT ![t] = scopes[Len(scopes)]]
        /\ install_call_cancellation(t, i)
        /\ tasks' = [tasks EXCEPT ![i] = task]

EndScopes(t) ==
    /\ current' = [current EXCEPT ![t] = Restored(frames[t][1]).current]
    /\ token' = [token EXCEPT ![t] = Restored(frames[t][1]).token]

EndPoll(t, pc) ==
    /\ EndScopes(t)
    /\ running' = [running EXCEPT ![t] = 0] /\ frames' = [frames EXCEPT ![t] = <<>>]
    /\ tasks' = [tasks EXCEPT ![running[t]].pc = pc]
    /\ UNCHANGED <<requests, minted>>

\* The generated handler, polled once on the thread of the channel.
Receive(t, i) ==
    /\ running[t] = 0 /\ i \in DOMAIN requests /\ tasks[i].pc = "none" /\ minted < MaxIds
    /\ minted' = minted + 1
    /\ BeginPoll(t, i, [NoTask EXCEPT !.pc = "polled", !.ctx = new(i)])
    /\ UNCHANGED requests

\* CancellableCall::poll: a cancelled call is not polled again.
Poll(t, i) ==
    /\ running[t] = 0 /\ tasks[i].pc = "parked" /\ ~tasks[i].cancelled
    /\ BeginPoll(t, i, [tasks[i] EXCEPT !.pc = "polled"])
    /\ UNCHANGED <<requests, minted>>
Drop(i) ==
    /\ tasks[i].pc = "parked" /\ tasks[i].cancelled
    /\ tasks' = [tasks EXCEPT ![i].pc = "done"]
    /\ UNCHANGED <<requests, slots, minted>>

\* An await that is not ready, and the end of the handler.
Pending(t) == running[t] # 0 /\ EndPoll(t, IF tasks[running[t]].cancelled THEN "done" ELSE "parked")
Ready(t) == running[t] # 0 /\ tasks[running[t]].locals = <<>> /\ EndPoll(t, "done")

enter_ambient(t, ctx) ==
    /\ frames' = [frames EXCEPT ![t] = Append(@, [current |-> current[t], token |-> token[t]])]
    /\ current' = [current EXCEPT ![t] = ctx]

\* A proxy in Provider mode: the in-process call is polled inside the caller.
local_call_scoped(t) ==
    LET i == running[t]
        ctx == local(i, Len(tasks[i].locals) + 1, current[t])
    IN  /\ i # 0 /\ Len(tasks[i].locals) < MaxDepth /\ minted + 2 <= MaxIds
        /\ tasks' = [tasks EXCEPT ![i].locals = Append(@, IF Tracing THEN ctx ELSE None)]
        /\ IF Tracing
           THEN enter_ambient(t, ctx) /\ minted' = minted + 2
           ELSE UNCHANGED <<frames, current, minted>>
        /\ UNCHANGED <<requests, running, token>>

LocalReturn(t) ==
    LET i == running[t]
        innermost == Len(frames[t])
    IN  /\ i # 0 /\ tasks[i].locals # <<>>
        /\ tasks' = [tasks EXCEPT ![i].locals = SubSeq(@, 1, Len(@) - 1)]
        /\ IF Tracing
           THEN /\ frames' = [frames EXCEPT ![t] = SubSeq(@, 1, innermost - 1)]
                /\ current' = [current EXCEPT ![t] = Restored(frames[t][innermost]).current]
           ELSE UNCHANGED <<frames, current>>
        /\ UNCHANGED <<requests, running, token, minted>>

\* A remote Cancel fires the token of a call in flight.
Cancel(i) ==
    /\ tasks[i].pc \in {"polled", "parked"} /\ ~requests[i].oneway /\ ~tasks[i].cancelled
    /\ tasks' = [tasks EXCEPT ![i].cancelled = TRUE]
    /\ UNCHANGED <<requests, slots, minted>>

Next ==
    \/ \E t \in Threads :
         \/ native_call(t) \/ send_one_way(t)
         \/ Pending(t) \/ Ready(t) \/ local_call_scoped(t) \/ LocalReturn(t)
         \/ \E i \in 1..MaxRequests : Receive(t, i) \/ Poll(t, i)
    \/ \E i \in 1..MaxRequests : Drop(i) \/ Cancel(i)
Spec == Init /\ [][Next]_vars

-----------------------------------------------------------------------------
\* CallContext::current and CallContext::cancellation are those of the call a
\* thread polls, and of the in-process call it is inside of, whatever the thread
\* polled before; between two polls, where a task the implementation spawned
\* runs, there is none.
ContextFollowsTask ==
    \A t \in Threads :
        IF running[t] = 0 THEN current[t] = None /\ token[t] = 0
        ELSE LET i == running[t]
             IN  /\ current[t].call = i
                 /\ current[t].depth = IF Tracing THEN Len(tasks[i].locals) ELSE 0
                 /\ token[t] = IF requests[i].oneway THEN 0 ELSE i

Contexts ==
    UNION {{tasks[i].ctx} \cup (IF Tracing THEN Range(tasks[i].locals) ELSE {}) :
           i \in {j \in 1..MaxRequests : tasks[j].pc # "none"}}

\* A request emitted while a call is served stays in the trace of that call and
\* names a span of it, the one of the in-process call included; one emitted
\* outside any call starts a trace of its own.
TraceIsTree ==
    \A i \in DOMAIN requests :
        LET r == requests[i]
        IN  IF r.by = 0
            THEN \A j \in 1..(i - 1) : requests[j].trace # r.trace
            ELSE /\ r.trace = requests[r.by].trace
                 /\ r.parent # requests[r.by].parent
                 /\ \A c \in Contexts : c.span = r.parent => c.call = r.by

\* No two hops share a span, and none takes its caller's: a receiver mints its
\* own, and an in-process call is a hop of its own.
SpansAreUnique ==
    \A c, d \in Contexts :
        c.span = d.span =>
            c = d /\ \A i \in DOMAIN requests : requests[i].by = 0 => requests[i].span # c.span

\* A handler sees the context and the token of its own call whatever its thread
\* polled before, and the requests it emits continue its trace: every hop names a
\* span of its caller and has one of its own (CallContext::scope, child_trace).
CallsKeepContext == ContextFollowsTask /\ TraceIsTree /\ SpansAreUnique

=============================================================================
