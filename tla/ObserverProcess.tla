--------------------------- MODULE ObserverProcess ---------------------------
(***************************************************************************)
(* The threads of the ice-rpc-monitor process and how they end: the main   *)
(* thread and its live view (main.rs, console.rs), the acquisition thread  *)
(* that emits trace records (collector.rs), the writer thread of the trace *)
(* sink (traces.rs) and the termination signals (shutdown.rs).             *)
(***************************************************************************)
EXTENDS Integers, Sequences

CONSTANTS
    Sinks,             \* the trace sinks to explore: "none", "memory", "file"
    TRACE_QUEUE, RECENT_KEEP, trace_sample_rate,
    MaxCompleted       \* bound: calls the observer completes

Signals == {"interrupt", "terminate"}

VARIABLES
    live, sink,        \* --live on a terminal, where the traces go
    flag, slot,        \* TERMINATED, and iceoryx2's pending signal
    handlers, polling, \* the registered callbacks, whether the fallback thread polls
    main, obs, writer, \* where each thread is
    screen,            \* the terminal: "normal" or "alternate"
    traced,            \* calls completed so far
    sender, queue, hand, \* the sink's sender and queue, the line the writer took
    written, failed, dropped, recent

threads == <<main, obs, writer>>
signalling == <<flag, slot, handlers, polling>>
records == <<traced, sender, queue, hand, written, failed, dropped, recent>>
vars == <<live, sink, signalling, threads, screen, records>>

Init ==
    /\ live \in BOOLEAN /\ sink \in Sinks /\ flag = FALSE /\ slot = FALSE /\ handlers = {}
    /\ polling = FALSE /\ main = "install" /\ obs = "idle" /\ writer = "idle" /\ screen = "normal"
    /\ traced = 0 /\ sender = (sink # "none") /\ queue = <<>> /\ hand = <<>> /\ written = <<>>
    /\ failed = 0 /\ dropped = 0 /\ recent = <<>>

-----------------------------------------------------------------------------
(* Termination::install and the signals.                                   *)

\* The first registration that fails starts the polling thread.
install(registered) ==
    /\ main = "install" /\ main' = "start" /\ handlers' = registered
    /\ polling' = (registered # Signals)
    /\ UNCHANGED <<live, sink, flag, slot, obs, writer, screen, records>>

on_termination(sig) == flag' = TRUE

Signal(sig) ==
    /\ main \notin {"install", "exit"}
    /\ IF sig \in handlers THEN on_termination(sig) /\ UNCHANGED slot ELSE slot' = TRUE /\ UNCHANGED flag
    /\ UNCHANGED <<live, sink, handlers, polling, threads, screen, records>>

\* Whoever reads the pending signal consumes it.
Poll ==
    /\ polling /\ slot /\ main # "exit" /\ slot' = FALSE /\ polling' = FALSE /\ flag' = TRUE
    /\ UNCHANGED <<live, sink, handlers, threads, screen, records>>

-----------------------------------------------------------------------------
(* The main thread.                                                        *)

\* Monitor::new starts the sink's writer; without the live view main runs
\* the acquisition loop itself, which is to wait for it.
Start ==
    /\ main = "start" /\ main' = (IF live THEN "view" ELSE "join") /\ obs' = "check"
    /\ writer' = IF sink = "none" THEN "done" ELSE "recv"
    /\ screen' = IF live THEN "alternate" ELSE "normal"
    /\ UNCHANGED <<live, sink, signalling, records>>

View ==
    /\ main = "view" /\ main' = IF flag THEN "leave" ELSE "draw"
    /\ UNCHANGED <<live, sink, signalling, obs, writer, screen, records>>
Draw ==
    /\ main = "draw" /\ screen' = "alternate" /\ main' = "view"
    /\ UNCHANGED <<live, sink, signalling, obs, writer, records>>

Restored == screen' = "normal"
Leave ==
    /\ main = "leave" /\ Restored /\ main' = "join"
    /\ UNCHANGED <<live, sink, signalling, obs, writer, records>>

Detached == TRUE
Joined == obs = "done"
Exit ==
    /\ main = "join" /\ Joined /\ main' = "exit"
    /\ UNCHANGED <<live, sink, signalling, obs, writer, screen, records>>

-----------------------------------------------------------------------------
(* The acquisition thread.                                                 *)

Check ==
    /\ obs = "check" /\ main # "exit" /\ obs' = IF flag THEN "stop" ELSE "pass"
    /\ UNCHANGED <<live, sink, signalling, main, writer, screen, records>>

\* emit_trace: one record every trace_sample_rate completed calls.
Sampled(n) == n % trace_sample_rate = 0
emit(n) ==
    IF Len(queue) < TRACE_QUEUE THEN queue' = Append(queue, n) /\ UNCHANGED dropped
    ELSE dropped' = dropped + 1 /\ UNCHANGED queue

EmitTrace ==
    /\ obs = "pass" /\ main # "exit" /\ traced < MaxCompleted /\ sender
    /\ traced' = traced + 1
    /\ IF Sampled(traced') THEN emit(traced') ELSE UNCHANGED <<queue, dropped>>
    /\ UNCHANGED <<live, sink, signalling, threads, screen, sender, hand, written, failed, recent>>

EndPass ==
    /\ obs = "pass" /\ main # "exit" /\ obs' = "check"
    /\ UNCHANGED <<live, sink, signalling, main, writer, screen, records>>

\* Drop for TraceSink: close the channel, then join the writer.
CloseForgotten == UNCHANGED sender
CloseSender == sender' = FALSE
DropSink ==
    /\ obs = "stop" /\ main # "exit" /\ obs' = "joining" /\ CloseSender
    /\ UNCHANGED <<live, sink, signalling, main, writer, screen, traced, queue, hand, written, failed, dropped, recent>>
JoinWriter ==
    /\ obs = "joining" /\ main # "exit" /\ writer = "done" /\ obs' = "done"
    /\ UNCHANGED <<live, sink, signalling, main, writer, screen, records>>

-----------------------------------------------------------------------------
(* The writer thread.                                                      *)

Recv ==
    /\ writer = "recv" /\ main # "exit" /\ queue # <<>>
    /\ hand' = <<Head(queue)>> /\ queue' = Tail(queue) /\ writer' = "write"
    /\ UNCHANGED <<live, sink, signalling, main, obs, screen, traced, sender, written, failed, dropped, recent>>

PushRecent(lines, line) == Append(IF Len(lines) >= RECENT_KEEP THEN Tail(lines) ELSE lines, line)

\* on_line: a failing file does not stop the writer.
Write(ok) ==
    /\ writer = "write" /\ main # "exit" /\ (ok \/ sink = "file")
    /\ written' = IF ok THEN written \o hand ELSE written
    /\ failed' = IF ok THEN failed ELSE failed + 1
    /\ recent' = IF sink = "memory" THEN PushRecent(recent, hand[1]) ELSE recent
    /\ hand' = <<>> /\ writer' = "recv"
    /\ UNCHANGED <<live, sink, signalling, main, obs, screen, traced, sender, queue, dropped>>

EndWriter ==
    /\ writer = "recv" /\ main # "exit" /\ queue = <<>> /\ ~sender /\ writer' = "done"
    /\ UNCHANGED <<live, sink, signalling, main, obs, screen, records>>

Main == Start \/ View \/ Draw \/ Leave \/ Exit \/ \E r \in {Signals, {"interrupt"}, {}} : install(r)
Observe == Check \/ EndPass \/ DropSink \/ JoinWriter
WriteTraces == Recv \/ (\E ok \in BOOLEAN : Write(ok)) \/ EndWriter
Next == Main \/ Observe \/ EmitTrace \/ WriteTraces \/ Poll \/ \E sig \in Signals : Signal(sig)

\* Every thread is scheduled; nothing obliges a signal or a call to come.
Spec == Init /\ [][Next]_vars /\ WF_vars(Main) /\ WF_vars(Observe) /\ WF_vars(WriteTraces) /\ WF_vars(Poll)

-----------------------------------------------------------------------------
\* Every sampled record is written, refused by the output, on its way to it or
\* counted as dropped (TraceSink::emit, emit_trace).
NoRecordLost ==
    (IF sink = "none" THEN 0 ELSE traced \div trace_sample_rate)
        = Len(written) + failed + Len(hand) + Len(queue) + dropped

\* When the process exits, what the sink accepted has reached its output: main
\* joins the observer, whose sink joins its writer (main.rs, Drop for TraceSink).
ExitFlushes == main = "exit" => queue = <<>> /\ hand = <<>>

\* The process never leaves the terminal in the alternate screen (LiveConsole).
TerminalRestored == main = "exit" => screen = "normal"

\* The live view's buffer holds the latest lines, oldest first (TraceSink::memory).
RecentIsLatest ==
    sink = "memory" =>
        recent = SubSeq(written, 1 + (IF Len(written) > RECENT_KEEP THEN Len(written) - RECENT_KEEP ELSE 0), Len(written))

=============================================================================
