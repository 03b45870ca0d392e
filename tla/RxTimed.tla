------------------------------- MODULE RxTimed -------------------------------
(***************************************************************************)
(* The operators of ice-rpc-rx whose result depends on time or on a token: *)
(* delay and timeout (transform/utility.rs), take_until_token              *)
(* (transform/conditional.rs).  The source is a channel an emitter fills   *)
(* at any moment; the consumer's task polls until it is told Pending, then *)
(* parks, and runs again only when a waker its last poll registered is     *)
(* called: the channel's, or the timer's.                                  *)
(*                                                                         *)
(* Time is discrete.  A timer and a queued event hold the ticks they still *)
(* have to wait.                                                           *)
(***************************************************************************)
EXTENDS RxEvents, Integers

CONSTANTS
    Duration,          \* the duration of delay and of timeout, in ticks
    DELAY_READ_AHEAD,  \* events one poll of delay reads ahead
    MaxEvents          \* bound: events the source emits

VARIABLES
    op,        \* "delay", "timeout" or "token"
    sent,      \* what the source emitted
    chan,      \* the part of it no poll has read
    closed,    \* the source emitted its terminal or was dropped
    queue,     \* Delay.queue: events read ahead, with the ticks left
    sleep,     \* the armed timer: ticks left, or NoTimer
    done,      \* Delay.source_finished, Timeout.done, TakeUntilToken.done
    read,      \* events the current poll of delay has read ahead
    task,      \* "run" or "parked"
    wakers,    \* the wakers the last poll registered
    cancelled, \* the token
    out,       \* what the consumer received
    age        \* ticks since each event of sent was emitted, up to Duration

vars == <<op, sent, chan, closed, queue, sleep, done, read, task, wakers, cancelled, out, age>>

NoTimer == -1
TimeoutError == ErrorEv(Technical("Timeout"))
CancelledError == ErrorEv(Technical("Cancelled"))
Over == \E i \in 1..Len(out) : out[i] = None

Init ==
    /\ op \in {"delay", "timeout", "token"}
    /\ sent = <<>> /\ chan = <<>> /\ closed = FALSE /\ cancelled = FALSE /\ age = <<>>
    /\ queue = <<>> /\ sleep = NoTimer /\ done = FALSE /\ read = 0
    /\ task = "run" /\ wakers = {} /\ out = <<>>

-----------------------------------------------------------------------------
(* The source, the clock and the token.                                    *)

WakeBy(w) == task' = IF w \in wakers THEN "run" ELSE task

Emit(ev) ==
    /\ ~closed /\ Len(sent) < MaxEvents
    /\ sent' = Append(sent, ev) /\ chan' = Append(chan, ev) /\ age' = Append(age, 0)
    /\ closed' = is_terminal(ev) /\ WakeBy("source")
    /\ UNCHANGED <<op, queue, sleep, done, read, wakers, cancelled, out>>

DropSource ==
    /\ ~closed /\ closed' = TRUE /\ WakeBy("source")
    /\ UNCHANGED <<op, sent, chan, queue, sleep, done, read, wakers, cancelled, out, age>>

Less(n) == IF n > 0 THEN n - 1 ELSE n

Tick ==
    /\ sleep' = Less(sleep)
    /\ queue' = [i \in 1..Len(queue) |-> [queue[i] EXCEPT !.left = Less(@)]]
    /\ age' = [i \in 1..Len(age) |-> IF age[i] < Duration THEN age[i] + 1 ELSE Duration]
    /\ UNCHANGED <<op, sent, chan, closed, done, read, task, wakers, cancelled, out>>

TimerFires ==
    /\ sleep = 0 /\ task = "parked" /\ "timer" \in wakers /\ task' = "run"
    /\ UNCHANGED <<op, sent, chan, closed, queue, sleep, done, read, wakers, cancelled, out, age>>

Cancel ==
    /\ op = "token" /\ ~cancelled /\ cancelled' = TRUE
    /\ UNCHANGED <<op, sent, chan, closed, queue, sleep, done, read, task, wakers, out, age>>

-----------------------------------------------------------------------------
(* One iteration of the operators' poll_next.                              *)

Ev == IF chan # <<>> THEN Head(chan) ELSE IF closed THEN None ELSE Pending
PullSource == chan' = IF chan = <<>> THEN chan ELSE Tail(chan)

\* Returning an item: the consumer polls again at once.
Ready(item) == out' = Append(out, item) /\ read' = 0 /\ UNCHANGED <<task, wakers>>
Park(ws) == task' = "parked" /\ wakers' = ws /\ read' = 0 /\ UNCHANGED out
Loop == UNCHANGED <<task, wakers, out>>

Polling(o) == op = o /\ task = "run" /\ ~Over /\ UNCHANGED <<op, sent, closed, cancelled, age>>

\* The head is due: it leaves, and the next head will need a timer of its own.
DelayRelease ==
    /\ Polling("delay") /\ queue # <<>> /\ Head(queue).left = 0
    /\ Ready(Head(queue).ev)
    /\ queue' = Tail(queue) /\ sleep' = NoTimer /\ UNCHANGED <<chan, done>>

DelayEnd ==
    /\ Polling("delay") /\ queue = <<>> /\ done
    /\ Ready(None) /\ sleep' = NoTimer /\ UNCHANGED <<chan, queue, done>>

HeadTimerUnarmed == sleep
HeadTimer == IF queue = <<>> THEN NoTimer ELSE IF sleep = NoTimer THEN Head(queue).left ELSE sleep
NothingDue == IF queue = <<>> THEN ~done ELSE Head(queue).left > 0
MayRead == ~done /\ read < DELAY_READ_AHEAD
Deadline == Duration

DelayReadAhead ==
    /\ Polling("delay") /\ NothingDue /\ MayRead /\ Ev # Pending
    /\ PullSource /\ Loop /\ sleep' = HeadTimer
    /\ IF Ev = None
       THEN done' = TRUE /\ UNCHANGED <<queue, read>>
       ELSE queue' = Append(queue, [ev |-> Ev, left |-> Deadline]) /\ read' = read + 1
            /\ UNCHANGED done

DelayWait ==
    /\ Polling("delay") /\ NothingDue /\ ~(MayRead /\ Ev # Pending)
    /\ IF HeadTimer = 0
       THEN sleep' = NoTimer /\ Loop /\ UNCHANGED read
       ELSE /\ sleep' = HeadTimer
            /\ Park((IF MayRead THEN {"source"} ELSE {})
                    \cup (IF HeadTimer = NoTimer THEN {} ELSE {"timer"}))
    /\ UNCHANGED <<chan, queue, done>>

TimerArmed == IF sleep = NoTimer THEN Duration ELSE sleep
AfterEvent == Duration

\* The source is polled before the timer: an answer that is there wins.
TimerBeatsSource == TimerArmed = 0
TimerExpired == Ev = Pending /\ TimerArmed = 0

Timeout ==
    /\ Polling("timeout") /\ UNCHANGED queue
    /\ \/ done /\ Ready(None) /\ UNCHANGED <<chan, sleep, done>>
       \/ ~done /\ TimerExpired /\ done' = TRUE /\ sleep' = TimerArmed
          /\ Ready(TimeoutError) /\ UNCHANGED chan
       \/ ~done /\ ~TimerExpired /\ Ev = Pending /\ sleep' = TimerArmed
          /\ Park({"source", "timer"}) /\ UNCHANGED <<chan, done>>
       \/ ~done /\ ~TimerExpired /\ Ev = None /\ sleep' = TimerArmed
          /\ Ready(None) /\ UNCHANGED <<chan, done>>
       \/ ~done /\ ~TimerExpired /\ Ev \notin {Pending, None} /\ sleep' = AfterEvent
          /\ PullSource /\ Ready(Ev) /\ done' = is_terminal(Ev)

TokenSeen == cancelled

\* The token is looked at, never waited for.
TakeUntilToken ==
    /\ Polling("token") /\ UNCHANGED <<queue, sleep>>
    /\ \/ done /\ Ready(None) /\ UNCHANGED <<chan, done>>
       \/ ~done /\ TokenSeen /\ done' = TRUE /\ Ready(CancelledError) /\ UNCHANGED chan
       \/ ~done /\ ~TokenSeen /\ Ev = Pending /\ Park({"source"}) /\ UNCHANGED <<chan, done>>
       \/ ~done /\ ~TokenSeen /\ Ev # Pending /\ PullSource /\ Ready(Ev) /\ UNCHANGED done

-----------------------------------------------------------------------------
Poll == DelayRelease \/ DelayEnd \/ DelayReadAhead \/ DelayWait \/ Timeout \/ TakeUntilToken

Next ==
    \/ \E ev \in {NextEv(Len(sent) + 1), Complete, ErrorEv(Business("b1"))} : Emit(ev)
    \/ DropSource \/ Tick \/ TimerFires \/ Cancel \/ Poll

\* The executor polls a woken task, time passes, an expired timer is noticed;
\* the source owes nothing.
Fairness == WF_vars(Poll) /\ WF_vars(Tick) /\ WF_vars(TimerFires)
Spec == Init /\ [][Next]_vars /\ Fairness

-----------------------------------------------------------------------------
\* What the consumer received before the end of the stream.
Delivered == IF Over THEN SubSeq(out, 1, Len(out) - 1) ELSE out

\* delay shifts and never reorders: what came out is a prefix of what the
\* source emitted, and every event left at least Duration ticks after it was
\* emitted, however late the polls and however full the read-ahead.
DelayShifts ==
    op = "delay" => /\ Len(Delivered) =< Len(sent)
                    /\ \A i \in 1..Len(Delivered) : Delivered[i] = sent[i] /\ age[i] = Duration

\* A timeout is reported only for a silence: never while an answer is already
\* in the channel or the source has ended, even when the timer expired first.
TimeoutOnlyOnSilence ==
    op = "timeout" /\ out' = Append(out, TimeoutError) => chan = <<>> /\ ~closed

\* ... and only Duration ticks after the last event was delivered.
TimeoutAfterDuration ==
    op = "timeout" /\ out' = Append(out, TimeoutError) => \A i \in 1..Len(sent) : age[i] = Duration

\* Once the token is cancelled not one value more is read: what the consumer
\* still receives is the Cancelled error, or the end of a source that ended.
TokenStopsReading ==
    op = "token" /\ cancelled => out' \in {out, Append(out, CancelledError), Append(out, None)}

==============================================================================
