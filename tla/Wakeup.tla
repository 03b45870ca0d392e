-------------------------------- MODULE Wakeup --------------------------------
(***************************************************************************)
(* How a published sample wakes the dispatch thread of the other process:  *)
(* the coalesced notification of the senders (notify.rs), the receive loop *)
(* that polls, spins and blocks (pump.rs), the wait that consumes the      *)
(* notification (waitset.rs), and how the loop learns that it must end.    *)
(*                                                                         *)
(* Time is kept as ages that Tick increases and that saturate once they    *)
(* can no longer be told apart.  Samples are only counted.                 *)
(***************************************************************************)
EXTENDS Naturals

CONSTANTS
    Senders,        \* threads of one process that publish on the channel
    Window,         \* NOTIFY_COALESCE_WINDOW, in ticks
    SpinTime,       \* what IDLE_SPINS yields take at least, in ticks
    Capacity,       \* buffer of the subscriber
    SignalCheck,    \* SIGNAL_CHECK_SAMPLES
    NotifyFails,    \* whether iceoryx2 may fail to notify
    MaxErrors       \* bound on failing receives

\* What NOTIFY_COALESCE_WINDOW claims of the two times.
ASSUME TimesAssumption == Window \in Nat \ {0} /\ SpinTime \in Nat /\ SpinTime >= Window
ASSUME SignalAssumption == SignalCheck \in Nat \ {0}

VARIABLES
    queue,      \* samples in the subscriber's buffer
    took,       \* a sample was received since the buffer was last empty
    event,      \* the listener has a pending notification
    lost,       \* the last wake-up failed, or was drained by a wait that had expired,
                \* and no sample was received since
    stamp,      \* the coalescer: age of the last notification, or NEVER
    sender,     \* thread -> [at, lag]: lag is the age of the clock it read
    loop,       \* the receive loop: [at, spun, idle, notified, ticks]
    stop, signal, errors
vars == <<queue, took, event, lost, stamp, sender, loop, stop, signal, errors>>
control == <<stop, signal, errors>>

NEVER == Window + 1
Sat(n, max) == IF n < max THEN n + 1 ELSE max

Init ==
    /\ queue = 0 /\ took = FALSE /\ event = FALSE /\ lost = FALSE /\ stamp = NEVER
    /\ sender = [t \in Senders |-> [at |-> "idle", lag |-> 0]]
    /\ loop = [at |-> "setup", spun |-> FALSE, idle |-> 0, notified |-> FALSE, ticks |-> 0]
    /\ stop = FALSE /\ signal = FALSE /\ errors = 0

Tick ==
    /\ stamp' = IF stamp = NEVER THEN NEVER ELSE Sat(stamp, Window)
    /\ sender' = [t \in Senders |-> [sender[t] EXCEPT
                    !.lag = IF sender[t].at = "store" THEN Sat(@, Window) ELSE 0]]
    /\ loop' = [loop EXCEPT !.idle = Sat(@, SpinTime)]
    /\ UNCHANGED <<queue, took, event, lost, control>>

-----------------------------------------------------------------------------
At(t, at, lag) == sender' = [sender EXCEPT ![t] = [at |-> at, lag |-> lag]]

\* A full buffer refuses the sample, and the publication is tried again.
HasRoom(n) == n < Capacity

Publish(t) ==
    /\ sender[t].at = "idle" /\ HasRoom(queue)
    /\ queue' = queue + 1
    /\ took' = IF queue = 0 THEN FALSE ELSE took
    /\ At(t, "published", 0)
    /\ UNCHANGED <<event, lost, stamp, loop, control>>

\* should_notify reads the clock and the coalescer, and skips inside the window.
ReadStamp(t) ==
    /\ sender[t].at = "published"
    /\ IF stamp # NEVER /\ stamp < Window
       THEN At(t, "idle", 0) ELSE At(t, "store", 0)
    /\ UNCHANGED <<queue, took, event, lost, stamp, loop, control>>

\* It records the clock it read, which may be old by now.
StoreStamp(t) ==
    /\ sender[t].at = "store"
    /\ stamp' = sender[t].lag
    /\ At(t, "notify", 0)
    /\ UNCHANGED <<queue, took, event, lost, loop, control>>

\* A failing notification is ignored.
Notify(t) ==
    /\ sender[t].at = "notify"
    /\ \/ event' = TRUE /\ lost' = FALSE
       \/ NotifyFails /\ lost' = TRUE /\ UNCHANGED event
    /\ At(t, "idle", 0)
    /\ UNCHANGED <<queue, took, stamp, loop, control>>

-----------------------------------------------------------------------------
\* The wait set is created and attached, or the thread returns.
Setup ==
    /\ loop.at = "setup"
    /\ \E at \in {"poll", "ended"} : loop' = [loop EXCEPT !.at = at, !.idle = 0]
    /\ UNCHANGED <<queue, took, event, lost, stamp, sender, control>>

Stopped ==
    /\ loop.at = "poll" /\ stop
    /\ loop' = [loop EXCEPT !.at = "ended"]
    /\ UNCHANGED <<queue, took, event, lost, stamp, sender, control>>

\* A busy loop looks at the termination flag every SignalCheck samples.
ChecksSignal(n) == n = 0

\* A sample received when termination is noticed is not handled.
Receive ==
    /\ loop.at = "poll" /\ ~stop /\ queue > 0
    /\ queue' = queue - 1 /\ took' = TRUE /\ lost' = FALSE
    /\ LET n == (loop.ticks + 1) % SignalCheck
           ends == ChecksSignal(n) /\ signal
       IN  /\ loop' = [loop EXCEPT !.spun = FALSE, !.idle = 0, !.ticks = n,
                                   !.at = IF ends THEN "ended" ELSE "poll"]
           /\ stop' = ends
    /\ UNCHANGED <<event, stamp, sender, signal, errors>>

ReceiveError ==
    /\ loop.at = "poll" /\ ~stop /\ errors < MaxErrors
    /\ errors' = errors + 1
    /\ loop' = [loop EXCEPT !.spun = FALSE, !.idle = 0]
    /\ UNCHANGED <<queue, took, event, lost, stamp, sender, stop, signal>>

NoBudget(idle) == TRUE
BudgetSpent(idle) == idle >= SpinTime

\* The empty polls of one spin budget; another sample starts it anew.
Spin ==
    /\ loop.at = "poll" /\ ~stop /\ queue = 0 /\ ~loop.spun /\ BudgetSpent(loop.idle)
    /\ loop' = [loop EXCEPT !.spun = TRUE]
    /\ UNCHANGED <<queue, took, event, lost, stamp, sender, control>>

\* A poll that finds nothing, and then the wait, which samples may precede.
Park ==
    /\ loop.at = "poll" /\ ~stop /\ queue = 0 /\ loop.spun
    /\ loop' = [loop EXCEPT !.at = "parked"]
    /\ UNCHANGED <<queue, took, event, lost, stamp, sender, control>>

NoDeadline == FALSE

\* WAITSET_DEADLINE expires however long the notification takes.
Deadline == TRUE

\* The wait returns: by the notification, at its deadline, or because of a signal,
\* which iceoryx2 reports before anything else.
Return ==
    /\ loop.at = "parked"
    /\ \/ ~signal /\ event /\ loop' = [loop EXCEPT !.at = "drain", !.notified = TRUE]
       \/ ~signal /\ Deadline /\ loop' = [loop EXCEPT !.at = "drain", !.notified = FALSE]
       \/ signal /\ loop' = [loop EXCEPT !.at = "signalled", !.notified = TRUE]
    /\ UNCHANGED <<queue, took, event, lost, stamp, sender, control>>

\* The listener is drained, whatever ended the wait: a notification that came
\* behind the deadline is consumed and starts no new spin budget.
Drain ==
    /\ loop.at \in {"drain", "signalled"}
    /\ event' = FALSE /\ lost' = (~loop.notified /\ (lost \/ event))
    /\ stop' = (stop \/ loop.at = "signalled")
    /\ loop' = [loop EXCEPT !.at = "poll", !.spun = ~loop.notified, !.idle = 0]
    /\ UNCHANGED <<queue, took, stamp, sender, signal, errors>>

-----------------------------------------------------------------------------
RequestStop ==
    /\ ~stop /\ stop' = TRUE
    /\ UNCHANGED <<queue, took, event, lost, stamp, sender, loop, signal, errors>>

Signal ==
    /\ ~signal /\ signal' = TRUE
    /\ UNCHANGED <<queue, took, event, lost, stamp, sender, loop, stop, errors>>

Loop == Setup \/ Stopped \/ Receive \/ Spin \/ Park \/ Return \/ Drain
Next ==
    \/ Tick \/ RequestStop \/ Signal \/ Loop \/ ReceiveError
    \/ \E t \in Senders : Publish(t) \/ ReadStamp(t) \/ StoreStamp(t) \/ Notify(t)

Spec == Init /\ [][Next]_vars

\* The thread is scheduled, and time passes.
LiveSpec == Spec /\ WF_vars(Loop) /\ WF_vars(Tick)

-----------------------------------------------------------------------------
\* The types of the variables.
TypeOK ==
    /\ queue \in 0..Capacity /\ stamp \in 0..NEVER
    /\ \A t \in Senders : sender[t].at \in {"idle", "published", "store", "notify"}
    /\ loop.at \in {"setup", "poll", "parked", "drain", "signalled", "ended"}

\* "A coalesced wake-up is only ever skipped while the receiver is still awake"
\* (NOTIFY_COALESCE_WINDOW), as far as it holds: beside a sample the loop blocks
\* only with a notification pending, or with a sender that has yet to decide on one
\* or to send it, unless the last wake-up was lost and nothing was received since.
SamplesAreAnnounced ==
    loop.at = "parked" /\ queue > 0 =>
        event \/ lost \/ \E t \in Senders : sender[t].at # "idle"

=============================================================================
