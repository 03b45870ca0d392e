------------------------------ MODULE RxStream ------------------------------
(***************************************************************************)
(* A local channel of ice-rpc-rx: its Senders (event.rs), the Observable   *)
(* at the other end (stream.rs), the terminals that consume it and the     *)
(* push task of a subscription (transform/terminals.rs, subscribe.rs).     *)
(*                                                                         *)
(* The senders, the consumer, the owner of the Subscription and the push   *)
(* task interleave.  The blocking twins of the terminals read the same     *)
(* events in the same way.                                                 *)
(***************************************************************************)
EXTENDS RxEvents, SequencesExt

CONSTANTS
    Senders,     \* the clones of the Sender
    Capacity,    \* slots of the channel; 0: unbounded
    Modes,       \* the ways of consuming to explore
    MaxSends     \* bound: events offered to the channel

VARIABLES
    chan,        \* the channel
    accepted,    \* the events whose send returned Ok
    offered,     \* how many sends were tried
    half,        \* senders between the two sends of send_complete_with
    gone,        \* senders that were dropped
    mode,        \* how the observable is consumed
    pulled,      \* the events the observable delivered
    seen,        \* what the caller, or its callbacks, saw
    result,      \* what the terminal returned, NoResult before
    terminated,  \* Observable.terminated
    alive,       \* the observable exists
    cleanup,     \* the arguments the cleanup action was run with
    unsubscribed,\* the Subscription was dropped or unsubscribed
    token        \* the token of the Subscription

vars == <<chan, accepted, offered, half, gone, mode, pulled, seen, result, terminated,
          alive, cleanup, unsubscribed, token>>
senderVars == <<accepted, offered, half, gone>>

NoResult == [k |-> "none", r |-> <<>>]
OkOf(values) == [k |-> "ok", r |-> values]
ErrOf(e) == [k |-> "err", r |-> <<e>>]

Init ==
    /\ chan = <<>> /\ accepted = <<>> /\ offered = 0 /\ half = {} /\ gone = {}
    /\ mode \in Modes /\ pulled = <<>> /\ seen = <<>> /\ result = NoResult
    /\ terminated = FALSE /\ alive = TRUE /\ cleanup = <<>>
    /\ unsubscribed = FALSE /\ token = FALSE

-----------------------------------------------------------------------------
(* Sender: a send waits for room, a try_send fails without it, both fail   *)
(* once the observable is gone.                                            *)

Full == Capacity > 0 /\ Len(chan) >= Capacity
Enqueue(ev) == chan' = Append(chan, ev) /\ accepted' = Append(accepted, ev)
Refused == UNCHANGED <<chan, accepted>>
consumerVars == <<mode, pulled, seen, result, terminated, alive, cleanup, unsubscribed, token>>

\* send_next, send_complete, send_error, send_event, and the first half of
\* send_complete_with.
Send(s, ev, pair) ==
    /\ s \notin gone \cup half /\ offered < MaxSends
    /\ IF alive THEN ~Full /\ Enqueue(ev) ELSE Refused
    /\ half' = IF pair /\ alive THEN half \cup {s} ELSE half
    /\ offered' = offered + 1 /\ UNCHANGED <<gone, consumerVars>>

\* The second half of send_complete_with.
SendSecond(s) ==
    /\ s \in half
    /\ IF alive THEN ~Full /\ Enqueue(Complete) ELSE Refused
    /\ half' = half \ {s} /\ UNCHANGED <<offered, gone, consumerVars>>

\* try_send_next, try_send_complete, try_send_error, try_send_event.
TrySend(s, ev) ==
    /\ s \notin gone \cup half /\ offered < MaxSends
    /\ IF alive /\ ~Full THEN Enqueue(ev) ELSE Refused
    /\ offered' = offered + 1 /\ UNCHANGED <<half, gone, consumerVars>>

\* try_send_complete_with: nothing is taken back when Complete finds no room.
TrySendPair(s, v) ==
    /\ s \notin gone \cup half /\ offered < MaxSends
    /\ LET room == IF ~alive THEN 0 ELSE IF Capacity = 0 THEN 2 ELSE Capacity - Len(chan)
           took == SubSeq(of(v), 1, IF room < 2 THEN room ELSE 2)
       IN chan' = chan \o took /\ accepted' = accepted \o took
    /\ offered' = offered + 1 /\ UNCHANGED <<half, gone, consumerVars>>

DropSender(s) ==
    /\ s \notin gone \cup half /\ gone' = gone \cup {s}
    /\ UNCHANGED <<chan, accepted, offered, half, consumerVars>>

-----------------------------------------------------------------------------
(* Observable.                                                             *)

Closed == gone = Senders
Readable == alive /\ (chan # <<>> \/ Closed)
Ev == IF chan # <<>> THEN Head(chan) ELSE None

\* recv, poll_next: the event, the close, and the terminated flag.
RecvFlagForgotten == terminated' = terminated
RecvFlag == terminated' = (terminated \/ is_terminal(Ev))
Recv ==
    /\ Readable
    /\ chan' = (IF chan = <<>> THEN chan ELSE Tail(chan))
    /\ pulled' = Append(pulled, Ev)
    /\ UNCHANGED <<senderVars, mode>>

\* PinnedDrop: the cleanup, told whether a terminal was delivered; what is
\* still queued is lost.
Dropped(flag) == alive' = FALSE /\ cleanup' = Append(cleanup, flag)
Kept == UNCHANGED <<alive, cleanup>>

\* next: an abrupt close is reported once, as a technical error.
AbruptClose == Ev = None /\ ~terminated
NextItem ==
    CASE Ev.k \in {"next", "error"} -> Ev
      [] AbruptClose -> ErrorEv(Technical("TransportError"))
      [] OTHER -> None

CallRecv ==
    /\ mode = "recv" /\ ~Contains(seen, None) /\ Recv /\ RecvFlag
    /\ seen' = Append(seen, Ev)
    /\ Kept /\ UNCHANGED <<result, unsubscribed, token>>

CallNext ==
    /\ mode = "next" /\ ~Contains(seen, None) /\ Recv
    /\ terminated' = (terminated \/ is_terminal(Ev) \/ Ev = None)
    /\ seen' = Append(seen, NextItem)
    /\ Kept /\ UNCHANGED <<result, unsubscribed, token>>

\* first_event, last_event, collect_values and for_each own the stream: it is
\* dropped with their return.
Values == [i \in 1..Len(seen) |-> seen[i].v]
LastValue(s) == IF s = <<>> THEN ErrOf(Empty) ELSE OkOf(<<Last(s)>>)
Outcome(values) ==
    IF Ev.k = "next" THEN IF mode = "first" THEN OkOf(<<Ev.v>>) ELSE NoResult
    ELSE IF Ev.k = "error" THEN ErrOf(Ev.e)
    ELSE CASE mode = "first" -> ErrOf(Empty)
           [] mode = "last" -> LastValue(values)
           [] mode = "collect" -> OkOf(values)
           [] mode = "for_each" -> IF AbruptClose THEN ErrOf(Technical("TransportError"))
                                                  ELSE OkOf(<<>>)

Consume ==
    /\ mode \in {"first", "last", "collect", "for_each"} /\ Recv /\ RecvFlag
    /\ seen' = IF Ev.k = "next" THEN Append(seen, Ev) ELSE seen
    /\ result' = Outcome(Values)
    /\ IF result' = NoResult THEN Kept
       ELSE Dropped(terminated' \/ (mode = "for_each" /\ AbruptClose))
    /\ UNCHANGED <<unsubscribed, token>>

\* A consumer that holds the observable may drop it at any time.
DropObservable ==
    /\ alive /\ mode \in {"recv", "next"} /\ Dropped(terminated) /\ chan' = <<>>
    /\ UNCHANGED <<senderVars, mode, pulled, seen, result, terminated, unsubscribed, token>>

-----------------------------------------------------------------------------
(* subscribe, subscribe_all.                                               *)

\* Subscription::unsubscribe and Subscription::drop.
Unsubscribe ==
    /\ mode = "subscribe" /\ ~unsubscribed /\ unsubscribed' = TRUE /\ token' = TRUE
    /\ UNCHANGED <<chan, senderVars, mode, pulled, seen, result, terminated, alive, cleanup>>

\* The callback an event is: on_next, on_error, on_complete; a close completes.
Callback(ev) == IF ev = None THEN Complete ELSE ev

\* run_push races the next event with the token, without preference when both
\* are ready; each event is one callback, and the push task ends with the
\* first terminal or the close, which both close the observer.
PushEnds == is_terminal(Ev) \/ Ev = None
PushEvent ==
    /\ mode = "subscribe" /\ result = NoResult /\ Recv /\ RecvFlag
    /\ seen' = Append(seen, Callback(Ev))
    /\ result' = IF PushEnds THEN OkOf(<<>>) ELSE NoResult
    /\ IF PushEnds THEN Dropped(terminated') ELSE Kept
    /\ UNCHANGED <<unsubscribed, token>>

PushCancelled ==
    /\ mode = "subscribe" /\ result = NoResult /\ token
    /\ result' = OkOf(<<>>) /\ Dropped(terminated) /\ chan' = <<>>
    /\ UNCHANGED <<senderVars, mode, pulled, seen, terminated, unsubscribed, token>>

Resolve == token' = TRUE

\* The push task returned: it cancels the token, which resolves an await of
\* the Subscription.
PushSignal ==
    /\ mode = "subscribe" /\ result # NoResult /\ ~token /\ Resolve
    /\ UNCHANGED <<chan, senderVars, mode, pulled, seen, result, terminated, alive, cleanup,
                   unsubscribed>>

-----------------------------------------------------------------------------
Events3 == {NextEv(offered + 1), Complete, ErrorEv(Business("b1")), ErrorEv(Technical("Timeout"))}

SenderStep ==
    \E s \in Senders :
        \/ \E ev \in Events3 : Send(s, ev, FALSE) \/ TrySend(s, ev)
        \/ Send(s, NextEv(offered + 1), TRUE)
        \/ SendSecond(s) \/ TrySendPair(s, offered + 1) \/ DropSender(s)

ConsumerStep == CallRecv \/ CallNext \/ Consume
PushStep == PushEvent \/ PushCancelled \/ PushSignal

Next == SenderStep \/ ConsumerStep \/ DropObservable \/ Unsubscribe \/ PushStep

\* The push task is polled whenever it is woken.
Spec == Init /\ [][Next]_vars /\ WF_vars(PushStep)

-----------------------------------------------------------------------------
TypeOK ==
    /\ terminated \in BOOLEAN /\ alive \in BOOLEAN /\ token \in BOOLEAN
    /\ half \subseteq Senders /\ gone \subseteq Senders /\ Len(cleanup) <= 1
    /\ Capacity > 0 => Len(chan) <= Capacity

\* What the channel accepted is what the observable delivers, in order and
\* whole: with several senders, and with the halves of a pair apart.
AcceptedIsDelivered ==
    LET events == SelectSeq(pulled, LAMBDA r : r # None)
    IN IsPrefix(events, accepted) /\ (alive => events \o chan = accepted)

\* The part of the history a terminal speaks of: up to the first terminal.
Heard == LET t == {i \in 1..Len(pulled) : is_terminal(pulled[i]) \/ pulled[i] = None}
         IN IF t = {} THEN pulled ELSE SubSeq(pulled, 1, CHOOSE i \in t : \A j \in t : i <= j)

\* first_value, last_value, collect and for_each return what they document:
\* a terminal error wins over every value read before it; a stream without a
\* value is Empty for first and last; an abrupt close is an end for collect
\* and last, an error for for_each, which reads through next.
TerminalReturns ==
    result # NoResult /\ mode \in {"first", "last", "collect", "for_each"} =>
        LET end == Last(Heard)
            vs == ValuesOf(Heard)
        IN /\ mode = "first" => Len(Heard) = 1
           /\ result =
                IF end.k = "error" THEN ErrOf(end.e)
                ELSE CASE mode = "for_each" -> IF end = None THEN ErrOf(Technical("TransportError"))
                                                             ELSE OkOf(<<>>)
                       [] mode = "collect" -> OkOf(vs)
                       [] OTHER -> IF vs = <<>> THEN ErrOf(Empty) ELSE OkOf(<<Last(vs)>>)

\* A consumer of next is never told None by a producer that vanished: before
\* the first None, the producer completed, failed, or the close was reported.
AbruptCloseReported ==
    mode = "next" /\ Contains(seen, None) =>
        Contains(pulled, Complete) \/ \E i \in 1..Len(seen) : seen[i].k = "error"

\* The cleanup runs once, with the observable, and tells an answered call from
\* an abandoned one: TRUE only if a terminal was delivered, or its close was
\* reported through next.
CleanupTellsAnswered ==
    /\ Len(cleanup) = IF alive THEN 0 ELSE 1
    /\ ~alive => cleanup[1] =
           \/ \E i \in 1..Len(pulled) : is_terminal(pulled[i])
           \/ mode \in {"next", "for_each"} /\ Contains(pulled, None)

\* At most one of on_error and on_complete runs, after every on_next; exactly
\* one if the subscription ended by itself.
OneTerminalCallback ==
    mode = "subscribe" =>
        /\ \A i \in 1..Len(seen) : is_terminal(seen[i]) => i = Len(seen)
        /\ result # NoResult /\ ~unsubscribed => seen # <<>> /\ is_terminal(Last(seen))

==============================================================================
