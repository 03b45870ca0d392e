------------------------------ MODULE RxEvents ------------------------------
(***************************************************************************)
(* The event vocabulary of ice-rpc-rx (event.rs, error.rs) and the sources *)
(* the creation helpers build (creation.rs).  A value is a natural number, *)
(* the payload of an error a string.                                       *)
(*                                                                         *)
(* A source is the sequence of the results its poll_next still has to      *)
(* return: an event, or Pending when nothing is ready yet.  A source with  *)
(* nothing left returns None for ever.                                     *)
(***************************************************************************)
EXTENDS Naturals, Sequences

\* enum Event
NextEv(v) == [k |-> "next", v |-> v]
Complete == [k |-> "complete"]
ErrorEv(e) == [k |-> "error", e |-> e]

\* enum ObservableError: business (authored by the service), technical
\* (raised by the framework), or Empty, a pull-side artefact.
Business(c) == [kind |-> "business", code |-> c]
Technical(c) == [kind |-> "technical", code |-> c]
Empty == [kind |-> "empty", code |-> ""]

\* What a poll returns besides an event: Poll::Ready(None), Poll::Pending.
None == [k |-> "none"]
Pending == [k |-> "pending"]

is_terminal(ev) == ev.k \in {"complete", "error"}
is_business(ev) == ev.k = "error" /\ ev.e.kind = "business"

\* RpcError::is_retryable: only a transport failure or a timeout may go away.
is_retryable(code) == code \in {"TransportError", "Timeout"}

\* from: every value as Next, then Complete.
from(values) == [i \in 1..Len(values) |-> NextEv(values[i])] \o <<Complete>>

\* of: one value, then Complete.
of(v) == <<NextEv(v), Complete>>

\* throw_error: a business error only.
throw_error(c) == <<ErrorEv(Business(c))>>

\* Observable::from_technical_error: a technical error only.
from_technical_error(c) == <<ErrorEv(Technical(c))>>

\* from_future: the future's value or its error as a one-event stream; the
\* future may be pending when it is first polled.
from_future(ok, v, c, waits) ==
    (IF waits THEN <<Pending>> ELSE <<>>) \o (IF ok THEN of(v) ELSE throw_error(c))

\* One poll of a source, and the source after it.
Polled(s) == IF s = <<>> THEN None ELSE Head(s)
Rest(s) == IF s = <<>> THEN <<>> ELSE Tail(s)

-----------------------------------------------------------------------------
(* What a source means, whatever the polls that found it pending.          *)

Events(s) == SelectSeq(s, LAMBDA r : r # Pending)
NextsOf(s) == SelectSeq(s, LAMBDA r : r.k = "next")
ValuesOf(s) == [i \in 1..Len(NextsOf(s)) |-> NextsOf(s)[i].v]
EndOf(s) == IF s # <<>> /\ is_terminal(s[Len(s)]) THEN s[Len(s)] ELSE None
=============================================================================
