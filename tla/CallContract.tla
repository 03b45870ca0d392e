---------------------------- MODULE CallContract ----------------------------
(***************************************************************************)
(* What a call promises the application that makes it, with no transport   *)
(* in sight: the stream delivers the events of the call in the order the   *)
(* handler emitted them, none missing and none twice; a terminal event is  *)
(* the last one; nothing is delivered to a call that failed or was dropped.*)
(* (The doc of native_call, and the Observable contract it returns.)       *)
(***************************************************************************)
EXTENDS Naturals, Sequences

CONSTANT Call

VARIABLES
    phase,      \* "idle", "open" or "closed"
    stream      \* the events delivered so far

vars == <<phase, stream>>

Ended(c) == \E i \in DOMAIN stream[c] : stream[c][i].kind # "next"

Init ==
    /\ phase = [c \in Call |-> "idle"]
    /\ stream = [c \in Call |-> <<>>]

Begin(c) ==
    /\ phase[c] = "idle"
    /\ phase' = [phase EXCEPT ![c] = "open"]
    /\ UNCHANGED stream

Deliver(c) ==
    /\ phase[c] = "open"
    /\ ~Ended(c)
    /\ \E kind \in {"next", "complete", "error"} :
         stream' = [stream EXCEPT ![c] =
                      Append(@, [kind |-> kind, n |-> Len(stream[c]) + 1])]
    /\ UNCHANGED phase

Close(c) ==
    /\ phase[c] = "open"
    /\ phase' = [phase EXCEPT ![c] = "closed"]
    /\ UNCHANGED stream

Next == \E c \in Call : Begin(c) \/ Deliver(c) \/ Close(c)

Spec == Init /\ [][Next]_vars
=============================================================================
