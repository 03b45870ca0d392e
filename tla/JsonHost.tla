------------------------------- MODULE JsonHost -------------------------------
(***************************************************************************)
(* Calls served by JavaScript: the provider's handler (json_host.rs), its  *)
(* stream of events and their conversion (json.rs), and the bridge with    *)
(* its table of open calls (ice-rpc-nodejs, bridge.rs). The handlers run   *)
(* on the executor, JavaScript on its own thread, and a shutdown on a pool *)
(* thread takes the bridge away.                                           *)
(***************************************************************************)
EXTENDS Naturals, Sequences, FiniteSets, Functions

CONSTANTS
    Calls,       \* calls that reach the provider
    OneWay,      \* those of a one-way method
    CidOf,       \* the correlation id of each call
    MaxPending,  \* MAX_PENDING_CALLS
    MaxEvents,   \* events JavaScript pushes into one call
    MaxBridges,  \* bridges the process creates, one per init
    JsValues       \* the JavaScript values of the envelopes

NoCall == "no call"

\* A JavaScript value: null, some other scalar, or an object by its keys; the
\* payload is null, a value of the declared type, or one that does not fit it.
Payloads == {"null", "value", "misfit"}
Object(keys, v) == [shape |-> "object", keys |-> keys, data |-> v]
Scalar(shape) == [shape |-> shape, keys |-> {}, data |-> "null"]
AllValues ==
    {Scalar("null"), Scalar("text"), Object({}, "null"), Object({"type", "data"}, "value")}
    \cup {Object({key}, v) : key \in {"data", "error"}, v \in Payloads}

ASSUME HostAssumption ==
    MaxPending \in Nat /\ MaxBridges \in Nat \ {0} /\ JsValues \subseteq AllValues /\ NoCall \notin Calls

VARIABLES
    calls,       \* each call: [pc, bridge, answered, chan, wire]
    pending,     \* pending[b]: the table of bridge b, from correlation id to call
    live,        \* the bridge in the state cell, 0 when there is none
    created,     \* bridges created so far
    told,        \* correlation ids JavaScript was handed
    sent         \* what JavaScript pushed into each call, as it meant it

vars == <<calls, pending, live, created, told, sent>>
js == <<told, sent>>

Bridges == 1..MaxBridges
Cids == {CidOf[c] : c \in Calls}
NoEntries == [k \in {} |-> 0]

Fits(v) == v # "misfit"
Sample(kind, v) == [kind |-> kind, data |-> v]
Terminal(s) == s.kind # "Next"

Init ==
    /\ calls = [c \in Calls |-> [pc |-> "new", bridge |-> 0, answered |-> FALSE, chan |-> <<>>, wire |-> <<>>]]
    /\ pending = [b \in Bridges |-> NoEntries] /\ live = 1 /\ created = 1
    /\ told = {} /\ sent = [c \in Calls |-> <<>>]

-----------------------------------------------------------------------------
(* Envelopes.                                                              *)

Refused == [type |-> "refused"]
Envelope(type, v) == [type |-> type, data |-> v]

next_envelope(e) ==
    IF "type" \in e.keys \/ "data" \notin e.keys THEN Refused ELSE Envelope("next", e.data)

\* The presence of the key decides, so that a null payload stays a value.
HasData(e) == "data" \in e.keys

terminal_envelope(e) ==
    IF e.shape = "text" \/ "type" \in e.keys THEN Refused
    ELSE CASE HasData(e) -> Envelope("complete", e.data)
           [] ~HasData(e) /\ "error" \in e.keys -> Envelope("error", e.data)
           [] OTHER -> Envelope("complete", "absent")

\* None, here the sample that is no event, is an event that does not encode.
NoEvent == Sample("none", "absent")
event_from_json(e) ==
    IF ~Fits(e.data) THEN NoEvent
    ELSE CASE e.type = "next" -> Sample("Next", e.data)
           [] e.type = "complete" /\ e.data = "absent" -> Sample("Complete", "absent")
           [] e.type = "complete" /\ e.data # "absent" -> Sample("CompleteWith", e.data)
           [] e.type = "error" -> Sample("Error", e.data)

-----------------------------------------------------------------------------
(* The handler of a call.                                                  *)

RpcError == Sample("RpcError", "absent")

\* A two-way call that fails answers with a technical error; a one-way call
\* only logs it.
Reject(c, pc) ==
    [calls EXCEPT ![c].pc = pc, ![c].wire = IF c \in OneWay THEN @ ELSE Append(@, RpcError)]

\* A table nothing refers to any more is dropped, with the senders it holds.
Held(b, cs, l) == b = l \/ \E c \in Calls : cs[c].pc = "starting" /\ cs[c].bridge = b
Dropped(p, cs, l) == [b \in Bridges |-> IF Held(b, cs, l) THEN p[b] ELSE NoEntries]

\* The request is converted, and the dispatcher reads the bridge of the cell.
dispatch_json(c) ==
    /\ calls[c].pc = "new"
    /\ \E decodes \in BOOLEAN :
         calls' = IF ~decodes THEN Reject(c, "undecodable")
                  ELSE IF live = 0 THEN Reject(c, "no bridge")
                  ELSE [calls EXCEPT ![c].pc = "starting", ![c].bridge = live]
    /\ UNCHANGED <<pending, live, created, js>>

Added(table, c) == [k \in DOMAIN table \cup {CidOf[c]} |-> IF k = CidOf[c] THEN c ELSE table[k]]

\* Admission: a full table or an id already open refuses the call.
EvictOldest(table, c) ==
    [res |-> "ok",
     table |-> Added(IF Cardinality(DOMAIN table) >= MaxPending THEN NoEntries ELSE table, c)]
insert(table, c) ==
    CASE Cardinality(DOMAIN table) >= MaxPending -> [res |-> "limit", table |-> table]
      [] Cardinality(DOMAIN table) < MaxPending /\ CidOf[c] \in DOMAIN table -> [res |-> "duplicate", table |-> table]
      [] OTHER -> [res |-> "ok", table |-> Added(table, c)]

\* A one-way handler drops the stream and is done.
Started(c) == IF c \in OneWay THEN "ended" ELSE "reading"

\* JavaScript is handed the call; when that fails the entry is taken back.
start_call(c) ==
    LET b == calls[c].bridge
        admitted == insert(pending[b], c)
        After(cs, table) == calls' = cs /\ pending' = Dropped([pending EXCEPT ![b] = table], cs, live)
    IN  /\ calls[c].pc = "starting"
        /\ \/ /\ admitted.res # "ok" /\ After(Reject(c, admitted.res), pending[b]) /\ UNCHANGED told
           \/ /\ admitted.res = "ok" /\ After(Reject(c, "unreachable"), pending[b]) /\ UNCHANGED told
           \/ /\ admitted.res = "ok" /\ told' = told \cup {CidOf[c]}
              /\ After([calls EXCEPT ![c].pc = Started(c)], admitted.table)
        /\ UNCHANGED <<live, created, sent>>

Open(c) == \E b \in Bridges : \E k \in DOMAIN pending[b] : pending[b][k] = c

\* One turn of the handler's loop: an event that does not encode is answered by
\* an error and ends the call, any other is emitted.
Unencodable(c) == [calls EXCEPT ![c].pc = "ended", ![c].chan = <<>>, ![c].wire = Append(@, RpcError)]

next(c) ==
    /\ calls[c].pc = "reading" /\ calls[c].chan # <<>>
    /\ LET s == event_from_json(Head(calls[c].chan)) IN
         calls' = IF s = NoEvent THEN Unencodable(c)
                  ELSE [calls EXCEPT ![c].chan = Tail(@), ![c].answered = TRUE, ![c].wire = Append(@, s)]
    /\ UNCHANGED <<pending, live, created, js>>

\* The sender is gone and the channel empty: the loop ends.
StillOpen(c) == FALSE
HostClosed(c) == calls[c].chan = <<>> /\ ~Open(c)

close(c) ==
    /\ calls[c].pc = "reading" /\ HostClosed(c)
    /\ calls' = [calls EXCEPT ![c].pc = "ended"]
    /\ UNCHANGED <<pending, live, created, js>>

\* The first event is awaited under JSON_CALL_TIMEOUT, no later one is.
FirstIsLate(c) == ~calls[c].answered

Expire(c) ==
    /\ calls[c].pc = "reading" /\ calls[c].chan = <<>> /\ Open(c) /\ FirstIsLate(c)
    /\ calls' = Reject(c, "expired")
    /\ UNCHANGED <<pending, live, created, js>>

\* The caller cancels: the transport drops the handler, and the stream with it.
Cancel(c) ==
    /\ calls[c].pc = "reading"
    /\ calls' = [calls EXCEPT ![c].pc = "cancelled", ![c].chan = <<>>]
    /\ UNCHANGED <<pending, live, created, js>>

-----------------------------------------------------------------------------
(* JavaScript, and the bridge of the state cell.                           *)

Entry(k) == IF live # 0 /\ k \in DOMAIN pending[live] THEN pending[live][k] ELSE NoCall
Reading(c) == calls[c].pc = "reading"

Push(c, e, op, v) ==
    IF Reading(c)
    THEN /\ calls' = [calls EXCEPT ![c].chan = Append(@, e)]
         /\ sent' = [sent EXCEPT ![c] = Append(@, [op |-> op, value |-> v])]
    ELSE UNCHANGED <<calls, sent>>

\* Without a bridge, an entry or a well-formed envelope both calls return an
\* error and change nothing. An event for a call nobody reads is an error too.
emit_event(k, v) ==
    /\ Entry(k) # NoCall /\ next_envelope(v) # Refused
    /\ Push(Entry(k), next_envelope(v), "emit", v)
    /\ UNCHANGED <<pending, live, created, told>>

\* The entry is taken, and the event sent to whoever still reads.
resolve(k, v) ==
    /\ Entry(k) # NoCall /\ terminal_envelope(v) # Refused
    /\ Push(Entry(k), terminal_envelope(v), "resolve", v)
    /\ pending' = [pending EXCEPT ![live] = Restrict(@, DOMAIN @ \ {k})]
    /\ UNCHANGED <<live, created, told>>

JavaScript ==
    \E k \in told, v \in JsValues :
        /\ Entry(k) # NoCall => Len(sent[Entry(k)]) < MaxEvents
        /\ emit_event(k, v) \/ resolve(k, v)

stop ==
    /\ live # 0 /\ live' = 0 /\ pending' = Dropped(pending, calls, 0)
    /\ UNCHANGED <<calls, created, js>>

complete_start ==
    /\ live = 0 /\ created < MaxBridges /\ created' = created + 1 /\ live' = created + 1
    /\ UNCHANGED <<calls, pending, js>>

Serve(c) == dispatch_json(c) \/ start_call(c) \/ next(c) \/ close(c) \/ Expire(c)
Next == JavaScript \/ stop \/ complete_start \/ \E c \in Calls : Serve(c) \/ Cancel(c)

Spec == Init /\ [][Next]_vars

\* The executor runs the handlers and the timer fires. JavaScript, callers and
\* shutdowns owe nothing.
LiveSpec == Spec /\ \A c \in Calls : WF_vars(Serve(c))

-----------------------------------------------------------------------------
Ended == {"undecodable", "no bridge", "limit", "duplicate", "unreachable", "expired", "cancelled", "ended"}

\* Types; a bridge never holds more open calls than its limit (PendingCalls::insert).
TypeOK ==
    /\ \A c \in Calls : /\ calls[c].pc \in {"new", "starting", "reading"} \cup Ended
                        /\ calls[c].bridge \in 0..MaxBridges
    /\ \A b \in Bridges : DOMAIN pending[b] \subseteq Cids /\ Cardinality(DOMAIN pending[b]) <= MaxPending
    /\ live \in 0..created /\ created \in Bridges /\ told \subseteq Cids

\* Whatever JavaScript does, a caller receives values and then at most one
\* terminal sample, nothing after it (json_host_handler, resolve).
WireWellFormed ==
    \A c \in Calls : \A i \in DOMAIN calls[c].wire : Terminal(calls[c].wire[i]) => i = Len(calls[c].wire)

\* What the table of the documentation says each envelope becomes.
Meaning(x) ==
    CASE x.value.keys = {} -> Sample("Complete", "absent")
      [] x.value.keys = {"error"} -> Sample("Error", x.value.data)
      [] x.value.keys = {"data"} /\ x.op = "emit" -> Sample("Next", x.value.data)
      [] x.value.keys = {"data"} /\ x.op = "resolve" -> Sample("CompleteWith", x.value.data)

\* The samples on the wire are the events JavaScript pushed, in order, each with
\* the documented meaning, up to a technical error that ends the call
\* (next_envelope, terminal_envelope, event_from_json composed).
WireFollowsJs ==
    \A c \in Calls : \A i \in DOMAIN calls[c].wire :
        calls[c].wire[i].kind # "RpcError" => i <= Len(sent[c]) /\ calls[c].wire[i] = Meaning(sent[c][i])

\* A two-way call is never left without an answer by another call's admission,
\* only by its caller or by the end of its bridge (PendingCalls::insert refuses
\* rather than drop the oldest call).
NoSilentEnd ==
    \A c \in Calls \ OneWay :
        calls[c].pc \in Ended \ {"cancelled"} /\ calls[c].bridge = live /\ live # 0
        => calls[c].wire # <<>> /\ Terminal(calls[c].wire[Len(calls[c].wire)])

\* The wire of a call served by JavaScript is what JavaScript sent, as the documented
\* envelopes, with nothing behind its end; a call that ends without an answer of
\* JavaScript ends with an error; the table of open calls keeps its limit
\* (json_host_handler, PendingCalls).
HostFollowsJs == TypeOK /\ WireWellFormed /\ WireFollowsJs /\ NoSilentEnd

=============================================================================
