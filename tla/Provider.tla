------------------------------ MODULE Provider ------------------------------
(***************************************************************************)
(* The provider side of a channel (ice-rpc/src/transport/server.rs and     *)
(* bridge.rs): the channel thread that routes requests and honours         *)
(* Cancels, the registry of in-flight calls with one cancellation token    *)
(* each, the tasks that serve the calls (polled once inline by the channel *)
(* thread, then detached to the executor), and the emission of their       *)
(* responses.                                                              *)
(***************************************************************************)
EXTENDS Bus

CONSTANTS
    Served,     \* the calls whose service, version and method this build has
    JsonHost,   \* the calls a JSON host answers (transport/json_host.rs)
    EmitKinds,  \* the wire kinds the handlers emit
    MaxEvents,  \* bound on the wire events one call emits
    MaxStarts   \* bound on the incarnations of the provider

ASSUME ProviderAssumption ==
    /\ Served \subseteq Call
    /\ JsonHost \subseteq Call
    /\ EmitKinds \subseteq WireKind
    /\ MaxEvents \in Nat
    /\ MaxStarts \in Nat

VARIABLES
    thread,     \* the channel thread: off (no process), idle, busy with one
                \* call, or stopped (the process is still up)
    registry,   \* InFlightCalls: the calls with an entry
    token,      \* their cancellation tokens
    task,       \* the task of each call
    emitted,    \* how many wire events each call has tried to publish
    provStop,   \* the provider's stop token is cancelled
    starts,     \* incarnations of the provider so far
    cancelSeen  \* history: calls whose Cancel the channel thread has handled

providerVars ==
    <<thread, registry, token, task, emitted, provStop, starts, cancelSeen>>

(* none    no task                                                         *)
(* polling inside poll, on the channel thread or on the executor           *)
(* parked  detached, waiting for a wake-up                                 *)
(* empty   detached, with nothing to do (reject_undecodable's task)        *)
(* done    returned or dropped                                             *)
TaskState == {"none", "polling", "parked", "empty", "done"}

(* inline: polling the task of a call; reject: publishing the RpcError of  *)
(* a request that cannot be served; undecodable: publishing the one of a   *)
(* payload that does not decode, whose task is then empty.                 *)
ThreadState ==
    [pc : {"off", "idle", "stopped"}]
        \cup [pc : {"inline", "reject", "undecodable"}, call : Call]

ThreadIdle == [pc |-> "idle"]

Inline(c) == thread.pc = "inline" /\ thread.call = c

Live(c) == task[c] \in {"polling", "parked", "empty"}

ProviderTypeOK ==
    /\ thread \in ThreadState
    /\ registry \subseteq Call
    /\ token \in [Call -> BOOLEAN]
    /\ task \in [Call -> TaskState]
    /\ emitted \in [Call -> Nat]
    /\ provStop \in BOOLEAN
    /\ starts \in Nat
    /\ cancelSeen \subseteq Call

ProviderInit ==
    /\ thread = [pc |-> "off"]
    /\ registry = {}
    /\ token = [c \in Call |-> FALSE]
    /\ task = [c \in Call |-> "none"]
    /\ emitted = [c \in Call |-> 0]
    /\ provStop = FALSE
    /\ starts = 0
    /\ cancelSeen = {}

-----------------------------------------------------------------------------
(* The provider process.                                                   *)

(* spawn_native_service: the ports are opened on a bus whose dead nodes    *)
(* the start has reaped; the new subscriber's buffers are empty.           *)
ProviderStart ==
    /\ starts < MaxStarts
    /\ thread.pc = "off"
    /\ starts' = starts + 1
    /\ reqSub' = "live"
    /\ reqBuf' = [k \in Consumer |-> <<>>]
    /\ thread' = ThreadIdle
    /\ provStop' = FALSE
    /\ UNCHANGED <<registry, token, task, emitted, cancelSeen,
                   respSub, respBuf>>

(* The tasks and the tables of the process are gone.                       *)
ProcessGone ==
    /\ thread' = [pc |-> "off"]
    /\ registry' = {}
    /\ task' = [c \in Call |-> IF task[c] = "none" THEN "none" ELSE "done"]

(* The process is killed: a subscriber it still holds stays registered.    *)
ProviderCrash ==
    /\ "provider_crash" \in Faults
    /\ thread.pc # "off"
    /\ ProcessGone
    /\ reqSub' = IF reqSub = "live" THEN "dead" ELSE reqSub
    /\ UNCHANGED <<token, emitted, provStop, starts, cancelSeen,
                   reqBuf, respSub, respBuf>>

(* request_shutdown on the provider: every publication from now on answers *)
(* Cancelled.                                                              *)
ProviderShutdown ==
    /\ "provider_stop" \in Faults
    /\ thread.pc # "off"
    /\ ~provStop
    /\ provStop' = TRUE
    /\ UNCHANGED <<thread, registry, token, task, emitted, starts, cancelSeen,
                   busVars>>

(* The receive loop ends between two samples and the thread drops its      *)
(* request subscriber, with whatever it had not read.                      *)
ThreadStops ==
    /\ provStop
    /\ thread = ThreadIdle
    /\ thread' = [pc |-> "stopped"]
    /\ reqSub' = "none"
    /\ reqBuf' = [k \in Consumer |-> <<>>]
    /\ UNCHANGED <<registry, token, task, emitted, provStop, starts, cancelSeen,
                   respSub, respBuf>>

(* The stopped process exits; its detached tasks are dropped.              *)
ProviderExit ==
    /\ thread.pc = "stopped"
    /\ ProcessGone
    /\ UNCHANGED <<token, emitted, provStop, starts, cancelSeen, busVars>>

-----------------------------------------------------------------------------
(* The channel thread: run_receive_loop and handle_request.                *)

CanReceive(k) == thread = ThreadIdle /\ ~provStop /\ reqBuf[k] # <<>>

Receive(k) == reqBuf' = [reqBuf EXCEPT ![k] = Tail(@)]

(* A regression: the entry is taken out of the registry and its token is   *)
(* dropped unfired.                                                        *)
HandleCancelRemoves(k) ==
    /\ CanReceive(k)
    /\ Head(reqBuf[k]).kind = "cancel"
    /\ registry' = registry \ {Head(reqBuf[k]).call}
    /\ cancelSeen' = cancelSeen \cup {Head(reqBuf[k]).call}
    /\ Receive(k)
    /\ UNCHANGED <<thread, token, task, emitted, provStop, starts,
                   reqSub, respSub, respBuf>>

(* A Cancel is routed by correlation id alone: it fires the token of a     *)
(* call in flight and is a no-op otherwise.                                *)
HandleCancel(k) ==
    /\ CanReceive(k)
    /\ Head(reqBuf[k]).kind = "cancel"
    /\ LET c == Head(reqBuf[k]).call
       IN  /\ token' = [token EXCEPT ![c] = @ \/ c \in registry]
           /\ cancelSeen' = cancelSeen \cup {c}
    /\ Receive(k)
    /\ UNCHANGED <<thread, registry, task, emitted, provStop, starts,
                   reqSub, respSub, respBuf>>

(* A request whose service, version or method is not served is answered on *)
(* the channel thread; so is one whose payload does not decode.            *)
HandleUnserved(k) ==
    /\ CanReceive(k)
    /\ Head(reqBuf[k]).kind = "request"
    /\ LET c == Head(reqBuf[k]).call
       IN  \/ /\ c \notin Served
              /\ thread' = [pc |-> "reject", call |-> c]
           \/ /\ c \in Served \ OneWay
              /\ "undecodable" \in Faults
              /\ thread' = [pc |-> "undecodable", call |-> c]
    /\ Receive(k)
    /\ UNCHANGED <<registry, token, task, emitted, provStop, starts, cancelSeen,
                   reqSub, respSub, respBuf>>

(* run_or_spawn: the task is polled once on the channel thread, or, on an  *)
(* executor that has no handle there, queued at once.                      *)
RunOrSpawn(c) ==
    \/ /\ thread' = [pc |-> "inline", call |-> c]
       /\ task' = [task EXCEPT ![c] = "polling"]
    \/ /\ thread' = ThreadIdle
       /\ task' = [task EXCEPT ![c] = "parked"]

(* InFlightCalls::register.                                                *)
Register(c) ==
    /\ registry' = registry \cup {c}
    /\ token' = [token EXCEPT ![c] = FALSE]

(* A request that is served: its token is registered before its task runs. *)
(* A one-way call has no entry and runs as it is.                          *)
HandleRequest(k) ==
    /\ CanReceive(k)
    /\ Head(reqBuf[k]).kind = "request"
    /\ LET c == Head(reqBuf[k]).call
       IN  /\ c \in Served
           /\ RunOrSpawn(c)
           /\ IF c \in OneWay THEN UNCHANGED <<registry, token>> ELSE Register(c)
    /\ Receive(k)
    /\ UNCHANGED <<emitted, provStop, starts, cancelSeen,
                   reqSub, respSub, respBuf>>

-----------------------------------------------------------------------------
(* Publishing a response: ResponseHub::publish.                            *)

(* A regression: the retry loop publishes once more a sample that was      *)
(* already delivered.                                                      *)
PublishOkResends(c, kind) ==
    /\ ~provStop
    /\ \E took \in ObserverTakes : DeliveredResponse(took)
    /\ SendResponse([call |-> c, ev |-> [kind |-> kind, n |-> emitted[c] + 1]])
    /\ \E again \in {0, 1} : emitted' = [emitted EXCEPT ![c] = @ + again]

(* publish_until_delivered returned Ok.                                    *)
PublishOk(c, kind) ==
    /\ ~provStop
    /\ \E took \in ObserverTakes : DeliveredResponse(took)
    /\ SendResponse([call |-> c, ev |-> [kind |-> kind, n |-> emitted[c] + 1]])
    /\ emitted' = [emitted EXCEPT ![c] = @ + 1]

(* publish_until_delivered returned Err: nobody could take the sample for  *)
(* CONSUMER_WAIT_TIMEOUT, the process is stopping, or no sample is left.   *)
PublishErr(c) ==
    /\ \/ provStop
       \/ \A k \in Consumer : ~RespRoom(k)
       \/ "loan" \in Faults
    /\ emitted' = [emitted EXCEPT ![c] = @ + 1]
    /\ UNCHANGED respBuf

(* reject: the outcome is logged, the thread goes on either way.           *)
Reject ==
    /\ thread.pc = "reject"
    /\ PublishOk(thread.call, "rpcerror") \/ PublishErr(thread.call)
    /\ thread' = ThreadIdle
    /\ UNCHANGED <<registry, token, task, provStop, starts, cancelSeen,
                   reqSub, reqBuf, respSub>>

(* reject_undecodable answers inside dispatch, before the token exists;    *)
(* the empty task it returns is over at once if it is polled here, and     *)
(* holds its entry until the executor polls it if it is queued.            *)
RejectUndecodable ==
    /\ thread.pc = "undecodable"
    /\ PublishOk(thread.call, "rpcerror") \/ PublishErr(thread.call)
    /\ thread' = ThreadIdle
    /\ \/ /\ task' = [task EXCEPT ![thread.call] = "done"]
          /\ UNCHANGED <<registry, token>>
       \/ /\ task' = [task EXCEPT ![thread.call] = "empty"]
          /\ Register(thread.call)
    /\ UNCHANGED <<provStop, starts, cancelSeen, reqSub, reqBuf, respSub>>

-----------------------------------------------------------------------------
(* The task of a call: CancellableCall around observable_to_responses.     *)

(* A regression: the entry of the call is removed by the last line of the  *)
(* handler, which a cancelled task never reaches.                          *)
EndKeepsEntry(c) ==
    /\ task' = [task EXCEPT ![c] = "done"]
    /\ registry' = IF token[c] THEN registry ELSE registry \ {c}
    /\ thread' = IF Inline(c) THEN ThreadIdle ELSE thread

(* The task returns or is dropped: the guard removes its entry, and the    *)
(* channel thread is free again if it was polling it.                      *)
End(c) ==
    /\ task' = [task EXCEPT ![c] = "done"]
    /\ registry' = registry \ {c}
    /\ thread' = IF Inline(c) THEN ThreadIdle ELSE thread

(* The executor polls a detached task; one whose token is cancelled is     *)
(* dropped without running a line of the handler.                          *)
Poll(c) ==
    /\ task[c] \in {"parked", "empty"}
    /\ IF token[c] \/ task[c] = "empty"
         THEN End(c)
         ELSE /\ task' = [task EXCEPT ![c] = "polling"]
              /\ UNCHANGED <<registry, thread>>
    /\ UNCHANGED <<token, emitted, provStop, starts, cancelSeen, busVars>>

(* One event of the handler's stream becomes one sample.                   *)
Emit(c) ==
    /\ task[c] = "polling"
    /\ c \notin OneWay
    /\ emitted[c] < MaxEvents
    /\ \E kind \in EmitKinds : PublishOk(c, kind)
    /\ UNCHANGED <<thread, registry, token, task, provStop, starts, cancelSeen,
                   reqSub, reqBuf, respSub>>

(* An event that could not be published ends the producer of the call; a   *)
(* JSON host ignores the answer and goes on with the next event.           *)
EmitFails(c) ==
    /\ task[c] = "polling"
    /\ c \notin OneWay
    /\ emitted[c] < MaxEvents
    /\ PublishErr(c)
    /\ IF c \in JsonHost
         THEN UNCHANGED <<thread, registry, task>>
         ELSE End(c)
    /\ UNCHANGED <<token, provStop, starts, cancelSeen, reqSub, reqBuf, respSub>>

(* The handler's stream is exhausted, closed abruptly, or an event of it   *)
(* cannot be encoded: the task returns.                                    *)
Finish(c) ==
    /\ task[c] = "polling"
    /\ End(c)
    /\ UNCHANGED <<token, emitted, provStop, starts, cancelSeen, busVars>>

(* The handler yields: the token is polled after it, so a Cancel fired     *)
(* meanwhile drops the task now; otherwise it is left to the executor.     *)
Yield(c) ==
    /\ task[c] = "polling"
    /\ IF token[c]
         THEN End(c)
         ELSE /\ task' = [task EXCEPT ![c] = "parked"]
              /\ thread' = IF Inline(c) THEN ThreadIdle ELSE thread
              /\ UNCHANGED registry
    /\ UNCHANGED <<token, emitted, provStop, starts, cancelSeen, busVars>>

ProviderNext ==
    \/ ProviderStart \/ ProviderCrash
    \/ ProviderShutdown \/ ThreadStops \/ ProviderExit
    \/ \E k \in Consumer : HandleCancel(k) \/ HandleUnserved(k) \/ HandleRequest(k)
    \/ Reject \/ RejectUndecodable
    \/ \E c \in Call : Poll(c) \/ Emit(c) \/ EmitFails(c) \/ Finish(c) \/ Yield(c)
=============================================================================
