------------------------------ MODULE Consumer ------------------------------
(***************************************************************************)
(* The consumer side of a channel (ice-rpc/src/transport/client.rs): the   *)
(* handler table keyed by correlation id, the call that registers a        *)
(* handler and publishes its request, the response dispatch thread of each *)
(* consuming process, and the response stream whose drop is the            *)
(* cancellation point of the call.                                         *)
(***************************************************************************)
EXTENDS Bus

CONSTANTS
    owner       \* [Call -> Consumer]: the process that makes each call

ASSUME ConsumerAssumption == owner \in [Call -> Consumer]

VARIABLES
    stage,      \* where native_call / the returned stream stands, per call
    handlers,   \* the calls with an entry in their owner's handler table
    got,        \* the events pushed into the call's (unbounded) channel
    terminated, \* the application has read a terminal event of the stream
    disp,       \* the response dispatch thread of each consumer
    consStop,   \* consumers whose global cancel token is cancelled
    delivered   \* history: the calls whose request a provider received

consumerVars == <<stage, handlers, got, terminated, disp, consStop, delivered>>

(* idle       native_call not entered                                      *)
(* publishing handler inserted, inside publish_until_delivered             *)
(* open       native_call returned the Observable                          *)
(* failed     native_call returned Err                                     *)
(* cancelling the stream's cleanup released the handler, Cancel is due     *)
(* dropped    the stream and its receiver are gone                         *)
(* sent       a one-way call returned                                      *)
Stage == {"idle", "publishing", "open", "failed", "cancelling", "dropped", "sent"}

Event == [kind : {"next", "complete", "error"}, n : Nat]

DispIdle == [pc |-> "idle"]

(* push: handler cloned out of the table, about to push its event.         *)
(* follow: the Complete a CompleteWith expands into is still to be pushed. *)
(* release: the call is over, its entry is still to be removed.            *)
DispState ==
    {DispIdle} \cup [pc : {"push"}, call : Call, ev : WireEvent]
               \cup [pc : {"follow"}, call : Call, n : Nat]
               \cup [pc : {"release"}, call : Call]

(* A regression: is_terminal knows the completions and not the error.      *)
IsTerminalWireNotError(w) == w.kind \notin {"next", "error"}

IsTerminalWire(w) == w.kind # "next"

IsTerminal(e) == e.kind # "next"

(* The event pushed first for a wire event: normalize_wire_event, and the  *)
(* two branches that turn a bare RpcError or an undecodable payload into a *)
(* technical error.                                                        *)
FirstEvent(w) ==
    [kind |-> CASE w.kind \in {"next", "completewith"} -> "next"
                [] w.kind = "complete" -> "complete"
                [] OTHER -> "error",
     n |-> w.n]

HasTerminal(c) == \E i \in DOMAIN got[c] : IsTerminal(got[c][i])

Alive(k) == respSub[k] = "live"

ConsumerTypeOK ==
    /\ stage \in [Call -> Stage]
    /\ handlers \subseteq Call
    /\ got \in [Call -> Seq(Event)]
    /\ terminated \in [Call -> BOOLEAN]
    /\ disp \in [Consumer -> DispState]
    /\ consStop \subseteq Consumer
    /\ delivered \subseteq Call

ConsumerInit ==
    /\ stage = [c \in Call |-> "idle"]
    /\ handlers = {}
    /\ got = [c \in Call |-> <<>>]
    /\ terminated = [c \in Call |-> FALSE]
    /\ disp = [k \in Consumer |-> DispIdle]
    /\ consStop = {}
    /\ delivered = {}

-----------------------------------------------------------------------------
(* Making a call.                                                          *)

(* native_call up to the publication: the handler is in the table first.   *)
NativeCall(c) ==
    /\ c \notin OneWay
    /\ Alive(owner[c])
    /\ stage[c] = "idle"
    /\ stage' = [stage EXCEPT ![c] = "publishing"]
    /\ handlers' = handlers \cup {c}
    /\ UNCHANGED <<got, terminated, disp, consStop, delivered, busVars>>

(* publish_until_delivered returned Ok: at least one subscriber took the   *)
(* request, and the stream is handed to the application.                   *)
PublishRequest(c) ==
    /\ stage[c] = "publishing"
    /\ Alive(owner[c])
    /\ owner[c] \notin consStop
    /\ \E took \in ObserverTakes :
         /\ DeliveredRequest(owner[c], took)
         /\ SendRequest(owner[c], [kind |-> "request", call |-> c])
    /\ delivered' = IF ReqRoom(owner[c]) THEN delivered \cup {c} ELSE delivered
    /\ stage' = [stage EXCEPT ![c] = "open"]
    /\ UNCHANGED <<handlers, got, terminated, disp, consStop,
                   reqSub, respSub, respBuf>>

(* A regression: the error path of native_call returns without releasing.  *)
PublishFailKeepsHandler(c) ==
    /\ stage[c] = "publishing"
    /\ Alive(owner[c])
    /\ owner[c] \in consStop \/ ~ReqRoom(owner[c]) \/ "loan" \in Faults
    /\ stage' = [stage EXCEPT ![c] = "failed"]
    /\ UNCHANGED <<handlers, got, terminated, disp, consStop, delivered, busVars>>

(* publish_until_delivered returned Err: the wait expired with nobody able *)
(* to take the sample, the process is shutting down, or no sample could be *)
(* loaned.                                                                 *)
PublishFail(c) ==
    /\ stage[c] = "publishing"
    /\ Alive(owner[c])
    /\ owner[c] \in consStop \/ ~ReqRoom(owner[c]) \/ "loan" \in Faults
    /\ handlers' = handlers \ {c}
    /\ stage' = [stage EXCEPT ![c] = "failed"]
    /\ UNCHANGED <<got, terminated, disp, consStop, delivered, busVars>>

(* No sample could be loaned: a best-effort publication loses its sample.  *)
LoanFails == "loan" \in Faults /\ UNCHANGED reqBuf

(* send_one_way: one attempt, no handler; a sample nobody takes is lost.   *)
SendOneWay(c) ==
    /\ c \in OneWay
    /\ Alive(owner[c])
    /\ stage[c] = "idle"
    /\ stage' = [stage EXCEPT ![c] = "sent"]
    /\ SendRequest(owner[c], [kind |-> "request", call |-> c]) \/ LoanFails
    /\ UNCHANGED <<handlers, got, terminated, disp, consStop, delivered,
                   reqSub, respSub, respBuf>>

-----------------------------------------------------------------------------
(* The response dispatch thread of consumer k.                             *)

(* One iteration of run_receive_loop: the handler is looked up under the   *)
(* lock and cloned out; a response to somebody else's call has none here.  *)
Dispatch(k) ==
    /\ Alive(k)
    /\ k \notin consStop
    /\ disp[k] = DispIdle
    /\ respBuf[k] # <<>>
    /\ LET s == Head(respBuf[k])
           found == s.call \in handlers /\ owner[s.call] = k
       IN  disp' = IF found
                     THEN [disp EXCEPT ![k] =
                             [pc |-> "push", call |-> s.call, ev |-> s.ev]]
                     ELSE disp
    /\ respBuf' = [respBuf EXCEPT ![k] = Tail(@)]
    /\ UNCHANGED <<stage, handlers, got, terminated, consStop, delivered,
                   reqSub, reqBuf, respSub>>

(* A regression: the handler keeps the receiving end of the stream alive.  *)
ReceiverGoneNever(c) == FALSE

(* The stream's receiver is gone: try_send_event answers Err.              *)
ReceiverGone(c) == stage[c] \in {"failed", "dropped"}

(* The handler closure: it pushes the event of the sample, unless the      *)
(* receiver is gone, and goes on according to what the sample was.         *)
PushEvent(k) ==
    /\ Alive(k)
    /\ disp[k].pc = "push"
    /\ LET c == disp[k].call
           w == disp[k].ev
       IN  IF ReceiverGone(c)
             THEN /\ disp' = [disp EXCEPT ![k] = [pc |-> "release", call |-> c]]
                  /\ UNCHANGED got
             ELSE /\ got' = [got EXCEPT ![c] = Append(@, FirstEvent(w))]
                  /\ disp' = [disp EXCEPT ![k] =
                       CASE w.kind = "completewith" ->
                              [pc |-> "follow", call |-> c, n |-> w.n + 1]
                         [] w.kind # "completewith" /\ IsTerminalWire(w) ->
                              [pc |-> "release", call |-> c]
                         [] OTHER -> DispIdle]
    /\ UNCHANGED <<stage, handlers, terminated, consStop, delivered, busVars>>

(* The follow-up Complete of a CompleteWith; a failure to push is ignored. *)
PushFollowUp(k) ==
    /\ Alive(k)
    /\ disp[k].pc = "follow"
    /\ LET c == disp[k].call
       IN  /\ got' = IF ReceiverGone(c) THEN got
                     ELSE [got EXCEPT ![c] =
                             Append(@, [kind |-> "complete", n |-> disp[k].n])]
           /\ disp' = [disp EXCEPT ![k] = [pc |-> "release", call |-> c]]
    /\ UNCHANGED <<stage, handlers, terminated, consStop, delivered, busVars>>

(* release_handler at the end of the closure.                              *)
ReleaseHandler(k) ==
    /\ Alive(k)
    /\ disp[k].pc = "release"
    /\ handlers' = handlers \ {disp[k].call}
    /\ disp' = [disp EXCEPT ![k] = DispIdle]
    /\ UNCHANGED <<stage, got, terminated, consStop, delivered, busVars>>

-----------------------------------------------------------------------------
(* The application's side of the stream.                                   *)

(* recv / poll_next hand the terminal event out and remember it.           *)
ReadTerminal(c) ==
    /\ stage[c] = "open"
    /\ Alive(owner[c])
    /\ ~terminated[c]
    /\ HasTerminal(c)
    /\ terminated' = [terminated EXCEPT ![c] = TRUE]
    /\ UNCHANGED <<stage, handlers, got, disp, consStop, delivered, busVars>>

(* A regression: the cleanup trusts the handler table alone, which the     *)
(* dispatch thread empties only after it has pushed the terminal event.    *)
DropStreamTrustsTable(c) ==
    /\ stage[c] = "open"
    /\ Alive(owner[c])
    /\ handlers' = handlers \ {c}
    /\ stage' = [stage EXCEPT ![c] = IF c \in handlers THEN "cancelling" ELSE "dropped"]
    /\ UNCHANGED <<got, terminated, disp, consStop, delivered, busVars>>

(* The drop of the stream runs its cleanup: release the handler, and only  *)
(* a call that is neither terminated nor answered is cancelled remotely.   *)
DropStream(c) ==
    /\ stage[c] = "open"
    /\ Alive(owner[c])
    /\ handlers' = handlers \ {c}
    /\ stage' = [stage EXCEPT ![c] =
                   IF ~terminated[c] /\ c \in handlers THEN "cancelling" ELSE "dropped"]
    /\ UNCHANGED <<got, terminated, disp, consStop, delivered, busVars>>

(* A regression: Cancels travel on a publisher of their own, so nothing    *)
(* orders them behind the request they follow.                             *)
PublishCancelOvertakes(c) ==
    /\ stage[c] = "cancelling"
    /\ Alive(owner[c])
    /\ reqSub # "none"
    /\ reqBuf' = [reqBuf EXCEPT ![owner[c]] = <<[kind |-> "cancel", call |-> c]>> \o @]
    /\ stage' = [stage EXCEPT ![c] = "dropped"]
    /\ UNCHANGED <<handlers, got, terminated, disp, consStop, delivered,
                   reqSub, respSub, respBuf>>

(* publish_cancel: one best-effort attempt, even during a shutdown; then   *)
(* the receiver is dropped with the stream.                                *)
PublishCancel(c) ==
    /\ stage[c] = "cancelling"
    /\ Alive(owner[c])
    /\ SendRequest(owner[c], [kind |-> "cancel", call |-> c]) \/ LoanFails
    /\ stage' = [stage EXCEPT ![c] = "dropped"]
    /\ UNCHANGED <<handlers, got, terminated, disp, consStop, delivered,
                   reqSub, respSub, respBuf>>

-----------------------------------------------------------------------------
(* The consumer process.                                                   *)

(* request_shutdown: the dispatch thread stops between two samples.        *)
ConsumerShutdown(k) ==
    /\ "consumer_stop" \in Faults
    /\ Alive(k)
    /\ k \notin consStop
    /\ consStop' = consStop \cup {k}
    /\ UNCHANGED <<stage, handlers, got, terminated, disp, delivered, busVars>>

(* The process is killed: nothing of it runs any more.                     *)
ConsumerCrash(k) ==
    /\ "consumer_crash" \in Faults
    /\ Alive(k)
    /\ respSub' = [respSub EXCEPT ![k] = "dead"]
    /\ UNCHANGED <<consumerVars, reqSub, reqBuf, respBuf>>

(* shutdown_and_release drops the cached ports once the dispatch thread is *)
(* joined; every open stream holds them too, so the response subscriber    *)
(* is unregistered with the last of them.                                  *)
ConsumerRelease(k) ==
    /\ Alive(k)
    /\ k \in consStop
    /\ disp[k] = DispIdle
    /\ \A c \in Call : owner[c] = k =>
          stage[c] \notin {"publishing", "open", "cancelling"}
    /\ respSub' = [respSub EXCEPT ![k] = "closed"]
    /\ respBuf' = [respBuf EXCEPT ![k] = <<>>]
    /\ UNCHANGED <<consumerVars, reqSub, reqBuf>>

ConsumerNext ==
    \/ \E c \in Call :
         \/ NativeCall(c) \/ PublishRequest(c) \/ PublishFail(c) \/ SendOneWay(c)
         \/ ReadTerminal(c) \/ DropStream(c) \/ PublishCancel(c)
    \/ \E k \in Consumer :
         \/ Dispatch(k) \/ PushEvent(k) \/ PushFollowUp(k) \/ ReleaseHandler(k)
         \/ ConsumerShutdown(k) \/ ConsumerRelease(k) \/ ConsumerCrash(k)
=============================================================================
