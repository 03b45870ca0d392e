-------------------------------- MODULE Bus --------------------------------
(***************************************************************************)
(* The two iceoryx2 publish/subscribe services of one ice-rpc channel, as  *)
(* the transport uses them.  Every consumer publishes on `{channel}_req`,  *)
(* which the provider subscribes to; the provider publishes on             *)
(* `{channel}_resp`, which every consumer subscribes to, so each response  *)
(* reaches every consumer and is filtered by correlation id.               *)
(*                                                                         *)
(* iceoryx2 itself is external.  What the transport relies on: a           *)
(* subscriber holds one bounded FIFO per publisher connected to it; with   *)
(* `enable_safe_overflow(false)` a full subscriber is skipped, the others  *)
(* still receive the sample, and `send()` returns how many did; the ports  *)
(* of a process that was killed stay registered until its node is reaped.  *)
(***************************************************************************)
EXTENDS Naturals, Sequences, FiniteSets

CONSTANTS
    Call,       \* correlation ids, unique per process and call
    Consumer,   \* consuming processes of the channel
    OneWay,     \* the calls of one-way methods
    ReqCap,     \* subscriber_max_buffer_size of the request subscriber
    RespCap,    \* subscriber_max_buffer_size of a response subscriber
    Observed,   \* is an out-of-band observer attached to the channel?
    Faults      \* the failures the environment may inject

ASSUME BusAssumption ==
    /\ ReqCap \in Nat \ {0}
    /\ RespCap \in Nat \ {0}
    /\ Observed \in BOOLEAN
    /\ OneWay \subseteq Call

VARIABLES
    reqSub,     \* the provider's request subscriber: "none", "live" or "dead"
    reqBuf,     \* its buffers, one per consumer publishing requests
    respSub,    \* the response subscriber of each consumer: "live", "dead"
                \* (killed, still registered) or "closed" (unregistered)
    respBuf     \* their buffers

busVars == <<reqSub, reqBuf, respSub, respBuf>>

RequestSample == [kind : {"request", "cancel"}, call : Call]

(* EventKind of a response, "garbled" being a payload the consumer cannot  *)
(* decode.  n is the ordinal of the event within its call: two values of a *)
(* call are told apart by it.                                              *)
WireKind == {"next", "complete", "completewith", "error", "rpcerror", "garbled"}

WireEvent == [kind : WireKind, n : Nat]

ResponseSample == [call : Call, ev : WireEvent]

(* The observer keeps its own buffer and is never waited for: whether it   *)
(* has room at a given send is not under the control of the channel.       *)
ObserverTakes == IF Observed THEN BOOLEAN ELSE {FALSE}

(* A regression: safe overflow left on, a full buffer accepts the sample.  *)
ReqRoomUnbounded(k) == reqSub # "none"

(* A killed provider keeps its buffers until its node is reaped.           *)
ReqRoom(k) == reqSub # "none" /\ Len(reqBuf[k]) < ReqCap

RespRoom(k) == respSub[k] # "closed" /\ Len(respBuf[k]) < RespCap

(* One send() of consumer k on the request service.                        *)
SendRequest(k, s) ==
    reqBuf' = [reqBuf EXCEPT ![k] = IF ReqRoom(k) THEN Append(@, s) ELSE @]

(* One send() of the provider on the response service.                     *)
SendResponse(s) ==
    respBuf' = [k \in Consumer |->
                  IF RespRoom(k) THEN Append(respBuf[k], s) ELSE respBuf[k]]

(* A regression: try_publish answers Ok(true) for any send that went       *)
(* through, without asking how many subscribers received the sample.       *)
DeliveredRequestAlways(k, took) == reqSub # "none"

(* try_publish answers `delivered > 0`: one receiver is enough, whoever it is. *)
DeliveredRequest(k, took) == ReqRoom(k) \/ took

(* The same regression on the response side.                               *)
DeliveredResponseAlways(took) == TRUE

DeliveredResponse(took) == took \/ \E k \in Consumer : RespRoom(k)

BusTypeOK ==
    /\ reqSub \in {"none", "live", "dead"}
    /\ reqBuf \in [Consumer -> Seq(RequestSample)]
    /\ \A k \in Consumer : Len(reqBuf[k]) <= ReqCap
    /\ respSub \in [Consumer -> {"live", "dead", "closed"}]
    /\ respBuf \in [Consumer -> Seq(ResponseSample)]
    /\ \A k \in Consumer : Len(respBuf[k]) <= RespCap

BusInit ==
    /\ reqSub = "none"
    /\ reqBuf = [k \in Consumer |-> <<>>]
    /\ respSub = [k \in Consumer |-> "live"]
    /\ respBuf = [k \in Consumer |-> <<>>]
=============================================================================
