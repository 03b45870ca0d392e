----------------------------- MODULE RpcChannel -----------------------------
(***************************************************************************)
(* One channel: its consumers and its provider, composed over the bus.     *)
(***************************************************************************)
EXTENDS Consumer, Provider

vars == <<busVars, consumerVars, providerVars>>

TypeOK == BusTypeOK /\ ConsumerTypeOK /\ ProviderTypeOK

Init == BusInit /\ ConsumerInit /\ ProviderInit

Next ==
    \/ ConsumerNext /\ UNCHANGED providerVars
    \/ ProviderNext /\ UNCHANGED consumerVars

Spec == Init /\ [][Next]_vars

(* What the code's scheduling guarantees when no process is killed: a      *)
(* publication returns within its deadline, the two dispatch threads loop  *)
(* until they are stopped, a poll of a handler returns, and a fired token  *)
(* wakes the task that waits on it.  Nothing makes a handler that waits    *)
(* make progress, nor an application drop or read its stream.              *)
Fairness ==
    /\ \A c \in Call :
         /\ WF_vars((PublishRequest(c) \/ PublishFail(c) \/ PublishCancel(c))
                      /\ UNCHANGED providerVars)
         /\ WF_vars((Emit(c) \/ EmitFails(c) \/ Finish(c) \/ Yield(c))
                      /\ UNCHANGED consumerVars)
         /\ WF_vars((token[c] \/ task[c] = "empty") /\ Poll(c)
                      /\ UNCHANGED consumerVars)
    /\ \A k \in Consumer :
         WF_vars((Dispatch(k) \/ PushEvent(k) \/ PushFollowUp(k) \/ ReleaseHandler(k))
                  /\ UNCHANGED providerVars)
    /\ WF_vars((\/ \E k \in Consumer : HandleCancel(k) \/ HandleUnserved(k) \/ HandleRequest(k)
                \/ Reject \/ RejectUndecodable)
                 /\ UNCHANGED consumerVars)

FairSpec == Spec /\ Fairness

-----------------------------------------------------------------------------
(* Safety.                                                                 *)

(* The handler table holds no leak and strands nobody: an entry belongs to *)
(* a call that is being published or whose stream is open, and an open     *)
(* stream without an entry has its terminal event (release_handler: "the   *)
(* entry was still there — which is exactly what `the call is still in     *)
(* flight' means").                                                        *)
HandlerTable ==
    \A c \in Call :
        /\ c \in handlers => stage[c] \in {"publishing", "open"}
        /\ stage[c] = "open" /\ c \notin handlers => HasTerminal(c)

(* A terminal event is the last one of its stream, even when the provider  *)
(* goes on emitting behind it: the handler is released before the dispatch *)
(* thread looks the next sample up.                                        *)
TerminalIsLast ==
    \A c \in Call : \A i, j \in DOMAIN got[c] : i < j => ~IsTerminal(got[c][i])

(* The events of a stream arrive in the order of emission, whatever is     *)
(* lost on the way: each has a larger ordinal than the ones before it.     *)
InOrder ==
    \A c \in Call : \A i, j \in DOMAIN got[c] : i < j => got[c][i].n < got[c][j].n

(* With one consumer, no observer and handlers that honour the answer of   *)
(* emit, nothing is lost either: the i-th event of a stream is the i-th    *)
(* one emitted (tuning.rs: a full buffer becomes backpressure).            *)
NoGap ==
    \A c \in Call : \A i \in DOMAIN got[c] : got[c][i].n = i

(* The registry of in-flight calls holds exactly the calls whose task is   *)
(* alive, one-way calls excepted: a Cancel never makes it forget a running *)
(* call, and no entry outlives its task.                                   *)
RegistryIsExact == registry = {c \in Call \ OneWay : Live(c)}

(* A Cancel the channel thread has handled is never without effect on a    *)
(* running call: the task of that call is over, or its token is fired      *)
(* (InFlightCalls::register: "a Cancel published right behind its request  *)
(* then always finds the token to fire").                                  *)
CancelReaches ==
    \A c \in cancelSeen : Live(c) => token[c]

(* native_call succeeds only once a provider's subscriber holds the        *)
(* request (publish_until_delivered: "retrying until at least one          *)
(* subscriber receives it").                                               *)
OpenMeansDelivered ==
    \A c \in Call : stage[c] = "open" => c \in delivered

CancelPending(c) ==
    \E i \in DOMAIN reqBuf[owner[c]] :
        reqBuf[owner[c]][i] = [kind |-> "cancel", call |-> c]

(* A call whose terminal event the application has read is never           *)
(* cancelled, not even when it is dropped before the dispatch thread has   *)
(* released its entry ("only a call with no terminal event that is still   *)
(* in flight is abandoned").                                               *)
NoCancelAfterRead ==
    \A c \in Call : terminated[c] =>
        /\ stage[c] # "cancelling"
        /\ ~CancelPending(c)

-----------------------------------------------------------------------------
(* The application sees a call as CallContract specifies it.               *)
Contract ==
    INSTANCE CallContract WITH
        phase <- [c \in Call |->
                    CASE stage[c] \in {"idle", "sent"} -> "idle"
                      [] stage[c] \in {"publishing", "open", "cancelling"} -> "open"
                      [] OTHER -> "closed"],
        stream <- got

ContractSpec == Contract!Spec

-----------------------------------------------------------------------------
(* Liveness, under FairSpec.                                               *)

(* A Cancel that reached the provider stops the work for good, however     *)
(* long the handler was going to wait (CancellableCall: "a Cancel arriving *)
(* from the client wakes that task at that instant").                      *)
CancelStopsWork ==
    \A c \in Call : CancelPending(c) ~> [](c \in cancelSeen /\ ~Live(c))

(* A terminal response that reached its consumer releases the handler of   *)
(* its call: the table does not grow with the answered calls.              *)
AnswerReleases ==
    \A c \in Call :
        (\E i \in DOMAIN respBuf[owner[c]] :
            /\ respBuf[owner[c]][i].call = c
            /\ respBuf[owner[c]][i].ev.kind # "next") ~> c \notin handlers

(* A handler whose task is over has ended the stream of its caller         *)
(* (observable_to_responses: "A response that cannot be encoded must end   *)
(* the stream"; reject: "every request gets an answer").                   *)
FinishedIsAnswered ==
    \A c \in Call :
        task[c] = "done" /\ stage[c] = "open" ~> HasTerminal(c) \/ stage[c] # "open"
=============================================================================
