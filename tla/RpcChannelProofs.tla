-------------------------- MODULE RpcChannelProofs --------------------------
(***************************************************************************)
(* Proofs about RpcChannel, for any set of calls and consumers, any buffer *)
(* sizes, any faults and any number of provider incarnations.              *)
(***************************************************************************)
EXTENDS RpcChannel, TLAPS

(* A leaf that names no prover is tried with these, one after the other.   *)
USE SMT, ZenonT(30), SMTT(30), Z3

(* Sequences.                                                              *)

(* What Append does to the domain, the length and the elements.            *)
LEMMA AppendFacts ==
    ASSUME NEW S, NEW s \in Seq(S), NEW e \in S
    PROVE  /\ Append(s, e) \in Seq(S)
           /\ Len(Append(s, e)) = Len(s) + 1
           /\ DOMAIN Append(s, e) = DOMAIN s \cup {Len(s) + 1}
           /\ \A i \in DOMAIN s : Append(s, e)[i] = s[i]
           /\ Append(s, e)[Len(s) + 1] = e
  OBVIOUS

(* What Head and Tail do to a sequence that is not empty.                  *)
LEMMA TailFacts ==
    ASSUME NEW S, NEW s \in Seq(S), s # <<>>
    PROVE  /\ Head(s) \in S
           /\ Head(s) = s[1]
           /\ 1 \in DOMAIN s
           /\ Tail(s) \in Seq(S)
           /\ Len(Tail(s)) = Len(s) - 1
           /\ \A i \in DOMAIN Tail(s) : i + 1 \in DOMAIN s /\ Tail(s)[i] = s[i + 1]
  OBVIOUS

-----------------------------------------------------------------------------
(* Type correctness.                                                       *)

(* The shapes of the dispatch thread's state.                              *)
LEMMA DispFields ==
    ASSUME NEW d \in DispState
    PROVE  /\ d.pc \in {"idle", "push", "follow", "release"}
           /\ d.pc = "idle" => d = DispIdle
           /\ d.pc = "push" => d.call \in Call /\ d.ev \in WireEvent
           /\ d.pc = "follow" => d.call \in Call /\ d.n \in Nat
           /\ d.pc = "release" => d.call \in Call /\ d = [pc |-> "release", call |-> d.call]
  BY DEF DispState, DispIdle

(* The states the dispatch thread is given are states of its type.         *)
LEMMA DispShapes ==
    /\ DispIdle \in DispState
    /\ \A c \in Call, w \in WireEvent : [pc |-> "push", call |-> c, ev |-> w] \in DispState
    /\ \A c \in Call, n \in Nat : [pc |-> "follow", call |-> c, n |-> n] \in DispState
    /\ \A c \in Call : [pc |-> "release", call |-> c] \in DispState
  BY Zenon DEF DispState, DispIdle

(* A send on the request service keeps the buffers typed and bounded.      *)
LEMMA SendRequestType ==
    ASSUME BusTypeOK, NEW k \in Consumer, NEW s \in RequestSample, SendRequest(k, s)
    PROVE  /\ reqBuf' \in [Consumer -> Seq(RequestSample)]
           /\ \A j \in Consumer : Len(reqBuf[j])' <= ReqCap
<1>1. CASE ReqRoom(k)
  <2>1. /\ Append(reqBuf[k], s) \in Seq(RequestSample)
        /\ Len(Append(reqBuf[k], s)) = Len(reqBuf[k]) + 1
    BY AppendFacts DEF BusTypeOK
  <2> QED
    BY <1>1, <2>1, BusAssumption DEF BusTypeOK, SendRequest, ReqRoom
<1>2. CASE ~ReqRoom(k)
  BY Zenon, <1>2 DEF BusTypeOK, SendRequest
<1> QED
  BY Zenon, <1>1, <1>2

(* The steps of the consumers keep the type invariant.                     *)
LEMMA ConsumerKeepsTypes ==
    ASSUME TypeOK, ConsumerNext, UNCHANGED providerVars
    PROVE  TypeOK'
<1> USE BusAssumption, ConsumerAssumption DEF TypeOK, busVars, consumerVars
<1>0. ProviderTypeOK'
  BY Zenon DEF ProviderTypeOK, providerVars
<1>1. ASSUME NEW c \in Call, NativeCall(c) PROVE BusTypeOK' /\ ConsumerTypeOK'
  BY Zenon, <1>1 DEF NativeCall, BusTypeOK, ConsumerTypeOK, Stage
<1>2. ASSUME NEW c \in Call, PublishRequest(c) PROVE BusTypeOK' /\ ConsumerTypeOK'
  <2>1. owner[c] \in Consumer /\ [kind |-> "request", call |-> c] \in RequestSample
    BY Zenon DEF RequestSample
  <2>2. SendRequest(owner[c], [kind |-> "request", call |-> c])
    BY Zenon, <1>2 DEF PublishRequest
  <2>3. BusTypeOK'
    BY Zenon, <1>2, <2>1, <2>2, SendRequestType DEF PublishRequest, BusTypeOK
  <2> QED
    BY Zenon, <1>2, <2>3 DEF PublishRequest, ConsumerTypeOK, Stage
<1>3. ASSUME NEW c \in Call, PublishFail(c) PROVE BusTypeOK' /\ ConsumerTypeOK'
  BY Zenon, <1>3 DEF PublishFail, BusTypeOK, ConsumerTypeOK, Stage
<1>4. ASSUME NEW c \in Call, SendOneWay(c) PROVE BusTypeOK' /\ ConsumerTypeOK'
  <2>1. owner[c] \in Consumer /\ [kind |-> "request", call |-> c] \in RequestSample
    BY Zenon DEF RequestSample
  <2>2. ASSUME SendRequest(owner[c], [kind |-> "request", call |-> c]) PROVE BusTypeOK'
    BY Zenon, <1>4, <2>1, <2>2, SendRequestType DEF SendOneWay, BusTypeOK
  <2>3. ASSUME LoanFails PROVE BusTypeOK'
    BY Zenon, <1>4, <2>3 DEF SendOneWay, LoanFails, BusTypeOK
  <2>4. ConsumerTypeOK'
    BY Zenon, <1>4 DEF SendOneWay, ConsumerTypeOK, Stage
  <2> QED
    BY Zenon, <1>4, <2>2, <2>3, <2>4 DEF SendOneWay
<1>5. ASSUME NEW c \in Call, ReadTerminal(c) PROVE BusTypeOK' /\ ConsumerTypeOK'
  BY Zenon, <1>5 DEF ReadTerminal, BusTypeOK, ConsumerTypeOK
<1>6. ASSUME NEW c \in Call, DropStream(c) PROVE BusTypeOK' /\ ConsumerTypeOK'
  BY Zenon, <1>6 DEF DropStream, BusTypeOK, ConsumerTypeOK, Stage
<1>7. ASSUME NEW c \in Call, PublishCancel(c) PROVE BusTypeOK' /\ ConsumerTypeOK'
  <2>1. owner[c] \in Consumer /\ [kind |-> "cancel", call |-> c] \in RequestSample
    BY Zenon DEF RequestSample
  <2>2. ASSUME SendRequest(owner[c], [kind |-> "cancel", call |-> c]) PROVE BusTypeOK'
    BY Zenon, <1>7, <2>1, <2>2, SendRequestType DEF PublishCancel, BusTypeOK
  <2>3. ASSUME LoanFails PROVE BusTypeOK'
    BY Zenon, <1>7, <2>3 DEF PublishCancel, LoanFails, BusTypeOK
  <2>4. ConsumerTypeOK'
    BY Zenon, <1>7 DEF PublishCancel, ConsumerTypeOK, Stage
  <2> QED
    BY Zenon, <1>7, <2>2, <2>3, <2>4 DEF PublishCancel
<1>8. ASSUME NEW k \in Consumer, Dispatch(k) PROVE BusTypeOK' /\ ConsumerTypeOK'
  <2> DEFINE s == Head(respBuf[k])
  <2>1. /\ respBuf[k] \in Seq(ResponseSample) /\ respBuf[k] # <<>>
        /\ Len(respBuf[k]) <= RespCap
    BY Zenon, <1>8 DEF Dispatch, BusTypeOK
  <2>2. /\ s \in ResponseSample /\ Tail(respBuf[k]) \in Seq(ResponseSample)
        /\ Len(Tail(respBuf[k])) <= RespCap
    <3>1. Len(respBuf[k]) \in Nat
      BY <2>1
    <3> QED
      BY <2>1, <3>1, TailFacts
  <2>3. [pc |-> "push", call |-> s.call, ev |-> s.ev] \in DispState
    <3>1. s.call \in Call /\ s.ev \in WireEvent
      BY Zenon, <2>2 DEF ResponseSample
    <3> HIDE DEF s
    <3> QED
      BY Zenon, <3>1, DispShapes
  <2>4. disp' \in [Consumer -> DispState]
    BY Zenon, <1>8, <2>3 DEF Dispatch, ConsumerTypeOK
  <2>5. BusTypeOK'
    BY Zenon, <1>8, <2>2 DEF Dispatch, BusTypeOK
  <2> QED
    BY Zenon, <1>8, <2>4, <2>5 DEF Dispatch, ConsumerTypeOK
<1>9. ASSUME NEW k \in Consumer, PushEvent(k) PROVE BusTypeOK' /\ ConsumerTypeOK'
  <2> DEFINE c == disp[k].call
             w == disp[k].ev
  <2>1. c \in Call /\ w \in WireEvent
    BY Zenon, <1>9, DispFields DEF PushEvent, ConsumerTypeOK
  <2>2. w.n \in Nat /\ FirstEvent(w) \in Event
    BY Zenon, <2>1 DEF WireEvent, FirstEvent, Event
  <2>3. Append(got[c], FirstEvent(w)) \in Seq(Event)
    BY Zenon, <2>1, <2>2, AppendFacts DEF ConsumerTypeOK
  <2>4. /\ [pc |-> "release", call |-> c] \in DispState
        /\ [pc |-> "follow", call |-> c, n |-> w.n + 1] \in DispState
        /\ DispIdle \in DispState
    BY <2>1, <2>2, DispShapes
  <2>5. disp' \in [Consumer -> DispState] /\ got' \in [Call -> Seq(Event)]
    <3>1. CASE ReceiverGone(c)
      BY ZenonT(60), <1>9, <2>4, <3>1 DEF PushEvent, ConsumerTypeOK
    <3>2. CASE ~ReceiverGone(c)
      <4>1. got' = [got EXCEPT ![c] = Append(@, FirstEvent(w))]
        BY Zenon, <1>9, <3>2 DEF PushEvent
      <4>2. PICK d \in DispState : disp' = [disp EXCEPT ![k] = d]
        BY Zenon, <1>9, <3>2, <2>4 DEF PushEvent
      <4> QED
        BY Zenon, <4>1, <4>2, <2>1, <2>3 DEF ConsumerTypeOK
    <3> QED
      BY Zenon, <3>1, <3>2
  <2> QED
    BY Zenon, <1>9, <2>5 DEF PushEvent, ConsumerTypeOK, BusTypeOK
<1>10. ASSUME NEW k \in Consumer, PushFollowUp(k) PROVE BusTypeOK' /\ ConsumerTypeOK'
  <2> DEFINE c == disp[k].call
             e == [kind |-> "complete", n |-> disp[k].n]
  <2>1. c \in Call /\ e \in Event
    BY Zenon, <1>10, DispFields DEF PushFollowUp, ConsumerTypeOK, Event
  <2>2. Append(got[c], e) \in Seq(Event) /\ [pc |-> "release", call |-> c] \in DispState
    BY ZenonT(40), <2>1, AppendFacts, DispShapes DEF ConsumerTypeOK
  <2> QED
    BY Zenon, <1>10, <2>1, <2>2 DEF PushFollowUp, ConsumerTypeOK, BusTypeOK
<1>11. ASSUME NEW k \in Consumer, ReleaseHandler(k) PROVE BusTypeOK' /\ ConsumerTypeOK'
  BY Zenon, <1>11, DispShapes DEF ReleaseHandler, ConsumerTypeOK, BusTypeOK
<1>12. ASSUME NEW k \in Consumer, ConsumerShutdown(k) PROVE BusTypeOK' /\ ConsumerTypeOK'
  BY Zenon, <1>12 DEF ConsumerShutdown, ConsumerTypeOK, BusTypeOK
<1>13. ASSUME NEW k \in Consumer, ConsumerRelease(k) PROVE BusTypeOK' /\ ConsumerTypeOK'
  BY <1>13 DEF ConsumerRelease, ConsumerTypeOK, BusTypeOK
<1>14. ASSUME NEW k \in Consumer, ConsumerCrash(k) PROVE BusTypeOK' /\ ConsumerTypeOK'
  BY Zenon, <1>14 DEF ConsumerCrash, ConsumerTypeOK, BusTypeOK
<1> QED
  BY ZenonT(40), <1>0, <1>1, <1>2, <1>3, <1>4, <1>5, <1>6, <1>7, <1>8, <1>9, <1>10, <1>11, <1>12, <1>13, <1>14
    DEF ConsumerNext

(* The states the channel thread is given are states of its type.          *)
LEMMA ThreadShapes ==
    /\ ThreadIdle \in ThreadState
    /\ [pc |-> "off"] \in ThreadState
    /\ [pc |-> "stopped"] \in ThreadState
    /\ \A c \in Call : \A p \in {"inline", "reject", "undecodable"} :
         [pc |-> p, call |-> c] \in ThreadState
  BY Zenon DEF ThreadState, ThreadIdle

(* A busy channel thread is busy with a call.                              *)
LEMMA ThreadFields ==
    ASSUME NEW t \in ThreadState
    PROVE  /\ t.pc \in {"off", "idle", "stopped", "inline", "reject", "undecodable"}
           /\ t.pc \in {"inline", "reject", "undecodable"} => t.call \in Call
           /\ t = ThreadIdle <=> t.pc = "idle"
  BY DEF ThreadState, ThreadIdle

(* Taking a sample keeps the request buffers typed and bounded.            *)
LEMMA ReceiveType ==
    ASSUME BusTypeOK, NEW k \in Consumer, CanReceive(k), Receive(k)
    PROVE  /\ reqBuf' \in [Consumer -> Seq(RequestSample)]
           /\ \A j \in Consumer : Len(reqBuf[j])' <= ReqCap
           /\ Head(reqBuf[k]) \in RequestSample
           /\ Head(reqBuf[k]).call \in Call
<1>1. reqBuf[k] \in Seq(RequestSample) /\ reqBuf[k] # <<>> /\ Len(reqBuf[k]) <= ReqCap
  BY Zenon DEF BusTypeOK, CanReceive
<1>2. /\ Head(reqBuf[k]) \in RequestSample
      /\ Tail(reqBuf[k]) \in Seq(RequestSample)
      /\ Len(Tail(reqBuf[k])) <= ReqCap
  <2>1. Len(reqBuf[k]) \in Nat
    BY <1>1
  <2> QED
    BY <1>1, <2>1, TailFacts, BusAssumption
<1> QED
  BY Zenon, <1>2 DEF BusTypeOK, Receive, RequestSample

(* Whatever becomes of a publication, the response buffers keep their type *)
(* and their bound.                                                        *)
LEMMA PublishType ==
    ASSUME TypeOK, NEW c \in Call, NEW kind \in WireKind,
           PublishOk(c, kind) \/ PublishErr(c)
    PROVE  /\ respBuf' \in [Consumer -> Seq(ResponseSample)]
           /\ \A k \in Consumer : Len(respBuf[k])' <= RespCap
           /\ emitted' \in [Call -> Nat]
<1>1. emitted' \in [Call -> Nat]
  BY DEF PublishOk, PublishErr, TypeOK, ProviderTypeOK
<1>2. CASE PublishOk(c, kind)
  <2> DEFINE s == [call |-> c, ev |-> [kind |-> kind, n |-> emitted[c] + 1]]
  <2>1. s \in ResponseSample
    BY DEF ResponseSample, WireEvent, TypeOK, ProviderTypeOK
  <2>2. ASSUME NEW k \in Consumer, RespRoom(k)
        PROVE  /\ Append(respBuf[k], s) \in Seq(ResponseSample)
               /\ Len(Append(respBuf[k], s)) <= RespCap
    <3>1. respBuf[k] \in Seq(ResponseSample) /\ Len(respBuf[k]) \in Nat
      BY DEF TypeOK, BusTypeOK
    <3> HIDE DEF s
    <3> QED
      BY <2>1, <2>2, <3>1, AppendFacts, BusAssumption DEF RespRoom
  <2>3. SendResponse(s)
    BY Zenon, <1>2 DEF PublishOk
  <2> HIDE DEF s
  <2> QED
    BY Zenon, <1>1, <2>2, <2>3 DEF SendResponse, TypeOK, BusTypeOK
<1>3. CASE PublishErr(c)
  BY Zenon, <1>1, <1>3 DEF PublishErr, TypeOK, BusTypeOK
<1> QED
  BY Zenon, <1>2, <1>3

(* The steps of the provider keep the type invariant.                      *)
LEMMA ProviderKeepsTypes ==
    ASSUME TypeOK, ProviderNext, UNCHANGED consumerVars
    PROVE  TypeOK'
<1> USE BusAssumption, ProviderAssumption DEF TypeOK, busVars
<1>0. ConsumerTypeOK'
  BY Zenon DEF ConsumerTypeOK, consumerVars
<1>1. CASE ProviderStart
  <2>1. BusTypeOK'
    BY <1>1 DEF ProviderStart, BusTypeOK
  <2>2. provStop' \in BOOLEAN
    BY <1>1, Zenon DEF ProviderStart
  <2>3. ProviderTypeOK'
    BY <1>1, <2>2, ThreadShapes DEF ProviderStart, ProviderTypeOK
  <2> QED
    BY Zenon, <1>0, <2>1, <2>3
<1>2. CASE ProviderCrash
  BY Zenon, <1>0, <1>2, ThreadShapes DEF ProviderCrash, ProcessGone, BusTypeOK, ProviderTypeOK, TaskState
<1>3. CASE ProviderShutdown
  BY Zenon, <1>0, <1>3 DEF ProviderShutdown, BusTypeOK, ProviderTypeOK
<1>4. CASE ThreadStops
  BY <1>0, <1>4, ThreadShapes DEF ThreadStops, BusTypeOK, ProviderTypeOK
<1>5. CASE ProviderExit
  BY Zenon, <1>0, <1>5, ThreadShapes DEF ProviderExit, ProcessGone, BusTypeOK, ProviderTypeOK, TaskState
<1>6. ASSUME NEW k \in Consumer, HandleCancel(k) PROVE TypeOK'
  <2>1. CanReceive(k) /\ Receive(k)
    BY Zenon, <1>6 DEF HandleCancel
  <2> QED
    BY Zenon, <1>0, <1>6, <2>1, ReceiveType DEF HandleCancel, BusTypeOK, ProviderTypeOK
<1>7. ASSUME NEW k \in Consumer, HandleUnserved(k) PROVE TypeOK'
  <2>1. CanReceive(k) /\ Receive(k)
    BY Zenon, <1>7 DEF HandleUnserved
  <2>2. BusTypeOK' /\ Head(reqBuf[k]).call \in Call
    BY Zenon, <1>7, <2>1, ReceiveType DEF HandleUnserved, BusTypeOK
  <2>3. thread' \in ThreadState
    BY Zenon, <1>7, <2>2, ThreadShapes DEF HandleUnserved
  <2> QED
    BY Zenon, <1>0, <1>7, <2>2, <2>3 DEF HandleUnserved, ProviderTypeOK
<1>8. ASSUME NEW k \in Consumer, HandleRequest(k) PROVE TypeOK'
  <2>1. CanReceive(k) /\ Receive(k)
    BY Zenon, <1>8 DEF HandleRequest
  <2>2. BusTypeOK' /\ Head(reqBuf[k]).call \in Call
    BY Zenon, <1>8, <2>1, ReceiveType DEF HandleRequest, BusTypeOK
  <2>3. thread' \in ThreadState /\ task' \in [Call -> TaskState]
    BY ZenonT(40), <1>8, <2>2, ThreadShapes DEF HandleRequest, RunOrSpawn, ProviderTypeOK, TaskState
  <2>4. registry' \subseteq Call /\ token' \in [Call -> BOOLEAN]
    BY Zenon, <1>8, <2>2 DEF HandleRequest, Register, ProviderTypeOK
  <2> QED
    BY Zenon, <1>0, <1>8, <2>2, <2>3, <2>4 DEF HandleRequest, ProviderTypeOK
<1>9. CASE Reject
  <2>1. thread.call \in Call /\ "rpcerror" \in WireKind
    BY Zenon, <1>9, ThreadFields DEF Reject, ProviderTypeOK, WireKind
  <2>2. BusTypeOK' /\ emitted' \in [Call -> Nat]
    BY Zenon, <1>9, <2>1, PublishType DEF Reject, BusTypeOK
  <2> QED
    BY Zenon, <1>0, <1>9, <2>2, ThreadShapes DEF Reject, ProviderTypeOK
<1>10. CASE RejectUndecodable
  <2>1. thread.call \in Call /\ "rpcerror" \in WireKind
    BY Zenon, <1>10, ThreadFields DEF RejectUndecodable, ProviderTypeOK, WireKind
  <2>2. BusTypeOK' /\ emitted' \in [Call -> Nat]
    BY Zenon, <1>10, <2>1, PublishType DEF RejectUndecodable, BusTypeOK
  <2>3. /\ task' \in [Call -> TaskState]
        /\ registry' \subseteq Call /\ token' \in [Call -> BOOLEAN]
    BY Zenon, <1>10, <2>1 DEF RejectUndecodable, Register, ProviderTypeOK, TaskState
  <2> QED
    BY Zenon, <1>0, <1>10, <2>2, <2>3, ThreadShapes DEF RejectUndecodable, ProviderTypeOK
<1>11. ASSUME NEW c \in Call, End(c)
       PROVE  thread' \in ThreadState /\ task' \in [Call -> TaskState] /\ registry' \subseteq Call
  BY Zenon, <1>11, ThreadShapes DEF End, ProviderTypeOK, TaskState
<1>12. ASSUME NEW c \in Call, Poll(c) PROVE TypeOK'
  <2>1. BusTypeOK'
    BY Zenon, <1>12 DEF Poll, BusTypeOK
  <2> QED
    BY Zenon, <1>0, <1>11, <1>12, <2>1 DEF Poll, ProviderTypeOK, TaskState
<1>13. ASSUME NEW c \in Call, Emit(c) PROVE TypeOK'
  <2>1. PICK kind \in EmitKinds : PublishOk(c, kind)
    BY Zenon, <1>13 DEF Emit
  <2>2. BusTypeOK' /\ emitted' \in [Call -> Nat]
    BY Zenon, <1>13, <2>1, PublishType DEF Emit, BusTypeOK
  <2> QED
    BY Zenon, <1>0, <1>13, <2>2 DEF Emit, ProviderTypeOK
<1>14. ASSUME NEW c \in Call, EmitFails(c) PROVE TypeOK'
  <2>1. PublishErr(c) /\ "next" \in WireKind
    BY Zenon, <1>14 DEF EmitFails, WireKind
  <2>2. BusTypeOK' /\ emitted' \in [Call -> Nat]
    BY Zenon, <1>14, <2>1, PublishType DEF EmitFails, BusTypeOK
  <2> QED
    BY Zenon, <1>0, <1>11, <1>14, <2>2 DEF EmitFails, ProviderTypeOK
<1>15. ASSUME NEW c \in Call, Finish(c) PROVE TypeOK'
  BY Zenon, <1>0, <1>11, <1>15 DEF Finish, BusTypeOK, ProviderTypeOK
<1>16. ASSUME NEW c \in Call, Yield(c) PROVE TypeOK'
  <2>1. BusTypeOK'
    BY Zenon, <1>16 DEF Yield, BusTypeOK
  <2> QED
    BY Zenon, <1>0, <1>11, <1>16, <2>1, ThreadShapes DEF Yield, ProviderTypeOK, TaskState
<1> QED
  BY ZenonT(40), <1>1, <1>2, <1>3, <1>4, <1>5, <1>6, <1>7, <1>8, <1>9, <1>10, <1>12, <1>13, <1>14, <1>15, <1>16
    DEF ProviderNext

(* The initial state is typed.                                             *)
LEMMA InitTypes == Init => TypeOK
<1>1. Init => BusTypeOK
  BY BusAssumption DEF Init, BusInit, BusTypeOK
<1>2. Init => ConsumerTypeOK
  BY DispShapes DEF Init, ConsumerInit, ConsumerTypeOK, Stage
<1>3. Init => ProviderTypeOK
  <2>1. Init => provStop \in BOOLEAN
    BY Zenon DEF Init, ProviderInit
  <2>2. Init => token \in [Call -> BOOLEAN]
    BY Zenon DEF Init, ProviderInit
  <2> QED
    BY <2>1, <2>2, ThreadShapes DEF Init, ProviderInit, ProviderTypeOK, TaskState
<1> QED
  BY Zenon, <1>1, <1>2, <1>3 DEF TypeOK

(* Every variable keeps its type, and every subscriber buffer its bound:   *)
(* with safe overflow disabled a send never writes into a full buffer.     *)
THEOREM TypeCorrect == Spec => []TypeOK
<1>1. TypeOK /\ [Next]_vars => TypeOK'
  <2>1. TypeOK /\ UNCHANGED vars => TypeOK'
    BY Zenon DEF vars, busVars, consumerVars, providerVars, TypeOK, BusTypeOK, ConsumerTypeOK, ProviderTypeOK
  <2> QED
    BY Zenon, <2>1, ConsumerKeepsTypes, ProviderKeepsTypes DEF Next
<1> QED
  BY <1>1, InitTypes, PTL DEF Spec

-----------------------------------------------------------------------------
(* Streams and handlers.                                                   *)

(* The dispatch thread of a consumer works for the calls of that consumer, *)
(* and only for calls that have been made.                                 *)
DispatchInv ==
    \A k \in Consumer : disp[k].pc # "idle" =>
        /\ owner[disp[k].call] = k
        /\ stage[disp[k].call] \notin {"idle", "sent"}

(* A stream that has its terminal event gets nothing more: its entry is    *)
(* gone, or the dispatch thread is about to remove it.                     *)
EndedInv ==
    \A c \in Call : 
        HasTerminal(c) /\ c \in handlers => disp[owner[c]] = [pc |-> "release", call |-> c]

(* What the dispatch thread may assume in the middle of a handler.         *)
PushInv ==
    \A k \in Consumer :
        /\ disp[k].pc \in {"push", "follow"} => ~HasTerminal(disp[k].call)
        /\ disp[k].pc = "release" /\ stage[disp[k].call] \in {"publishing", "open"} =>
             HasTerminal(disp[k].call)

(* Before it is published a call has left no trace; from then on it has an *)
(* entry until its stream is ended or released.                            *)
StageInv ==
    \A c \in Call :
        /\ stage[c] \in {"idle", "sent"} => got[c] = <<>> /\ c \notin handlers
        /\ c \in handlers => stage[c] \in {"publishing", "open"}
        /\ stage[c] \in {"publishing", "open"} /\ c \notin handlers => HasTerminal(c)

StreamInv == DispatchInv /\ EndedInv /\ PushInv /\ StageInv /\ TerminalIsLast

(* Pushing an event on a stream.                                           *)
LEMMA PushFacts ==
    ASSUME TypeOK, NEW c \in Call, NEW e \in Event, ~HasTerminal(c),
           got' = [got EXCEPT ![c] = Append(got[c], e)], TerminalIsLast
    PROVE  /\ HasTerminal(c)' <=> IsTerminal(e)
           /\ \A d \in Call \ {c} : HasTerminal(d)' <=> HasTerminal(d)
           /\ \A d \in Call \ {c} : got'[d] = got[d]
           /\ TerminalIsLast'
<1>1. got \in [Call -> Seq(Event)] /\ got[c] \in Seq(Event)
  BY Zenon DEF TypeOK, ConsumerTypeOK
<1>2. /\ got'[c] = Append(got[c], e)
      /\ \A d \in Call \ {c} : got'[d] = got[d]
  BY Zenon, <1>1
<1>3. /\ DOMAIN got'[c] = DOMAIN got[c] \cup {Len(got[c]) + 1}
      /\ \A i \in DOMAIN got[c] : got'[c][i] = got[c][i]
      /\ got'[c][Len(got[c]) + 1] = e
      /\ \A i \in DOMAIN got[c] : i < Len(got[c]) + 1
  <2>1. DOMAIN got[c] = 1..Len(got[c]) /\ Len(got[c]) \in Nat
    BY <1>1
  <2> QED
    BY <1>1, <1>2, <2>1, AppendFacts
<1>4. HasTerminal(c)' <=> IsTerminal(e)
  BY Zenon, <1>3 DEF HasTerminal, IsTerminal
<1>5. \A d \in Call \ {c} : HasTerminal(d)' <=> HasTerminal(d)
  BY Zenon, <1>2 DEF HasTerminal, IsTerminal
<1>6. TerminalIsLast'
  <2> SUFFICES ASSUME NEW d \in Call, NEW i \in DOMAIN got'[d], NEW j \in DOMAIN got'[d], i < j
               PROVE  ~IsTerminal(got'[d][i])
    BY Zenon DEF TerminalIsLast, IsTerminal
  <2>1. CASE d # c
    BY Zenon, <1>2, <2>1 DEF TerminalIsLast
  <2>2. CASE d = c
    <3>1. i \in DOMAIN got[c]
      <4>1. DOMAIN got[c] = 1..Len(got[c]) /\ Len(got[c]) \in Nat
        BY <1>1
      <4> QED
        BY <1>3, <2>2, <4>1
    <3> QED
      BY Zenon, <1>3, <2>2, <3>1 DEF HasTerminal
  <2> QED
    BY Zenon, <2>1, <2>2
<1> QED
  BY Zenon, <1>2, <1>4, <1>5, <1>6

(* The steps of the consumers keep the invariant of the streams.           *)
LEMMA ConsumerKeepsStreams ==
    ASSUME TypeOK, StreamInv, ConsumerNext
    PROVE  StreamInv'
<1> USE ConsumerAssumption
<1>0. /\ stage \in [Call -> Stage] /\ handlers \subseteq Call /\ got \in [Call -> Seq(Event)]
      /\ disp \in [Consumer -> DispState]
  BY Zenon DEF TypeOK, ConsumerTypeOK
<1>a. \A k \in Consumer : disp[k].pc # "idle" => disp[k].call \in Call
  BY Zenon, <1>0, DispFields
<1>b. /\ DispatchInv /\ EndedInv /\ PushInv /\ StageInv /\ TerminalIsLast
  BY Zenon DEF StreamInv
<1>1. ASSUME NEW c \in Call, NativeCall(c) PROVE StreamInv'
  <2>1. /\ stage[c] = "idle" /\ stage' = [stage EXCEPT ![c] = "publishing"]
        /\ handlers' = handlers \cup {c} /\ got' = got /\ disp' = disp
    BY Zenon, <1>1 DEF NativeCall
  <2>2. got[c] = <<>> /\ \A d \in Call : HasTerminal(d)' <=> HasTerminal(d)
    BY Zenon, <1>b, <2>1 DEF StageInv, HasTerminal
  <2>3. ~HasTerminal(c)
    BY <2>2 DEF HasTerminal
  <2>4. DispatchInv'
    BY Zenon, <1>0, <1>b, <1>a, <2>1 DEF DispatchInv
  <2>5. EndedInv'
    BY Zenon, <1>b, <2>1, <2>2, <2>3 DEF EndedInv
  <2>6. PushInv'
    BY <1>0, <1>b, <1>a, <2>1, <2>2 DEF PushInv, DispatchInv
  <2>7. StageInv'
    BY Zenon, <1>0, <1>b, <2>1, <2>2 DEF StageInv
  <2> QED
    BY Zenon, <1>b, <2>1, <2>4, <2>5, <2>6, <2>7 DEF StreamInv, TerminalIsLast
<1>2. ASSUME NEW c \in Call, NEW st \in {"open", "failed", "dropped", "cancelling", "sent"},
             stage' = [stage EXCEPT ![c] = st],
             st = "open" => stage[c] = "publishing",
             st \in {"failed", "dropped", "cancelling"} => stage[c] # "idle" /\ stage[c] # "sent",
             st = "sent" => stage[c] = "idle",
             handlers' = handlers \/ handlers' = handlers \ {c},
             st \in {"failed", "dropped", "cancelling"} => c \notin handlers',
             st \in {"open", "sent"} => handlers' = handlers,
             got' = got, disp' = disp
      PROVE  StreamInv'
  <2>1. \A d \in Call : HasTerminal(d)' <=> HasTerminal(d)
    BY Zenon, <1>2 DEF HasTerminal
  <2>2. DispatchInv'
    BY ZenonT(40), <1>0, <1>a, <1>b, <1>2 DEF DispatchInv
  <2>3. EndedInv'
    BY Zenon, <1>b, <1>2, <2>1 DEF EndedInv
  <2>4. PushInv'
    BY Zenon, <1>0, <1>a, <1>b, <1>2, <2>1 DEF PushInv, DispatchInv
  <2>5. StageInv'
    BY Zenon, <1>0, <1>b, <1>2, <2>1 DEF StageInv
  <2> QED
    BY Zenon, <1>b, <1>2, <2>2, <2>3, <2>4, <2>5 DEF StreamInv, TerminalIsLast
<1>3. ASSUME NEW c \in Call, PublishRequest(c) PROVE StreamInv'
  BY Zenon, <1>2, <1>3 DEF PublishRequest
<1>4. ASSUME NEW c \in Call, PublishFail(c) PROVE StreamInv'
  BY Zenon, <1>2, <1>4 DEF PublishFail
<1>5. ASSUME NEW c \in Call, SendOneWay(c) PROVE StreamInv'
  BY Zenon, <1>2, <1>5 DEF SendOneWay
<1>6. ASSUME NEW c \in Call, DropStream(c) PROVE StreamInv'
  BY Zenon, <1>2, <1>6 DEF DropStream
<1>7. ASSUME NEW c \in Call, PublishCancel(c) PROVE StreamInv'
  <2>1. c \notin handlers
    BY Zenon, <1>b, <1>7 DEF StageInv, PublishCancel
  <2> QED
    BY Zenon, <1>2, <1>7, <2>1 DEF PublishCancel
<1>8. ASSUME NEW k \in Consumer, Dispatch(k) PROVE StreamInv'
  <2>1. stage' = stage /\ handlers' = handlers /\ got' = got /\ disp[k].pc = "idle"
    BY <1>8 DEF Dispatch, DispIdle
  <2>2. \A d \in Call : HasTerminal(d)' <=> HasTerminal(d)
    BY Zenon, <2>1 DEF HasTerminal
  <2>3. CASE disp' = disp
    BY Zenon, <1>b, <2>1, <2>3
      DEF StreamInv, DispatchInv, EndedInv, PushInv, StageInv, TerminalIsLast, HasTerminal
  <2>4. CASE disp' # disp
    <3>1. PICK c \in handlers : owner[c] = k /\
            disp' = [disp EXCEPT ![k] = [pc |-> "push", call |-> c, ev |-> Head(respBuf[k]).ev]]
      BY Zenon, <1>8, <2>4 DEF Dispatch
    <3>2. c \in Call /\ disp'[k].pc = "push" /\ disp'[k].call = c
          /\ \A j \in Consumer \ {k} : disp'[j] = disp[j]
      BY Zenon, <1>0, <3>1
    <3>3. ~HasTerminal(c)
      <4>1. SUFFICES ASSUME HasTerminal(c) PROVE FALSE
        BY Zenon
      <4>2. disp[k] = [pc |-> "release", call |-> c]
        BY Zenon, <1>b, <3>1, <3>2, <4>1 DEF EndedInv
      <4> QED
        BY <2>1, <4>2
    <3>4. stage[c] \notin {"idle", "sent"}
      BY Zenon, <1>b, <3>1, <3>2 DEF StageInv
    <3>5. DispatchInv'
      BY <1>b, <2>1, <3>1, <3>2, <3>4 DEF DispatchInv
    <3>6. EndedInv'
      BY <1>b, <2>1, <2>2, <3>1, <3>2, <3>3 DEF EndedInv
    <3>7. PushInv'
      BY Zenon, <1>a, <1>b, <2>1, <2>2, <3>2, <3>3 DEF PushInv
    <3> QED
      BY Zenon, <1>b, <2>1, <2>2, <3>5, <3>6, <3>7 DEF StreamInv, StageInv, TerminalIsLast
  <2> QED
    BY Zenon, <2>3, <2>4
<1>9. ASSUME NEW k \in Consumer, NEW c \in Call, NEW d \in DispState, disp[k].pc \in {"push", "follow"},
             c = disp[k].call, stage' = stage, handlers' = handlers,
             disp' = [disp EXCEPT ![k] = d],
             d.pc # "idle" => d.call = c,
             NEW e \in Event,
             \/ got' = got /\ ReceiverGone(c) /\ d.pc = "release"
             \/ /\ got' = [got EXCEPT ![c] = Append(got[c], e)]
                /\ d.pc # "push"
                /\ IsTerminal(e) <=> d.pc = "release"
      PROVE  StreamInv'
  <2>1. /\ ~HasTerminal(c) /\ owner[c] = k /\ stage[c] \notin {"idle", "sent"}
    BY Zenon, <1>b, <1>9 DEF PushInv, DispatchInv
  <2>2. disp'[k] = d /\ \A j \in Consumer \ {k} : disp'[j] = disp[j]
    BY Zenon, <1>0, <1>9
  <2>3. d.pc = "release" => d = [pc |-> "release", call |-> c]
    BY ZenonT(40), <1>9, DispFields
  <2>4. DispatchInv'
    BY <1>b, <1>9, <2>1, <2>2 DEF DispatchInv
  <2>5. CASE got' = got /\ ReceiverGone(c) /\ d.pc = "release"
    <3>1. \A x \in Call : HasTerminal(x)' <=> HasTerminal(x)
      BY Zenon, <2>5 DEF HasTerminal
    <3>2. EndedInv'
      <4> SUFFICES ASSUME NEW x \in Call, HasTerminal(x)', x \in handlers
                   PROVE  disp'[owner[x]] = [pc |-> "release", call |-> x]
        BY Zenon, <1>9 DEF EndedInv
      <4>1. disp[owner[x]] = [pc |-> "release", call |-> x]
        BY Zenon, <1>b, <3>1 DEF EndedInv
      <4>2. disp[owner[x]].pc = "release"
        BY <4>1
      <4>3. owner[x] \in Consumer \ {k}
        BY Zenon, <1>9, <4>2
      <4> QED
        BY Zenon, <2>2, <4>1, <4>3
    <3>3. PushInv'
      <4> SUFFICES ASSUME NEW j \in Consumer
                   PROVE  /\ disp'[j].pc \in {"push", "follow"} => ~HasTerminal(disp[j].call)'
                          /\ disp'[j].pc = "release"
                               /\ stage'[disp'[j].call] \in {"publishing", "open"} =>
                               HasTerminal(disp[j].call)'
        BY Zenon DEF PushInv
      <4>1. CASE j = k
        <5>1. disp'[j].pc = "release" /\ disp'[j].call = c
          BY Zenon, <1>9, <2>2, <2>5, <4>1
        <5>2. stage'[c] \notin {"publishing", "open"}
          BY Zenon, <1>9, <2>5 DEF ReceiverGone
        <5> QED
          BY Zenon, <5>1, <5>2
      <4>2. CASE j # k
        <5>1. disp'[j] = disp[j] /\ (disp[j].pc # "idle" => disp[j].call \in Call)
          BY Zenon, <1>a, <2>2, <4>2
        <5> QED
          BY Zenon, <1>b, <1>9, <3>1, <5>1 DEF PushInv
      <4> QED
        BY Zenon, <4>1, <4>2
    <3> QED
      BY Zenon, <1>b, <1>9, <2>4, <2>5, <3>1, <3>2, <3>3 DEF StreamInv, StageInv, TerminalIsLast
  <2>6. CASE /\ got' = [got EXCEPT ![c] = Append(got[c], e)] /\ d.pc # "push"
             /\ IsTerminal(e) <=> d.pc = "release"
    <3>1. /\ HasTerminal(c)' <=> IsTerminal(e)
          /\ \A x \in Call \ {c} : HasTerminal(x)' <=> HasTerminal(x)
          /\ \A x \in Call \ {c} : got'[x] = got[x]
          /\ TerminalIsLast'
      BY Zenon, <1>b, <2>1, <2>6, PushFacts
    <3>2. EndedInv'
      <4> SUFFICES ASSUME NEW x \in Call, HasTerminal(x)', x \in handlers
                   PROVE  disp'[owner[x]] = [pc |-> "release", call |-> x]
        BY Zenon, <1>9 DEF EndedInv
      <4>1. CASE x = c
        BY Zenon, <2>1, <2>2, <2>3, <2>6, <3>1, <4>1
      <4>2. CASE x # c
        <5>1. disp[owner[x]] = [pc |-> "release", call |-> x]
          BY Zenon, <1>b, <3>1, <4>2 DEF EndedInv
        <5>2. disp[owner[x]].pc = "release"
          BY <5>1
        <5>3. owner[x] \in Consumer \ {k}
          BY Zenon, <1>9, <5>2
        <5> QED
          BY Zenon, <2>2, <5>1, <5>3
      <4> QED
        BY Zenon, <4>1, <4>2
    <3>3. PushInv'
      <4> SUFFICES ASSUME NEW j \in Consumer
                   PROVE  /\ disp'[j].pc \in {"push", "follow"} => ~HasTerminal(disp[j].call)'
                          /\ disp'[j].pc = "release"
                               /\ stage'[disp'[j].call] \in {"publishing", "open"} =>
                               HasTerminal(disp[j].call)'
        BY Zenon DEF PushInv
      <4>1. CASE j = k
        BY ZenonT(40), <1>9, <2>2, <2>6, <3>1, <4>1
      <4>2. CASE j # k
        <5>1. disp'[j] = disp[j] /\ (disp[j].pc # "idle" => disp[j].call \in Call \ {c})
          BY Zenon, <1>a, <1>b, <2>1, <2>2, <4>2 DEF DispatchInv
        <5> QED
          BY Zenon, <1>b, <1>9, <3>1, <5>1 DEF PushInv
      <4> QED
        BY Zenon, <4>1, <4>2
    <3>4. StageInv'
      BY Zenon, <1>b, <1>9, <2>1, <3>1 DEF StageInv
    <3> QED
      BY Zenon, <2>4, <3>1, <3>2, <3>3, <3>4 DEF StreamInv
  <2> QED
    BY Zenon, <1>9, <2>5, <2>6
<1>10. ASSUME NEW k \in Consumer, PushEvent(k) PROVE StreamInv'
  <2> DEFINE c == disp[k].call
             w == disp[k].ev
  <2>1. disp[k].pc = "push" /\ c \in Call /\ w \in WireEvent /\ stage' = stage /\ handlers' = handlers
    BY Zenon, <1>0, <1>10, DispFields DEF PushEvent
  <2>2. w.n \in Nat /\ FirstEvent(w) \in Event
    BY Zenon, <2>1 DEF WireEvent, FirstEvent, Event
  <2>3. CASE ReceiverGone(c)
    <3>1. disp' = [disp EXCEPT ![k] = [pc |-> "release", call |-> c]] /\ got' = got
      BY Zenon, <1>10, <2>3 DEF PushEvent
    <3>2. [pc |-> "release", call |-> c] \in DispState
      BY Zenon, <2>1, DispShapes
    <3> QED
      BY Zenon, <1>9, <2>1, <2>2, <2>3, <3>1, <3>2
  <2>4. CASE ~ReceiverGone(c)
    <3>1. got' = [got EXCEPT ![c] = Append(@, FirstEvent(w))]
      BY Zenon, <1>10, <2>4 DEF PushEvent
    <3>2. CASE w.kind = "completewith"
      <4>1. disp' = [disp EXCEPT ![k] = [pc |-> "follow", call |-> c, n |-> w.n + 1]]
        BY Zenon, <1>10, <2>4, <3>2 DEF PushEvent
      <4>2. ~IsTerminal(FirstEvent(w))
        BY ZenonT(40), <3>2 DEF IsTerminal, FirstEvent
      <4>3. [pc |-> "follow", call |-> c, n |-> w.n + 1] \in DispState
        BY <2>1, <2>2, DispShapes
      <4> QED
        BY Zenon, <1>9, <2>1, <2>2, <3>1, <4>1, <4>2, <4>3
    <3>3. CASE w.kind # "completewith" /\ IsTerminalWire(w)
      <4>1. disp' = [disp EXCEPT ![k] = [pc |-> "release", call |-> c]]
        BY Zenon, <1>10, <2>4, <3>3 DEF PushEvent
      <4>2. IsTerminal(FirstEvent(w))
        BY Zenon, <3>3 DEF IsTerminal, IsTerminalWire, FirstEvent
      <4>3. [pc |-> "release", call |-> c] \in DispState
        BY Zenon, <2>1, DispShapes
      <4> QED
        BY Zenon, <1>9, <2>1, <2>2, <3>1, <4>1, <4>2, <4>3
    <3>4. CASE ~IsTerminalWire(w)
      <4>1. disp' = [disp EXCEPT ![k] = DispIdle] /\ ~IsTerminal(FirstEvent(w))
        BY Zenon, <1>10, <2>4, <3>4 DEF PushEvent, IsTerminal, IsTerminalWire, FirstEvent
      <4>2. DispIdle.pc = "idle" /\ DispIdle \in DispState
        BY Zenon, DispShapes DEF DispIdle
      <4> QED
        BY Zenon, <1>9, <2>1, <2>2, <3>1, <4>1, <4>2
    <3> QED
      BY Zenon, <3>2, <3>3, <3>4 DEF IsTerminalWire
  <2> QED
    BY Zenon, <2>3, <2>4
<1>11. ASSUME NEW k \in Consumer, PushFollowUp(k) PROVE StreamInv'
  <2> DEFINE c == disp[k].call
             e == [kind |-> "complete", n |-> disp[k].n]
  <2>1. disp[k].pc = "follow" /\ c \in Call /\ e \in Event /\ stage' = stage /\ handlers' = handlers
    BY Zenon, <1>0, <1>11, DispFields DEF PushFollowUp, Event
  <2>2. [pc |-> "release", call |-> c] \in DispState /\ IsTerminal(e)
    BY Zenon, <2>1, DispShapes DEF IsTerminal
  <2>3. disp' = [disp EXCEPT ![k] = [pc |-> "release", call |-> c]]
    BY Zenon, <1>11 DEF PushFollowUp
  <2>4. CASE ReceiverGone(c)
    <3>1. got' = got
      BY Zenon, <1>11, <2>4 DEF PushFollowUp
    <3> QED
      BY ZenonT(40), <1>9, <2>1, <2>2, <2>3, <2>4, <3>1
  <2>5. CASE ~ReceiverGone(c)
    <3>1. got' = [got EXCEPT ![c] = Append(@, e)]
      BY Zenon, <1>11, <2>5 DEF PushFollowUp
    <3> HIDE DEF e
    <3> QED
      BY Zenon, <1>9, <2>1, <2>2, <2>3, <3>1
  <2> QED
    BY Zenon, <2>4, <2>5
<1>12. ASSUME NEW k \in Consumer, ReleaseHandler(k) PROVE StreamInv'
  <2> DEFINE c == disp[k].call
  <2>1. /\ disp[k].pc = "release" /\ c \in Call /\ handlers' = handlers \ {c}
        /\ disp' = [disp EXCEPT ![k] = DispIdle] /\ got' = got /\ stage' = stage
    BY Zenon, <1>a, <1>12 DEF ReleaseHandler
  <2>2. \A d \in Call : HasTerminal(d)' <=> HasTerminal(d)
    BY Zenon, <2>1 DEF HasTerminal
  <2>3. disp'[k].pc = "idle" /\ \A j \in Consumer \ {k} : disp'[j] = disp[j]
    BY Zenon, <1>0, <2>1 DEF DispIdle
  <2>4. DispatchInv'
    BY <1>b, <2>1, <2>3 DEF DispatchInv
  <2>5. EndedInv'
    BY <1>b, <2>1, <2>2, <2>3 DEF EndedInv
  <2>6. PushInv'
    BY Zenon, <1>a, <1>b, <2>1, <2>2, <2>3 DEF PushInv
  <2>7. StageInv'
    BY Zenon, <1>b, <2>1, <2>2 DEF StageInv, PushInv
  <2> QED
    BY Zenon, <1>b, <2>1, <2>4, <2>5, <2>6, <2>7 DEF StreamInv, TerminalIsLast
<1>13. ASSUME UNCHANGED <<stage, handlers, got, disp>> PROVE StreamInv'
  BY Zenon, <1>b, <1>13
    DEF StreamInv, DispatchInv, EndedInv, PushInv, StageInv, TerminalIsLast, HasTerminal
<1>14. ASSUME NEW c \in Call, ReadTerminal(c) PROVE StreamInv'
  BY Zenon, <1>13, <1>14 DEF ReadTerminal
<1>15. ASSUME NEW k \in Consumer, ConsumerShutdown(k) \/ ConsumerRelease(k) \/ ConsumerCrash(k)
       PROVE  StreamInv'
  BY Zenon, <1>13, <1>15 DEF ConsumerShutdown, ConsumerRelease, ConsumerCrash, consumerVars
<1> QED
  BY ZenonT(40), <1>1, <1>3, <1>4, <1>5, <1>6, <1>7, <1>8, <1>10, <1>11, <1>12, <1>14, <1>15 DEF ConsumerNext

(* The invariant of the streams holds initially.                           *)
LEMMA InitStreams == Init => StreamInv
  BY DEF Init, ConsumerInit, StreamInv, DispatchInv, EndedInv, PushInv, StageInv,
     TerminalIsLast, HasTerminal, DispIdle

(* The inductive invariant of the streams; the provider touches none of    *)
(* its variables.                                                          *)
LEMMA StreamsInvariant == Spec => []StreamInv
<1>1. TypeOK /\ StreamInv /\ [Next]_vars => StreamInv'
  <2>1. StreamInv /\ UNCHANGED consumerVars => StreamInv'
    BY Zenon DEF consumerVars, StreamInv, DispatchInv, EndedInv, PushInv, StageInv,
       TerminalIsLast, HasTerminal
  <2> QED
    BY Zenon, <2>1, ConsumerKeepsStreams DEF Next, vars
<1> QED
  BY <1>1, InitStreams, TypeCorrect, PTL DEF Spec

(* The handler table neither leaks nor strands: whatever the interleaving  *)
(* of the dispatch thread, the application's drops and the failing         *)
(* publications, an entry belongs to a call in flight, and an open stream  *)
(* without an entry has been given its terminal event.                     *)
THEOREM HandlerTableSafe == Spec => []HandlerTable
<1>1. StreamInv => HandlerTable
  BY Zenon DEF StreamInv, StageInv, HandlerTable
<1> QED
  BY <1>1, StreamsInvariant, PTL

(* No event ever follows a terminal one on a response stream, although a   *)
(* provider may go on emitting.                                            *)
THEOREM NothingAfterTerminal == Spec => []TerminalIsLast
<1>1. StreamInv => TerminalIsLast
  BY Zenon DEF StreamInv
<1> QED
  BY <1>1, StreamsInvariant, PTL

-----------------------------------------------------------------------------
(* Proofs about requests, Cancels and the registry of in-flight calls of   *)
(* RpcChannel, for any constants.  The argument is the FIFO order of a     *)
(* consumer's samples: the Cancel of a call is behind its request, so the  *)
(* channel thread has registered the token before it sees the Cancel.      *)

(* The request of the call has not left its process.                       *)
Unsent(c) == stage[c] \in {"idle", "publishing", "failed"}

(* The provider has not taken the request of the call.                     *)
Fresh(c) ==
    /\ task[c] = "none"
    /\ c \notin cancelSeen
    /\ thread.pc \in {"reject", "undecodable"} => thread.call # c

(* A request waits in its owner's buffer while its call is untouched; a    *)
(* Cancel belongs to a call that was dropped unread.                       *)
SampleInv ==
    \A k \in Consumer : \A i \in DOMAIN reqBuf[k] :
        LET s == reqBuf[k][i]
        IN  /\ owner[s.call] = k
            /\ s.kind = "request" => Fresh(s.call) /\ ~Unsent(s.call)
            /\ s.kind = "cancel" => stage[s.call] = "dropped" /\ ~terminated[s.call]

(* Two samples of one call are its request and, behind it, its Cancel.     *)
OrderInv ==
    \A k \in Consumer : \A i, j \in DOMAIN reqBuf[k] :
        i < j /\ reqBuf[k][i].call = reqBuf[k][j].call =>
            reqBuf[k][i].kind = "request" /\ reqBuf[k][j].kind = "cancel"

(* A request the channel thread answers itself has no task yet.            *)
ThreadInv ==
    thread.pc \in {"reject", "undecodable"} =>
        /\ thread.pc = "undecodable" => thread.call \notin OneWay
        /\ task[thread.call] = "none"
        /\ thread.call \notin cancelSeen
        /\ ~Unsent(thread.call)

(* What the stage of a call says of the provider.                          *)
CallInv ==
    \A c \in Call :
        /\ Unsent(c) => task[c] = "none"
        /\ c \in OneWay => stage[c] \in {"idle", "sent"}
        /\ c \in cancelSeen => stage[c] = "dropped"
        /\ terminated[c] => stage[c] \in {"open", "dropped"}

ServiceInv ==
    SampleInv /\ OrderInv /\ ThreadInv /\ CallInv /\ RegistryIsExact /\ CancelReaches

-----------------------------------------------------------------------------
(* What a send and a receive do to the request buffers.                    *)

(* A send appends the sample behind the ones its consumer has waiting, or  *)
(* leaves every buffer as it is.                                           *)
LEMMA SendFacts ==
    ASSUME BusTypeOK, NEW k \in Consumer, NEW s \in RequestSample, SendRequest(k, s)
    PROVE  \A j \in Consumer :
             \/ reqBuf'[j] = reqBuf[j]
             \/ /\ j = k
                /\ DOMAIN reqBuf'[j] = DOMAIN reqBuf[j] \cup {Len(reqBuf[j]) + 1}
                /\ reqBuf'[j][Len(reqBuf[j]) + 1] = s
                /\ \A i \in DOMAIN reqBuf[j] : /\ reqBuf'[j][i] = reqBuf[j][i]
                                              /\ i \in Nat /\ i < Len(reqBuf[j]) + 1
                /\ Len(reqBuf[j]) \in Nat
<1>1. reqBuf[k] \in Seq(RequestSample)
  BY Zenon DEF BusTypeOK
<1>2. DOMAIN reqBuf[k] = 1..Len(reqBuf[k]) /\ Len(reqBuf[k]) \in Nat
  BY <1>1
<1>3. CASE ReqRoom(k)
  <2>1. reqBuf'[k] = Append(reqBuf[k], s) /\ \A j \in Consumer \ {k} : reqBuf'[j] = reqBuf[j]
    BY Zenon, <1>3 DEF SendRequest, BusTypeOK
  <2> QED
    BY <1>1, <1>2, <2>1, AppendFacts
<1>4. CASE ~ReqRoom(k)
  BY Zenon, <1>4 DEF SendRequest, BusTypeOK
<1> QED
  BY Zenon, <1>3, <1>4

(* Taking the head of a buffer shifts the samples behind it.               *)
LEMMA ReceiveFacts ==
    ASSUME BusTypeOK, NEW k \in Consumer, CanReceive(k), Receive(k)
    PROVE  /\ \A j \in Consumer \ {k} : reqBuf'[j] = reqBuf[j]
           /\ 1 \in DOMAIN reqBuf[k] /\ Head(reqBuf[k]) = reqBuf[k][1]
           /\ \A i \in DOMAIN reqBuf'[k] :
                /\ i \in Nat /\ i + 1 \in DOMAIN reqBuf[k] /\ 1 < i + 1
                /\ reqBuf'[k][i] = reqBuf[k][i + 1]
<1>1. reqBuf[k] \in Seq(RequestSample) /\ reqBuf[k] # <<>>
  BY Zenon DEF BusTypeOK, CanReceive
<1>2. reqBuf'[k] = Tail(reqBuf[k]) /\ \A j \in Consumer \ {k} : reqBuf'[j] = reqBuf[j]
  BY Zenon DEF Receive, BusTypeOK
<1>3. /\ Tail(reqBuf[k]) \in Seq(RequestSample)
      /\ \A i \in DOMAIN Tail(reqBuf[k]) : i \in Nat /\ 1 < i + 1
  <2>1. Tail(reqBuf[k]) \in Seq(RequestSample)
    BY Zenon, <1>1, TailFacts
  <2>2. DOMAIN Tail(reqBuf[k]) = 1..Len(Tail(reqBuf[k])) /\ Len(Tail(reqBuf[k])) \in Nat
    BY <2>1
  <2> QED
    BY <2>1, <2>2
<1> QED
  BY <1>1, <1>2, <1>3, TailFacts

(* Every sample waiting for the provider names a call.                     *)
LEMMA SampleTypes ==
    ASSUME BusTypeOK, NEW k \in Consumer, NEW i \in DOMAIN reqBuf[k]
    PROVE  /\ reqBuf[k][i].call \in Call
           /\ reqBuf[k][i].kind \in {"request", "cancel"}
           /\ i \in Nat
<1>1. reqBuf[k] \in Seq(RequestSample)
  BY Zenon DEF BusTypeOK
<1>2. reqBuf[k][i] \in RequestSample /\ i \in Nat
  BY <1>1
<1> QED
  BY Zenon, <1>2 DEF RequestSample

(* What SampleInv says of call d, the call of a sample of consumer k.      *)
Stands(k, kind, d) ==
    /\ owner[d] = k
    /\ kind = "request" => Fresh(d) /\ ~Unsent(d)
    /\ kind = "cancel" => stage[d] = "dropped" /\ ~terminated[d]

(* The call of a sample in a buffer stands so.                             *)
LEMMA SampleSays ==
    ASSUME BusTypeOK, SampleInv, NEW k \in Consumer, NEW i \in DOMAIN reqBuf[k],
           NEW d, d = reqBuf[k][i].call, NEW kind, kind = reqBuf[k][i].kind
    PROVE  d \in Call /\ Stands(k, kind, d)
<1>1. d \in Call
  BY Zenon, SampleTypes
<1> QED
  BY <1>1 DEF SampleInv, Stands

(* A step keeps SampleInv if the calls of all samples still do.            *)
LEMMA SampleKept ==
    ASSUME \A k \in Consumer : \A i \in DOMAIN reqBuf'[k] : \A d, kind :
              d = reqBuf'[k][i].call /\ kind = reqBuf'[k][i].kind => Stands(k, kind, d)'
    PROVE  SampleInv'
  BY DEF SampleInv, Stands, Fresh, Unsent

-----------------------------------------------------------------------------
(* The steps of the consumers.                                             *)

(* No step of a consumer (a call, a drop, a Cancel, a crash) breaks the    *)
(* invariant.                                                              *)
LEMMA ConsumerKeepsService ==
    ASSUME TypeOK, ServiceInv, ConsumerNext, UNCHANGED providerVars
    PROVE  ServiceInv'
<1> USE ConsumerAssumption
<1>a. /\ BusTypeOK /\ stage \in [Call -> Stage] /\ terminated \in [Call -> BOOLEAN]
      /\ thread.pc \in {"reject", "undecodable"} => thread.call \in Call
  BY Zenon, ThreadFields DEF TypeOK, ConsumerTypeOK, ProviderTypeOK
<1>b. SampleInv /\ OrderInv /\ ThreadInv /\ CallInv
  BY Zenon DEF ServiceInv
<1>c. RegistryIsExact' /\ CancelReaches'
  BY Zenon DEF ServiceInv, RegistryIsExact, CancelReaches, Live, providerVars
<1>d. /\ thread' = thread /\ task' = task /\ cancelSeen' = cancelSeen
      /\ \A c \in Call : Fresh(c)' <=> Fresh(c)
  BY Zenon DEF providerVars, Fresh
<1>e. \A c : Fresh(c)' <=> Fresh(c)
  BY Zenon, <1>d DEF Fresh
(* A call moves on and the buffers are left alone.                         *)
<1>1. ASSUME NEW c \in Call, NEW st \in Stage, stage' = [stage EXCEPT ![c] = st],
             terminated' = terminated, reqBuf' = reqBuf,
             \/ stage[c] = "idle" /\ st = "publishing" /\ c \notin OneWay
             \/ stage[c] = "idle" /\ st = "sent"
             \/ stage[c] = "publishing" /\ st \in {"open", "failed"}
             \/ stage[c] = "open" /\ st = "cancelling" /\ ~terminated[c]
             \/ stage[c] = "open" /\ st = "dropped"
             \/ stage[c] = "cancelling" /\ st = "dropped"
      PROVE  ServiceInv'
  <2>1. stage'[c] = st /\ \A d \in Call \ {c} : stage'[d] = stage[d]
    BY ZenonT(40), <1>a, <1>1
  <2>2. SampleInv'
    <3>0. reqBuf' = reqBuf
      BY Zenon, <1>1
    <3> SUFFICES ASSUME NEW k \in Consumer, NEW i \in DOMAIN reqBuf[k],
                        NEW d, d = reqBuf[k][i].call, NEW kind, kind = reqBuf[k][i].kind
                 PROVE  Stands(k, kind, d)'
      BY Zenon, <3>0, SampleKept
    <3>1. d \in Call /\ Stands(k, kind, d)
      BY Zenon, <1>a, <1>b, SampleSays
    <3>2. CASE d # c
      <4>1. stage'[d] = stage[d] /\ terminated' = terminated
        BY Zenon, <1>1, <2>1, <3>1, <3>2
      <4> QED
        BY Zenon, <1>e, <3>1, <4>1 DEF Stands, Unsent
    <3>3. CASE d = c
      <4>1. stage[c] # "dropped" /\ (~Unsent(c) => ~Unsent(c)')
        BY <1>1, <2>1 DEF Unsent
      <4> QED
        BY Zenon, <1>e, <3>1, <3>3, <4>1 DEF Stands
    <3> QED
      BY Zenon, <3>2, <3>3
  <2>3. OrderInv'
    BY ZenonT(40), <1>b, <1>1 DEF OrderInv
  <2>4. ThreadInv'
    BY Zenon, <1>a, <1>b, <1>d, <1>1, <2>1 DEF ThreadInv, Unsent
  <2>5. CallInv'
    BY ZenonT(40), <1>b, <1>d, <1>1, <2>1 DEF CallInv, Unsent
  <2> QED
    BY Zenon, <1>c, <2>2, <2>3, <2>4, <2>5 DEF ServiceInv
(* A call moves on and its sample is sent.                                 *)
<1>2. ASSUME NEW c \in Call, NEW st \in Stage, NEW s \in RequestSample,
             s.call = c, SendRequest(owner[c], s),
             stage' = [stage EXCEPT ![c] = st], terminated' = terminated,
             \/ stage[c] = "idle" /\ st = "sent" /\ s.kind = "request"
             \/ stage[c] = "publishing" /\ st = "open" /\ s.kind = "request"
             \/ stage[c] = "cancelling" /\ st = "dropped" /\ s.kind = "cancel"
      PROVE  ServiceInv'
  <2>1. stage'[c] = st /\ \A d \in Call \ {c} : stage'[d] = stage[d]
    BY Zenon, <1>a, <1>2
  <2>2. ASSUME NEW j \in Consumer
        PROVE  \/ reqBuf'[j] = reqBuf[j]
               \/ /\ j = owner[c]
                  /\ DOMAIN reqBuf'[j] = DOMAIN reqBuf[j] \cup {Len(reqBuf[j]) + 1}
                  /\ reqBuf'[j][Len(reqBuf[j]) + 1] = s
                  /\ \A i \in DOMAIN reqBuf[j] : /\ reqBuf'[j][i] = reqBuf[j][i]
                                                /\ i \in Nat /\ i < Len(reqBuf[j]) + 1
                  /\ Len(reqBuf[j]) \in Nat
    <3>1. owner[c] \in Consumer
      BY Zenon
    <3> QED
      BY Zenon, <1>a, <1>2, <3>1, SendFacts
  <2>3. ~terminated[c] \/ s.kind = "request"
    BY Zenon, <1>b, <1>2 DEF CallInv
  <2>4. s.kind = "request" => Fresh(c)
    BY ZenonT(40), <1>b, <1>2 DEF CallInv, ThreadInv, Fresh, Unsent
  <2>5. ASSUME NEW k \in Consumer, NEW i \in DOMAIN reqBuf[k], reqBuf[k][i].call = c
        PROVE  reqBuf[k][i].kind = "request" /\ s.kind = "cancel"
    BY <1>a, <1>b, <1>2, <2>5, SampleTypes DEF SampleInv, Unsent
  <2>6. SampleInv'
    <3>1. ASSUME NEW k \in Consumer, NEW i \in DOMAIN reqBuf'[k]
          PROVE  \/ i \in DOMAIN reqBuf[k] /\ reqBuf'[k][i] = reqBuf[k][i]
                 \/ reqBuf'[k][i] = s /\ k = owner[c]
      BY ZenonT(60), <2>2
    <3>2. ASSUME NEW k \in Consumer, NEW i \in DOMAIN reqBuf'[k]
          PROVE  reqBuf'[k][i].call \in Call
      BY Zenon, <1>a, <1>2, <3>1, SampleTypes
    <3> SUFFICES ASSUME NEW k \in Consumer, NEW i \in DOMAIN reqBuf'[k],
                        NEW d, d = reqBuf'[k][i].call, NEW kind, kind = reqBuf'[k][i].kind
                 PROVE  Stands(k, kind, d)'
      BY Zenon, SampleKept
    <3>3. CASE i \in DOMAIN reqBuf[k] /\ reqBuf'[k][i] = reqBuf[k][i]
      <4>1. d \in Call /\ Stands(k, kind, d)
        BY Zenon, <1>a, <1>b, <3>3, SampleSays
      <4>2. CASE d # c
        <5>1. stage'[d] = stage[d] /\ terminated' = terminated
          BY Zenon, <1>2, <2>1, <4>1, <4>2
        <5> QED
          BY Zenon, <1>e, <4>1, <5>1 DEF Stands, Unsent
      <4>3. CASE d = c
        <5>1. stage[c] # "dropped" /\ (~Unsent(c) => ~Unsent(c)')
          BY <1>2, <2>1 DEF Unsent
        <5> QED
          BY Zenon, <1>e, <4>1, <4>3, <5>1 DEF Stands
      <4> QED
        BY Zenon, <4>2, <4>3
    <3>4. CASE reqBuf'[k][i] = s /\ k = owner[c]
      BY ZenonT(40), <1>e, <1>2, <2>1, <2>3, <2>4, <3>4 DEF Stands, Unsent
    <3> QED
      BY Zenon, <3>1, <3>3, <3>4
  <2>7. OrderInv'
    <3> SUFFICES ASSUME NEW k \in Consumer, NEW i \in DOMAIN reqBuf'[k], NEW j \in DOMAIN reqBuf'[k],
                        i < j, reqBuf'[k][i].call = reqBuf'[k][j].call
                 PROVE  reqBuf'[k][i].kind = "request" /\ reqBuf'[k][j].kind = "cancel"
      BY ZenonT(40) DEF OrderInv
    <3>1. CASE reqBuf'[k] = reqBuf[k]
      BY <1>b, <3>1 DEF OrderInv
    <3>2. CASE reqBuf'[k] # reqBuf[k]
      <4>1. /\ i \in DOMAIN reqBuf[k] /\ reqBuf'[k][i] = reqBuf[k][i]
            /\ \/ j \in DOMAIN reqBuf[k] /\ reqBuf'[k][j] = reqBuf[k][j]
               \/ reqBuf'[k][j] = s
        BY <2>2, <3>2
      <4> QED
        BY <1>b, <1>2, <2>5, <4>1 DEF OrderInv
    <3> QED
      BY Zenon, <3>1, <3>2
  <2>8. ThreadInv'
    BY Zenon, <1>a, <1>b, <1>d, <1>2, <2>1 DEF ThreadInv, Unsent
  <2>9. CallInv'
    BY ZenonT(40), <1>b, <1>d, <1>2, <2>1 DEF CallInv, Unsent
  <2> QED
    BY Zenon, <1>c, <2>6, <2>7, <2>8, <2>9 DEF ServiceInv
<1> DEFINE Msg(kind, c) == [kind |-> kind, call |-> c]
<1>3. \A c \in Call : \A kind \in {"request", "cancel"} :
        /\ Msg(kind, c) \in RequestSample
        /\ Msg(kind, c).call = c /\ Msg(kind, c).kind = kind
  BY Zenon DEF RequestSample
<1>4. ASSUME NEW c \in Call, NativeCall(c) PROVE ServiceInv'
  BY Zenon, <1>1, <1>4 DEF NativeCall, Stage, busVars
<1>5. ASSUME NEW c \in Call, PublishRequest(c) PROVE ServiceInv'
  BY Zenon, <1>2, <1>3, <1>5 DEF PublishRequest, Stage
<1>6. ASSUME NEW c \in Call, PublishFail(c) PROVE ServiceInv'
  BY Zenon, <1>1, <1>6 DEF PublishFail, Stage, busVars
<1>7. ASSUME NEW c \in Call, SendOneWay(c) PROVE ServiceInv'
  BY Zenon, <1>1, <1>2, <1>3, <1>7 DEF SendOneWay, LoanFails, Stage
<1>8. ASSUME NEW c \in Call, DropStream(c) PROVE ServiceInv'
  BY Zenon, <1>1, <1>8 DEF DropStream, Stage, busVars
<1>9. ASSUME NEW c \in Call, PublishCancel(c) PROVE ServiceInv'
  BY Zenon, <1>1, <1>2, <1>3, <1>9 DEF PublishCancel, LoanFails, Stage
<1>10. ASSUME NEW c \in Call, ReadTerminal(c) PROVE ServiceInv'
  <2>1. /\ stage' = stage /\ reqBuf' = reqBuf /\ stage[c] = "open"
        /\ \A d \in Call \ {c} : terminated'[d] = terminated[d]
    BY Zenon, <1>a, <1>10 DEF ReadTerminal, busVars
  <2>2. SampleInv'
    <3> SUFFICES ASSUME NEW k \in Consumer, NEW i \in DOMAIN reqBuf[k]
                 PROVE  LET d == reqBuf[k][i].call
                        IN  /\ owner[d] = k
                            /\ reqBuf[k][i].kind = "request" => Fresh(d) /\ ~Unsent(d)
                            /\ reqBuf[k][i].kind = "cancel" => stage[d] = "dropped" /\ ~terminated'[d]
      BY ZenonT(40), <1>e, <2>1 DEF SampleInv, Unsent
    <3> DEFINE d == reqBuf[k][i].call
    <3>1. d \in Call
      BY Zenon, <1>a, SampleTypes
    <3>2. /\ owner[d] = k
          /\ reqBuf[k][i].kind = "request" => Fresh(d) /\ ~Unsent(d)
          /\ reqBuf[k][i].kind = "cancel" => stage[d] = "dropped" /\ ~terminated[d]
      BY Zenon, <1>b DEF SampleInv
    <3>3. stage[d] = "dropped" => d # c
      BY <2>1
    <3> QED
      BY Zenon, <2>1, <3>1, <3>2, <3>3
  <2>3. CallInv'
    BY Zenon, <1>b, <1>d, <2>1 DEF CallInv, Unsent
  <2> QED
    BY ZenonT(40), <1>b, <1>c, <1>d, <2>1, <2>2, <2>3 DEF ServiceInv, OrderInv, ThreadInv, Unsent
<1>11. ASSUME UNCHANGED <<stage, terminated, reqBuf>> PROVE ServiceInv'
  <2>1. stage' = stage /\ terminated' = terminated /\ reqBuf' = reqBuf
    BY <1>11
  <2>2. OrderInv'
    BY ZenonT(40), <1>b, <2>1 DEF OrderInv
  <2>4. SampleInv'
    <3>1. \A c : Unsent(c)' <=> Unsent(c)
      BY Zenon, <2>1 DEF Unsent
    <3> QED
      BY Zenon, <1>b, <1>e, <2>1, <3>1 DEF SampleInv
  <2>3. ThreadInv' /\ CallInv'
    BY Zenon, <1>b, <1>d, <2>1 DEF ThreadInv, CallInv, Unsent
  <2> QED
    BY Zenon, <1>c, <2>2, <2>3, <2>4 DEF ServiceInv
<1>12. ASSUME NEW k \in Consumer,
              \/ Dispatch(k) \/ PushEvent(k) \/ PushFollowUp(k) \/ ReleaseHandler(k)
              \/ ConsumerShutdown(k) \/ ConsumerRelease(k) \/ ConsumerCrash(k)
       PROVE  ServiceInv'
  BY Zenon, <1>11, <1>12 DEF Dispatch, PushEvent, PushFollowUp, ReleaseHandler, ConsumerShutdown,
     ConsumerRelease, ConsumerCrash, busVars, consumerVars
<1> QED
  BY Zenon, <1>4, <1>5, <1>6, <1>7, <1>8, <1>9, <1>10, <1>12 DEF ConsumerNext

-----------------------------------------------------------------------------
(* The steps of the provider.                                              *)

(* No step of the provider (a sample taken, a poll, an emission, a stop, a *)
(* crash) breaks the invariant.                                            *)
LEMMA ProviderKeepsService ==
    ASSUME TypeOK, ServiceInv, ProviderNext, UNCHANGED consumerVars
    PROVE  ServiceInv'
<1> USE ConsumerAssumption, BusAssumption
<1>a. /\ BusTypeOK /\ task \in [Call -> TaskState] /\ token \in [Call -> BOOLEAN]
      /\ registry \subseteq Call
      /\ thread.pc \in {"inline", "reject", "undecodable"} => thread.call \in Call
  BY Zenon, ThreadFields DEF TypeOK, ProviderTypeOK
<1>b. SampleInv /\ OrderInv /\ ThreadInv /\ CallInv /\ RegistryIsExact /\ CancelReaches
  BY Zenon DEF ServiceInv
<1>c. stage' = stage /\ terminated' = terminated
  BY Zenon DEF consumerVars
(* The process starts afresh, ends, or its thread stops.                   *)
<1>1. ASSUME \/ reqBuf' = [k \in Consumer |-> <<>>]
             \/ reqBuf' = reqBuf,
             thread'.pc \notin {"reject", "undecodable"},
             cancelSeen' = cancelSeen,
             \/ registry' = registry /\ task' = task /\ token' = token
             \/ registry' = {} /\ task' = [c \in Call |-> IF task[c] = "none" THEN "none" ELSE "done"]
      PROVE  ServiceInv'
  <2>1. \A k \in Consumer : \A i \in DOMAIN reqBuf'[k] :
          i \in DOMAIN reqBuf[k] /\ reqBuf'[k][i] = reqBuf[k][i]
    BY <1>1
  <2>2. \A c \in Call : task[c] = "none" => task'[c] = "none"
    BY ZenonT(40), <1>1
  <2>3. SampleInv'
    <3> SUFFICES ASSUME NEW k \in Consumer, NEW i \in DOMAIN reqBuf'[k],
                        NEW d, d = reqBuf'[k][i].call, NEW kind, kind = reqBuf'[k][i].kind
                 PROVE  Stands(k, kind, d)'
      BY Zenon, SampleKept
    <3>1. d \in Call /\ Stands(k, kind, d)
      BY ZenonT(40), <1>a, <1>b, <2>1, SampleSays
    <3>2. Fresh(d) => Fresh(d)'
      BY ZenonT(40), <1>1, <2>2, <3>1 DEF Fresh
    <3> QED
      BY Zenon, <1>c, <3>1, <3>2 DEF Stands, Unsent
  <2>4. OrderInv'
    BY <1>b, <2>1 DEF OrderInv
  <2>5. CallInv' /\ ThreadInv'
    BY Zenon, <1>b, <1>c, <1>1, <2>2 DEF CallInv, ThreadInv, Unsent
  <2>6. CASE registry' = registry /\ task' = task /\ token' = token
    BY Zenon, <1>b, <1>1, <2>3, <2>4, <2>5, <2>6 DEF ServiceInv, RegistryIsExact, CancelReaches, Live
  <2>7. CASE registry' = {} /\ task' = [c \in Call |-> IF task[c] = "none" THEN "none" ELSE "done"]
    <3>1. \A c \in Call : ~Live(c)'
      BY Zenon, <2>7 DEF Live
    <3>2. cancelSeen' \subseteq Call
      BY Zenon, <1>1 DEF TypeOK, ProviderTypeOK
    <3>3. RegistryIsExact' /\ CancelReaches'
      BY Zenon, <2>7, <3>1, <3>2 DEF RegistryIsExact, CancelReaches
    <3> QED
      BY Zenon, <2>3, <2>4, <2>5, <3>3 DEF ServiceInv
  <2> QED
    BY Zenon, <1>1, <2>6, <2>7
<1>2. CASE ProviderStart
  BY Zenon, <1>1, <1>2 DEF ProviderStart, ThreadIdle
<1>3. CASE ProviderCrash
  BY Zenon, <1>1, <1>3 DEF ProviderCrash, ProcessGone
<1>4. CASE ThreadStops
  BY Zenon, <1>1, <1>4 DEF ThreadStops
<1>5. CASE ProviderExit
  BY Zenon, <1>1, <1>5 DEF ProviderExit, ProcessGone, busVars
(* The channel thread takes a sample.                                      *)
<1>6. ASSUME NEW k \in Consumer, CanReceive(k), Receive(k),
             NEW c \in Call, c = Head(reqBuf[k]).call,
             thread'.pc \in {"reject", "undecodable"} => thread'.call = c,
             \A d \in Call \ {c} : task'[d] = task[d],
             \A d \in Call \ {c} : d \in cancelSeen' => d \in cancelSeen
      PROVE  SampleInv' /\ OrderInv'
  <2>1. /\ \A j \in Consumer \ {k} : reqBuf'[j] = reqBuf[j]
        /\ 1 \in DOMAIN reqBuf[k] /\ c = reqBuf[k][1].call /\ owner[c] = k
        /\ \A i \in DOMAIN reqBuf'[k] :
              /\ i \in Nat /\ i + 1 \in DOMAIN reqBuf[k] /\ 1 < i + 1
              /\ reqBuf'[k][i] = reqBuf[k][i + 1]
    <3>1. /\ \A j \in Consumer \ {k} : reqBuf'[j] = reqBuf[j]
          /\ 1 \in DOMAIN reqBuf[k] /\ c = reqBuf[k][1].call
          /\ \A i \in DOMAIN reqBuf'[k] :
                /\ i \in Nat /\ i + 1 \in DOMAIN reqBuf[k] /\ 1 < i + 1
                /\ reqBuf'[k][i] = reqBuf[k][i + 1]
      BY Zenon, <1>a, <1>6, ReceiveFacts
    <3>2. owner[c] = k
      BY Zenon, <1>b, <3>1 DEF SampleInv
    <3> QED
      BY Zenon, <3>1, <3>2
  <2>2. ASSUME NEW j \in Consumer, NEW i \in DOMAIN reqBuf'[j]
        PROVE  \E m \in DOMAIN reqBuf[j] : /\ reqBuf'[j][i] = reqBuf[j][m]
                                           /\ j = k => 1 < m
                                           /\ m = IF j = k THEN i + 1 ELSE i
    BY Zenon, <2>1
  <2>3. SampleInv'
    <3> SUFFICES ASSUME NEW j \in Consumer, NEW i \in DOMAIN reqBuf'[j],
                        NEW d, d = reqBuf'[j][i].call, NEW kind, kind = reqBuf'[j][i].kind
                 PROVE  Stands(j, kind, d)'
      BY Zenon, SampleKept
    <3>1. PICK m \in DOMAIN reqBuf[j] : reqBuf'[j][i] = reqBuf[j][m] /\ (j = k => 1 < m)
      BY Zenon, <2>2
    <3>2. d \in Call /\ Stands(j, kind, d)
      BY Zenon, <1>a, <1>b, <3>1, SampleSays
    <3>3. kind = "request" => d # c
      <4>1. CASE j = k
        <5>1. reqBuf[k][1].call = reqBuf[k][m].call => reqBuf[k][m].kind = "cancel"
          BY Zenon, <1>b, <2>1, <3>1, <4>1 DEF OrderInv
        <5> QED
          BY Zenon, <2>1, <3>1, <4>1, <5>1
      <4>2. CASE j # k
        BY Zenon, <2>1, <3>2, <4>2 DEF Stands
      <4> QED
        BY Zenon, <4>1, <4>2
    <3>4. d # c /\ Fresh(d) => Fresh(d)'
      BY ZenonT(40), <1>6, <3>2 DEF Fresh
    <3> QED
      BY Zenon, <1>c, <3>2, <3>3, <3>4 DEF Stands, Unsent
  <2>4. OrderInv'
    <3> SUFFICES ASSUME NEW j \in Consumer, NEW i1 \in DOMAIN reqBuf'[j], NEW i2 \in DOMAIN reqBuf'[j],
                        i1 < i2, reqBuf'[j][i1].call = reqBuf'[j][i2].call
                 PROVE  reqBuf'[j][i1].kind = "request" /\ reqBuf'[j][i2].kind = "cancel"
      BY ZenonT(40) DEF OrderInv
    <3>1. CASE j = k
      BY <1>b, <2>1, <3>1 DEF OrderInv
    <3>2. CASE j # k
      BY <1>b, <2>1, <3>2 DEF OrderInv
    <3> QED
      BY Zenon, <3>1, <3>2
  <2> QED
    BY ZenonT(40), <2>3, <2>4
<1>7. ASSUME NEW k \in Consumer, CanReceive(k)
      PROVE  LET s == Head(reqBuf[k])
             IN  /\ s.call \in Call /\ owner[s.call] = k
                 /\ s.kind = "request" => Fresh(s.call) /\ ~Unsent(s.call)
                 /\ s.kind = "cancel" => stage[s.call] = "dropped"
                 /\ thread.pc = "idle"
  <2>1. reqBuf[k] \in Seq(RequestSample) /\ reqBuf[k] # <<>>
    BY Zenon, <1>a, <1>7 DEF BusTypeOK, CanReceive
  <2>2. 1 \in DOMAIN reqBuf[k] /\ Head(reqBuf[k]) = reqBuf[k][1] /\ reqBuf[k][1] \in RequestSample
    BY ZenonT(40), <2>1, TailFacts
  <2> QED
    BY <1>b, <1>7, <2>2 DEF SampleInv, RequestSample, CanReceive, ThreadIdle
<1>8. ASSUME NEW k \in Consumer, HandleCancel(k) PROVE ServiceInv'
  <2> DEFINE c == Head(reqBuf[k]).call
  <2>1. /\ CanReceive(k) /\ Receive(k) /\ thread' = thread /\ task' = task /\ registry' = registry
        /\ cancelSeen' = cancelSeen \cup {c}
        /\ token' = [token EXCEPT ![c] = @ \/ c \in registry]
    BY Zenon, <1>8 DEF HandleCancel
  <2>2. c \in Call /\ stage[c] = "dropped" /\ thread.pc = "idle"
    BY Zenon, <1>7, <1>8, <2>1 DEF HandleCancel
  <2> HIDE DEF c
  <2>3. SampleInv' /\ OrderInv'
    BY Zenon, <1>6, <2>1, <2>2 DEF c
  <2>4. ThreadInv' /\ CallInv'
    BY Zenon, <1>b, <1>c, <2>1, <2>2 DEF ThreadInv, CallInv, Unsent
  <2>5. RegistryIsExact'
    BY Zenon, <1>b, <2>1 DEF RegistryIsExact, Live
  <2>6. CancelReaches'
    <3>1. c \notin OneWay
      BY Zenon, <1>b, <2>2 DEF CallInv
    <3>2. Live(c) => token'[c]
      BY Zenon, <1>a, <1>b, <2>1, <2>2, <3>1 DEF RegistryIsExact
    <3>3. \A d \in Call \ {c} : token'[d] = token[d]
      BY Zenon, <1>a, <2>1
    <3>4. \A d \in cancelSeen : d \in Call
      BY Zenon DEF TypeOK, ProviderTypeOK
    <3> QED
      BY Zenon, <1>b, <2>1, <3>2, <3>3, <3>4 DEF CancelReaches, Live
  <2> QED
    BY Zenon, <2>3, <2>4, <2>5, <2>6 DEF ServiceInv
<1>9. ASSUME NEW k \in Consumer, HandleUnserved(k) PROVE ServiceInv'
  <2> DEFINE c == Head(reqBuf[k]).call
  <2>1. /\ CanReceive(k) /\ Receive(k) /\ task' = task /\ registry' = registry /\ token' = token
        /\ cancelSeen' = cancelSeen /\ Head(reqBuf[k]).kind = "request"
        /\ thread'.pc \in {"reject", "undecodable"} /\ thread'.call = c
        /\ thread'.pc = "undecodable" => c \notin OneWay
    BY <1>9 DEF HandleUnserved
  <2>2. c \in Call /\ Fresh(c) /\ ~Unsent(c)
    BY Zenon, <1>7, <2>1
  <2> HIDE DEF c
  <2>3. SampleInv' /\ OrderInv'
    BY Zenon, <1>6, <2>1, <2>2 DEF c
  <2>4. ThreadInv' /\ CallInv'
    BY Zenon, <1>b, <1>c, <2>1, <2>2 DEF ThreadInv, CallInv, Unsent, Fresh
  <2>5. RegistryIsExact' /\ CancelReaches'
    BY Zenon, <1>b, <2>1 DEF RegistryIsExact, CancelReaches, Live
  <2> QED
    BY ZenonT(40), <2>3, <2>4, <2>5 DEF ServiceInv
<1>10. ASSUME NEW k \in Consumer, HandleRequest(k) PROVE ServiceInv'
  <2> DEFINE c == Head(reqBuf[k]).call
  <2>1. /\ CanReceive(k) /\ Receive(k) /\ RunOrSpawn(c) /\ cancelSeen' = cancelSeen
        /\ Head(reqBuf[k]).kind = "request"
        /\ c \in OneWay => registry' = registry /\ token' = token
        /\ c \notin OneWay => Register(c)
    BY Zenon, <1>10 DEF HandleRequest
  <2>2. c \in Call /\ Fresh(c) /\ ~Unsent(c)
    BY ZenonT(40), <1>7, <2>1
  <2> HIDE DEF c
  <2>3. /\ \A d \in Call \ {c} : task'[d] = task[d]
        /\ task'[c] \in {"polling", "parked"}
        /\ thread'.pc \in {"inline", "idle"}
    BY <1>a, <2>1, <2>2 DEF RunOrSpawn, ThreadIdle
  <2>4. SampleInv' /\ OrderInv'
    BY Zenon, <1>6, <2>1, <2>2, <2>3 DEF c
  <2>5. ThreadInv' /\ CallInv'
    BY Zenon, <1>b, <1>c, <2>1, <2>2, <2>3 DEF ThreadInv, CallInv, Unsent
  <2>6. RegistryIsExact'
    BY Zenon, <1>a, <1>b, <2>1, <2>2, <2>3 DEF RegistryIsExact, Live, Register
  <2>7. CancelReaches'
    <3>1. c \notin cancelSeen /\ \A d \in Call \ {c} : token'[d] = token[d]
      BY Zenon, <1>a, <2>1, <2>2 DEF Fresh, Register
    <3>2. cancelSeen \subseteq Call
      BY Zenon DEF TypeOK, ProviderTypeOK
    <3> QED
      BY Zenon, <1>b, <2>1, <2>3, <3>1, <3>2 DEF CancelReaches, Live
  <2> QED
    BY Zenon, <2>4, <2>5, <2>6, <2>7 DEF ServiceInv
(* A task, or the thread on behalf of a call, makes a step.                *)
<1>11. ASSUME NEW c \in Call, reqBuf' = reqBuf, cancelSeen' = cancelSeen,
              \A d \in Call \ {c} : task'[d] = task[d],
              thread'.pc \in {"reject", "undecodable"} => thread' = thread,
              \/ task[c] # "none" /\ (thread'.pc \in {"reject", "undecodable"} => thread.call # c)
              \/ thread.pc \in {"reject", "undecodable"} /\ thread.call = c
                   /\ thread'.pc \notin {"reject", "undecodable"}
       PROVE  SampleInv' /\ OrderInv' /\ ThreadInv' /\ CallInv'
  <2>1. \A k \in Consumer : \A i \in DOMAIN reqBuf[k] :
          reqBuf[k][i].kind = "request" => reqBuf[k][i].call # c
    <3> SUFFICES ASSUME NEW k \in Consumer, NEW i \in DOMAIN reqBuf[k], reqBuf[k][i].kind = "request",
                        reqBuf[k][i].call = c
                 PROVE  FALSE
      BY Zenon
    <3>1. Stands(k, "request", c)
      BY Zenon, <1>a, <1>b, SampleSays
    <3>2. ~Fresh(c)
      BY Zenon, <1>11 DEF Fresh
    <3> QED
      BY Zenon, <3>1, <3>2 DEF Stands
  <2>2. SampleInv'
    <3>0. reqBuf' = reqBuf
      BY Zenon, <1>11
    <3> SUFFICES ASSUME NEW k \in Consumer, NEW i \in DOMAIN reqBuf[k],
                        NEW d, d = reqBuf[k][i].call, NEW kind, kind = reqBuf[k][i].kind
                 PROVE  Stands(k, kind, d)'
      BY Zenon, <3>0, SampleKept
    <3>1. d \in Call /\ Stands(k, kind, d) /\ (kind = "request" => d # c)
      BY Zenon, <1>a, <1>b, <2>1, SampleSays
    <3>2. d # c /\ Fresh(d) => Fresh(d)'
      BY ZenonT(40), <1>11, <3>1 DEF Fresh
    <3> QED
      BY Zenon, <1>c, <3>1, <3>2 DEF Stands, Unsent
  <2>3. ThreadInv'
    BY Zenon, <1>a, <1>b, <1>c, <1>11 DEF ThreadInv, Unsent
  <2>4. CallInv'
    BY Zenon, <1>b, <1>c, <1>11 DEF CallInv, ThreadInv, Unsent
  <2>5. OrderInv'
    BY ZenonT(40), <1>b, <1>11 DEF OrderInv
  <2> QED
    BY ZenonT(40), <2>2, <2>3, <2>4, <2>5
<1>12. ASSUME NEW c \in Call, task[c] # "none", End(c), reqBuf' = reqBuf, cancelSeen' = cancelSeen,
              token' = token
       PROVE  ServiceInv'
  <2>1. /\ task'[c] = "done" /\ \A d \in Call \ {c} : task'[d] = task[d]
        /\ registry' = registry \ {c}
        /\ thread'.pc \in {"reject", "undecodable"} => thread' = thread /\ thread.call # c
    BY Zenon, <1>a, <1>b, <1>12 DEF End, ThreadIdle, ThreadInv
  <2>2. SampleInv' /\ OrderInv' /\ ThreadInv' /\ CallInv'
    BY Zenon, <1>11, <1>12, <2>1
  <2>3. RegistryIsExact'
    BY Zenon, <1>b, <2>1 DEF RegistryIsExact, Live
  <2>4. CancelReaches'
    <3>1. cancelSeen \subseteq Call
      BY Zenon DEF TypeOK, ProviderTypeOK
    <3> QED
      BY Zenon, <1>b, <1>12, <2>1, <3>1 DEF CancelReaches, Live
  <2> QED
    BY Zenon, <2>2, <2>3, <2>4 DEF ServiceInv
(* A step between two live states of a task, or none at all.               *)
<1>13. ASSUME NEW c \in Call, task[c] \in {"polling", "parked"},
              task' = [task EXCEPT ![c] = "polling"] \/ task' = [task EXCEPT ![c] = "parked"] \/ task' = task,
              registry' = registry, token' = token, reqBuf' = reqBuf, cancelSeen' = cancelSeen,
              thread' = thread \/ thread' = ThreadIdle
       PROVE  ServiceInv'
  <2>1. /\ task'[c] \in {"polling", "parked"} /\ \A d \in Call \ {c} : task'[d] = task[d]
        /\ thread'.pc \in {"reject", "undecodable"} => thread' = thread /\ thread.call # c
    BY <1>a, <1>b, <1>13 DEF ThreadIdle, ThreadInv
  <2>2. SampleInv' /\ OrderInv' /\ ThreadInv' /\ CallInv'
    BY Zenon, <1>11, <1>13, <2>1
  <2>3. \A d \in Call : Live(d)' <=> Live(d)
    BY Zenon, <1>13, <2>1 DEF Live
  <2>4. cancelSeen \subseteq Call
    BY Zenon DEF TypeOK, ProviderTypeOK
  <2> QED
    BY ZenonT(40), <1>b, <1>13, <2>2, <2>3, <2>4 DEF ServiceInv, RegistryIsExact, CancelReaches
<1>14. CASE ProviderShutdown
  <2>1. UNCHANGED <<reqBuf, thread, task, registry, token, cancelSeen>>
    BY ZenonT(40), <1>14 DEF ProviderShutdown, busVars
  <2>2. SampleInv' /\ OrderInv'
    BY <1>b, <1>c, <2>1 DEF SampleInv, OrderInv, Fresh, Unsent
  <2>3. ThreadInv' /\ CallInv'
    BY Zenon, <1>b, <1>c, <2>1 DEF ThreadInv, CallInv, Unsent
  <2> QED
    BY Zenon, <1>b, <2>1, <2>2, <2>3 DEF ServiceInv, RegistryIsExact, CancelReaches, Live
<1>15. CASE Reject
  <2>1. thread.call \in Call /\ reqBuf' = reqBuf /\ cancelSeen' = cancelSeen /\ task' = task
        /\ registry' = registry /\ token' = token
        /\ thread.pc = "reject" /\ thread'.pc = "idle"
    BY Zenon, <1>a, <1>15 DEF Reject, ThreadIdle
  <2>2. SampleInv' /\ OrderInv' /\ ThreadInv' /\ CallInv'
    BY Zenon, <1>11, <2>1
  <2> QED
    BY Zenon, <1>b, <2>1, <2>2 DEF ServiceInv, RegistryIsExact, CancelReaches, Live
<1>16. CASE RejectUndecodable
  <2> DEFINE c == thread.call
  <2>1. /\ c \in Call /\ reqBuf' = reqBuf /\ cancelSeen' = cancelSeen
        /\ thread.pc = "undecodable" /\ thread'.pc = "idle"
        /\ task[c] = "none" /\ c \notin OneWay /\ c \notin cancelSeen
        /\ \/ task' = [task EXCEPT ![c] = "done"] /\ registry' = registry /\ token' = token
           \/ task' = [task EXCEPT ![c] = "empty"] /\ Register(c)
    BY Zenon, <1>a, <1>b, <1>16 DEF RejectUndecodable, ThreadIdle, ThreadInv
  <2> HIDE DEF c
  <2>2. \A d \in Call \ {c} : task'[d] = task[d] /\ token'[d] = token[d]
    BY Zenon, <1>a, <2>1 DEF Register
  <2>3. SampleInv' /\ OrderInv' /\ ThreadInv' /\ CallInv'
    BY Zenon, <1>11, <2>1, <2>2 DEF c
  <2>4. RegistryIsExact'
    BY <1>a, <1>b, <2>1, <2>2 DEF RegistryIsExact, Live, Register
  <2>5. cancelSeen \subseteq Call
    BY Zenon DEF TypeOK, ProviderTypeOK
  <2>6. CancelReaches'
    BY Zenon, <1>b, <2>1, <2>2, <2>5 DEF CancelReaches, Live
  <2> QED
    BY Zenon, <2>3, <2>4, <2>6 DEF ServiceInv
<1>17. ASSUME NEW c \in Call, Poll(c) PROVE ServiceInv'
  BY Zenon, <1>12, <1>13, <1>17 DEF Poll, busVars
<1>18. ASSUME NEW c \in Call, Emit(c) PROVE ServiceInv'
  BY Zenon, <1>13, <1>18 DEF Emit
<1>19. ASSUME NEW c \in Call, EmitFails(c) PROVE ServiceInv'
  BY Zenon, <1>12, <1>13, <1>19 DEF EmitFails
<1>20. ASSUME NEW c \in Call, Finish(c) PROVE ServiceInv'
  BY Zenon, <1>12, <1>20 DEF Finish, busVars
<1>21. ASSUME NEW c \in Call, Yield(c) PROVE ServiceInv'
  BY ZenonT(40), <1>12, <1>13, <1>21 DEF Yield, busVars
<1> QED
  BY ZenonT(40), <1>2, <1>3, <1>4, <1>5, <1>8, <1>9, <1>10, <1>14, <1>15, <1>16, <1>17, <1>18, <1>19, <1>20, <1>21
    DEF ProviderNext

(* The invariant holds before anything was sent.                           *)
LEMMA InitService == Init => ServiceInv
<1> SUFFICES ASSUME Init PROVE ServiceInv
  BY Zenon
<1>1. /\ \A k \in Consumer : DOMAIN reqBuf[k] = {}
      /\ thread.pc = "off" /\ cancelSeen = {} /\ registry = {}
      /\ \A c \in Call : task[c] = "none" /\ stage[c] = "idle" /\ terminated[c] = FALSE
  BY DEF Init, BusInit, ConsumerInit, ProviderInit
<1>2. SampleInv /\ OrderInv
  BY Zenon, <1>1 DEF SampleInv, OrderInv
<1>3. ThreadInv /\ CallInv /\ CancelReaches
  BY Zenon, <1>1 DEF ThreadInv, CallInv, CancelReaches
<1>4. RegistryIsExact
  BY Zenon, <1>1 DEF RegistryIsExact, Live
<1> QED
  BY Zenon, <1>2, <1>3, <1>4 DEF ServiceInv

(* The inductive invariant behind the theorems below.                      *)
LEMMA ServiceInvariant == Spec => []ServiceInv
<1>1. TypeOK /\ ServiceInv /\ [Next]_vars => ServiceInv'
  <2>1. ServiceInv /\ UNCHANGED vars => ServiceInv'
    <3> SUFFICES ASSUME ServiceInv, UNCHANGED vars PROVE ServiceInv'
      BY Zenon
    <3>1. /\ reqBuf' = reqBuf /\ stage' = stage /\ terminated' = terminated /\ thread' = thread
          /\ task' = task /\ token' = token /\ registry' = registry /\ cancelSeen' = cancelSeen
      BY Zenon DEF vars, busVars, consumerVars, providerVars
    <3>2. SampleInv'
      BY <3>1 DEF ServiceInv, SampleInv, Fresh, Unsent
    <3>3. OrderInv' /\ ThreadInv'
      BY ZenonT(40), <3>1 DEF ServiceInv, OrderInv, ThreadInv, Unsent
    <3>4. CallInv' /\ RegistryIsExact' /\ CancelReaches'
      BY ZenonT(40), <3>1 DEF ServiceInv, CallInv, RegistryIsExact, CancelReaches, Live, Unsent
    <3> QED
      BY Zenon, <3>2, <3>3, <3>4 DEF ServiceInv
  <2> QED
    BY ZenonT(40), <2>1, ConsumerKeepsService, ProviderKeepsService DEF Next
<1> QED
  BY <1>1, InitService, TypeCorrect, PTL DEF Spec

(* The registry of in-flight calls holds exactly the calls whose task is   *)
(* alive: no Cancel, rejection, crash or drop of a task leaks an entry or  *)
(* makes it forget a running call.                                         *)
THEOREM RegistryExact == Spec => []RegistryIsExact
<1>1. ServiceInv => RegistryIsExact
  BY Zenon DEF ServiceInv
<1> QED
  BY <1>1, ServiceInvariant, PTL

(* A Cancel the channel thread has handled has fired the token of its      *)
(* call, unless the call is over: the FIFO order of a consumer's samples   *)
(* and the registration before the first poll leave no window.             *)
THEOREM CancelAlwaysReaches == Spec => []CancelReaches
<1>1. ServiceInv => CancelReaches
  BY Zenon DEF ServiceInv
<1> QED
  BY <1>1, ServiceInvariant, PTL

(* A call whose terminal event was read is released in silence.            *)
THEOREM ReadCallsAreNotCancelled == Spec => []NoCancelAfterRead
<1>1. TypeOK /\ ServiceInv => NoCancelAfterRead
  <2> SUFFICES ASSUME TypeOK, ServiceInv, NEW c \in Call, terminated[c]
               PROVE  stage[c] # "cancelling" /\ ~CancelPending(c)
    BY Zenon DEF NoCancelAfterRead
  <2>1. stage[c] # "cancelling"
    BY ZenonT(40) DEF ServiceInv, CallInv
  <2>2. ASSUME NEW i \in DOMAIN reqBuf[owner[c]],
               reqBuf[owner[c]][i] = [kind |-> "cancel", call |-> c]
        PROVE  FALSE
    <3>1. reqBuf[owner[c]][i].kind = "cancel" /\ reqBuf[owner[c]][i].call = c /\ owner[c] \in Consumer
      BY <2>2, ConsumerAssumption
    <3> QED
      BY <3>1 DEF ServiceInv, SampleInv
  <2> QED
    BY Zenon, <2>1, <2>2 DEF CancelPending
<1> QED
  BY <1>1, ServiceInvariant, TypeCorrect, PTL
(* Without an observer on the channel a call whose stream is open has its  *)
(* request in a provider's buffer, or taken from it: the receiver that     *)
(* publish_until_delivered counted can only be the provider's.             *)
THEOREM OpenIsDelivered ==
    ASSUME Observed = FALSE
    PROVE  Spec => []OpenMeansDelivered
<1>1. Init => OpenMeansDelivered
  BY Zenon DEF Init, ConsumerInit, OpenMeansDelivered
<1>2. TypeOK /\ OpenMeansDelivered /\ [Next]_vars => OpenMeansDelivered'
  <2> SUFFICES ASSUME TypeOK, OpenMeansDelivered, [Next]_vars, NEW c \in Call, stage'[c] = "open"
               PROVE  c \in delivered'
    BY Zenon DEF OpenMeansDelivered
  <2>1. stage \in [Call -> Stage]
    BY Zenon DEF TypeOK, ConsumerTypeOK
  <2>2. CASE stage[c] = "open"
    <3>1. c \in delivered
      BY Zenon, <2>2 DEF OpenMeansDelivered
    <3>2. CASE UNCHANGED consumerVars
      BY Zenon, <3>1, <3>2 DEF consumerVars
    <3>3. CASE ConsumerNext
      BY ZenonT(40), <3>1, <3>3 DEF ConsumerNext, NativeCall, PublishRequest, PublishFail, SendOneWay,
         ReadTerminal, DropStream, PublishCancel, Dispatch, PushEvent, PushFollowUp, ReleaseHandler,
         ConsumerShutdown, ConsumerRelease, ConsumerCrash, consumerVars
    <3> QED
      BY Zenon, <3>2, <3>3 DEF Next, vars
  <2>3. CASE stage[c] # "open"
    <3>1. PublishRequest(c)
      <4>1. stage' # stage
        BY Zenon, <2>3
      <4>2. ConsumerNext
        BY Zenon, <4>1 DEF Next, vars, consumerVars
      <4>3. PICK d \in Call : \/ NativeCall(d) \/ PublishRequest(d) \/ PublishFail(d) \/ SendOneWay(d)
                              \/ DropStream(d) \/ PublishCancel(d)
        BY ZenonT(40), <4>1, <4>2 DEF ConsumerNext, ReadTerminal, Dispatch, PushEvent, PushFollowUp,
           ReleaseHandler, ConsumerShutdown, ConsumerRelease, ConsumerCrash, consumerVars
      <4>4. PublishRequest(d)
        BY Zenon, <2>1, <2>3, <4>3 DEF NativeCall, PublishFail, SendOneWay, DropStream, PublishCancel
      <4> QED
        BY Zenon, <2>1, <2>3, <4>4 DEF PublishRequest
    <3>2. ReqRoom(owner[c])
      BY Zenon, <3>1 DEF PublishRequest, DeliveredRequest, ObserverTakes
    <3> QED
      BY Zenon, <3>1, <3>2 DEF PublishRequest
  <2> QED
    BY Zenon, <2>2, <2>3
<1> QED
  BY <1>1, <1>2, TypeCorrect, PTL DEF Spec
=============================================================================
