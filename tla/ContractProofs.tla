---------------------------- MODULE ContractProofs ----------------------------
(***************************************************************************)
(* The events of a call.  For any number of consumers, any buffer sizes    *)
(* and any faults, whatever is lost on the way, what arrives arrives in    *)
(* the order of emission.  And RpcChannel implements CallContract on a     *)
(* channel with one consumer, no observer and handlers that stop when an   *)
(* event of theirs is not published: no event of a stream is missing,      *)
(* whatever fails.                                                         *)
(***************************************************************************)
EXTENDS RpcChannelProofs

(* A leaf that names no prover is tried with these, one after the other.   *)
USE SMT, ZenonT(30), SMTT(30), Z3

(* Every sample of call c in a buffer is later than ordinal n.             *)
Below(n, buf, c) ==
    \A j \in DOMAIN buf : buf[j].call = c => n < buf[j].ev.n

(* A buffer holds the samples of a call in order, none from the future.    *)
BufferInv ==
    \A k \in Consumer : \A i \in DOMAIN respBuf[k] :
        /\ respBuf[k][i].ev.n \in 1..emitted[respBuf[k][i].call]
        /\ \A j \in DOMAIN respBuf[k] :
             i < j /\ respBuf[k][i].call = respBuf[k][j].call =>
                 respBuf[k][i].ev.n < respBuf[k][j].ev.n

(* What the dispatch thread is about to push is later than the stream, and *)
(* earlier than what is still buffered.                                    *)
Fits(d, buf, streams, count) ==
    /\ d.pc = "push" =>
         /\ d.ev.n <= count[d.call]
         /\ Below(d.ev.n, buf, d.call)
         /\ \A i \in DOMAIN streams[d.call] : streams[d.call][i].n < d.ev.n
    /\ d.pc = "follow" =>
         \A i \in DOMAIN streams[d.call] : streams[d.call][i].n < d.n

PushedInv == \A k \in Consumer : Fits(disp[k], respBuf[k], got, emitted)

(* A stream that is not over is earlier than what is still buffered.       *)
StreamedInv ==
    \A c \in Call : ~HasTerminal(c) => \A i \in DOMAIN got[c] :
        /\ got[c][i].n <= emitted[c]
        /\ Below(got[c][i].n, respBuf[owner[c]], c)

EventOrder == BufferInv /\ PushedInv /\ StreamedInv /\ InOrder

-----------------------------------------------------------------------------
(* The facts about types the proofs use.                                   *)
LEMMA OrderTypes ==
    ASSUME TypeOK
    PROVE  /\ got \in [Call -> Seq(Event)] /\ disp \in [Consumer -> DispState]
           /\ respBuf \in [Consumer -> Seq(ResponseSample)] /\ emitted \in [Call -> Nat]
           /\ \A c \in Call : \A i \in DOMAIN got[c] : got[c][i].n \in Nat /\ i \in Nat
           /\ \A k \in Consumer : \A i \in DOMAIN respBuf[k] :
                /\ i \in Nat /\ respBuf[k][i].call \in Call /\ respBuf[k][i].ev.n \in Nat
           /\ \A k \in Consumer : disp[k].pc # "idle" => disp[k].call \in Call
           /\ \A k \in Consumer : disp[k].pc = "push" => disp[k].ev \in WireEvent /\ disp[k].ev.n \in Nat
           /\ \A k \in Consumer : disp[k].pc = "follow" => disp[k].n \in Nat
<1>1. /\ got \in [Call -> Seq(Event)] /\ disp \in [Consumer -> DispState]
      /\ respBuf \in [Consumer -> Seq(ResponseSample)] /\ emitted \in [Call -> Nat]
  BY Zenon DEF TypeOK, BusTypeOK, ConsumerTypeOK, ProviderTypeOK
<1>2. ASSUME NEW c \in Call, NEW i \in DOMAIN got[c] PROVE got[c][i].n \in Nat /\ i \in Nat
  <2>1. got[c] \in Seq(Event)
    BY Zenon, <1>1
  <2>2. got[c][i] \in Event /\ i \in Nat
    BY <2>1
  <2> QED
    BY Zenon, <2>2 DEF Event
<1>3. ASSUME NEW k \in Consumer, NEW i \in DOMAIN respBuf[k]
      PROVE  i \in Nat /\ respBuf[k][i].call \in Call /\ respBuf[k][i].ev.n \in Nat
  <2>1. respBuf[k] \in Seq(ResponseSample)
    BY Zenon, <1>1
  <2>2. respBuf[k][i] \in ResponseSample /\ i \in Nat
    BY <2>1
  <2> QED
    BY Zenon, <2>2 DEF ResponseSample, WireEvent
<1>4. ASSUME NEW k \in Consumer
      PROVE  /\ disp[k].pc # "idle" => disp[k].call \in Call
             /\ disp[k].pc = "push" => disp[k].ev \in WireEvent /\ disp[k].ev.n \in Nat
             /\ disp[k].pc = "follow" => disp[k].n \in Nat
  <2>1. disp[k] \in DispState
    BY Zenon, <1>1
  <2> QED
    BY Zenon, <2>1, DispFields DEF WireEvent
<1> QED
  BY Zenon, <1>1, <1>2, <1>3, <1>4

(* A step that changes none of the four keeps the order.                   *)
LEMMA OrderFrame ==
    ASSUME EventOrder, UNCHANGED <<respBuf, emitted, got, disp>>
    PROVE  EventOrder'
<1>1. respBuf' = respBuf /\ emitted' = emitted /\ got' = got /\ disp' = disp
  BY Zenon
<1>2. BufferInv'
  BY <1>1, Zenon DEF EventOrder, BufferInv
<1>3. PushedInv'
  BY <1>1, Zenon DEF EventOrder, PushedInv
<1>4. StreamedInv'
  BY <1>1, Zenon DEF EventOrder, StreamedInv, HasTerminal, Below
<1>5. InOrder'
  BY <1>1, Zenon DEF EventOrder, InOrder
<1> QED
  BY Zenon, <1>2, <1>3, <1>4, <1>5 DEF EventOrder

(* Buffers that only lose samples from the front keep the order.           *)
LEMMA ShorterBuffers ==
    ASSUME TypeOK, EventOrder, NEW k \in Consumer, emitted' = emitted, got' = got,
           respBuf' \in [Consumer -> Seq(ResponseSample)],
           \A m \in Consumer \ {k} : respBuf'[m] = respBuf[m],
           \/ respBuf'[k] = <<>>
           \/ \A i \in DOMAIN respBuf'[k] : i + 1 \in DOMAIN respBuf[k] /\ respBuf'[k][i] = respBuf[k][i + 1]
    PROVE  /\ BufferInv' /\ StreamedInv' /\ InOrder'
           /\ \A n \in Nat, m \in Consumer, c \in Call : Below(n, respBuf[m], c) => Below(n, respBuf'[m], c)
<1> USE ConsumerAssumption
<1>0. \A i \in DOMAIN respBuf'[k] :
        i \in Nat /\ i + 1 \in DOMAIN respBuf[k] /\ respBuf'[k][i] = respBuf[k][i + 1]
  <2>1. respBuf'[k] \in Seq(ResponseSample)
    BY Zenon
  <2>2. \A i \in DOMAIN respBuf'[k] : i \in Nat
    BY <2>1
  <2>3. respBuf'[k] = <<>> => DOMAIN respBuf'[k] = {}
    OBVIOUS
  <2> QED
    BY Zenon, <2>2, <2>3
<1>1. BufferInv'
  <2> SUFFICES ASSUME NEW m \in Consumer, NEW i \in DOMAIN respBuf'[m]
               PROVE  /\ respBuf'[m][i].ev.n \in 1..emitted[respBuf'[m][i].call]
                      /\ \A j \in DOMAIN respBuf'[m] :
                           i < j /\ respBuf'[m][i].call = respBuf'[m][j].call =>
                             respBuf'[m][i].ev.n < respBuf'[m][j].ev.n
    BY Zenon DEF BufferInv
  <2>1. CASE m # k
    <3>1. respBuf'[m] = respBuf[m]
      BY Zenon, <2>1
    <3> QED
      BY Zenon, <3>1 DEF EventOrder, BufferInv
  <2>2. CASE m = k
    <3>1. /\ i + 1 \in DOMAIN respBuf[k] /\ respBuf'[k][i] = respBuf[k][i + 1]
      BY Zenon, <1>0, <2>2
    <3>2. respBuf[k][i + 1].ev.n \in 1..emitted[respBuf[k][i + 1].call]
      BY Zenon, <3>1 DEF EventOrder, BufferInv
    <3>3. ASSUME NEW j \in DOMAIN respBuf'[k], i < j, respBuf'[k][i].call = respBuf'[k][j].call
          PROVE  respBuf'[k][i].ev.n < respBuf'[k][j].ev.n
      <4>1. j + 1 \in DOMAIN respBuf[k] /\ respBuf'[k][j] = respBuf[k][j + 1] /\ i + 1 < j + 1
        BY <1>0, <2>2, <3>3
      <4> QED
        BY ZenonT(40), <3>1, <3>3, <4>1 DEF EventOrder, BufferInv
    <3> QED
      BY Zenon, <2>2, <3>1, <3>2, <3>3
  <2> QED
    BY Zenon, <2>1, <2>2
<1>2. ASSUME NEW n \in Nat, NEW m \in Consumer, NEW c \in Call, Below(n, respBuf[m], c) PROVE Below(n, respBuf'[m], c)
  <2>1. CASE m # k
    <3>1. respBuf'[m] = respBuf[m]
      BY Zenon, <2>1
    <3> QED
      BY Zenon, <1>2, <3>1 DEF Below
  <2>2. CASE m = k
    BY ZenonT(40), <1>0, <1>2, <2>2 DEF Below
  <2> QED
    BY Zenon, <2>1, <2>2
<1>3. StreamedInv'
  <2> SUFFICES ASSUME NEW c \in Call, ~HasTerminal(c)', NEW i \in DOMAIN got[c]
               PROVE  got[c][i].n <= emitted[c] /\ Below(got[c][i].n, respBuf'[owner[c]], c)
    BY Zenon DEF StreamedInv, Below
  <2>1. ~HasTerminal(c)
    BY Zenon DEF HasTerminal
  <2>2. got[c][i].n \in Nat /\ owner[c] \in Consumer
    BY Zenon, OrderTypes
  <2>3. got[c][i].n <= emitted[c] /\ Below(got[c][i].n, respBuf[owner[c]], c)
    BY Zenon, <2>1 DEF EventOrder, StreamedInv
  <2> QED
    BY Zenon, <1>2, <2>2, <2>3
<1>4. InOrder'
  BY Zenon DEF EventOrder, InOrder
<1> QED
  BY Zenon, <1>1, <1>2, <1>3, <1>4

(* The dispatch thread takes a sample out of its buffer.                   *)
LEMMA DispatchOrder ==
    ASSUME TypeOK, StreamInv, EventOrder, NEW k \in Consumer, Dispatch(k), UNCHANGED emitted
    PROVE  EventOrder'
<1> USE ConsumerAssumption
<1> DEFINE s == respBuf[k][1]
<1>1. /\ respBuf \in [Consumer -> Seq(ResponseSample)] /\ respBuf[k] \in Seq(ResponseSample)
      /\ respBuf[k] # <<>> /\ respBuf' = [respBuf EXCEPT ![k] = Tail(@)]
      /\ got' = got /\ emitted' = emitted /\ disp[k] = DispIdle
  BY Zenon, OrderTypes DEF Dispatch
<1>2. /\ Head(respBuf[k]) = s /\ 1 \in DOMAIN respBuf[k]
      /\ respBuf' \in [Consumer -> Seq(ResponseSample)]
      /\ \A m \in Consumer \ {k} : respBuf'[m] = respBuf[m]
      /\ \A i \in DOMAIN respBuf'[k] :
            i + 1 \in DOMAIN respBuf[k] /\ respBuf'[k][i] = respBuf[k][i + 1]
  BY Zenon, <1>1, TailFacts
<1>3. /\ BufferInv' /\ StreamedInv' /\ InOrder'
      /\ \A n \in Nat, m \in Consumer, c \in Call : Below(n, respBuf[m], c) => Below(n, respBuf'[m], c)
  BY Zenon, <1>1, <1>2, ShorterBuffers
<1>4. s.call \in Call /\ s.ev.n \in Nat
  BY Zenon, <1>2, OrderTypes
<1>5. PushedInv'
  <2>1. ASSUME NEW m \in Consumer, disp'[m] = disp[m]
        PROVE  Fits(disp'[m], respBuf'[m], got, emitted)
    <3>1. Fits(disp[m], respBuf[m], got, emitted)
      BY Zenon DEF EventOrder, PushedInv
    <3>2. ASSUME disp[m].pc = "push" PROVE Below(disp[m].ev.n, respBuf'[m], disp[m].call)
      <4>1. disp[m].ev.n \in Nat /\ disp[m].call \in Call
        BY Zenon, <3>2, OrderTypes
      <4>2. Below(disp[m].ev.n, respBuf[m], disp[m].call)
        BY Zenon, <3>1, <3>2 DEF Fits
      <4> QED
        BY Zenon, <1>3, <4>1, <4>2
    <3> QED
      BY Zenon, <2>1, <3>1, <3>2 DEF Fits
  <2>2. CASE s.call \in handlers /\ owner[s.call] = k
    <3>1. disp' = [disp EXCEPT ![k] = [pc |-> "push", call |-> s.call, ev |-> s.ev]]
      BY Zenon, <1>2, <2>2 DEF Dispatch
    <3>2. /\ disp'[k] = [pc |-> "push", call |-> s.call, ev |-> s.ev]
          /\ \A m \in Consumer \ {k} : disp'[m] = disp[m]
      BY Zenon, <3>1, OrderTypes
    <3>3. ~HasTerminal(s.call)
      <4>1. disp[k] # [pc |-> "release", call |-> s.call]
        BY <1>1 DEF DispIdle
      <4> QED
        BY Zenon, <1>4, <2>2, <4>1 DEF StreamInv, EndedInv
    <3>4. s.ev.n <= emitted[s.call]
      BY <1>2 DEF EventOrder, BufferInv
    <3>5. Below(s.ev.n, respBuf'[k], s.call)
      <4> SUFFICES ASSUME NEW j \in DOMAIN respBuf'[k], respBuf'[k][j].call = s.call
                   PROVE  s.ev.n < respBuf'[k][j].ev.n
        BY Zenon DEF Below
      <4>1. respBuf'[k] \in Seq(ResponseSample)
        BY Zenon, <1>2
      <4>2. j \in Nat \ {0} /\ 1 < j + 1 /\ j + 1 \in DOMAIN respBuf[k] /\ respBuf'[k][j] = respBuf[k][j + 1]
        BY <1>2, <4>1
      <4> QED
        BY <1>2, <4>2 DEF EventOrder, BufferInv
    <3>6. \A i \in DOMAIN got[s.call] : got[s.call][i].n < s.ev.n
      BY ZenonT(40), <1>2, <1>4, <2>2, <3>3 DEF EventOrder, StreamedInv, Below
    <3> HIDE DEF s
    <3>7. Fits(disp'[k], respBuf'[k], got, emitted)
      BY <3>2, <3>4, <3>5, <3>6 DEF Fits
    <3>8. \A m \in Consumer : Fits(disp'[m], respBuf'[m], got, emitted)
      BY Zenon, <2>1, <3>2, <3>7
    <3> QED
      BY ZenonT(40), <1>1, <3>8 DEF PushedInv
  <2>3. CASE ~(s.call \in handlers /\ owner[s.call] = k)
    <3>1. disp' = disp
      BY Zenon, <1>2, <2>3 DEF Dispatch
    <3>2. \A m \in Consumer : Fits(disp'[m], respBuf'[m], got, emitted)
      BY Zenon, <2>1, <3>1
    <3> QED
      BY Zenon, <1>1, <3>2 DEF PushedInv
  <2> QED
    BY Zenon, <2>2, <2>3
<1> QED
  BY Zenon, <1>3, <1>5 DEF EventOrder

(* An event is pushed onto the stream of call c by the dispatch thread of  *)
(* its owner, which then has nothing, or the follow-up, left to push.      *)
LEMMA PushOrder ==
    ASSUME TypeOK, StreamInv, EventOrder, NEW k \in Consumer, NEW c \in Call, NEW e \in Event,
           owner[c] = k, disp[k].pc # "idle", disp[k].call = c, ~HasTerminal(c),
           got' = [got EXCEPT ![c] = Append(@, e)], UNCHANGED <<respBuf, emitted>>,
           \A i \in DOMAIN got[c] : got[c][i].n < e.n,
           IsTerminal(e) \/ (e.n <= emitted[c] /\ Below(e.n, respBuf[k], c)),
           disp' \in [Consumer -> DispState],
           \A m \in Consumer \ {k} : disp'[m] = disp[m],
           disp'[k].pc # "push",
           disp'[k].pc = "follow" => disp'[k].call = c /\ disp'[k].n = e.n + 1
    PROVE  EventOrder'
<1> USE ConsumerAssumption
<1>1. got[c] \in Seq(Event) /\ e.n \in Nat /\ Len(got[c]) \in Nat /\ DOMAIN got[c] = 1..Len(got[c])
  BY OrderTypes DEF Event
<1>2. /\ got'[c] = Append(got[c], e)
      /\ \A d \in Call \ {c} : got'[d] = got[d]
  BY ZenonT(40), OrderTypes
<1>3. /\ DOMAIN got'[c] = DOMAIN got[c] \cup {Len(got[c]) + 1}
      /\ \A i \in DOMAIN got[c] : got'[c][i] = got[c][i]
      /\ got'[c][Len(got[c]) + 1] = e
  BY <1>1, <1>2, AppendFacts
<1>4. \A i \in DOMAIN got'[c] : got'[c][i].n <= e.n
  <2> SUFFICES ASSUME NEW i \in DOMAIN got'[c] PROVE got'[c][i].n <= e.n
    BY Zenon
  <2>1. CASE i \in DOMAIN got[c]
    <3>1. got[c][i].n \in Nat /\ got[c][i].n < e.n
      BY Zenon, <2>1, OrderTypes
    <3> QED
      BY <1>1, <1>3, <2>1, <3>1
  <2>2. CASE i = Len(got[c]) + 1
    BY <1>1, <1>3, <2>2
  <2> QED
    BY Zenon, <1>3, <2>1, <2>2
<1>5. BufferInv'
  BY ZenonT(40) DEF EventOrder, BufferInv
<1>6. PushedInv'
  <2> SUFFICES ASSUME NEW m \in Consumer PROVE Fits(disp'[m], respBuf[m], got', emitted)
    BY Zenon DEF PushedInv
  <2>1. CASE m = k
    <3>1. \A i \in DOMAIN got'[c] : got'[c][i].n < e.n + 1
      <4>1. \A i \in DOMAIN got'[c] : got'[c][i].n \in Nat
        BY ZenonT(40), <1>1, <1>3, OrderTypes
      <4> QED
        BY <1>1, <1>4, <4>1
    <3> QED
      BY Zenon, <2>1, <3>1 DEF Fits
  <2>2. CASE m # k
    <3>1. disp'[m] = disp[m] /\ Fits(disp[m], respBuf[m], got, emitted)
      BY Zenon, <2>2 DEF EventOrder, PushedInv
    <3>2. ASSUME disp[m].pc # "idle" PROVE got'[disp[m].call] = got[disp[m].call]
      <4>1. owner[disp[m].call] = m /\ disp[m].call \in Call
        BY Zenon, <3>2, OrderTypes DEF StreamInv, DispatchInv
      <4> QED
        BY Zenon, <1>2, <2>2, <4>1
    <3> QED
      BY Zenon, <3>1, <3>2 DEF Fits
  <2> QED
    BY Zenon, <2>1, <2>2
<1>7. StreamedInv'
  <2> SUFFICES ASSUME NEW d \in Call, ~HasTerminal(d)', NEW i \in DOMAIN got'[d]
               PROVE  got'[d][i].n <= emitted[d] /\ Below(got'[d][i].n, respBuf[owner[d]], d)
    BY ZenonT(40) DEF StreamedInv, Below
  <2>1. CASE d # c
    <3>1. got'[d] = got[d]
      BY Zenon, <1>2, <2>1
    <3>2. ~HasTerminal(d)
      BY Zenon, <3>1 DEF HasTerminal
    <3> QED
      BY Zenon, <3>1, <3>2 DEF EventOrder, StreamedInv
  <2>2. CASE d = c
    <3>1. ~IsTerminal(e)
      BY <1>3, <2>2 DEF HasTerminal, IsTerminal
    <3>2. CASE i = Len(got[c]) + 1
      BY Zenon, <1>3, <2>2, <3>1, <3>2
    <3>3. CASE i \in DOMAIN got[c]
      <4>1. got[c][i].n <= emitted[c] /\ Below(got[c][i].n, respBuf[owner[c]], c)
        BY Zenon, <3>3 DEF EventOrder, StreamedInv
      <4> QED
        BY Zenon, <1>3, <2>2, <3>3, <4>1
    <3> QED
      BY ZenonT(40), <1>3, <2>2, <3>2, <3>3
  <2> QED
    BY Zenon, <2>1, <2>2
<1>8. InOrder'
  <2> SUFFICES ASSUME NEW d \in Call, NEW i \in DOMAIN got'[d], NEW j \in DOMAIN got'[d], i < j
               PROVE  got'[d][i].n < got'[d][j].n
    BY Zenon DEF InOrder
  <2>1. CASE d # c
    BY ZenonT(40), <1>2, <2>1 DEF EventOrder, InOrder
  <2>2. CASE d = c
    <3>1. i \in DOMAIN got[c]
      BY <1>1, <1>3, <2>2
    <3>2. CASE j \in DOMAIN got[c]
      BY <1>3, <2>2, <3>1, <3>2 DEF EventOrder, InOrder
    <3>3. CASE j = Len(got[c]) + 1
      BY Zenon, <1>3, <2>2, <3>1, <3>3
    <3> QED
      BY Zenon, <1>3, <2>2, <3>2, <3>3
  <2> QED
    BY Zenon, <2>1, <2>2
<1> QED
  BY Zenon, <1>5, <1>6, <1>7, <1>8 DEF EventOrder

(* The provider publishes the next event of call c, or fails to.           *)
LEMMA PublishOrder ==
    ASSUME TypeOK, EventOrder, NEW c \in Call, NEW kind \in WireKind,
           PublishOk(c, kind) \/ PublishErr(c), UNCHANGED <<got, disp>>
    PROVE  EventOrder'
<1> USE ConsumerAssumption
<1> DEFINE s == [call |-> c, ev |-> [kind |-> kind, n |-> emitted[c] + 1]]
<1>1. /\ emitted \in [Call -> Nat] /\ emitted' = [emitted EXCEPT ![c] = @ + 1]
      /\ \A d \in Call : emitted'[d] \in Nat /\ emitted[d] <= emitted'[d]
      /\ emitted'[c] = emitted[c] + 1 /\ got' = got /\ disp' = disp
  <2>1. emitted' = [emitted EXCEPT ![c] = @ + 1]
    BY Zenon DEF PublishOk, PublishErr
  <2>2. emitted \in [Call -> Nat]
    BY Zenon, OrderTypes
  <2> QED
    BY <2>1, <2>2
<1>2. s \in ResponseSample /\ s.call = c /\ s.ev.n = emitted[c] + 1
  BY Zenon, <1>1 DEF ResponseSample, WireEvent
<1>3. ASSUME NEW m \in Consumer PROVE respBuf'[m] \in {respBuf[m], Append(respBuf[m], s)}
  <2>1. CASE PublishOk(c, kind)
    BY Zenon, <2>1 DEF PublishOk, SendResponse
  <2>2. CASE PublishErr(c)
    BY Zenon, <2>2 DEF PublishErr
  <2> QED
    BY Zenon, <2>1, <2>2
<1> HIDE DEF s
<1>4. ASSUME NEW m \in Consumer
      PROVE  /\ \A i \in DOMAIN respBuf[m] : i \in DOMAIN respBuf'[m] /\ respBuf'[m][i] = respBuf[m][i]
             /\ \A i \in DOMAIN respBuf'[m] :
                  i \in DOMAIN respBuf[m] \/ (i = Len(respBuf[m]) + 1 /\ respBuf'[m][i] = s)
  <2>1. respBuf[m] \in Seq(ResponseSample)
    BY Zenon, OrderTypes
  <2>2. CASE respBuf'[m] = respBuf[m]
    BY Zenon, <2>2
  <2>3. CASE respBuf'[m] = Append(respBuf[m], s)
    BY <1>2, <2>1, <2>3, AppendFacts
  <2> QED
    BY Zenon, <1>3, <2>2, <2>3
<1>5. ASSUME NEW m \in Consumer, NEW n \in Nat, NEW d \in Call, n <= emitted[d], Below(n, respBuf[m], d)
      PROVE  Below(n, respBuf'[m], d)
  <2> SUFFICES ASSUME NEW j \in DOMAIN respBuf'[m], respBuf'[m][j].call = d
               PROVE  n < respBuf'[m][j].ev.n
    BY Zenon DEF Below
  <2>1. CASE j \in DOMAIN respBuf[m]
    BY Zenon, <1>4, <1>5, <2>1 DEF Below
  <2>2. CASE respBuf'[m][j] = s
    BY <1>1, <1>2, <1>5, <2>2
  <2> QED
    BY Zenon, <1>4, <2>1, <2>2
<1>6. BufferInv'
  <2> SUFFICES ASSUME NEW m \in Consumer, NEW i \in DOMAIN respBuf'[m]
               PROVE  /\ respBuf'[m][i].ev.n \in 1..emitted'[respBuf'[m][i].call]
                      /\ \A j \in DOMAIN respBuf'[m] :
                           i < j /\ respBuf'[m][i].call = respBuf'[m][j].call =>
                             respBuf'[m][i].ev.n < respBuf'[m][j].ev.n
    BY Zenon DEF BufferInv
  <2>1. Len(respBuf[m]) \in Nat /\ DOMAIN respBuf[m] = 1..Len(respBuf[m])
    <3>1. respBuf[m] \in Seq(ResponseSample)
      BY Zenon, OrderTypes
    <3> QED
      BY <3>1
  <2>2. CASE i \in DOMAIN respBuf[m]
    <3>1. /\ respBuf'[m][i] = respBuf[m][i] /\ respBuf[m][i].call \in Call /\ respBuf[m][i].ev.n \in Nat
          /\ respBuf[m][i].ev.n \in 1..emitted[respBuf[m][i].call]
      BY ZenonT(40), <1>4, <2>2, OrderTypes DEF EventOrder, BufferInv
    <3>2. respBuf[m][i].ev.n \in 1..emitted'[respBuf[m][i].call]
      BY <1>1, <3>1
    <3>3. ASSUME NEW j \in DOMAIN respBuf'[m], i < j, respBuf'[m][i].call = respBuf'[m][j].call
          PROVE  respBuf'[m][i].ev.n < respBuf'[m][j].ev.n
      <4>1. CASE j \in DOMAIN respBuf[m]
        BY ZenonT(40), <1>4, <2>2, <3>3, <4>1 DEF EventOrder, BufferInv
      <4>2. CASE respBuf'[m][j] = s
        BY <1>1, <1>2, <3>1, <3>3, <4>2
      <4> QED
        BY Zenon, <1>4, <4>1, <4>2
    <3> QED
      BY Zenon, <3>1, <3>2, <3>3
  <2>3. CASE i = Len(respBuf[m]) + 1 /\ respBuf'[m][i] = s
    <3>1. \A j \in DOMAIN respBuf'[m] : ~(i < j)
      BY <1>4, <2>1, <2>3
    <3> QED
      BY <1>1, <1>2, <2>3, <3>1
  <2> QED
    BY Zenon, <1>4, <2>2, <2>3
<1>7. PushedInv'
  <2> SUFFICES ASSUME NEW m \in Consumer PROVE Fits(disp[m], respBuf'[m], got, emitted')
    BY Zenon, <1>1 DEF PushedInv
  <2>1. Fits(disp[m], respBuf[m], got, emitted)
    BY ZenonT(40) DEF EventOrder, PushedInv
  <2>2. ASSUME disp[m].pc = "push"
        PROVE  Below(disp[m].ev.n, respBuf'[m], disp[m].call) /\ disp[m].ev.n <= emitted'[disp[m].call]
    <3>1. disp[m].ev.n \in Nat /\ disp[m].call \in Call
      BY Zenon, <2>2, OrderTypes
    <3>2. disp[m].ev.n <= emitted[disp[m].call] /\ Below(disp[m].ev.n, respBuf[m], disp[m].call)
      BY Zenon, <2>1, <2>2 DEF Fits
    <3>3. Below(disp[m].ev.n, respBuf'[m], disp[m].call)
      BY ZenonT(40), <1>5, <3>1, <3>2
    <3> QED
      BY <1>1, <3>1, <3>2, <3>3
  <2> QED
    BY Zenon, <2>1, <2>2 DEF Fits
<1>8. StreamedInv'
  <2> SUFFICES ASSUME NEW d \in Call, ~HasTerminal(d)', NEW i \in DOMAIN got[d]
               PROVE  got[d][i].n <= emitted'[d] /\ Below(got[d][i].n, respBuf'[owner[d]], d)
    BY Zenon, <1>1 DEF StreamedInv
  <2>1. ~HasTerminal(d)
    BY Zenon, <1>1 DEF HasTerminal
  <2>2. got[d][i].n <= emitted[d] /\ Below(got[d][i].n, respBuf[owner[d]], d)
    BY Zenon, <2>1 DEF EventOrder, StreamedInv
  <2>3. got[d][i].n \in Nat /\ owner[d] \in Consumer
    BY Zenon, OrderTypes
  <2>4. Below(got[d][i].n, respBuf'[owner[d]], d)
    BY Zenon, <1>5, <2>2, <2>3
  <2> QED
    BY <1>1, <2>2, <2>3, <2>4
<1>9. InOrder'
  BY Zenon, <1>1 DEF EventOrder, InOrder
<1> QED
  BY Zenon, <1>6, <1>7, <1>8, <1>9 DEF EventOrder

-----------------------------------------------------------------------------
(* The steps of the consumers keep the order.                              *)
LEMMA ConsumerKeepsOrder ==
    ASSUME TypeOK, TypeOK', StreamInv, EventOrder, ConsumerNext, UNCHANGED emitted
    PROVE  EventOrder'
<1> USE ConsumerAssumption
<1>0. disp \in [Consumer -> DispState] /\ disp' \in [Consumer -> DispState]
  BY Zenon DEF TypeOK, ConsumerTypeOK
<1>1. ASSUME NEW c \in Call,
             NativeCall(c) \/ PublishRequest(c) \/ PublishFail(c) \/ SendOneWay(c)
               \/ ReadTerminal(c) \/ DropStream(c) \/ PublishCancel(c)
      PROVE  EventOrder'
  BY Zenon, <1>1, OrderFrame DEF NativeCall, PublishRequest, PublishFail, SendOneWay, ReadTerminal,
       DropStream, PublishCancel, busVars
<1>2. ASSUME NEW k \in Consumer, Dispatch(k) PROVE EventOrder'
  BY Zenon, <1>2, DispatchOrder
<1>3. ASSUME NEW k \in Consumer, PushEvent(k) PROVE EventOrder'
  <2> DEFINE c == disp[k].call
             w == disp[k].ev
  <2>1. /\ disp[k].pc = "push" /\ c \in Call /\ w \in WireEvent /\ w.n \in Nat
        /\ UNCHANGED <<respBuf, emitted>>
    BY Zenon, <1>3, OrderTypes DEF PushEvent, busVars
  <2>2. owner[c] = k /\ ~HasTerminal(c)
    BY Zenon, <2>1 DEF StreamInv, DispatchInv, PushInv
  <2>3. /\ w.n <= emitted[c] /\ Below(w.n, respBuf[k], c)
        /\ \A i \in DOMAIN got[c] : got[c][i].n < w.n
    BY Zenon, <2>1 DEF EventOrder, PushedInv, Fits
  <2>4. CASE ReceiverGone(c)
    <3>1. /\ disp' = [disp EXCEPT ![k] = [pc |-> "release", call |-> c]] /\ got' = got
      BY Zenon, <1>3, <2>4 DEF PushEvent
    <3>2. disp'[k].pc = "release" /\ \A m \in Consumer \ {k} : disp'[m] = disp[m]
      BY Zenon, <1>0, <3>1
    <3>3. PushedInv'
      <4>1. \A m \in Consumer : Fits(disp'[m], respBuf[m], got, emitted)
        BY Zenon, <3>2 DEF EventOrder, PushedInv, Fits
      <4> QED
        BY Zenon, <2>1, <3>1, <4>1 DEF PushedInv
    <3>4. BufferInv' /\ InOrder'
      BY ZenonT(40), <2>1, <3>1 DEF EventOrder, BufferInv, InOrder
    <3>5. StreamedInv'
      BY Zenon, <2>1, <3>1 DEF EventOrder, StreamedInv, HasTerminal
    <3> QED
      BY Zenon, <3>3, <3>4, <3>5 DEF EventOrder
  <2>5. CASE ~ReceiverGone(c)
    <3> DEFINE e == FirstEvent(w)
    <3>1. e \in Event /\ e.n = w.n
      BY Zenon, <2>1 DEF FirstEvent, Event, WireEvent, WireKind
    <3>2. /\ got' = [got EXCEPT ![c] = Append(@, e)]
          /\ disp' = [disp EXCEPT ![k] =
                       CASE w.kind = "completewith" ->
                              [pc |-> "follow", call |-> c, n |-> w.n + 1]
                         [] w.kind # "completewith" /\ IsTerminalWire(w) ->
                              [pc |-> "release", call |-> c]
                         [] OTHER -> DispIdle]
      BY Zenon, <1>3, <2>5 DEF PushEvent
    <3>3. /\ \A m \in Consumer \ {k} : disp'[m] = disp[m]
          /\ disp'[k].pc # "push"
          /\ disp'[k].pc = "follow" => disp'[k].call = c /\ disp'[k].n = w.n + 1
      BY Zenon, <1>0, <3>2 DEF DispIdle
    <3> HIDE DEF e, w
    <3>4. \A i \in DOMAIN got[c] : got[c][i].n < e.n
      BY Zenon, <2>3, <3>1
    <3>5. e.n <= emitted[c] /\ Below(e.n, respBuf[k], c)
      BY Zenon, <2>3, <3>1
    <3>6. disp'[k].pc = "follow" => disp'[k].call = c /\ disp'[k].n = e.n + 1
      BY Zenon, <3>1, <3>3
    <3> HIDE DEF c
    <3>7. disp[k].call = c
      BY Zenon DEF c
    <3> QED
      BY ZenonT(40), <1>0, <2>1, <2>2, <3>1, <3>2, <3>3, <3>4, <3>5, <3>6, <3>7, PushOrder
  <2> QED
    BY Zenon, <2>4, <2>5
<1>4. ASSUME NEW k \in Consumer, PushFollowUp(k) PROVE EventOrder'
  <2> DEFINE c == disp[k].call
             e == [kind |-> "complete", n |-> disp[k].n]
  <2>1. /\ disp[k].pc = "follow" /\ c \in Call /\ disp[k].n \in Nat
        /\ UNCHANGED <<respBuf, emitted>>
        /\ disp' = [disp EXCEPT ![k] = [pc |-> "release", call |-> c]]
    BY Zenon, <1>4, OrderTypes DEF PushFollowUp, busVars
  <2>2. owner[c] = k /\ ~HasTerminal(c)
    BY Zenon, <2>1 DEF StreamInv, DispatchInv, PushInv
  <2>3. \A i \in DOMAIN got[c] : got[c][i].n < e.n
    BY Zenon, <2>1 DEF EventOrder, PushedInv, Fits
  <2>4. disp'[k].pc = "release" /\ \A m \in Consumer \ {k} : disp'[m] = disp[m]
    BY Zenon, <1>0, <2>1
  <2>5. CASE ReceiverGone(c)
    <3>1. got' = got
      BY Zenon, <1>4, <2>5 DEF PushFollowUp
    <3>3. PushedInv'
      <4>1. \A m \in Consumer : Fits(disp'[m], respBuf[m], got, emitted)
        BY Zenon, <2>4 DEF EventOrder, PushedInv, Fits
      <4> QED
        BY Zenon, <2>1, <3>1, <4>1 DEF PushedInv
    <3>4. BufferInv' /\ InOrder'
      BY ZenonT(40), <2>1, <3>1 DEF EventOrder, BufferInv, InOrder
    <3>5. StreamedInv'
      BY Zenon, <2>1, <3>1 DEF EventOrder, StreamedInv, HasTerminal
    <3> QED
      BY Zenon, <3>3, <3>4, <3>5 DEF EventOrder
  <2>6. CASE ~ReceiverGone(c)
    <3>1. e \in Event /\ IsTerminal(e)
      BY Zenon, <2>1 DEF Event, IsTerminal
    <3>2. got' = [got EXCEPT ![c] = Append(@, e)]
      BY Zenon, <1>4, <2>6 DEF PushFollowUp
    <3> HIDE DEF e, c
    <3>3. disp[k].call = c
      BY Zenon DEF c
    <3> QED
      BY ZenonT(40), <1>0, <2>1, <2>2, <2>3, <2>4, <3>1, <3>2, <3>3, PushOrder
  <2> QED
    BY Zenon, <2>5, <2>6
<1>5. ASSUME NEW k \in Consumer, ReleaseHandler(k) PROVE EventOrder'
  <2>1. /\ got' = got /\ respBuf' = respBuf /\ emitted' = emitted
        /\ disp' = [disp EXCEPT ![k] = DispIdle]
    BY Zenon, <1>5 DEF ReleaseHandler, busVars
  <2>2. disp'[k] = DispIdle /\ \A m \in Consumer \ {k} : disp'[m] = disp[m]
    BY Zenon, <1>0, <2>1
  <2>3. PushedInv'
    <3>1. \A m \in Consumer : Fits(disp'[m], respBuf[m], got, emitted)
      <4>1. Fits(disp'[k], respBuf[k], got, emitted)
        BY <2>2 DEF Fits, DispIdle
      <4> QED
        BY Zenon, <2>2, <4>1 DEF EventOrder, PushedInv
    <3> QED
      BY Zenon, <2>1, <3>1 DEF PushedInv
  <2>4. BufferInv' /\ InOrder'
    BY Zenon, <2>1 DEF EventOrder, BufferInv, InOrder
  <2>5. StreamedInv'
    BY Zenon, <2>1 DEF EventOrder, StreamedInv, HasTerminal
  <2> QED
    BY Zenon, <2>3, <2>4, <2>5 DEF EventOrder
<1>6. ASSUME NEW k \in Consumer, ConsumerRelease(k) PROVE EventOrder'
  <2>1. /\ got' = got /\ disp' = disp /\ emitted' = emitted
        /\ respBuf' = [respBuf EXCEPT ![k] = <<>>]
    BY Zenon, <1>6 DEF ConsumerRelease, consumerVars
  <2>2. /\ respBuf' \in [Consumer -> Seq(ResponseSample)] /\ respBuf'[k] = <<>>
        /\ \A m \in Consumer \ {k} : respBuf'[m] = respBuf[m]
    BY Zenon, <2>1, OrderTypes DEF TypeOK, BusTypeOK
  <2>3. /\ BufferInv' /\ StreamedInv' /\ InOrder'
        /\ \A n \in Nat, m \in Consumer, c \in Call : Below(n, respBuf[m], c) => Below(n, respBuf'[m], c)
    BY Zenon, <2>1, <2>2, ShorterBuffers
  <2>4. PushedInv'
    <3> SUFFICES ASSUME NEW m \in Consumer PROVE Fits(disp[m], respBuf'[m], got, emitted)
      BY Zenon, <2>1 DEF PushedInv
    <3>1. Fits(disp[m], respBuf[m], got, emitted)
      BY Zenon DEF EventOrder, PushedInv
    <3>2. ASSUME disp[m].pc = "push" PROVE Below(disp[m].ev.n, respBuf'[m], disp[m].call)
      <4>1. disp[m].ev.n \in Nat /\ disp[m].call \in Call
        BY Zenon, <3>2, OrderTypes
      <4>2. Below(disp[m].ev.n, respBuf[m], disp[m].call)
        BY Zenon, <3>1, <3>2 DEF Fits
      <4> QED
        BY Zenon, <2>3, <4>1, <4>2
    <3> QED
      BY Zenon, <3>1, <3>2 DEF Fits
  <2> QED
    BY Zenon, <2>3, <2>4 DEF EventOrder
<1>7. ASSUME NEW k \in Consumer, ConsumerShutdown(k) \/ ConsumerCrash(k) PROVE EventOrder'
  BY Zenon, <1>7, OrderFrame DEF ConsumerShutdown, ConsumerCrash, busVars, consumerVars
<1> QED
  BY Zenon, <1>1, <1>2, <1>3, <1>4, <1>5, <1>6, <1>7 DEF ConsumerNext

(* The steps of the provider keep the order.                               *)
LEMMA ProviderKeepsOrder ==
    ASSUME TypeOK, EventOrder, ProviderNext, UNCHANGED <<got, disp>>
    PROVE  EventOrder'
<1>1. ASSUME ProviderStart \/ ProviderCrash \/ ProviderShutdown \/ ThreadStops \/ ProviderExit
      PROVE  EventOrder'
  BY Zenon, <1>1, OrderFrame DEF ProviderStart, ProviderCrash, ProviderShutdown, ThreadStops, ProviderExit, busVars
<1>2. ASSUME NEW k \in Consumer, HandleCancel(k) \/ HandleUnserved(k) \/ HandleRequest(k)
      PROVE  EventOrder'
  BY Zenon, <1>2, OrderFrame DEF HandleCancel, HandleUnserved, HandleRequest
<1>3. ASSUME Reject \/ RejectUndecodable PROVE EventOrder'
  <2>1. thread.call \in Call
    BY Zenon, <1>3, ThreadFields DEF Reject, RejectUndecodable, TypeOK, ProviderTypeOK
  <2>2. PublishOk(thread.call, "rpcerror") \/ PublishErr(thread.call)
    BY Zenon, <1>3 DEF Reject, RejectUndecodable
  <2>3. "rpcerror" \in WireKind
    BY Zenon DEF WireKind
  <2> QED
    BY Zenon, <2>1, <2>2, <2>3, PublishOrder
<1>4. ASSUME NEW c \in Call, Poll(c) \/ Finish(c) \/ Yield(c) PROVE EventOrder'
  BY Zenon, <1>4, OrderFrame DEF Poll, Finish, Yield, busVars
<1>5. ASSUME NEW c \in Call, Emit(c) \/ EmitFails(c) PROVE EventOrder'
  <2>1. PICK kind \in WireKind : PublishOk(c, kind) \/ PublishErr(c)
    BY Zenon, <1>5, ProviderAssumption DEF Emit, EmitFails, WireKind
  <2> QED
    BY Zenon, <2>1, PublishOrder
<1> QED
  BY Zenon, <1>1, <1>2, <1>3, <1>4, <1>5 DEF ProviderNext

(* Nothing is buffered at the start.                                       *)
LEMMA InitOrdered == Init => EventOrder
BY DEF Init, BusInit, ConsumerInit, ProviderInit, EventOrder, BufferInv, PushedInv, Fits, StreamedInv,
       InOrder, DispIdle

(* The invariant holds throughout.                                         *)
LEMMA OrderInvariant == Spec => []EventOrder
<1>1. TypeOK /\ TypeOK' /\ StreamInv /\ EventOrder /\ [Next]_vars => EventOrder'
  <2> SUFFICES ASSUME TypeOK, TypeOK', StreamInv, EventOrder, [Next]_vars PROVE EventOrder'
    BY Zenon
  <2>1. CASE ConsumerNext /\ UNCHANGED providerVars
    BY Zenon, <2>1, ConsumerKeepsOrder DEF providerVars
  <2>2. CASE ProviderNext /\ UNCHANGED consumerVars
    BY Zenon, <2>2, ProviderKeepsOrder DEF consumerVars
  <2>3. CASE UNCHANGED vars
    BY Zenon, <2>3, OrderFrame DEF vars, busVars, consumerVars, providerVars
  <2> QED
    BY Zenon, <2>1, <2>2, <2>3 DEF Next
<1> QED
  BY <1>1, InitOrdered, TypeCorrect, StreamsInvariant, PTL DEF Spec

(* The events of a stream arrive in the order of emission: whatever a full *)
(* buffer, a failed loan, a killed process or a restarted provider loses,  *)
(* and however many consumers share the channel, each event pushed by the  *)
(* dispatch thread has a larger ordinal than the ones before it.           *)
THEOREM StreamsInOrder == Spec => []InOrder
<1>1. EventOrder => InOrder
  BY Zenon DEF EventOrder
<1> QED
  BY <1>1, OrderInvariant, PTL

-----------------------------------------------------------------------------
(* The streams of a channel with one consumer, no observer and handlers    *)
(* that stop when an event of theirs is not published: what each step on a *)
(* response buffer does to the events of a stream that are still to come.  *)

(* One consumer, nobody else whose buffer could take a response, and no    *)
(* JSON host that goes on behind an event it could not publish.            *)
Alone ==
    /\ \A k, m \in Consumer : k = m
    /\ Observed = FALSE
    /\ JsonHost = {}

(* The channel thread is about to answer the request of the call itself.   *)
Awaits(c) == thread.pc \in {"reject", "undecodable"} /\ thread.call = c

MayEmit(c) == task[c] \in {"polling", "parked"} \/ Awaits(c)

Pushing(c) == disp[owner[c]].pc = "push" /\ disp[owner[c]].call = c

(* How many events have left the buffer of the call's owner.               *)
Base(c) == IF Pushing(c) THEN Len(got[c]) + 1 ELSE Len(got[c])

Present(buf, c, n) == \E i \in DOMAIN buf : buf[i].call = c /\ buf[i].ev.n = n

(* The samples of the ordinals from a to b are all in the buffer.          *)
Filled(buf, c, a, b) == \A n \in a..b : Present(buf, c, n)

(* Behind the events that left it, a buffer holds the next ones without a  *)
(* gap, up to the last one as long as the call may go on emitting.         *)
BufferedInv ==
    \A c \in handlers : ~HasTerminal(c) =>
        /\ \A j \in DOMAIN respBuf[owner[c]] : respBuf[owner[c]][j].call = c =>
             Filled(respBuf[owner[c]], c, Base(c) + 1, respBuf[owner[c]][j].ev.n)
        /\ MayEmit(c) => Filled(respBuf[owner[c]], c, Base(c) + 1, emitted[c])

(* The dispatch thread pushes the next event of a stream.                  *)
NextInv ==
    \A k \in Consumer :
        /\ disp[k].pc = "push" => disp[k].ev.n = Len(got[disp[k].call]) + 1
        /\ disp[k].pc = "follow" => disp[k].n = Len(got[disp[k].call]) + 1

GapInv == BufferedInv /\ NextInv /\ NoGap

-----------------------------------------------------------------------------
(* What an append does to the samples of a call that are in a buffer.      *)
LEMMA FilledAppend ==
    ASSUME NEW buf \in Seq(ResponseSample), NEW s \in ResponseSample, NEW d, NEW a \in Nat, NEW b \in Nat,
           Filled(buf, d, a, b)
    PROVE  /\ Filled(Append(buf, s), d, a, b)
           /\ s.call = d /\ s.ev.n = b + 1 => Filled(Append(buf, s), d, a, b + 1)
<1>1. /\ DOMAIN Append(buf, s) = DOMAIN buf \cup {Len(buf) + 1}
      /\ \A i \in DOMAIN buf : Append(buf, s)[i] = buf[i]
      /\ Append(buf, s)[Len(buf) + 1] = s
  BY AppendFacts
<1>2. \A n \in a..b : Present(Append(buf, s), d, n)
  BY Zenon, <1>1 DEF Filled, Present
<1>3. s.call = d => Present(Append(buf, s), d, s.ev.n)
  BY Zenon, <1>1 DEF Present
<1>4. \A n \in a..(b + 1) : n \in a..b \/ n = b + 1
  OBVIOUS
<1> QED
  BY ZenonT(40), <1>2, <1>3, <1>4 DEF Filled

(* The next event of a stream joins the ones that wait in a buffer.        *)
LEMMA AppendedStream ==
    ASSUME NEW buf \in Seq(ResponseSample), NEW s \in ResponseSample, NEW d, NEW a \in Nat, NEW m \in Nat,
           \A j \in DOMAIN buf : buf[j].call = d => Filled(buf, d, a, buf[j].ev.n),
           s.call = d => s.ev.n = m + 1 /\ Filled(buf, d, a, m)
    PROVE  /\ \A j \in DOMAIN Append(buf, s) : Append(buf, s)[j].call = d =>
                Filled(Append(buf, s), d, a, Append(buf, s)[j].ev.n)
           /\ s.call = d => Filled(Append(buf, s), d, a, m + 1)
           /\ Filled(buf, d, a, m) => Filled(Append(buf, s), d, a, m)
<1>1. /\ DOMAIN Append(buf, s) = DOMAIN buf \cup {Len(buf) + 1}
      /\ \A i \in DOMAIN buf : Append(buf, s)[i] = buf[i]
      /\ Append(buf, s)[Len(buf) + 1] = s
  BY AppendFacts
<1>2. s.call = d => Filled(Append(buf, s), d, a, m + 1)
  BY Zenon, FilledAppend
<1>3. ASSUME NEW j \in DOMAIN buf, buf[j].call = d PROVE Filled(Append(buf, s), d, a, buf[j].ev.n)
  <2>1. buf[j] \in ResponseSample
    OBVIOUS
  <2>2. buf[j].ev.n \in Nat
    BY Zenon, <2>1 DEF ResponseSample, WireEvent
  <2> QED
    BY Zenon, <1>3, <2>2, FilledAppend
<1> QED
  BY Zenon, <1>1, <1>2, <1>3, FilledAppend

(* The samples of a call behind the one that leaves a buffer stay in it.   *)
LEMMA FilledTail ==
    ASSUME NEW buf \in Seq(ResponseSample), buf # <<>>, NEW d, NEW a \in Nat, NEW z \in Nat, NEW b \in Nat,
           a <= z, Filled(buf, d, a, b), buf[1].call = d => buf[1].ev.n < z
    PROVE  Filled(Tail(buf), d, z, b)
<1> SUFFICES ASSUME NEW n \in z..b PROVE Present(Tail(buf), d, n)
  BY Zenon DEF Filled
<1>1. n \in a..b /\ z <= n /\ n \in Nat
  OBVIOUS
<1>2. PICK i \in DOMAIN buf : buf[i].call = d /\ buf[i].ev.n = n
  BY Zenon, <1>1 DEF Filled, Present
<1>3. i # 1
  BY <1>1, <1>2
<1>4. i \in 2..Len(buf) /\ Len(buf) \in Nat /\ Len(Tail(buf)) = Len(buf) - 1 /\ Tail(buf) \in Seq(ResponseSample)
  BY <1>3, TailFacts
<1>5. i - 1 \in DOMAIN Tail(buf) /\ (i - 1) + 1 = i
  BY <1>4
<1>6. Tail(buf)[i - 1] = buf[i]
  BY <1>5, TailFacts
<1> QED
  BY Zenon, <1>2, <1>5, <1>6 DEF Present

(* A step that neither emits nor delivers, and makes no call an emitter    *)
(* that has emitted, keeps the streams without gap.                        *)
LEMMA GapFrame ==
    ASSUME TypeOK, GapInv, UNCHANGED <<got, disp, respBuf, emitted>>, handlers' \subseteq handlers,
           \A c \in Call : MayEmit(c)' => MayEmit(c) \/ emitted[c] = 0
    PROVE  GapInv'
<1>0. handlers \subseteq Call /\ got \in [Call -> Seq(Event)]
  BY Zenon DEF TypeOK, ConsumerTypeOK
<1>1. NextInv' /\ NoGap'
  BY Zenon DEF GapInv, NextInv, NoGap
<1>2. BufferedInv'
  <2> SUFFICES ASSUME NEW c \in handlers', ~HasTerminal(c)'
               PROVE  /\ \A j \in DOMAIN respBuf[owner[c]] : respBuf[owner[c]][j].call = c =>
                           Filled(respBuf[owner[c]], c, Base(c)' + 1, respBuf[owner[c]][j].ev.n)
                      /\ MayEmit(c)' => Filled(respBuf[owner[c]], c, Base(c)' + 1, emitted[c])
    BY Zenon DEF BufferedInv
  <2>1. c \in handlers /\ c \in Call /\ ~HasTerminal(c) /\ Base(c)' = Base(c)
    BY Zenon, <1>0 DEF HasTerminal, Base, Pushing
  <2>2. /\ \A j \in DOMAIN respBuf[owner[c]] : respBuf[owner[c]][j].call = c =>
             Filled(respBuf[owner[c]], c, Base(c) + 1, respBuf[owner[c]][j].ev.n)
        /\ MayEmit(c) => Filled(respBuf[owner[c]], c, Base(c) + 1, emitted[c])
    BY Zenon, <2>1 DEF GapInv, BufferedInv
  <2>3. Base(c) \in Nat
    <3>1. got[c] \in Seq(Event)
      BY Zenon, <1>0, <2>1
    <3>2. Len(got[c]) \in Nat
      BY <3>1
    <3> QED
      BY <3>2 DEF Base
  <2>4. emitted[c] = 0 => Filled(respBuf[owner[c]], c, Base(c) + 1, emitted[c])
    BY <2>3 DEF Filled
  <2> QED
    BY Zenon, <2>1, <2>2, <2>4
<1> QED
  BY Zenon, <1>1, <1>2 DEF GapInv

(* Types used below.                                                       *)
LEMMA GapTypes ==
    ASSUME TypeOK, NEW c \in Call
    PROVE  /\ got[c] \in Seq(Event) /\ Len(got[c]) \in Nat /\ DOMAIN got[c] = 1..Len(got[c])
           /\ Base(c) \in Nat /\ emitted[c] \in Nat /\ owner[c] \in Consumer
<1>1. got[c] \in Seq(Event) /\ emitted[c] \in Nat /\ owner[c] \in Consumer
  BY Zenon, OrderTypes, ConsumerAssumption
<1>2. Len(got[c]) \in Nat /\ DOMAIN got[c] = 1..Len(got[c])
  BY <1>1
<1> QED
  BY <1>1, <1>2 DEF Base

(* A sample leaves the buffer: it is the next event of its stream, or the  *)
(* stream takes no more.                                                   *)
LEMMA DispatchGap ==
    ASSUME TypeOK, StreamInv, EventOrder, GapInv, Alone, NEW k \in Consumer, Dispatch(k),
           UNCHANGED providerVars
    PROVE  GapInv'
<1> USE ConsumerAssumption
<1> DEFINE s == respBuf[k][1]
<1>1. /\ respBuf \in [Consumer -> Seq(ResponseSample)] /\ respBuf[k] \in Seq(ResponseSample)
      /\ disp \in [Consumer -> DispState]
      /\ respBuf[k] # <<>> /\ respBuf' = [respBuf EXCEPT ![k] = Tail(@)]
      /\ got' = got /\ emitted' = emitted /\ disp[k] = DispIdle /\ handlers' = handlers
      /\ task' = task /\ thread' = thread /\ handlers \subseteq Call
  BY Zenon, OrderTypes DEF Dispatch, providerVars, TypeOK, ConsumerTypeOK
<1>2. /\ Head(respBuf[k]) = s /\ 1 \in DOMAIN respBuf[k] /\ respBuf'[k] = Tail(respBuf[k])
      /\ Tail(respBuf[k]) \in Seq(ResponseSample)
      /\ \A i \in DOMAIN Tail(respBuf[k]) : i + 1 \in DOMAIN respBuf[k] /\ Tail(respBuf[k])[i] = respBuf[k][i + 1]
  BY Zenon, <1>1, TailFacts
<1>3. s.call \in Call /\ s.ev.n \in Nat
  BY Zenon, <1>2, OrderTypes
<1>6. \A c \in Call : owner[c] = k
  BY ZenonT(40) DEF Alone
<1>7. ~Pushing(s.call)
  BY <1>1, <1>3, <1>6 DEF Pushing, DispIdle
<1>8. ASSUME s.call \in handlers
      PROVE  /\ disp'[k] = [pc |-> "push", call |-> s.call, ev |-> s.ev]
             /\ ~HasTerminal(s.call) /\ s.ev.n = Len(got[s.call]) + 1
  <2>1. disp'[k] = [pc |-> "push", call |-> s.call, ev |-> s.ev]
    BY ZenonT(40), <1>1, <1>2, <1>3, <1>6, <1>8 DEF Dispatch
  <2>2. ~HasTerminal(s.call)
    <3>1. disp[k] # [pc |-> "release", call |-> s.call]
      BY <1>1 DEF DispIdle
    <3> QED
      BY <1>3, <1>6, <1>8, <3>1 DEF StreamInv, EndedInv
  <2>3. Base(s.call) = Len(got[s.call]) /\ Len(got[s.call]) \in Nat /\ DOMAIN got[s.call] = 1..Len(got[s.call])
    BY Zenon, <1>3, <1>7, GapTypes DEF Base
  <2>4. Len(got[s.call]) < s.ev.n
    <3>1. CASE Len(got[s.call]) = 0
      <4>1. emitted[s.call] \in Nat
        BY ZenonT(40), <1>3, GapTypes
      <4>2. s.ev.n # 0
        BY <1>2, <4>1 DEF EventOrder, BufferInv
      <4> QED
        BY <1>3, <3>1, <4>2
    <3>2. CASE Len(got[s.call]) # 0
      <4>1. Len(got[s.call]) \in DOMAIN got[s.call]
        BY <2>3, <3>2
      <4>2. got[s.call][Len(got[s.call])].n = Len(got[s.call])
        BY Zenon, <1>3, <4>1 DEF GapInv, NoGap
      <4>3. Below(got[s.call][Len(got[s.call])].n, respBuf[k], s.call)
        BY Zenon, <1>3, <1>6, <2>2, <4>1 DEF EventOrder, StreamedInv
      <4> QED
        BY ZenonT(40), <1>2, <4>2, <4>3 DEF Below
    <3> QED
      BY Zenon, <3>1, <3>2
  <2>5. Filled(respBuf[k], s.call, Len(got[s.call]) + 1, s.ev.n)
    <3>1. \A j \in DOMAIN respBuf[owner[s.call]] : respBuf[owner[s.call]][j].call = s.call =>
            Filled(respBuf[owner[s.call]], s.call, Base(s.call) + 1, respBuf[owner[s.call]][j].ev.n)
      BY <1>8, <2>2, Zenon DEF GapInv, BufferedInv
    <3>2. owner[s.call] = k
      BY Zenon, <1>3, <1>6
    <3> QED
      BY Zenon, <1>2, <2>3, <3>1, <3>2
  <2>6. PICK i \in DOMAIN respBuf[k] : respBuf[k][i].call = s.call /\ respBuf[k][i].ev.n = Len(got[s.call]) + 1
    <3>1. Len(got[s.call]) + 1 \in (Len(got[s.call]) + 1)..s.ev.n
      BY <1>3, <2>3, <2>4
    <3>2. Present(respBuf[k], s.call, Len(got[s.call]) + 1)
      BY Zenon, <2>5, <3>1 DEF Filled
    <3> QED
      BY ZenonT(40), <3>2 DEF Present
  <2>7. CASE i = 1
    BY ZenonT(40), <2>1, <2>2, <2>6, <2>7
  <2>8. CASE i # 1
    <3>1. 1 < i
      BY <1>1, <2>8
    <3>2. s.ev.n < respBuf[k][i].ev.n
      BY Zenon, <1>2, <2>6, <3>1 DEF EventOrder, BufferInv
    <3> QED
      BY <1>3, <2>3, <2>4, <2>6, <3>2
  <2> QED
    BY Zenon, <2>7, <2>8
<1> HIDE DEF s
<1>9. NoGap'
  BY Zenon, <1>1 DEF GapInv, NoGap
<1>10. \A m \in Consumer : m = k
  BY Zenon DEF Alone
<1>11. NextInv'
  <2>1. CASE s.call \in handlers
    <3>1. disp'[k].pc = "push" /\ disp'[k].call = s.call /\ disp'[k].ev = s.ev
      BY <1>8, <2>1
    <3>2. disp'[k].ev.n = Len(got'[disp'[k].call]) + 1
      BY Zenon, <1>1, <1>8, <2>1, <3>1
    <3> QED
      BY ZenonT(40), <1>10, <3>1, <3>2 DEF NextInv
  <2>2. CASE s.call \notin handlers
    <3>1. disp' = disp
      BY Zenon, <1>2, <2>2 DEF Dispatch
    <3> QED
      BY Zenon, <1>1, <3>1 DEF GapInv, NextInv
  <2> QED
    BY Zenon, <2>1, <2>2
<1>12. ASSUME NEW c \in handlers, ~HasTerminal(c), c \in Call, NEW b \in Nat,
              Filled(respBuf[k], c, Base(c) + 1, b)
       PROVE  Filled(respBuf'[k], c, Base(c)' + 1, b)
  <2>1. Base(c) \in Nat /\ Len(got[c]) \in Nat
    BY Zenon, <1>12, GapTypes
  <2>2. /\ Base(c)' + 1 \in Nat /\ Base(c) + 1 <= Base(c)' + 1
        /\ s.call = c => s.ev.n < Base(c)' + 1
    <3>1. CASE s.call = c
      <4>1. Base(c) = Len(got[c]) /\ Base(c)' = Len(got[c]) + 1
        BY <1>1, <1>6, <1>7, <1>8, <3>1 DEF Base, Pushing
      <4> QED
        BY <1>8, <2>1, <3>1, <4>1
    <3>2. CASE s.call # c
      <4>1. ~Pushing(c)
        BY <1>1, <1>6, <1>12 DEF Pushing, DispIdle
      <4>2. ~Pushing(c)'
        <5>1. CASE s.call \in handlers
          BY <1>6, <1>8, <1>12, <3>2, <5>1 DEF Pushing
        <5>2. CASE s.call \notin handlers
          BY Zenon, <1>2, <4>1, <5>2 DEF Dispatch, Pushing
        <5> QED
          BY Zenon, <5>1, <5>2
      <4>3. Base(c)' = Base(c)
        BY Zenon, <1>1, <4>1, <4>2 DEF Base
      <4> QED
        BY <2>1, <3>2, <4>3
    <3> QED
      BY Zenon, <3>1, <3>2
  <2>3. Filled(Tail(respBuf[k]), c, Base(c)' + 1, b)
    <3>1. respBuf[k] \in Seq(ResponseSample) /\ respBuf[k] # <<>> /\ Base(c) + 1 \in Nat
      BY <1>1, <2>1
    <3>2. respBuf[k][1].call = c => respBuf[k][1].ev.n < Base(c)' + 1
      BY Zenon, <2>2 DEF s
    <3> QED
      BY ZenonT(40), <1>12, <2>2, <3>1, <3>2, FilledTail
  <2> QED
    BY Zenon, <1>2, <2>3
<1>13. BufferedInv'
  <2> SUFFICES ASSUME NEW c \in handlers', ~HasTerminal(c)'
               PROVE  /\ \A j \in DOMAIN respBuf'[owner[c]] : respBuf'[owner[c]][j].call = c =>
                           Filled(respBuf'[owner[c]], c, Base(c)' + 1, respBuf'[owner[c]][j].ev.n)
                      /\ MayEmit(c)' => Filled(respBuf'[owner[c]], c, Base(c)' + 1, emitted'[c])
    BY Zenon DEF BufferedInv
  <2>1. c \in handlers /\ ~HasTerminal(c) /\ c \in Call /\ owner[c] = k /\ emitted[c] \in Nat
    BY Zenon, <1>1, <1>6, GapTypes DEF HasTerminal
  <2>2. /\ \A j \in DOMAIN respBuf[k] : respBuf[k][j].call = c =>
             Filled(respBuf[k], c, Base(c) + 1, respBuf[k][j].ev.n)
        /\ MayEmit(c) => Filled(respBuf[k], c, Base(c) + 1, emitted[c])
    <3>1. /\ \A j \in DOMAIN respBuf[owner[c]] : respBuf[owner[c]][j].call = c =>
               Filled(respBuf[owner[c]], c, Base(c) + 1, respBuf[owner[c]][j].ev.n)
          /\ MayEmit(c) => Filled(respBuf[owner[c]], c, Base(c) + 1, emitted[c])
      BY <2>1, Zenon DEF GapInv, BufferedInv
    <3> QED
      BY Zenon, <2>1, <3>1
  <2>3. ASSUME NEW j \in DOMAIN respBuf'[k], respBuf'[k][j].call = c
        PROVE  Filled(respBuf'[k], c, Base(c)' + 1, respBuf'[k][j].ev.n)
    <3>1. /\ j + 1 \in DOMAIN respBuf[k] /\ respBuf'[k][j] = respBuf[k][j + 1]
          /\ respBuf[k][j + 1].ev.n \in Nat
      BY Zenon, <1>2, <2>3, OrderTypes
    <3>2. Filled(respBuf[k], c, Base(c) + 1, respBuf[k][j + 1].ev.n)
      BY Zenon, <2>2, <2>3, <3>1
    <3> QED
      BY Zenon, <1>12, <2>1, <3>1, <3>2
  <2>4. ASSUME MayEmit(c)' PROVE Filled(respBuf'[k], c, Base(c)' + 1, emitted'[c])
    <3>1. MayEmit(c)
      BY Zenon, <1>1, <2>4 DEF MayEmit, Awaits
    <3>2. Filled(respBuf[k], c, Base(c) + 1, emitted[c])
      BY Zenon, <2>2, <3>1
    <3>3. Filled(respBuf'[k], c, Base(c)' + 1, emitted[c])
      BY Zenon, <1>12, <2>1, <3>2
    <3> QED
      BY Zenon, <1>1, <3>3
  <2> QED
    BY Zenon, <2>1, <2>3, <2>4
<1> QED
  BY Zenon, <1>9, <1>11, <1>13 DEF GapInv

(* The dispatch thread pushes the next event of a stream.                  *)
LEMMA PushGap ==
    ASSUME TypeOK, StreamInv, GapInv, Alone, NEW k \in Consumer, NEW c \in Call, NEW e \in Event,
           disp[k].pc # "idle", disp[k].call = c, e.n = Len(got[c]) + 1,
           got' = [got EXCEPT ![c] = Append(@, e)],
           UNCHANGED <<respBuf, emitted, handlers, task, thread>>,
           disp'[k].pc # "push",
           disp'[k].pc = "follow" => disp'[k].call = c /\ disp'[k].n = e.n + 1,
           IsTerminal(e) \/ disp[k].pc = "push"
    PROVE  GapInv'
<1> USE ConsumerAssumption
<1>1. \A m \in Consumer : m = k
  BY Zenon DEF Alone
<1>2. got[c] \in Seq(Event) /\ Len(got[c]) \in Nat /\ DOMAIN got[c] = 1..Len(got[c]) /\ owner[c] = k
  BY Zenon, <1>1, GapTypes
<1>3. /\ got'[c] = Append(got[c], e)
      /\ \A d \in Call \ {c} : got'[d] = got[d]
  BY ZenonT(40), OrderTypes
<1>4. /\ DOMAIN got'[c] = DOMAIN got[c] \cup {Len(got[c]) + 1} /\ Len(got'[c]) = Len(got[c]) + 1
      /\ \A i \in DOMAIN got[c] : got'[c][i] = got[c][i]
      /\ got'[c][Len(got[c]) + 1] = e
  BY <1>2, <1>3, AppendFacts
<1>5. NoGap'
  <2> SUFFICES ASSUME NEW d \in Call, NEW i \in DOMAIN got'[d] PROVE got'[d][i].n = i
    BY ZenonT(40) DEF NoGap
  <2>1. CASE d = c
    BY <1>4, <2>1 DEF GapInv, NoGap
  <2>2. CASE d # c
    BY Zenon, <1>3, <2>2 DEF GapInv, NoGap
  <2> QED
    BY Zenon, <2>1, <2>2
<1>6. NextInv'
  <2>1. disp'[k].pc = "follow" => disp'[k].n = Len(got'[disp'[k].call]) + 1
    BY Zenon, <1>4
  <2> QED
    BY Zenon, <1>1, <2>1 DEF NextInv
<1>7. handlers \subseteq Call
  BY Zenon DEF TypeOK, ConsumerTypeOK
<1>8. BufferedInv'
  <2> SUFFICES ASSUME NEW d \in handlers, ~HasTerminal(d)'
               PROVE  /\ \A j \in DOMAIN respBuf[owner[d]] : respBuf[owner[d]][j].call = d =>
                           Filled(respBuf[owner[d]], d, Base(d)' + 1, respBuf[owner[d]][j].ev.n)
                      /\ MayEmit(d) => Filled(respBuf[owner[d]], d, Base(d)' + 1, emitted[d])
    BY Zenon DEF BufferedInv, MayEmit, Awaits
  <2>1. d \in Call /\ owner[d] = k
    BY Zenon, <1>1, <1>7
  <2>2. Base(d)' = Base(d)
    <3>1. ~Pushing(d)'
      BY Zenon, <2>1 DEF Pushing
    <3>2. CASE d = c
      <4>1. ~IsTerminal(e)
        BY <1>4, <3>2 DEF HasTerminal, IsTerminal
      <4>2. Pushing(c)
        BY Zenon, <1>2, <4>1 DEF Pushing
      <4> QED
        BY ZenonT(40), <1>4, <3>1, <3>2, <4>2 DEF Base
    <3>3. CASE d # c
      <4>1. ~Pushing(d)
        BY Zenon, <2>1, <3>3 DEF Pushing
      <4> QED
        BY <1>3, <2>1, <3>1, <3>3, <4>1 DEF Base
    <3> QED
      BY Zenon, <3>2, <3>3
  <2>3. ~HasTerminal(d)
    <3>1. CASE d = c
      BY <1>4, <3>1 DEF HasTerminal, IsTerminal
    <3>2. CASE d # c
      BY Zenon, <1>3, <2>1, <3>2 DEF HasTerminal
    <3> QED
      BY ZenonT(40), <3>1, <3>2
  <2>4. /\ \A j \in DOMAIN respBuf[owner[d]] : respBuf[owner[d]][j].call = d =>
             Filled(respBuf[owner[d]], d, Base(d) + 1, respBuf[owner[d]][j].ev.n)
        /\ MayEmit(d) => Filled(respBuf[owner[d]], d, Base(d) + 1, emitted[d])
    BY <2>3, Zenon DEF GapInv, BufferedInv
  <2> QED
    BY Zenon, <2>2, <2>4
<1> QED
  BY Zenon, <1>5, <1>6, <1>8 DEF GapInv

(* The dispatch thread is done with a call whose receiver is gone, or has  *)
(* removed its entry.                                                      *)
LEMMA ReleaseGap ==
    ASSUME TypeOK, GapInv, Alone, NEW k \in Consumer, NEW c \in Call,
           disp[k].pc # "idle", disp[k].call = c, disp'[k].pc \in {"idle", "release"},
           handlers' \subseteq handlers, c \notin handlers' \/ disp[k].pc # "push",
           UNCHANGED <<got, respBuf, emitted, task, thread>>
    PROVE  GapInv'
<1> USE ConsumerAssumption
<1>1. \A m \in Consumer : m = k
  BY Zenon DEF Alone
<1>2. NoGap' /\ NextInv'
  BY Zenon, <1>1 DEF GapInv, NoGap, NextInv
<1>3. handlers \subseteq Call
  BY Zenon DEF TypeOK, ConsumerTypeOK
<1>4. BufferedInv'
  <2> SUFFICES ASSUME NEW d \in handlers', ~HasTerminal(d)'
               PROVE  /\ \A j \in DOMAIN respBuf[owner[d]] : respBuf[owner[d]][j].call = d =>
                           Filled(respBuf[owner[d]], d, Base(d)' + 1, respBuf[owner[d]][j].ev.n)
                      /\ MayEmit(d) => Filled(respBuf[owner[d]], d, Base(d)' + 1, emitted[d])
    BY Zenon DEF BufferedInv, MayEmit, Awaits
  <2>1. d \in handlers /\ d \in Call /\ owner[d] = k /\ ~HasTerminal(d)
    BY Zenon, <1>1, <1>3 DEF HasTerminal
  <2>2. Base(d)' = Base(d)
    BY Zenon, <2>1 DEF Base, Pushing
  <2>3. /\ \A j \in DOMAIN respBuf[owner[d]] : respBuf[owner[d]][j].call = d =>
             Filled(respBuf[owner[d]], d, Base(d) + 1, respBuf[owner[d]][j].ev.n)
        /\ MayEmit(d) => Filled(respBuf[owner[d]], d, Base(d) + 1, emitted[d])
    BY <2>1, Zenon DEF GapInv, BufferedInv
  <2> QED
    BY Zenon, <2>2, <2>3
<1> QED
  BY Zenon, <1>2, <1>4 DEF GapInv

(* The provider publishes the next event of a call; one it cannot publish  *)
(* is its last.                                                            *)
LEMMA PublishGap ==
    ASSUME TypeOK, GapInv, Alone, NEW c \in Call, NEW kind \in WireKind, MayEmit(c),
           PublishOk(c, kind) \/ (PublishErr(c) /\ ~MayEmit(c)'),
           UNCHANGED <<got, disp, handlers>>,
           \A d \in Call : MayEmit(d)' => MayEmit(d)
    PROVE  GapInv'
<1> USE ConsumerAssumption
<1>1. /\ owner[c] \in Consumer /\ handlers \subseteq Call /\ respBuf[owner[c]] \in Seq(ResponseSample)
      /\ \A d \in Call : owner[d] = owner[c]
      /\ emitted \in [Call -> Nat]
  BY OrderTypes DEF Alone, TypeOK, ConsumerTypeOK
<1>2. emitted' = [emitted EXCEPT ![c] = @ + 1]
  BY Zenon DEF PublishOk, PublishErr
<1>3. PICK s \in ResponseSample :
        /\ s.call = c /\ s.ev.n = emitted[c] + 1
        /\ PublishOk(c, kind) => respBuf'[owner[c]] = Append(respBuf[owner[c]], s)
  <2> DEFINE s == [call |-> c, ev |-> [kind |-> kind, n |-> emitted[c] + 1]]
  <2>1. s \in ResponseSample /\ s.call = c /\ s.ev.n = emitted[c] + 1
    BY <1>1 DEF ResponseSample, WireEvent
  <2>2. ASSUME PublishOk(c, kind) PROVE respBuf'[owner[c]] = Append(respBuf[owner[c]], s)
    <3>1. RespRoom(owner[c])
      BY Zenon, <1>1, <2>2 DEF PublishOk, DeliveredResponse, ObserverTakes, Alone
    <3> QED
      BY Zenon, <1>1, <2>2, <3>1 DEF PublishOk, SendResponse
  <2> QED
    BY Zenon, <2>1, <2>2
<1>4. PublishErr(c) => respBuf'[owner[c]] = respBuf[owner[c]]
  BY Zenon DEF PublishErr
<1>5. NoGap' /\ NextInv'
  BY Zenon DEF GapInv, NoGap, NextInv
<1>6. BufferedInv'
  <2> SUFFICES ASSUME NEW d \in handlers, ~HasTerminal(d)'
               PROVE  /\ \A j \in DOMAIN respBuf'[owner[d]] : respBuf'[owner[d]][j].call = d =>
                           Filled(respBuf'[owner[d]], d, Base(d) + 1, respBuf'[owner[d]][j].ev.n)
                      /\ MayEmit(d)' => Filled(respBuf'[owner[d]], d, Base(d) + 1, emitted'[d])
    BY DEF BufferedInv, Base, Pushing
  <2>1. d \in Call /\ owner[d] = owner[c] /\ ~HasTerminal(d) /\ Base(d) + 1 \in Nat /\ emitted[d] \in Nat
    BY <1>1, GapTypes DEF HasTerminal
  <2>2. /\ \A j \in DOMAIN respBuf[owner[d]] : respBuf[owner[d]][j].call = d =>
             Filled(respBuf[owner[d]], d, Base(d) + 1, respBuf[owner[d]][j].ev.n)
        /\ MayEmit(d) => Filled(respBuf[owner[d]], d, Base(d) + 1, emitted[d])
    BY <2>1, Zenon DEF GapInv, BufferedInv
  <2>3. CASE PublishOk(c, kind)
    <3>1. d = c => s.ev.n = emitted[d] + 1 /\ Filled(respBuf[owner[d]], d, Base(d) + 1, emitted[d])
      BY Zenon, <1>3, <2>2
    <3>2. s.call = d <=> d = c
      BY Zenon, <1>3
    <3>3. respBuf'[owner[d]] = Append(respBuf[owner[d]], s)
      BY ZenonT(40), <1>3, <2>1, <2>3
    <3>4. /\ \A j \in DOMAIN respBuf'[owner[d]] : respBuf'[owner[d]][j].call = d =>
               Filled(respBuf'[owner[d]], d, Base(d) + 1, respBuf'[owner[d]][j].ev.n)
          /\ d = c => Filled(respBuf'[owner[d]], d, Base(d) + 1, emitted[d] + 1)
          /\ Filled(respBuf[owner[d]], d, Base(d) + 1, emitted[d]) =>
               Filled(respBuf'[owner[d]], d, Base(d) + 1, emitted[d])
      BY ZenonT(60), <1>1, <2>1, <2>2, <3>1, <3>2, <3>3, AppendedStream
    <3>5. emitted'[d] = IF d = c THEN emitted[d] + 1 ELSE emitted[d]
      BY Zenon, <1>1, <1>2, <2>1
    <3> QED
      BY Zenon, <2>1, <2>2, <3>4, <3>5
  <2>4. CASE PublishErr(c) /\ ~MayEmit(c)'
    <3>1. respBuf'[owner[d]] = respBuf[owner[d]] /\ (d # c => emitted'[d] = emitted[d])
      BY ZenonT(40), <1>1, <1>2, <1>4, <2>1, <2>4
    <3> QED
      BY Zenon, <2>1, <2>2, <2>4, <3>1
  <2> QED
    BY ZenonT(40), <2>3, <2>4
<1> QED
  BY ZenonT(40), <1>5, <1>6 DEF GapInv

-----------------------------------------------------------------------------
(* The contract of a call.                                                 *)

(* A call the provider has not started to serve has emitted nothing.       *)
QuietInv ==
    /\ \A c \in Call : Unsent(c) \/ Awaits(c) => emitted[c] = 0
    /\ \A k \in Consumer : \A i \in DOMAIN reqBuf[k] :
         reqBuf[k][i].kind = "request" => emitted[reqBuf[k][i].call] = 0

-----------------------------------------------------------------------------
(* Calls that have emitted nothing.                                        *)

(* A call that may emit has left its process, and its request the buffer.  *)
LEMMA EmitterFacts ==
    ASSUME TypeOK, ServiceInv, NEW c \in Call, MayEmit(c)
    PROVE  /\ ~Unsent(c)
           /\ \A k \in Consumer : \A i \in DOMAIN reqBuf[k] :
                reqBuf[k][i].kind = "request" => reqBuf[k][i].call # c
<1>1. ~Unsent(c)
  BY Zenon DEF ServiceInv, CallInv, ThreadInv, MayEmit, Awaits
<1>2. ASSUME NEW k \in Consumer, NEW i \in DOMAIN reqBuf[k], reqBuf[k][i].kind = "request"
      PROVE  reqBuf[k][i].call # c
  <2>1. Fresh(reqBuf[k][i].call)
    BY Zenon, <1>2 DEF ServiceInv, SampleInv
  <2> QED
    BY Zenon, <2>1 DEF Fresh, MayEmit, Awaits
<1> QED
  BY Zenon, <1>1, <1>2

(* The steps of the consumers keep it so.                                  *)
LEMMA ConsumerKeepsQuiet ==
    ASSUME TypeOK, QuietInv, ConsumerNext, UNCHANGED providerVars
    PROVE  QuietInv'
<1> USE ConsumerAssumption
<1>0. /\ emitted' = emitted /\ thread' = thread /\ BusTypeOK /\ stage \in [Call -> Stage]
  BY Zenon DEF providerVars, TypeOK, ConsumerTypeOK
<1>1. ASSUME \A c \in Call : Unsent(c)' => Unsent(c),
             \A k \in Consumer : \A i \in DOMAIN reqBuf'[k] :
               reqBuf'[k][i].kind = "request" => emitted[reqBuf'[k][i].call] = 0
      PROVE  QuietInv'
  BY Zenon, <1>0, <1>1 DEF QuietInv, Awaits
<1>2. ASSUME NEW c \in Call, NEW kind \in {"request", "cancel"},
             SendRequest(owner[c], [kind |-> kind, call |-> c]), kind = "request" => emitted[c] = 0
      PROVE  \A k \in Consumer : \A i \in DOMAIN reqBuf'[k] :
               reqBuf'[k][i].kind = "request" => emitted[reqBuf'[k][i].call] = 0
  <2> DEFINE s == [kind |-> kind, call |-> c]
  <2>1. s \in RequestSample /\ owner[c] \in Consumer /\ s.kind = kind /\ s.call = c
    BY Zenon DEF RequestSample
  <2> HIDE DEF s
  <2>2. SendRequest(owner[c], s)
    BY Zenon, <1>2 DEF s
  <2> SUFFICES ASSUME NEW k \in Consumer, NEW i \in DOMAIN reqBuf'[k], reqBuf'[k][i].kind = "request"
               PROVE  emitted[reqBuf'[k][i].call] = 0
    BY ZenonT(40)
  <2>3. (i \in DOMAIN reqBuf[k] /\ reqBuf'[k][i] = reqBuf[k][i]) \/ reqBuf'[k][i] = s
    BY <1>0, <2>1, <2>2, SendFacts
  <2> QED
    BY Zenon, <1>2, <2>1, <2>3 DEF QuietInv
<1>3. ASSUME reqBuf' = reqBuf
      PROVE  \A k \in Consumer : \A i \in DOMAIN reqBuf'[k] :
               reqBuf'[k][i].kind = "request" => emitted[reqBuf'[k][i].call] = 0
  BY Zenon, <1>3 DEF QuietInv
<1>4. ASSUME NEW c \in Call, PublishRequest(c) \/ SendOneWay(c) \/ PublishCancel(c) PROVE QuietInv'
  <2>1. \A d \in Call : Unsent(d)' => Unsent(d)
    BY Zenon, <1>0, <1>4 DEF PublishRequest, SendOneWay, PublishCancel, Unsent
  <2>2. CASE PublishRequest(c) \/ SendOneWay(c)
    <3>1. emitted[c] = 0
      BY Zenon, <2>2 DEF QuietInv, Unsent, PublishRequest, SendOneWay
    <3> QED
      BY ZenonT(40), <1>1, <1>2, <1>3, <2>1, <2>2, <3>1 DEF PublishRequest, SendOneWay, LoanFails
  <2>3. CASE PublishCancel(c)
    BY ZenonT(40), <1>1, <1>2, <1>3, <2>1, <2>3 DEF PublishCancel, LoanFails
  <2> QED
    BY Zenon, <1>4, <2>2, <2>3
<1>5. ASSUME NEW c \in Call, NativeCall(c) \/ PublishFail(c) \/ ReadTerminal(c) \/ DropStream(c) PROVE QuietInv'
  <2>1. reqBuf' = reqBuf
    BY Zenon, <1>5 DEF NativeCall, PublishFail, ReadTerminal, DropStream, busVars
  <2>2. \A d \in Call : Unsent(d)' => Unsent(d)
    BY ZenonT(40), <1>0, <1>5 DEF NativeCall, PublishFail, ReadTerminal, DropStream, Unsent
  <2> QED
    BY ZenonT(40), <1>1, <1>3, <2>1, <2>2
<1>6. ASSUME NEW k \in Consumer,
             Dispatch(k) \/ PushEvent(k) \/ PushFollowUp(k) \/ ReleaseHandler(k)
               \/ ConsumerShutdown(k) \/ ConsumerRelease(k) \/ ConsumerCrash(k)
      PROVE  QuietInv'
  <2>1. reqBuf' = reqBuf /\ stage' = stage
    BY Zenon, <1>6 DEF Dispatch, PushEvent, PushFollowUp, ReleaseHandler, ConsumerShutdown, ConsumerRelease,
         ConsumerCrash, busVars, consumerVars
  <2>2. \A d \in Call : Unsent(d)' => Unsent(d)
    BY Zenon, <2>1 DEF Unsent
  <2> QED
    BY ZenonT(40), <1>1, <1>3, <2>1, <2>2
<1> QED
  BY Zenon, <1>4, <1>5, <1>6 DEF ConsumerNext

(* The steps of the provider keep it so.                                   *)
LEMMA ProviderKeepsQuiet ==
    ASSUME TypeOK, ServiceInv, QuietInv, ProviderNext, UNCHANGED consumerVars
    PROVE  QuietInv'
<1>0. /\ stage' = stage /\ BusTypeOK /\ emitted \in [Call -> Nat] /\ thread \in ThreadState
  BY Zenon DEF consumerVars, TypeOK, ProviderTypeOK
<1>1. ASSUME emitted' = emitted,
             \A c \in Call : Awaits(c)' => emitted[c] = 0,
             \A k \in Consumer : \A i \in DOMAIN reqBuf'[k] :
               \E j \in DOMAIN reqBuf[k] : reqBuf'[k][i] = reqBuf[k][j]
      PROVE  QuietInv'
  <2>1. ASSUME NEW k \in Consumer, NEW i \in DOMAIN reqBuf'[k], reqBuf'[k][i].kind = "request"
        PROVE  emitted[reqBuf'[k][i].call] = 0
    BY <1>1, <2>1 DEF QuietInv
  <2> QED
    BY ZenonT(40), <1>0, <1>1, <2>1 DEF QuietInv, Unsent
<1>2. \A c \in Call : Awaits(c) => emitted[c] = 0
  BY Zenon DEF QuietInv
<1>3. ASSUME ProviderStart \/ ProviderCrash \/ ProviderShutdown \/ ThreadStops \/ ProviderExit
      PROVE  QuietInv'
  <2>1. emitted' = emitted
    BY Zenon, <1>3 DEF ProviderStart, ProviderCrash, ProviderShutdown, ThreadStops, ProviderExit
  <2>2. \A c \in Call : Awaits(c)' => Awaits(c)
    BY <1>3 DEF ProviderStart, ProviderCrash, ProviderShutdown, ThreadStops, ProviderExit, ProcessGone,
         ThreadIdle, Awaits
  <2>3. reqBuf' = reqBuf \/ reqBuf' = [k \in Consumer |-> <<>>]
    BY Zenon, <1>3 DEF ProviderStart, ProviderCrash, ProviderShutdown, ThreadStops, ProviderExit, busVars
  <2>4. \A k \in Consumer : \A i \in DOMAIN reqBuf'[k] :
          \E j \in DOMAIN reqBuf[k] : reqBuf'[k][i] = reqBuf[k][j]
    BY <2>3
  <2> QED
    BY ZenonT(40), <1>1, <1>2, <2>1, <2>2, <2>4
<1>4. ASSUME NEW k \in Consumer, HandleCancel(k) \/ HandleUnserved(k) \/ HandleRequest(k)
      PROVE  QuietInv'
  <2>1. emitted' = emitted /\ CanReceive(k) /\ Receive(k)
    BY Zenon, <1>4 DEF HandleCancel, HandleUnserved, HandleRequest
  <2>2. /\ 1 \in DOMAIN reqBuf[k] /\ Head(reqBuf[k]) = reqBuf[k][1]
        /\ \A m \in Consumer : \A i \in DOMAIN reqBuf'[m] :
             \E j \in DOMAIN reqBuf[m] : reqBuf'[m][i] = reqBuf[m][j]
    BY <1>0, <2>1, ReceiveFacts
  <2>3. ASSUME NEW c \in Call, Awaits(c)' PROVE emitted[c] = 0
    <3>1. CASE HandleUnserved(k)
      <4>1. thread'.call = Head(reqBuf[k]).call /\ Head(reqBuf[k]).kind = "request"
        BY <3>1 DEF HandleUnserved
      <4> QED
        BY <2>2, <2>3, <4>1 DEF QuietInv, Awaits
    <3>2. CASE HandleCancel(k) \/ HandleRequest(k)
      BY <1>2, <2>3, <3>2 DEF HandleCancel, HandleRequest, RunOrSpawn, Awaits, ThreadIdle
    <3> QED
      BY ZenonT(40), <1>4, <3>1, <3>2
  <2> QED
    BY ZenonT(40), <1>1, <2>1, <2>2, <2>3
<1>5. ASSUME NEW c \in Call, MayEmit(c), emitted' = [emitted EXCEPT ![c] = @ + 1], reqBuf' = reqBuf,
             thread' = ThreadIdle \/ (thread' = thread /\ ~Awaits(c))
      PROVE  QuietInv'
  <2>1. \A d \in Call \ {c} : emitted'[d] = emitted[d]
    BY ZenonT(40), <1>0, <1>5
  <2>2. ASSUME NEW d \in Call, Unsent(d)' \/ Awaits(d)' PROVE emitted'[d] = 0
    <3>1. d # c
      BY <1>0, <1>5, <2>2, EmitterFacts DEF Unsent, Awaits, ThreadIdle
    <3>2. Unsent(d) \/ Awaits(d)
      BY <1>0, <1>5, <2>2 DEF Unsent, Awaits, ThreadIdle
    <3> QED
      BY ZenonT(40), <2>1, <3>1, <3>2 DEF QuietInv
  <2>3. ASSUME NEW k \in Consumer, NEW i \in DOMAIN reqBuf[k], reqBuf[k][i].kind = "request"
        PROVE  emitted'[reqBuf[k][i].call] = 0
    <3>1. reqBuf[k][i].call \in Call /\ reqBuf[k][i].call # c
      BY ZenonT(40), <1>0, <1>5, <2>3, EmitterFacts, SampleTypes
    <3> QED
      BY Zenon, <2>1, <2>3, <3>1 DEF QuietInv
  <2> QED
    BY <1>5, <2>2, <2>3 DEF QuietInv
<1>6. ASSUME Reject \/ RejectUndecodable PROVE QuietInv'
  <2>1. thread.call \in Call /\ MayEmit(thread.call) /\ thread' = ThreadIdle /\ reqBuf' = reqBuf
    BY Zenon, <1>0, <1>6, ThreadFields DEF Reject, RejectUndecodable, MayEmit, Awaits
  <2>2. emitted' = [emitted EXCEPT ![thread.call] = @ + 1]
    BY Zenon, <1>6 DEF Reject, RejectUndecodable, PublishOk, PublishErr
  <2> QED
    BY Zenon, <1>5, <2>1, <2>2
<1>7. ASSUME NEW c \in Call, Poll(c) \/ Finish(c) \/ Yield(c) PROVE QuietInv'
  <2>1. emitted' = emitted /\ reqBuf' = reqBuf
    BY ZenonT(40), <1>7 DEF Poll, Finish, Yield, busVars
  <2>2. \A d \in Call : Awaits(d)' => Awaits(d)
    BY <1>7 DEF Poll, Finish, Yield, End, Awaits, ThreadIdle
  <2> QED
    BY ZenonT(40), <1>1, <1>2, <2>1, <2>2
<1>8. ASSUME NEW c \in Call, Emit(c) \/ EmitFails(c) PROVE QuietInv'
  <2>1. task[c] = "polling" /\ reqBuf' = reqBuf /\ MayEmit(c) /\ ~Awaits(c)
    BY Zenon, <1>8 DEF Emit, EmitFails, MayEmit, Awaits, ServiceInv, ThreadInv
  <2>2. emitted' = [emitted EXCEPT ![c] = @ + 1]
    BY Zenon, <1>8 DEF Emit, EmitFails, PublishOk, PublishErr
  <2>3. thread' = ThreadIdle \/ thread' = thread
    BY Zenon, <1>8 DEF Emit, EmitFails, End
  <2> QED
    BY ZenonT(40), <1>5, <2>1, <2>2, <2>3
<1> QED
  BY ZenonT(40), <1>3, <1>4, <1>6, <1>7, <1>8 DEF ProviderNext

(* A call the provider has not started to serve has emitted nothing.       *)
LEMMA QuietInvariant == Spec => []QuietInv
<1>1. Init => QuietInv
  BY DEF Init, BusInit, ConsumerInit, ProviderInit, QuietInv, Awaits
<1>2. TypeOK /\ ServiceInv /\ QuietInv /\ [Next]_vars => QuietInv'
  <2>1. QuietInv /\ UNCHANGED vars => QuietInv'
    BY Zenon DEF vars, busVars, consumerVars, providerVars, QuietInv, Unsent, Awaits
  <2> QED
    BY Zenon, <2>1, ConsumerKeepsQuiet, ProviderKeepsQuiet DEF Next
<1> QED
  BY <1>1, <1>2, TypeCorrect, ServiceInvariant, PTL DEF Spec

-----------------------------------------------------------------------------
(* No gaps.                                                                *)

(* A call begins.                                                          *)
LEMMA BeginGap ==
    ASSUME TypeOK, StreamInv, QuietInv, EventOrder, GapInv, NEW c \in Call, NativeCall(c),
           UNCHANGED providerVars
    PROVE  GapInv'
<1> USE ConsumerAssumption
<1>0. /\ handlers \subseteq Call /\ got \in [Call -> Seq(Event)]
      /\ stage[c] = "idle" /\ handlers' = handlers \cup {c}
      /\ got' = got /\ disp' = disp /\ respBuf' = respBuf /\ emitted' = emitted
      /\ task' = task /\ thread' = thread
  BY Zenon DEF TypeOK, ConsumerTypeOK, NativeCall, busVars, providerVars
<1>1. NextInv' /\ NoGap'
  BY Zenon, <1>0 DEF GapInv, NextInv, NoGap
<1>2. got[c] = <<>> /\ emitted[c] = 0
  BY Zenon, <1>0 DEF StreamInv, StageInv, QuietInv, Unsent
<1>3. ~Pushing(c)
  BY <1>0 DEF StreamInv, DispatchInv, Pushing
<1>4. Base(c) = 0
  BY ZenonT(40), <1>2, <1>3 DEF Base
<1>5. ASSUME NEW j \in DOMAIN respBuf[owner[c]], respBuf[owner[c]][j].call = c
      PROVE  respBuf[owner[c]][j].ev.n \in Nat /\ respBuf[owner[c]][j].ev.n <= 0
  BY <1>2, <1>5, OrderTypes DEF EventOrder, BufferInv
<1>6. BufferedInv'
  <2> SUFFICES ASSUME NEW d \in handlers', ~HasTerminal(d)'
               PROVE  /\ \A j \in DOMAIN respBuf[owner[d]] : respBuf[owner[d]][j].call = d =>
                           Filled(respBuf[owner[d]], d, Base(d) + 1, respBuf[owner[d]][j].ev.n)
                      /\ MayEmit(d) => Filled(respBuf[owner[d]], d, Base(d) + 1, emitted[d])
    BY ZenonT(60), <1>0 DEF BufferedInv, Base, Pushing, MayEmit, Awaits
  <2>1. CASE d = c
    BY <1>2, <1>4, <1>5, <2>1 DEF Filled
  <2>2. CASE d # c
    BY Zenon, <1>0, <2>2 DEF GapInv, BufferedInv, HasTerminal
  <2> QED
    BY Zenon, <2>1, <2>2
<1> QED
  BY Zenon, <1>1, <1>6 DEF GapInv

-----------------------------------------------------------------------------
(* The steps of the consumer leave no gap.                                 *)
LEMMA ConsumerKeepsGap ==
    ASSUME TypeOK, StreamInv, QuietInv, EventOrder, GapInv, Alone, ConsumerNext, UNCHANGED providerVars
    PROVE  GapInv'
<1> USE ConsumerAssumption
<1>0. /\ disp \in [Consumer -> DispState] /\ emitted' = emitted /\ task' = task /\ thread' = thread
      /\ \A c \in Call : MayEmit(c)' => MayEmit(c)
  BY Zenon DEF TypeOK, ConsumerTypeOK, providerVars, MayEmit, Awaits
<1>1. ASSUME NEW c \in Call, NativeCall(c) PROVE GapInv'
  BY Zenon, <1>1, BeginGap
<1>2. ASSUME NEW c \in Call,
             PublishRequest(c) \/ PublishFail(c) \/ SendOneWay(c) \/ ReadTerminal(c)
               \/ DropStream(c) \/ PublishCancel(c)
      PROVE  GapInv'
  <2>1. UNCHANGED <<got, disp, respBuf>> /\ handlers' \subseteq handlers
    BY Zenon, <1>2 DEF PublishRequest, PublishFail, SendOneWay, ReadTerminal, DropStream, PublishCancel, busVars
  <2> QED
    BY Zenon, <1>0, <2>1, GapFrame
<1>3. ASSUME NEW k \in Consumer, Dispatch(k) PROVE GapInv'
  BY Zenon, <1>3, DispatchGap
<1>4. ASSUME NEW k \in Consumer, PushEvent(k) PROVE GapInv'
  <2> DEFINE c == disp[k].call
             w == disp[k].ev
             e == FirstEvent(w)
  <2>1. /\ disp[k].pc = "push" /\ c \in Call /\ w \in WireEvent /\ w.n \in Nat
        /\ UNCHANGED <<respBuf, handlers>>
    BY Zenon, <1>4, OrderTypes DEF PushEvent, busVars
  <2>2. w.n = Len(got[c]) + 1
    BY Zenon, <2>1 DEF GapInv, NextInv
  <2>3. CASE ReceiverGone(c)
    <3>1. got' = got /\ disp'[k].pc = "release"
      BY <1>0, <1>4, <2>3 DEF PushEvent
    <3>2. c \notin handlers
      BY Zenon, <2>1, <2>3 DEF ReceiverGone, StreamInv, StageInv
    <3> QED
      BY Zenon, <1>0, <2>1, <3>1, <3>2, ReleaseGap
  <2>4. CASE ~ReceiverGone(c)
    <3>1. e \in Event /\ e.n = w.n
      BY Zenon, <2>1 DEF FirstEvent, Event, WireEvent, WireKind
    <3>2. /\ got' = [got EXCEPT ![c] = Append(@, e)]
          /\ disp' = [disp EXCEPT ![k] =
                       CASE w.kind = "completewith" ->
                              [pc |-> "follow", call |-> c, n |-> w.n + 1]
                         [] w.kind # "completewith" /\ IsTerminalWire(w) ->
                              [pc |-> "release", call |-> c]
                         [] OTHER -> DispIdle]
      BY Zenon, <1>4, <2>4 DEF PushEvent
    <3>3. /\ disp'[k].pc # "push"
          /\ disp'[k].pc = "follow" => disp'[k].call = c /\ disp'[k].n = w.n + 1
      BY Zenon, <1>0, <3>2 DEF DispIdle
    <3> HIDE DEF e, w
    <3>4. e.n = Len(got[c]) + 1 /\ (disp'[k].pc = "follow" => disp'[k].call = c /\ disp'[k].n = e.n + 1)
      BY Zenon, <2>2, <3>1, <3>3
    <3> HIDE DEF c
    <3>5. disp[k].call = c
      BY Zenon DEF c
    <3> QED
      BY Zenon, <1>0, <2>1, <3>1, <3>2, <3>3, <3>4, <3>5, PushGap
  <2> QED
    BY Zenon, <2>3, <2>4
<1>5. ASSUME NEW k \in Consumer, PushFollowUp(k) PROVE GapInv'
  <2> DEFINE c == disp[k].call
             e == [kind |-> "complete", n |-> disp[k].n]
  <2>1. /\ disp[k].pc = "follow" /\ c \in Call /\ disp[k].n \in Nat
        /\ UNCHANGED <<respBuf, handlers>> /\ disp'[k].pc = "release"
    BY Zenon, <1>0, <1>5, OrderTypes DEF PushFollowUp, busVars
  <2>2. e.n = Len(got[c]) + 1 /\ e \in Event /\ IsTerminal(e)
    BY Zenon, <2>1 DEF GapInv, NextInv, Event, IsTerminal
  <2>3. CASE ReceiverGone(c)
    <3>1. got' = got
      BY Zenon, <1>5, <2>3 DEF PushFollowUp
    <3> QED
      BY Zenon, <1>0, <2>1, <3>1, ReleaseGap
  <2>4. CASE ~ReceiverGone(c)
    <3>1. got' = [got EXCEPT ![c] = Append(@, e)]
      BY Zenon, <1>5, <2>4 DEF PushFollowUp
    <3> HIDE DEF e, c
    <3>2. disp[k].call = c
      BY Zenon DEF c
    <3> QED
      BY Zenon, <1>0, <2>1, <2>2, <3>1, <3>2, PushGap
  <2> QED
    BY Zenon, <2>3, <2>4
<1>6. ASSUME NEW k \in Consumer, ReleaseHandler(k) PROVE GapInv'
  <2>1. /\ disp[k].pc = "release" /\ disp[k].call \in Call /\ disp'[k].pc = "idle"
        /\ handlers' \subseteq handlers /\ UNCHANGED <<got, respBuf>>
    BY Zenon, <1>0, <1>6, OrderTypes DEF ReleaseHandler, busVars, DispIdle
  <2> QED
    BY Zenon, <1>0, <2>1, ReleaseGap
<1>7. ASSUME NEW k \in Consumer, ConsumerRelease(k) PROVE GapInv'
  <2>1. /\ got' = got /\ disp' = disp /\ handlers' = handlers
        /\ \A c \in Call : owner[c] = k => stage[c] \notin {"publishing", "open", "cancelling"}
    BY Zenon, <1>7 DEF ConsumerRelease, consumerVars
  <2>2. handlers = {}
    <3>1. ASSUME NEW c \in handlers PROVE FALSE
      <4>1. c \in Call /\ owner[c] = k
        BY Zenon DEF Alone, TypeOK, ConsumerTypeOK
      <4> QED
        BY Zenon, <2>1, <4>1 DEF StreamInv, StageInv
    <3> QED
      BY Zenon, <3>1
  <2> QED
    BY Zenon, <2>1, <2>2 DEF GapInv, BufferedInv, NextInv, NoGap
<1>8. ASSUME NEW k \in Consumer, ConsumerShutdown(k) \/ ConsumerCrash(k) PROVE GapInv'
  BY Zenon, <1>0, <1>8, GapFrame DEF ConsumerShutdown, ConsumerCrash, busVars, consumerVars
<1> QED
  BY ZenonT(40), <1>1, <1>2, <1>3, <1>4, <1>5, <1>6, <1>7, <1>8 DEF ConsumerNext

(* The steps of the provider leave no gap.                                 *)
LEMMA ProviderKeepsGap ==
    ASSUME TypeOK, ServiceInv, QuietInv, GapInv, Alone, ProviderNext, UNCHANGED consumerVars
    PROVE  GapInv'
<1>0. /\ got' = got /\ disp' = disp /\ handlers' = handlers /\ handlers \subseteq Call
      /\ task \in [Call -> TaskState] /\ thread \in ThreadState /\ BusTypeOK
  BY Zenon DEF consumerVars, TypeOK, ConsumerTypeOK, ProviderTypeOK
<1>1. ASSUME respBuf' = respBuf, emitted' = emitted,
             \A c \in Call : MayEmit(c)' => MayEmit(c) \/ emitted[c] = 0
      PROVE  GapInv'
  BY Zenon, <1>0, <1>1, GapFrame
<1>2. ASSUME ProviderStart \/ ProviderCrash \/ ProviderShutdown \/ ThreadStops \/ ProviderExit
      PROVE  GapInv'
  <2>1. respBuf' = respBuf /\ emitted' = emitted
    BY ZenonT(40), <1>2 DEF ProviderStart, ProviderCrash, ProviderShutdown, ThreadStops, ProviderExit, busVars
  <2>2. \A c \in Call : MayEmit(c)' => MayEmit(c)
    BY <1>0, <1>2 DEF ProviderStart, ProviderCrash, ProviderShutdown, ThreadStops, ProviderExit, ProcessGone,
         ThreadIdle, MayEmit, Awaits
  <2> QED
    BY ZenonT(40), <1>1, <2>1, <2>2
<1>3. ASSUME NEW k \in Consumer, HandleCancel(k) \/ HandleUnserved(k) \/ HandleRequest(k)
      PROVE  GapInv'
  <2>1. respBuf' = respBuf /\ emitted' = emitted /\ CanReceive(k) /\ Receive(k)
    BY Zenon, <1>3 DEF HandleCancel, HandleUnserved, HandleRequest
  <2>2. 1 \in DOMAIN reqBuf[k] /\ Head(reqBuf[k]) = reqBuf[k][1] /\ Head(reqBuf[k]).call \in Call
    BY Zenon, <1>0, <2>1, ReceiveFacts, ReceiveType
  <2>3. Head(reqBuf[k]).kind = "request" => emitted[Head(reqBuf[k]).call] = 0
    BY Zenon, <2>2 DEF QuietInv
  <2>4. ASSUME NEW c \in Call, MayEmit(c)' PROVE MayEmit(c) \/ emitted[c] = 0
    <3>1. CASE HandleCancel(k)
      BY Zenon, <2>4, <3>1 DEF HandleCancel, MayEmit, Awaits
    <3>2. CASE HandleUnserved(k)
      <4>1. /\ Head(reqBuf[k]).kind = "request" /\ task' = task
            /\ \/ thread' = [pc |-> "reject", call |-> Head(reqBuf[k]).call]
               \/ thread' = [pc |-> "undecodable", call |-> Head(reqBuf[k]).call]
        BY ZenonT(40), <3>2 DEF HandleUnserved
      <4>2. thread'.call = Head(reqBuf[k]).call
        BY <4>1
      <4> QED
        BY Zenon, <2>3, <2>4, <4>1, <4>2 DEF MayEmit, Awaits
    <3>3. CASE HandleRequest(k)
      <4>1. CASE c = Head(reqBuf[k]).call
        BY Zenon, <2>3, <3>3, <4>1 DEF HandleRequest
      <4>2. CASE c # Head(reqBuf[k]).call
        <5>1. task'[c] = task[c] /\ thread'.pc \in {"inline", "idle"}
          BY <1>0, <2>2, <3>3, <4>2 DEF HandleRequest, RunOrSpawn, ThreadIdle
        <5> QED
          BY ZenonT(40), <2>4, <5>1 DEF MayEmit, Awaits
      <4> QED
        BY Zenon, <4>1, <4>2
    <3> QED
      BY Zenon, <1>3, <3>1, <3>2, <3>3
  <2> QED
    BY Zenon, <1>1, <2>1, <2>4
<1>4. ASSUME Reject PROVE GapInv'
  <2>0. PICK c \in Call : c = thread.call
    BY Zenon, <1>0, <1>4, ThreadFields DEF Reject
  <2>1. /\ MayEmit(c) /\ thread' = ThreadIdle /\ task' = task
        /\ PublishOk(c, "rpcerror") \/ PublishErr(c)
    BY Zenon, <1>4, <2>0 DEF Reject, MayEmit, Awaits
  <2>2. task[c] = "none"
    BY Zenon, <1>4, <2>0 DEF Reject, ServiceInv, ThreadInv
  <2>3. ~MayEmit(c)' /\ \A d \in Call : MayEmit(d)' => MayEmit(d)
    BY Zenon, <2>1, <2>2 DEF MayEmit, Awaits, ThreadIdle
  <2>4. "rpcerror" \in WireKind
    BY Zenon DEF WireKind
  <2> QED
    BY Zenon, <1>0, <2>1, <2>3, <2>4, PublishGap
<1>5. ASSUME RejectUndecodable PROVE GapInv'
  <2>0. PICK c \in Call : c = thread.call
    BY Zenon, <1>0, <1>5, ThreadFields DEF RejectUndecodable
  <2>1. /\ MayEmit(c) /\ thread' = ThreadIdle
        /\ PublishOk(c, "rpcerror") \/ PublishErr(c)
    BY Zenon, <1>5, <2>0 DEF RejectUndecodable, MayEmit, Awaits
  <2>2. task' = [task EXCEPT ![c] = "done"] \/ task' = [task EXCEPT ![c] = "empty"]
    BY Zenon, <1>5, <2>0 DEF RejectUndecodable
  <2>3. ~MayEmit(c)' /\ \A d \in Call : MayEmit(d)' => MayEmit(d)
    BY Zenon, <1>0, <2>1, <2>2 DEF MayEmit, Awaits, ThreadIdle
  <2>4. "rpcerror" \in WireKind
    BY Zenon DEF WireKind
  <2> QED
    BY Zenon, <1>0, <2>1, <2>3, <2>4, PublishGap
<1>6. ASSUME NEW c \in Call, Poll(c) \/ Finish(c) \/ Yield(c) PROVE GapInv'
  <2>1. respBuf' = respBuf /\ emitted' = emitted
    BY Zenon, <1>6 DEF Poll, Finish, Yield, busVars
  <2>2. /\ \A d \in Call \ {c} : task'[d] = task[d]
        /\ thread' = thread \/ thread' = ThreadIdle
        /\ task'[c] = "done" \/ task[c] \in {"polling", "parked"}
    BY ZenonT(40), <1>0, <1>6 DEF Poll, Finish, Yield, End
  <2>3. \A d \in Call : MayEmit(d)' => MayEmit(d)
    BY <2>2 DEF MayEmit, Awaits, ThreadIdle
  <2> QED
    BY Zenon, <1>1, <2>1, <2>3
<1>7. ASSUME NEW c \in Call, Emit(c) PROVE GapInv'
  <2>1. PICK kind \in WireKind : PublishOk(c, kind)
    BY Zenon, <1>7, ProviderAssumption DEF Emit
  <2>2. MayEmit(c) /\ \A d \in Call : MayEmit(d)' => MayEmit(d)
    BY Zenon, <1>7 DEF Emit, MayEmit, Awaits
  <2> QED
    BY Zenon, <1>0, <2>1, <2>2, PublishGap
<1>8. ASSUME NEW c \in Call, EmitFails(c) PROVE GapInv'
  <2>1. PublishErr(c) /\ MayEmit(c) /\ End(c) /\ ~Awaits(c)
    BY Zenon, <1>8 DEF EmitFails, MayEmit, Awaits, Alone, ServiceInv, ThreadInv
  <2>2. /\ task'[c] = "done" /\ \A d \in Call \ {c} : task'[d] = task[d]
        /\ thread' = thread \/ thread' = ThreadIdle
    BY ZenonT(40), <1>0, <2>1 DEF End
  <2>3. ~MayEmit(c)' /\ \A d \in Call : MayEmit(d)' => MayEmit(d)
    BY <2>1, <2>2 DEF MayEmit, Awaits, ThreadIdle
  <2>4. "next" \in WireKind
    BY Zenon DEF WireKind
  <2> QED
    BY Zenon, <1>0, <2>1, <2>3, <2>4, PublishGap
<1> QED
  BY ZenonT(40), <1>2, <1>3, <1>4, <1>5, <1>6, <1>7, <1>8 DEF ProviderNext

(* The invariant behind the two theorems.                                  *)
LEMMA GapInvariant ==
    ASSUME Alone
    PROVE  Spec => []GapInv
<1>1. Init => GapInv
  BY DEF Init, BusInit, ConsumerInit, ProviderInit, GapInv, BufferedInv, NextInv, NoGap, DispIdle
<1>2. TypeOK /\ StreamInv /\ ServiceInv /\ QuietInv /\ EventOrder /\ GapInv /\ [Next]_vars => GapInv'
  <2> SUFFICES ASSUME TypeOK, StreamInv, ServiceInv, QuietInv, EventOrder, GapInv, [Next]_vars
               PROVE  GapInv'
    BY Zenon
  <2>1. CASE ConsumerNext /\ UNCHANGED providerVars
    BY Zenon, <2>1, ConsumerKeepsGap
  <2>2. CASE ProviderNext /\ UNCHANGED consumerVars
    BY Zenon, <2>2, ProviderKeepsGap
  <2>3. CASE UNCHANGED vars
    BY Zenon, <2>3, GapFrame DEF vars, busVars, consumerVars, providerVars, MayEmit, Awaits
  <2> QED
    BY Zenon, <2>1, <2>2, <2>3 DEF Next
<1> QED
  BY <1>1, <1>2, TypeCorrect, StreamsInvariant, ServiceInvariant, QuietInvariant, OrderInvariant, PTL DEF Spec

(* With one consumer, no observer and handlers that stop at an event they  *)
(* could not publish, no event of a stream is missing, whatever is killed, *)
(* restarted or refused a sample: a full buffer is backpressure.           *)
THEOREM NothingIsMissing ==
    ASSUME Alone
    PROVE  Spec => []NoGap
<1>1. GapInv => NoGap
  BY Zenon DEF GapInv
<1> QED
  BY <1>1, GapInvariant, PTL

-----------------------------------------------------------------------------
(* The refinement.                                                         *)

PhaseOf(s) ==
    CASE s \in {"idle", "sent"} -> "idle"
      [] s \in {"publishing", "open", "cancelling"} -> "open"
      [] OTHER -> "closed"

(* A step that moves one call and delivers nothing begins it, closes it,   *)
(* or changes nothing the application sees.                                *)
LEMMA StageStep ==
    ASSUME stage \in [Call -> Stage], NEW c \in Call, NEW s \in Stage,
           stage' = [stage EXCEPT ![c] = s], got' = got,
           \/ PhaseOf(s) = PhaseOf(stage[c])
           \/ PhaseOf(stage[c]) = "idle" /\ PhaseOf(s) = "open"
           \/ PhaseOf(stage[c]) = "open" /\ PhaseOf(s) = "closed"
    PROVE  [Contract!Next]_(Contract!vars)
<1> DEFINE ph == [d \in Call |-> PhaseOf(stage[d])]
<1>1. ph' = [ph EXCEPT ![c] = PhaseOf(s)]
  BY Zenon
<1>2. ph[c] = PhaseOf(stage[c]) /\ ph = [d \in Call |-> ph[d]]
  BY Zenon
<1>3. CASE PhaseOf(s) = PhaseOf(stage[c])
  <2>1. ph' = ph
    BY Zenon, <1>1, <1>2, <1>3
  <2> QED
    BY Zenon, <2>1 DEF Contract!vars, PhaseOf
<1>4. CASE PhaseOf(stage[c]) = "idle" /\ PhaseOf(s) = "open"
  <2>1. ph[c] = "idle" /\ ph' = [ph EXCEPT ![c] = "open"]
    BY Zenon, <1>1, <1>2, <1>4
  <2>2. Contract!Begin(c)
    BY Zenon, <2>1 DEF Contract!Begin, PhaseOf
  <2> QED
    BY Zenon, <2>2 DEF Contract!Next
<1>5. CASE PhaseOf(stage[c]) = "open" /\ PhaseOf(s) = "closed"
  <2>1. ph[c] = "open" /\ ph' = [ph EXCEPT ![c] = "closed"]
    BY Zenon, <1>1, <1>2, <1>5
  <2>2. Contract!Close(c)
    BY Zenon, <2>1 DEF Contract!Close, PhaseOf
  <2> QED
    BY Zenon, <2>2 DEF Contract!Next
<1> QED
  BY Zenon, <1>3, <1>4, <1>5

(* A step that pushes the next event of a stream delivers it.              *)
LEMMA PushStep ==
    ASSUME stage \in [Call -> Stage], NEW c \in Call, NEW e \in Event, stage' = stage,
           got' = [got EXCEPT ![c] = Append(@, e)], e.n = Len(got[c]) + 1, ~HasTerminal(c),
           PhaseOf(stage[c]) = "open"
    PROVE  [Contract!Next]_(Contract!vars)
<1> DEFINE ph == [d \in Call |-> PhaseOf(stage[d])]
<1>1. ph[c] = "open" /\ ph' = ph
  BY Zenon
<1>2. e = [kind |-> e.kind, n |-> Len(got[c]) + 1] /\ e.kind \in {"next", "complete", "error"}
  BY Zenon DEF Event
<1>3. ~Contract!Ended(c)
  BY Zenon DEF Contract!Ended, HasTerminal, IsTerminal
<1>4. got' = [got EXCEPT ![c] = Append(@, [kind |-> e.kind, n |-> Len(got[c]) + 1])]
  BY Zenon, <1>2
<1>5. Contract!Deliver(c)
  BY Zenon, <1>1, <1>2, <1>3, <1>4 DEF Contract!Deliver, PhaseOf
<1> QED
  BY Zenon, <1>5 DEF Contract!Next

(* RpcChannel implements CallContract: under the assumptions above, what   *)
(* the application sees of a call (native_call, the stream it returns and  *)
(* its drop) is the begin, the deliveries and the close of the contract,   *)
(* for any buffer sizes, any faults and any number of restarts.            *)
THEOREM ImplementsContract ==
    ASSUME Alone
    PROVE  Spec => ContractSpec
<1> USE ConsumerAssumption
<1>1. Init => Contract!Init
  <2> SUFFICES ASSUME Init PROVE Contract!Init
    BY Zenon
  <2>1. stage = [c \in Call |-> "idle"] /\ got = [c \in Call |-> <<>>]
    BY Zenon DEF Init, ConsumerInit
  <2> QED
    BY Zenon, <2>1 DEF Contract!Init
<1>2. TypeOK /\ StreamInv /\ GapInv /\ [Next]_vars => [Contract!Next]_(Contract!vars)
  <2> SUFFICES ASSUME TypeOK, StreamInv, GapInv, [Next]_vars PROVE [Contract!Next]_(Contract!vars)
    BY Zenon
  <2>0. stage \in [Call -> Stage] /\ disp \in [Consumer -> DispState] /\ got \in [Call -> Seq(Event)]
    BY Zenon DEF TypeOK, ConsumerTypeOK
  <2>1. ASSUME stage' = stage, got' = got PROVE [Contract!Next]_(Contract!vars)
    BY Zenon, <2>1 DEF Contract!vars
  <2>2. ASSUME NEW c \in Call, NativeCall(c) PROVE [Contract!Next]_(Contract!vars)
    BY ZenonT(40), <2>0, <2>2, StageStep DEF NativeCall, Stage, PhaseOf
  <2>3. ASSUME NEW c \in Call, PublishRequest(c) PROVE [Contract!Next]_(Contract!vars)
    BY Zenon, <2>0, <2>3, StageStep DEF PublishRequest, Stage, PhaseOf
  <2>4. ASSUME NEW c \in Call, PublishFail(c) PROVE [Contract!Next]_(Contract!vars)
    BY Zenon, <2>0, <2>4, StageStep DEF PublishFail, Stage, PhaseOf
  <2>5. ASSUME NEW c \in Call, SendOneWay(c) PROVE [Contract!Next]_(Contract!vars)
    BY ZenonT(40), <2>0, <2>5, StageStep DEF SendOneWay, Stage, PhaseOf
  <2>6. ASSUME NEW c \in Call, DropStream(c) PROVE [Contract!Next]_(Contract!vars)
    <3>1. PICK s \in {"cancelling", "dropped"} : stage' = [stage EXCEPT ![c] = s]
      BY ZenonT(40), <2>6 DEF DropStream
    <3> QED
      BY ZenonT(40), <2>0, <2>6, <3>1, StageStep DEF DropStream, Stage, PhaseOf
  <2>7. ASSUME NEW c \in Call, PublishCancel(c) PROVE [Contract!Next]_(Contract!vars)
    BY ZenonT(40), <2>0, <2>7, StageStep DEF PublishCancel, Stage, PhaseOf
  <2>8. ASSUME NEW k \in Consumer, PushEvent(k) PROVE [Contract!Next]_(Contract!vars)
    <3>0. PICK c \in Call : c = disp[k].call
      BY Zenon, <2>8, OrderTypes DEF PushEvent
    <3>1. PICK w \in WireEvent : w = disp[k].ev /\ w.n \in Nat
      BY ZenonT(40), <2>8, OrderTypes DEF PushEvent
    <3>2. disp[k].pc = "push" /\ stage' = stage
      BY ZenonT(40), <2>8 DEF PushEvent
    <3>3. CASE ReceiverGone(c)
      <4>1. got' = got
        BY Zenon, <2>8, <3>0, <3>3 DEF PushEvent
      <4> QED
        BY ZenonT(40), <2>1, <3>2, <4>1
    <3>4. CASE ~ReceiverGone(c)
      <4>1. got' = [got EXCEPT ![c] = Append(@, FirstEvent(w))]
        BY ZenonT(40), <2>8, <3>0, <3>1, <3>4 DEF PushEvent
      <4>2. FirstEvent(w) \in Event /\ FirstEvent(w).n = w.n
        BY Zenon, <3>1 DEF FirstEvent, Event, WireEvent, WireKind
      <4>3. w.n = Len(got[c]) + 1
        BY Zenon, <3>0, <3>1, <3>2 DEF GapInv, NextInv
      <4>4. ~HasTerminal(c) /\ stage[c] \notin {"idle", "sent"}
        BY Zenon, <3>0, <3>2 DEF StreamInv, DispatchInv, PushInv
      <4>5. PhaseOf(stage[c]) = "open"
        BY Zenon, <2>0, <3>4, <4>4 DEF ReceiverGone, Stage, PhaseOf
      <4> QED
        BY ZenonT(40), <2>0, <3>2, <4>1, <4>2, <4>3, <4>4, <4>5, PushStep
    <3> QED
      BY ZenonT(40), <3>3, <3>4
  <2>9. ASSUME NEW k \in Consumer, PushFollowUp(k) PROVE [Contract!Next]_(Contract!vars)
    <3>0. PICK c \in Call : c = disp[k].call
      BY Zenon, <2>9, OrderTypes DEF PushFollowUp
    <3>1. PICK n \in Nat : n = disp[k].n
      BY ZenonT(40), <2>9, OrderTypes DEF PushFollowUp
    <3>2. disp[k].pc = "follow" /\ stage' = stage
      BY Zenon, <2>9 DEF PushFollowUp
    <3>3. CASE ReceiverGone(c)
      <4>1. got' = got
        BY ZenonT(40), <2>9, <3>0, <3>3 DEF PushFollowUp
      <4> QED
        BY Zenon, <2>1, <3>2, <4>1
    <3>4. CASE ~ReceiverGone(c)
      <4> DEFINE e == [kind |-> "complete", n |-> n]
      <4>1. got' = [got EXCEPT ![c] = Append(@, e)]
        BY Zenon, <2>9, <3>0, <3>1, <3>4 DEF PushFollowUp
      <4>2. e \in Event /\ e.n = n
        BY Zenon DEF Event
      <4>3. n = Len(got[c]) + 1
        BY Zenon, <3>0, <3>1, <3>2 DEF GapInv, NextInv
      <4>4. ~HasTerminal(c) /\ stage[c] \notin {"idle", "sent"}
        BY Zenon, <3>0, <3>2 DEF StreamInv, DispatchInv, PushInv
      <4>5. PhaseOf(stage[c]) = "open"
        BY Zenon, <2>0, <3>4, <4>4 DEF ReceiverGone, Stage, PhaseOf
      <4> HIDE DEF e
      <4> QED
        BY ZenonT(40), <2>0, <3>2, <4>1, <4>2, <4>3, <4>4, <4>5, PushStep
    <3> QED
      BY Zenon, <3>3, <3>4
  <2>10. ASSUME NEW c \in Call, ReadTerminal(c) PROVE [Contract!Next]_(Contract!vars)
    BY Zenon, <2>1, <2>10 DEF ReadTerminal
  <2>11. ASSUME NEW k \in Consumer,
               Dispatch(k) \/ ReleaseHandler(k) \/ ConsumerShutdown(k) \/ ConsumerRelease(k) \/ ConsumerCrash(k)
         PROVE [Contract!Next]_(Contract!vars)
    BY Zenon, <2>1, <2>11 DEF Dispatch, ReleaseHandler, ConsumerShutdown, ConsumerRelease, ConsumerCrash, consumerVars
  <2>12. ASSUME UNCHANGED consumerVars PROVE [Contract!Next]_(Contract!vars)
    BY Zenon, <2>1, <2>12 DEF consumerVars
  <2>13. ASSUME ConsumerNext PROVE [Contract!Next]_(Contract!vars)
    BY ZenonT(40), <2>2, <2>3, <2>4, <2>5, <2>6, <2>7, <2>8, <2>9, <2>10, <2>11, <2>13 DEF ConsumerNext
  <2> QED
    BY Zenon, <2>12, <2>13 DEF Next, vars
<1> QED
  BY <1>1, <1>2, TypeCorrect, StreamsInvariant, GapInvariant, PTL DEF Spec, ContractSpec, Contract!Spec
=============================================================================
