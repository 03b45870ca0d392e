------------------------------ MODULE HostProofs ------------------------------
(***************************************************************************)
(* Calls served by JavaScript (JsonHost): what reaches the caller is what  *)
(* JavaScript sent, and no call of a live bridge ends without an answer,   *)
(* for any number of calls, bridges and events and any limit of the table. *)
(***************************************************************************)
EXTENDS JsonHost, FiniteSetTheorems, TLAPS

(* A leaf that names no prover is tried with these, one after the other.   *)
USE SMT, ZenonT(30), SMTT(30), Z3

-----------------------------------------------------------------------------
(* What JavaScript pushes, and what it becomes.                            *)

EnvOf(x) == IF x.op = "emit" THEN next_envelope(x.value) ELSE terminal_envelope(x.value)
Pushes == {x \in [op : {"emit", "resolve"}, value : JsValues] : EnvOf(x) # Refused}
Samples == [kind : {"Next", "Complete", "CompleteWith", "Error", "RpcError"}, data : {"null", "value", "misfit", "absent"}]
Envelopes == {EnvOf(x) : x \in Pushes}
Pcs == {"new", "starting", "reading"} \cup Ended
Records == [pc : Pcs, bridge : 0..MaxBridges, answered : BOOLEAN, chan : Seq(Envelopes), wire : Seq(Samples)]

\* One call: r is its record and s what JavaScript pushed into it.
ResolveIsLast(s) == \A i \in 1..Len(s) : s[i].op = "resolve" => i = Len(s)
Resolved(s) == s # <<>> /\ s[Len(s)].op = "resolve"
Unresolved(s) == \A i \in 1..Len(s) : s[i].op # "resolve"
ErrorsEnd(w) == \A i \in 1..Len(w) : Terminal(w[i]) => i = Len(w)
FollowsJs(w, s) == \A i \in 1..Len(w) : w[i].kind # "RpcError" => i <= Len(s) /\ w[i] = Meaning(s[i])
\* While the handler reads, the wire and the channel together are what was pushed.
InStep(r, s) ==
    /\ Len(s) = Len(r.wire) + Len(r.chan)
    /\ \A i \in 1..Len(r.wire) : r.wire[i].kind # "RpcError"
    /\ \A j \in 1..Len(r.chan) : r.chan[j] = EnvOf(s[Len(r.wire) + j])
    /\ ~r.answered => r.wire = <<>>

CallOK(r, s, c) ==
    /\ r \in Records /\ s \in Seq(Pushes) /\ ResolveIsLast(s)
    /\ ErrorsEnd(r.wire) /\ FollowsJs(r.wire, s)
    /\ r.pc \in {"new", "starting"} => s = <<>> /\ r.wire = <<>> /\ r.chan = <<>>
    /\ r.pc = "reading" => InStep(r, s) /\ c \notin OneWay
    /\ r.pc \in {"starting", "reading"} => r.bridge # 0

\* What the steps make of the record of a call.
Rejected(r, c, q) == [r EXCEPT !.pc = q, !.wire = IF c \in OneWay THEN @ ELSE Append(@, RpcError)]
Failed(r) == [r EXCEPT !.pc = "ended", !.chan = <<>>, !.wire = Append(@, RpcError)]
Closed(r) == [r EXCEPT !.pc = "ended"]
Cancelled(r) == [r EXCEPT !.pc = "cancelled", !.chan = <<>>]
Begun(r, b, q) == [r EXCEPT !.pc = q, !.bridge = b]
Read(r, e) == [r EXCEPT !.chan = Tail(@), !.answered = TRUE, !.wire = Append(@, e)]
Pushed(r, x) == [r EXCEPT !.chan = Append(@, EnvOf(x))]

\* The tables.
EntryOK(b, k) ==
    LET c == pending[b][k] IN
    /\ c \in Calls /\ CidOf[c] = k
    /\ calls[c].bridge = b /\ calls[c].pc \notin {"new", "starting"} /\ Unresolved(sent[c])
TableOK(b) ==
    /\ DOMAIN pending[b] \subseteq Cids /\ IsFiniteSet(DOMAIN pending[b])
    /\ Cardinality(DOMAIN pending[b]) <= MaxPending
    /\ \A k \in DOMAIN pending[b] : EntryOK(b, k)

\* A call of the live bridge is open until it is resolved.
OpenOrResolved(c) ==
    calls[c].pc = "reading" /\ calls[c].bridge = live
    => \/ CidOf[c] \in DOMAIN pending[live] /\ pending[live][CidOf[c]] = c
       \/ Resolved(sent[c])
Answered(c) ==
    c \notin OneWay /\ calls[c].pc \in Ended \ {"cancelled"} /\ calls[c].bridge = live /\ live # 0
    => calls[c].wire # <<>> /\ Terminal(calls[c].wire[Len(calls[c].wire)])

HostInv ==
    /\ calls \in [Calls -> Records] /\ sent \in [Calls -> Seq(Pushes)]
    /\ DOMAIN pending = Bridges /\ live \in 0..created /\ created \in Bridges /\ told \subseteq Cids
    /\ \A c \in Calls : CallOK(calls[c], sent[c], c) /\ calls[c].bridge <= created
    /\ \A b \in Bridges : TableOK(b)
    /\ \A c \in Calls : OpenOrResolved(c) /\ Answered(c)
-----------------------------------------------------------------------------
(* The envelopes.                                                          *)

\* Of sequences: their length, their elements.
LEMMA SeqLength ==
    ASSUME NEW S, NEW q \in Seq(S)
    PROVE  Len(q) \in Nat /\ DOMAIN q = 1..Len(q) /\ (q # <<>> => Len(q) \in Nat \ {0})
OBVIOUS

\* The elements of a sequence are in its set.
LEMMA SeqElement ==
    ASSUME NEW S, NEW q \in Seq(S), NEW i \in 1..Len(q)
    PROVE  q[i] \in S
OBVIOUS

\* The values of the envelopes, by their keys.
LEMMA ValueShapes ==
    ASSUME NEW v \in JsValues
    PROVE  /\ v.data \in Payloads /\ v.keys \in {{}, {"type", "data"}, {"data"}, {"error"}}
           /\ v.keys # {} => v.shape = "object"
BY HostAssumption DEF HostAssumption, AllValues, Scalar, Object, Payloads

\* What an accepted push means, and that the conversion finds that meaning or none
\* (next_envelope, terminal_envelope, event_from_json).
LEMMA PushMeans ==
    ASSUME NEW x \in Pushes
    PROVE  /\ event_from_json(EnvOf(x)) # NoEvent
              => event_from_json(EnvOf(x)) = Meaning(x) /\ Meaning(x) \in Samples
           /\ Terminal(Meaning(x)) <=> x.op = "resolve"
           /\ Meaning(x).kind # "RpcError"
<1> DEFINE v == x.value
<1>1. x.op \in {"emit", "resolve"} /\ v \in JsValues /\ EnvOf(x) # Refused  BY DEF Pushes
<1>2. v.data \in Payloads /\ v.keys \in {{}, {"type", "data"}, {"data"}, {"error"}}
      /\ (v.keys # {} => v.shape = "object")
  BY <1>1, ValueShapes
<1>3. CASE x.op = "emit"
  <2>1. v.keys = {"data"} /\ EnvOf(x) = [type |-> "next", data |-> v.data]
    BY <1>1, <1>2, <1>3 DEF EnvOf, next_envelope, Envelope
  <2>2. Meaning(x) = [kind |-> "Next", data |-> v.data]  BY <2>1, <1>3 DEF Meaning, Sample
  <2>3. event_from_json(EnvOf(x)) # NoEvent => event_from_json(EnvOf(x)) = Meaning(x)
    BY <2>1, <2>2 DEF event_from_json, Fits, Sample, NoEvent
  <2> QED  BY <2>2, <2>3, <1>2, <1>3 DEF Samples, Terminal, Payloads
<1>4. CASE x.op = "resolve"
  <2>1. CASE v.keys = {"data"}
    <3>1. EnvOf(x) = [type |-> "complete", data |-> v.data]
      BY <1>1, <1>2, <1>4, <2>1 DEF EnvOf, terminal_envelope, HasData, Envelope
    <3>2. Meaning(x) = [kind |-> "CompleteWith", data |-> v.data]  BY <2>1, <1>4 DEF Meaning, Sample
    <3>3. event_from_json(EnvOf(x)) # NoEvent => event_from_json(EnvOf(x)) = Meaning(x)
      BY <3>1, <3>2, <1>2 DEF event_from_json, Fits, Sample, NoEvent, Payloads
    <3> QED  BY <3>2, <3>3, <1>2, <1>4 DEF Samples, Terminal, Payloads
  <2>2. CASE v.keys = {"error"}
    <3>1. EnvOf(x) = [type |-> "error", data |-> v.data]
      BY <1>1, <1>2, <1>4, <2>2 DEF EnvOf, terminal_envelope, HasData, Envelope
    <3>2. Meaning(x) = [kind |-> "Error", data |-> v.data]  BY <2>2, <1>4 DEF Meaning, Sample
    <3>3. event_from_json(EnvOf(x)) # NoEvent => event_from_json(EnvOf(x)) = Meaning(x)
      BY <3>1, <3>2, <1>2 DEF event_from_json, Fits, Sample, NoEvent, Payloads
    <3> QED  BY <3>2, <3>3, <1>2, <1>4 DEF Samples, Terminal, Payloads
  <2>3. CASE v.keys = {}
    <3>1. EnvOf(x) = [type |-> "complete", data |-> "absent"]
      BY <1>1, <1>2, <1>4, <2>3 DEF EnvOf, terminal_envelope, HasData, Envelope
    <3>2. Meaning(x) = [kind |-> "Complete", data |-> "absent"]  BY <2>3, <1>4 DEF Meaning, Sample
    <3>3. event_from_json(EnvOf(x)) = Meaning(x)
      BY <3>1, <3>2 DEF event_from_json, Fits, Sample, NoEvent
    <3> QED  BY <3>2, <3>3, <1>4 DEF Samples, Terminal
  <2>4. v.keys # {"type", "data"}
    <3> SUFFICES ASSUME v.keys = {"type", "data"} PROVE FALSE  OBVIOUS
    <3>1. EnvOf(x) = terminal_envelope(v)  BY <1>4 DEF EnvOf
    <3>2. "type" \in v.keys  OBVIOUS
    <3>3. terminal_envelope(v) = Refused  BY <3>2 DEF terminal_envelope
    <3> QED  BY <3>1, <3>3, <1>1
  <2> QED  BY <1>2, <2>1, <2>2, <2>3, <2>4
<1> QED  BY <1>1, <1>3, <1>4

-----------------------------------------------------------------------------
(* One call.                                                               *)

\* Positions in the wire, the channel and what was pushed.
LEMMA NextIndex ==
    ASSUME NEW a \in Nat, NEW b \in Nat \ {0}, NEW l, l = a + b
    PROVE  a + 1 \in 1..l /\ 1 \in 1..b
OBVIOUS

\* An index of what follows the first element.
LEMMA ShiftIndex ==
    ASSUME NEW a \in Nat, NEW b \in Nat \ {0}, NEW j \in 1..(b - 1)
    PROVE  j + 1 \in 1..b /\ a + (j + 1) = (a + 1) + j
OBVIOUS

\* An index of a sequence with one more element.
LEMMA LastIndex ==
    ASSUME NEW b \in Nat, NEW b2, b2 = b + 1, NEW j \in 1..b2
    PROVE  j \in 1..b \/ j = b + 1
OBVIOUS

\* Before the end of what was pushed, the wire has no terminal sample.
LEMMA NoneEndedYet ==
    ASSUME NEW r, NEW s, NEW c, CallOK(r, s, c), r.pc = "reading", r.chan # <<>>
    PROVE  \A i \in 1..Len(r.wire) : ~Terminal(r.wire[i])
<1> SUFFICES ASSUME NEW i \in 1..Len(r.wire) PROVE ~Terminal(r.wire[i])  OBVIOUS
<1>1. /\ r.wire \in Seq(Samples) /\ r.chan \in Seq(Envelopes) /\ s \in Seq(Pushes)
      /\ Len(s) = Len(r.wire) + Len(r.chan) /\ r.wire[i].kind # "RpcError"
      /\ FollowsJs(r.wire, s) /\ ResolveIsLast(s)
  BY DEF CallOK, Records, InStep
<1>2. Len(r.wire) \in Nat /\ Len(s) \in Nat /\ Len(r.chan) \in Nat \ {0}
  BY <1>1, SeqLength, Zenon
<1> DEFINE a == Len(r.wire)
           b == Len(r.chan)
           l == Len(s)
<1>3. i <= Len(s) /\ i # Len(s) /\ i \in 1..Len(s)
  <2>1. a \in Nat /\ b \in Nat \ {0} /\ l = a + b /\ i \in 1..a  BY <1>1, <1>2
  <2> HIDE DEF a, b, l
  <2>2. i <= l /\ i # l /\ i \in 1..l  BY <2>1
  <2> QED  BY <2>2 DEF l
<1>4. s[i] \in Pushes /\ r.wire[i] = Meaning(s[i]) /\ s[i].op # "resolve"
  BY <1>1, <1>3, SeqElement, Zenon DEF FollowsJs, ResolveIsLast
<1> QED  BY <1>4, PushMeans

\* A technical error may follow a wire without terminal sample.
LEMMA ErrorAppended ==
    ASSUME NEW w \in Seq(Samples), NEW s \in Seq(Pushes), FollowsJs(w, s), \A i \in 1..Len(w) : ~Terminal(w[i])
    PROVE  /\ Append(w, RpcError) \in Seq(Samples) /\ ErrorsEnd(Append(w, RpcError))
           /\ FollowsJs(Append(w, RpcError), s)
           /\ Append(w, RpcError) # <<>> /\ Terminal(Append(w, RpcError)[Len(Append(w, RpcError))])
<1>1. RpcError \in Samples /\ RpcError.kind = "RpcError"  BY DEF RpcError, Sample, Samples
<1> DEFINE w2 == Append(w, RpcError)
<1>2. /\ w2 \in Seq(Samples) /\ Len(w2) = Len(w) + 1 /\ w2[Len(w) + 1] = RpcError
      /\ \A i \in 1..Len(w) : w2[i] = w[i]
  BY <1>1
<1> HIDE DEF w2
<1>3. ErrorsEnd(w2)  BY <1>2 DEF ErrorsEnd
<1>4. FollowsJs(w2, s)
  <2> SUFFICES ASSUME NEW i \in 1..Len(w2), w2[i].kind # "RpcError"
               PROVE  i <= Len(s) /\ w2[i] = Meaning(s[i])
    BY Zenon DEF FollowsJs
  <2>1. i \in 1..Len(w) \/ i = Len(w) + 1  BY <1>2
  <2>2. i # Len(w) + 1  BY Zenon, <1>1, <1>2
  <2>3. i \in 1..Len(w) /\ w2[i] = w[i]  BY Zenon, <1>2, <2>1, <2>2
  <2> QED  BY Zenon, <2>3 DEF FollowsJs
<1>5. w2 # <<>> /\ Terminal(w2[Len(w2)])  BY <1>1, <1>2 DEF Terminal
<1> QED  BY <1>2, <1>3, <1>4, <1>5 DEF w2

\* A call refused before it was read answers with an error (Reject).
LEMMA RejectOK ==
    ASSUME NEW r, NEW s, NEW c, CallOK(r, s, c), r.wire = <<>>, NEW q \in Ended
    PROVE  /\ CallOK(Rejected(r, c, q), s, c) /\ Rejected(r, c, q).pc = q /\ Rejected(r, c, q).bridge = r.bridge
           /\ c \notin OneWay => Rejected(r, c, q).wire # <<>> /\ Terminal(Rejected(r, c, q).wire[Len(Rejected(r, c, q).wire)])
<1> DEFINE r2 == Rejected(r, c, q)
<1>0. r2 = [r EXCEPT !.pc = q, !.wire = IF c \in OneWay THEN @ ELSE Append(@, RpcError)]  BY DEF Rejected
<1> HIDE DEF r2
<1> DEFINE w2 == IF c \in OneWay THEN r.wire ELSE Append(r.wire, RpcError)
<1>1. r \in Records /\ s \in Seq(Pushes) /\ r.wire \in Seq(Samples) /\ FollowsJs(r.wire, s) /\ ErrorsEnd(r.wire)
      /\ ResolveIsLast(s)
  BY DEF CallOK, Records
<1>2. \A i \in 1..Len(r.wire) : ~Terminal(r.wire[i])  OBVIOUS
<1>3. /\ w2 \in Seq(Samples) /\ ErrorsEnd(w2) /\ FollowsJs(w2, s)
      /\ c \notin OneWay => w2 # <<>> /\ Terminal(w2[Len(w2)])
  BY <1>1, <1>2, ErrorAppended, Zenon
<1> HIDE DEF w2
<1>4. r2 = [r EXCEPT !.pc = q, !.wire = w2]  BY <1>0 DEF w2
<1>5. r2 \in Records /\ r2.pc = q /\ r2.bridge = r.bridge /\ r2.wire = w2
  <2>1. q \in Pcs  BY DEF Pcs
  <2> QED  BY <2>1, <1>1, <1>3, <1>4, ZenonT(40) DEF Records
<1>6. q \notin {"new", "starting", "reading"}  BY Zenon DEF Ended
<1>7. CallOK(r2, s, c)  BY <1>1, <1>3, <1>5, <1>6 DEF CallOK
<1> QED  BY <1>3, <1>5, <1>7, Zenon DEF r2

\* An event that does not encode ends the call with an error (Unencodable).
LEMMA UnencodableOK ==
    ASSUME NEW r, NEW s, NEW c, CallOK(r, s, c), r.pc = "reading", r.chan # <<>>
    PROVE  /\ CallOK(Failed(r), s, c) /\ Failed(r).pc = "ended" /\ Failed(r).bridge = r.bridge
           /\ Failed(r).wire # <<>> /\ Terminal(Failed(r).wire[Len(Failed(r).wire)])
<1> DEFINE r2 == Failed(r)
<1>0. r2 = [r EXCEPT !.pc = "ended", !.chan = <<>>, !.wire = Append(@, RpcError)]  BY DEF Failed
<1> HIDE DEF r2
<1> DEFINE w2 == Append(r.wire, RpcError)
<1>1. r \in Records /\ s \in Seq(Pushes) /\ r.wire \in Seq(Samples) /\ FollowsJs(r.wire, s) /\ ErrorsEnd(r.wire)
      /\ ResolveIsLast(s)
  BY DEF CallOK, Records
<1>2. \A i \in 1..Len(r.wire) : ~Terminal(r.wire[i])  BY NoneEndedYet
<1>3. /\ w2 \in Seq(Samples) /\ ErrorsEnd(w2) /\ FollowsJs(w2, s)
      /\ w2 # <<>> /\ Terminal(w2[Len(w2)])
  BY <1>1, <1>2, ErrorAppended
<1> HIDE DEF w2
<1>4. r2 = [r EXCEPT !.pc = "ended", !.chan = <<>>, !.wire = w2]  BY <1>0 DEF w2
<1>5. r2 \in Records /\ r2.pc = "ended" /\ r2.bridge = r.bridge /\ r2.wire = w2
  <2>1. "ended" \in Pcs  BY DEF Pcs, Ended
  <2>2. <<>> \in Seq(Envelopes)  OBVIOUS
  <2> QED  BY <2>1, <2>2, <1>1, <1>3, <1>4, ZenonT(40) DEF Records
<1>7. CallOK(r2, s, c)  BY <1>1, <1>3, <1>5, Zenon DEF CallOK
<1> QED  BY <1>3, <1>5, <1>7, Zenon DEF r2

\* A call that stops reading keeps its wire (close, Cancel).
LEMMA EndOK ==
    ASSUME NEW r, NEW s, NEW c, CallOK(r, s, c)
    PROVE  /\ CallOK(Closed(r), s, c) /\ Closed(r).pc = "ended"
           /\ Closed(r).bridge = r.bridge /\ Closed(r).wire = r.wire
           /\ CallOK(Cancelled(r), s, c) /\ Cancelled(r).pc = "cancelled" /\ Cancelled(r).bridge = r.bridge
<1>1. r \in Records /\ s \in Seq(Pushes) /\ FollowsJs(r.wire, s) /\ ErrorsEnd(r.wire) /\ ResolveIsLast(s)
  BY Zenon DEF CallOK
<1>2. "ended" \in Pcs /\ "cancelled" \in Pcs  BY DEF Pcs, Ended
<1>3. <<>> \in Seq(Envelopes)  OBVIOUS
<1>4. Closed(r) \in Records /\ Closed(r).pc = "ended" /\ Closed(r).bridge = r.bridge /\ Closed(r).wire = r.wire
  BY <1>1, <1>2, Zenon DEF Records, Closed
<1>5. /\ Cancelled(r) \in Records /\ Cancelled(r).pc = "cancelled" /\ Cancelled(r).bridge = r.bridge
      /\ Cancelled(r).wire = r.wire
  BY <1>1, <1>2, <1>3, Zenon DEF Records, Cancelled
<1> QED  BY <1>1, <1>4, <1>5, Zenon DEF CallOK

\* A call that starts, or that JavaScript was handed (dispatch_json, start_call).
LEMMA StartOK ==
    ASSUME NEW r, NEW s, NEW c, CallOK(r, s, c), r.pc \in {"new", "starting"}, NEW b \in 1..MaxBridges, 
           NEW q \in {"starting", "reading", "ended"}, q = "reading" => c \notin OneWay
    PROVE  CallOK(Begun(r, b, q), s, c) /\ Begun(r, b, q).pc = q /\ Begun(r, b, q).bridge = b
<1> DEFINE r2 == Begun(r, b, q)
<1>0. r2 = [r EXCEPT !.pc = q, !.bridge = b]  BY DEF Begun
<1> HIDE DEF r2
<1>1. r \in Records /\ s = <<>> /\ r.wire = <<>> /\ r.chan = <<>> /\ s \in Seq(Pushes)
      /\ FollowsJs(r.wire, s) /\ ErrorsEnd(r.wire) /\ ResolveIsLast(s)
  BY DEF CallOK
<1>2. b \in 0..MaxBridges /\ b # 0  BY HostAssumption DEF HostAssumption
<1>3. /\ r2 \in Records /\ r2.pc = q /\ r2.bridge = b /\ r2.wire = r.wire /\ r2.chan = r.chan
  <2>1. q \in Pcs  BY Zenon DEF Pcs, Ended
  <2> QED  BY <2>1, <1>0, <1>1, <1>2, Zenon DEF Records
<1>4. InStep(r2, s)
  <2>1. Len(s) = 0 /\ Len(r2.wire) = 0 /\ Len(r2.chan) = 0 /\ r2.wire = <<>>  BY <1>1, <1>3
  <2>3. 1..0 = {} /\ 0 = 0 + 0  OBVIOUS
  <2>2. 1..Len(r2.wire) = {} /\ 1..Len(r2.chan) = {} /\ Len(s) = Len(r2.wire) + Len(r2.chan)
    BY <2>1, <2>3, ZenonT(40)
  <2> QED  BY <2>1, <2>2, Zenon DEF InStep
<1>5. CallOK(r2, s, c)  BY <1>1, <1>2, <1>3, <1>4 DEF CallOK
<1> QED  BY <1>3, <1>5, Zenon DEF r2

\* The handler puts the next event on the wire (next).
LEMMA ReadOK ==
    ASSUME NEW r, NEW s, NEW c, CallOK(r, s, c), r.pc = "reading", r.chan # <<>>,
           NEW e, e = event_from_json(Head(r.chan)), e # NoEvent
    PROVE  CallOK(Read(r, e), s, c) /\ Read(r, e).pc = "reading" /\ Read(r, e).bridge = r.bridge
<1> DEFINE r2 == Read(r, e)
<1>0. r2 = [r EXCEPT !.chan = Tail(@), !.answered = TRUE, !.wire = Append(@, e)]  BY DEF Read
<1> HIDE DEF r2
<1> DEFINE w == r.wire
           ch == r.chan
           w2 == Append(w, e)
           ch2 == Tail(ch)
<1>1. /\ r \in Records /\ s \in Seq(Pushes) /\ ResolveIsLast(s) /\ w \in Seq(Samples) /\ ch \in Seq(Envelopes)
      /\ FollowsJs(w, s) /\ ErrorsEnd(w) /\ c \notin OneWay /\ r.bridge # 0
  BY DEF CallOK, Records
<1>2. Len(s) = Len(w) + Len(ch) /\ \A i \in 1..Len(w) : w[i].kind # "RpcError"
  BY Zenon DEF CallOK, InStep
<1>20. \A j \in 1..Len(ch) : ch[j] = EnvOf(s[Len(w) + j])  BY Zenon DEF CallOK, InStep
<1>3. \A i \in 1..Len(w) : ~Terminal(w[i])  BY NoneEndedYet
<1>4. r2 = [r EXCEPT !.chan = ch2, !.answered = TRUE, !.wire = w2]  BY <1>0
<1>5. Len(w) \in Nat /\ Len(s) \in Nat /\ Len(ch) \in Nat \ {0}
  BY <1>1, SeqLength, ZenonT(40)
<1>6. /\ ch2 \in Seq(Envelopes) /\ Len(ch2) = Len(ch) - 1 /\ \A j \in 1..Len(ch2) : ch2[j] = ch[j + 1]
      /\ Head(ch) = ch[1]
  BY <1>1, <1>5
<1>7. Len(w) + 1 \in 1..Len(s) /\ 1 \in 1..Len(ch)  BY <1>2, <1>5, NextIndex, ZenonT(40)
<1>8. s[Len(w) + 1] \in Pushes  BY <1>1, <1>7, SeqElement, Zenon
<1>9. e = event_from_json(EnvOf(s[Len(w) + 1]))  BY <1>20, <1>6, <1>7, ZenonT(40)
<1>10. e = Meaning(s[Len(w) + 1]) /\ e \in Samples /\ e.kind # "RpcError"  BY <1>8, <1>9, PushMeans
<1>11. /\ w2 \in Seq(Samples) /\ Len(w2) = Len(w) + 1 /\ w2[Len(w) + 1] = e
       /\ \A i \in 1..Len(w) : w2[i] = w[i]
  BY <1>1, <1>10
<1> HIDE DEF w, ch, w2, ch2
<1>12. ErrorsEnd(w2)  BY <1>3, <1>5, <1>11 DEF ErrorsEnd
<1>13. FollowsJs(w2, s)  BY <1>1, <1>5, <1>7, <1>10, <1>11 DEF FollowsJs
<1>14. r2 \in Records /\ r2.pc = "reading" /\ r2.bridge = r.bridge /\ r2.answered /\ r2.wire = w2 /\ r2.chan = ch2
  BY <1>1, <1>4, <1>6, <1>11, Zenon DEF Records
<1>15. InStep(r2, s)
  <2>1. Len(s) = Len(w2) + Len(ch2)  BY <1>2, <1>5, <1>6, <1>11
  <2>2. \A i \in 1..Len(w2) : w2[i].kind # "RpcError"  BY <1>2, <1>5, <1>10, <1>11
  <2>3. \A j \in 1..Len(ch2) : ch2[j] = EnvOf(s[Len(w2) + j])
    <3> SUFFICES ASSUME NEW j \in 1..Len(ch2) PROVE ch2[j] = EnvOf(s[Len(w2) + j])  OBVIOUS
    <3>0. Len(w2) = Len(w) + 1 /\ Len(ch2) = Len(ch) - 1  BY <1>6, <1>11, Zenon
    <3>9. j \in 1..(Len(ch) - 1)  BY <3>0, Zenon
    <3>8. j + 1 \in 1..Len(ch) /\ Len(w) + (j + 1) = (Len(w) + 1) + j  BY <1>5, <3>9, ShiftIndex, ZenonT(40)
    <3>1. j + 1 \in 1..Len(ch) /\ Len(w) + (j + 1) = Len(w2) + j  BY <3>0, <3>8, Zenon
    <3>2. ch2[j] = ch[j + 1]  BY <1>6
    <3>3. ch[j + 1] = EnvOf(s[Len(w) + (j + 1)])  BY <1>20, <3>1, Zenon
    <3> QED  BY <3>1, <3>2, <3>3, Zenon
  <2> QED  BY <1>14, <2>1, <2>2, <2>3, ZenonT(40) DEF InStep
<1>16. CallOK(r2, s, c)  BY <1>1, <1>12, <1>13, <1>14, <1>15, ZenonT(40) DEF CallOK
<1> QED  BY <1>14, <1>16, Zenon DEF r2

\* JavaScript pushes into a call that is read and not resolved (Push).
\* A good record stays good, the push is in its channel and nothing else of it changes.
PushGood(r, s, c, x) ==
    /\ CallOK(Pushed(r, x), Append(s, x), c) /\ Pushed(r, x).pc = "reading" /\ Pushed(r, x).bridge = r.bridge
    /\ Pushed(r, x).wire = r.wire
    /\ x.op = "emit" => Unresolved(Append(s, x))
    /\ x.op = "resolve" => Resolved(Append(s, x))

\* emit_event or resolve into a call that reads and is not resolved yet.
LEMMA PushOK ==
    ASSUME NEW r, NEW s, NEW c, CallOK(r, s, c), r.pc = "reading", Unresolved(s), NEW x \in Pushes
    PROVE  PushGood(r, s, c, x)
<1> DEFINE r2 == Pushed(r, x)
<1>0. r2 = [r EXCEPT !.chan = Append(@, EnvOf(x))]  BY DEF Pushed
<1> HIDE DEF r2
<1> DEFINE w == r.wire
           ch == r.chan
           ch2 == Append(ch, EnvOf(x))
           s2 == Append(s, x)
<1>1. /\ r \in Records /\ s \in Seq(Pushes) /\ w \in Seq(Samples) /\ ch \in Seq(Envelopes)
      /\ FollowsJs(w, s) /\ ErrorsEnd(w) /\ c \notin OneWay /\ r.bridge # 0
  BY DEF CallOK, Records
<1>2. Len(s) = Len(w) + Len(ch) /\ (~r.answered => w = <<>>)  BY Zenon DEF CallOK, InStep
<1>20. \A i \in 1..Len(w) : w[i].kind # "RpcError"  BY DEF CallOK, InStep
<1>21. \A j \in 1..Len(ch) : ch[j] = EnvOf(s[Len(w) + j])  BY Zenon DEF CallOK, InStep
<1>3. EnvOf(x) \in Envelopes  BY DEF Envelopes
<1>4. Len(w) \in Nat /\ Len(s) \in Nat /\ Len(ch) \in Nat  BY <1>1, SeqLength, ZenonT(40)
<1>5. /\ ch2 \in Seq(Envelopes) /\ Len(ch2) = Len(ch) + 1 /\ ch2[Len(ch) + 1] = EnvOf(x)
      /\ \A j \in 1..Len(ch) : ch2[j] = ch[j]
  BY <1>1, <1>3
<1>6. /\ s2 \in Seq(Pushes) /\ Len(s2) = Len(s) + 1 /\ s2[Len(s) + 1] = x /\ \A i \in 1..Len(s) : s2[i] = s[i]
  BY <1>1
<1>7. r2 = [r EXCEPT !.chan = ch2]  BY <1>0
<1> HIDE DEF w, ch, ch2, s2
<1>8. r2 \in Records /\ r2.pc = "reading" /\ r2.bridge = r.bridge /\ r2.answered = r.answered
      /\ r2.wire = w /\ r2.chan = ch2
  BY <1>1, <1>5, <1>7, ZenonT(40) DEF Records, w
<1>9. ResolveIsLast(s2)  BY <1>4, <1>6 DEF ResolveIsLast, Unresolved
<1>10. FollowsJs(w, s2)
  <2> SUFFICES ASSUME NEW i \in 1..Len(w), w[i].kind # "RpcError"
               PROVE  i <= Len(s2) /\ w[i] = Meaning(s2[i])
    BY DEF FollowsJs
  <2>1. i <= Len(s) /\ w[i] = Meaning(s[i])  BY <1>1 DEF FollowsJs
  <2>2. i \in 1..Len(s) /\ i <= Len(s2)  BY <2>1, <1>4, <1>6
  <2> QED  BY <2>1, <2>2, <1>6
<1>11. InStep(r2, s2)
  <2>1. Len(s2) = Len(w) + Len(ch2)  BY <1>2, <1>4, <1>5, <1>6
  <2>2. \A j \in 1..Len(ch2) : ch2[j] = EnvOf(s2[Len(w) + j])
    <3> SUFFICES ASSUME NEW j \in 1..Len(ch2) PROVE ch2[j] = EnvOf(s2[Len(w) + j])  BY Zenon
    <3>1. CASE j \in 1..Len(ch)
      <4>1. Len(w) + j \in 1..Len(s)  BY <3>1, <1>2, <1>4
      <4> QED  BY <3>1, <4>1, <1>21, <1>5, <1>6, ZenonT(40)
    <3>2. CASE j = Len(ch) + 1
      <4>1. Len(w) + j = Len(s) + 1  BY <3>2, <1>2, <1>4
      <4> QED  BY <3>2, <4>1, <1>5, <1>6, Zenon
    <3> QED  BY <3>1, <3>2, <1>4, <1>5, LastIndex, ZenonT(40)
  <2> QED  BY <1>2, <1>20, <1>8, <2>1, <2>2, ZenonT(40) DEF InStep
<1>12. CallOK(r2, s2, c)  BY <1>1, <1>6, <1>8, <1>9, <1>10, <1>11, ZenonT(40) DEF CallOK
<1>13. x.op = "emit" => Unresolved(s2)  BY <1>4, <1>6 DEF Unresolved
<1>14. x.op = "resolve" => Resolved(s2)  BY <1>4, <1>6 DEF Resolved
<1> QED  BY <1>8, <1>12, <1>13, <1>14, Zenon DEF PushGood, r2, w, s2

-----------------------------------------------------------------------------
(* The table and the calls together.                                       *)

\* What HostInv says of one call and of one entry.
LEMMA InvCall ==
    ASSUME HostInv, NEW c \in Calls
    PROVE  /\ calls[c] \in Records /\ sent[c] \in Seq(Pushes) /\ CallOK(calls[c], sent[c], c)
           /\ calls[c].bridge \in 0..MaxBridges /\ calls[c].bridge <= created
           /\ calls[c].pc \in {"starting", "reading"} => calls[c].bridge \in Bridges
           /\ OpenOrResolved(c) /\ Answered(c)
<1>1. /\ calls[c] \in Records /\ sent[c] \in Seq(Pushes) /\ CallOK(calls[c], sent[c], c)
      /\ calls[c].bridge <= created /\ OpenOrResolved(c) /\ Answered(c)
  BY Zenon DEF HostInv, CallOK
<1>2. calls[c].bridge \in 0..MaxBridges  BY <1>1, Zenon DEF Records
<1>3. calls[c].pc \in {"starting", "reading"} => calls[c].bridge # 0  BY <1>1, Zenon DEF CallOK
<1>4. \A b \in 0..MaxBridges : b # 0 => b \in 1..MaxBridges  BY HostAssumption DEF HostAssumption
<1>5. calls[c].pc \in {"starting", "reading"} => calls[c].bridge \in Bridges
  BY <1>2, <1>3, <1>4, Zenon DEF Bridges
<1> QED  BY <1>1, <1>2, <1>5, ZenonT(40)

\* The bridge in the cell is one of the bridges.
LEMMA LiveIsBridge ==
    ASSUME HostInv, live # 0
    PROVE  live \in Bridges
BY HostAssumption DEF HostInv, Bridges, HostAssumption

\* A step of one call that leaves the tables alone.
LEMMA StepOfOne ==
    ASSUME HostInv, NEW c \in Calls, NEW r2, calls' = [calls EXCEPT ![c] = r2],
           UNCHANGED <<pending, live, created, told, sent>>, CallOK(r2, sent[c], c), r2.bridge <= created,
           calls[c].pc \in {"new", "starting"} \/ (r2.bridge = calls[c].bridge /\ r2.pc \notin {"new", "starting"}),
           r2.pc = "reading" => calls[c].pc = "reading",
           r2.pc \in Ended \ {"cancelled"} /\ c \notin OneWay /\ r2.bridge = live /\ live # 0
             => r2.wire # <<>> /\ Terminal(r2.wire[Len(r2.wire)])
    PROVE  HostInv'
<1>1. /\ pending' = pending /\ live' = live /\ created' = created /\ told' = told /\ sent' = sent
      /\ calls \in [Calls -> Records] /\ r2 \in Records
  BY Zenon DEF HostInv, CallOK
<1>2. calls' \in [Calls -> Records] /\ calls'[c] = r2 /\ \A d \in Calls : d # c => calls'[d] = calls[d]
  BY <1>1
<1>3. \A d \in Calls : CallOK(calls'[d], sent'[d], d) /\ calls'[d].bridge <= created'
  BY <1>1, <1>2, InvCall, Zenon
<1>4. \A b \in Bridges : TableOK(b)'
  <2> SUFFICES ASSUME NEW b \in Bridges PROVE TableOK(b)'  OBVIOUS
  <2>1. TableOK(b)  BY Zenon DEF HostInv
  <2>2. \A k \in DOMAIN pending[b] : EntryOK(b, k)'
    <3> SUFFICES ASSUME NEW k \in DOMAIN pending[b] PROVE EntryOK(b, k)'  OBVIOUS
    <3> DEFINE d == pending[b][k]
    <3>1. /\ d \in Calls /\ CidOf[d] = k /\ calls[d].bridge = b /\ calls[d].pc \notin {"new", "starting"}
          /\ Unresolved(sent[d])
      BY <2>1, ZenonT(40) DEF TableOK, EntryOK
    <3>2. calls'[d].bridge = b /\ calls'[d].pc \notin {"new", "starting"}
      <4>1. CASE d = c  BY <4>1, <3>1, <1>2, Zenon
      <4>2. CASE d # c  BY <4>2, <3>1, <1>2, ZenonT(40)
      <4> QED  BY <4>1, <4>2
    <3> QED  BY <1>1, <3>1, <3>2, Zenon DEF EntryOK
  <2> QED  BY <1>1, <2>1, <2>2, Zenon DEF TableOK
<1>5. \A d \in Calls : OpenOrResolved(d)' /\ Answered(d)'
  <2> SUFFICES ASSUME NEW d \in Calls PROVE OpenOrResolved(d)' /\ Answered(d)'  OBVIOUS
  <2>1. OpenOrResolved(d) /\ Answered(d)  BY InvCall
  <2>2. CASE d # c  BY <2>1, <2>2, <1>1, <1>2, ZenonT(40) DEF OpenOrResolved, Answered
  <2>3. CASE d = c
    <3>1. Answered(c)'  BY <1>1, <1>2, Zenon DEF Answered
    <3>2. OpenOrResolved(c)'
      <4> SUFFICES ASSUME r2.pc = "reading", r2.bridge = live
                   PROVE \/ CidOf[c] \in DOMAIN pending[live] /\ pending[live][CidOf[c]] = c
                         \/ Resolved(sent[c])
        BY <1>1, <1>2, ZenonT(40) DEF OpenOrResolved
      <4>1. calls[c].pc = "reading"  OBVIOUS
      <4>2. calls[c].bridge = live  BY <4>1
      <4> QED  BY <2>1, <2>3, <4>1, <4>2, ZenonT(40) DEF OpenOrResolved
    <3> QED  BY <2>3, <3>1, <3>2
  <2> QED  BY <2>2, <2>3
<1> QED  BY <1>1, <1>2, <1>3, <1>4, <1>5, Zenon DEF HostInv

-----------------------------------------------------------------------------
(* The steps of a call's handler and of its caller.                        *)

\* A call is refused before it is read, or for its first event being late.
LEMMA RejectStep ==
    ASSUME HostInv, NEW c \in Calls, NEW q \in Ended, calls[c].wire = <<>>, calls' = Reject(c, q),
           UNCHANGED <<pending, live, created, told, sent>>
    PROVE  HostInv'
<1> DEFINE r == calls[c]
           r2 == Rejected(r, c, q)
<1>1. calls' = [calls EXCEPT ![c] = r2]  BY Zenon DEF Reject, Rejected
<1>2. CallOK(r, sent[c], c) /\ r.bridge <= created  BY InvCall
<1>3. /\ CallOK(r2, sent[c], c) /\ r2.pc = q /\ r2.bridge = r.bridge
      /\ c \notin OneWay => r2.wire # <<>> /\ Terminal(r2.wire[Len(r2.wire)])
  BY <1>2, RejectOK, Zenon
<1>4. q \notin {"new", "starting", "reading"}  BY Zenon DEF Ended
<1> HIDE DEF r2
<1> QED  BY <1>1, <1>2, <1>3, <1>4, StepOfOne, ZenonT(40)

\* The handler finds the bridge, or refuses the call (json_host_handler).
LEMMA DispatchKeeps ==
    ASSUME HostInv, NEW c \in Calls, dispatch_json(c)
    PROVE  HostInv'
<1> DEFINE r == calls[c]
           r2 == Begun(r, live, "starting")
<1>1. r.pc = "new" /\ UNCHANGED <<pending, live, created, told, sent>>  BY Zenon DEF dispatch_json, js
<1>2. CallOK(r, sent[c], c) /\ r.wire = <<>>  BY <1>1, InvCall, Zenon DEF CallOK
<1>3. \/ calls' = Reject(c, "undecodable") \/ calls' = Reject(c, "no bridge")
      \/ live # 0 /\ calls' = [calls EXCEPT ![c] = r2]
  BY Zenon DEF dispatch_json, Begun
<1>4. CASE calls' = Reject(c, "undecodable")
  <2>1. "undecodable" \in Ended  BY DEF Ended
  <2> QED  BY <1>1, <1>2, <1>4, <2>1, RejectStep, ZenonT(40)
<1>5. CASE calls' = Reject(c, "no bridge")
  <2>1. "no bridge" \in Ended  BY DEF Ended
  <2> QED  BY <1>1, <1>2, <1>5, <2>1, RejectStep, ZenonT(40)
<1>6. CASE live # 0 /\ calls' = [calls EXCEPT ![c] = r2]
  <2>1. live \in 1..MaxBridges  BY <1>6, LiveIsBridge, ZenonT(40) DEF Bridges
  <2>2. CallOK(r2, sent[c], c) /\ r2.pc = "starting" /\ r2.bridge = live
    <3>1. r.pc \in {"new", "starting"} /\ "starting" \in {"starting", "reading", "ended"} /\ "starting" # "reading"
      BY <1>1
    <3>2. \A q \in {"starting", "reading", "ended"} : (q = "reading" => c \notin OneWay) =>
             CallOK(Begun(r, live, q), sent[c], c) /\ Begun(r, live, q).pc = q /\ Begun(r, live, q).bridge = live
      <4> HIDE DEF r
      <4> QED  BY <1>2, <2>1, <3>1, StartOK
    <3> QED  BY <3>1, <3>2
  <2>3. live <= created  BY DEF HostInv, Bridges
  <2>4. "starting" \notin Ended  BY DEF Ended
  <2> HIDE DEF r2
  <2> QED  BY <1>1, <1>6, <2>2, <2>3, <2>4, StepOfOne, ZenonT(40)
<1> QED  BY <1>3, <1>4, <1>5, <1>6, Zenon

\* The handler reads an envelope and answers with its sample, or gives up.
LEMMA NextKeeps ==
    ASSUME HostInv, NEW c \in Calls, next(c)
    PROVE  HostInv'
<1> DEFINE r == calls[c]
           e == event_from_json(Head(r.chan))
           r1 == Failed(r)
           r2 == Read(r, e)
<1>1. r.pc = "reading" /\ r.chan # <<>> /\ UNCHANGED <<pending, live, created, told, sent>>
  BY Zenon DEF next, js
<1>2. CallOK(r, sent[c], c) /\ r.bridge <= created  BY InvCall
<1>3. \/ calls' = [calls EXCEPT ![c] = r1]
      \/ e # NoEvent /\ calls' = [calls EXCEPT ![c] = r2]
  BY Zenon DEF next, Unencodable, Failed, Read
<1>4. "reading" \notin Ended  BY DEF Ended
<1>5. CASE calls' = [calls EXCEPT ![c] = r1]
  <2>1. /\ CallOK(r1, sent[c], c) /\ r1.pc = "ended" /\ r1.bridge = r.bridge
        /\ r1.wire # <<>> /\ Terminal(r1.wire[Len(r1.wire)])
    BY <1>1, <1>2, UnencodableOK, Zenon
  <2> HIDE DEF r1
  <2>2. r1.pc \notin {"new", "starting", "reading"}  BY <2>1
  <2> QED  BY <1>1, <1>2, <1>5, <2>1, <2>2, StepOfOne, ZenonT(40)
<1>6. CASE e # NoEvent /\ calls' = [calls EXCEPT ![c] = r2]
  <2>1. CallOK(r2, sent[c], c) /\ r2.pc = "reading" /\ r2.bridge = r.bridge
    BY <1>1, <1>2, <1>6, ReadOK, ZenonT(40)
  <2> HIDE DEF r2
  <2>2. r2.pc \notin {"new", "starting"}  BY <2>1
  <2> QED  BY <1>1, <1>2, <1>4, <1>6, <2>1, <2>2, StepOfOne, ZenonT(40)
<1> QED  BY <1>3, <1>5, <1>6

\* A call of the live bridge that is no longer open has its answer on the wire.
LEMMA CloseKeeps ==
    ASSUME HostInv, NEW c \in Calls, close(c)
    PROVE  HostInv'
<1> DEFINE r == calls[c]
           s == sent[c]
           r2 == Closed(r)
<1>1. /\ r.pc = "reading" /\ r.chan = <<>> /\ ~Open(c) /\ UNCHANGED <<pending, live, created, told, sent>>
      /\ calls' = [calls EXCEPT ![c] = r2]
  BY Zenon DEF close, HostClosed, js, Closed
<1>2. CallOK(r, s, c) /\ r.bridge <= created /\ OpenOrResolved(c)  BY InvCall
<1>3. "ended" \in Ended  BY DEF Ended
<1>4. CallOK(r2, s, c) /\ r2.pc = "ended" /\ r2.bridge = r.bridge /\ r2.wire = r.wire
  BY <1>2, EndOK, Zenon
<1>5. ASSUME r.bridge = live, live # 0
      PROVE  r.wire # <<>> /\ Terminal(r.wire[Len(r.wire)])
  <2>1. live \in Bridges  BY <1>5, LiveIsBridge
  <2>2. Resolved(s)  BY <1>1, <1>2, <1>5, <2>1, ZenonT(40) DEF OpenOrResolved, Open
  <2>3. /\ s \in Seq(Pushes) /\ r.wire \in Seq(Samples) /\ FollowsJs(r.wire, s)
        /\ Len(s) = Len(r.wire) + Len(r.chan) /\ \A i \in 1..Len(r.wire) : r.wire[i].kind # "RpcError"
    BY <1>1, <1>2, Zenon DEF CallOK, Records, InStep
  <2>4. s # <<>> /\ s[Len(s)].op = "resolve"  BY <2>2 DEF Resolved
  <2>5. Len(s) \in Nat \ {0} /\ Len(s) \in 1..Len(s) /\ s[Len(s)] \in Pushes
    <3>1. s \in Seq(Pushes) /\ s # <<>>  BY <2>3, <2>4
    <3> HIDE DEF s
    <3>2. Len(s) \in Nat \ {0}  BY <3>1, SeqLength, Zenon
    <3>3. \A n \in Nat \ {0} : n \in 1..n  OBVIOUS
    <3>4. Len(s) \in 1..Len(s)  BY <3>2, <3>3, Zenon
    <3> QED  BY <3>1, <3>2, <3>4, SeqElement, ZenonT(40)
  <2>6. Len(r.chan) = 0  BY <1>1
  <2>7. Len(r.wire) = Len(s)
    <3>1. \A a, b \in Nat : b = a + 0 => a = b  OBVIOUS
    <3>2. Len(r.wire) \in Nat  BY <2>3, SeqLength, Zenon
    <3> QED  BY <2>3, <2>5, <2>6, <3>1, <3>2, Zenon
  <2>8. r.wire[Len(s)] = Meaning(s[Len(s)])  BY <2>3, <2>5, <2>7, Zenon DEF FollowsJs
  <2>9. r.wire # <<>>
    <3>1. r.wire = <<>> => Len(r.wire) = 0  OBVIOUS
    <3> QED  BY <2>5, <2>7, <3>1, Zenon
  <2> QED  BY <2>4, <2>5, <2>7, <2>8, <2>9, PushMeans, ZenonT(40)
<1>6. r2.pc \notin {"new", "starting", "reading"}  BY <1>4
<1> HIDE DEF r2
<1> QED  BY <1>1, <1>2, <1>4, <1>5, <1>6, StepOfOne, ZenonT(40)

\* No first event came in time (JSON_CALL_TIMEOUT).
LEMMA ExpireKeeps ==
    ASSUME HostInv, NEW c \in Calls, Expire(c)
    PROVE  HostInv'
<1>1. calls[c].pc = "reading" /\ ~calls[c].answered /\ calls' = Reject(c, "expired")
      /\ UNCHANGED <<pending, live, created, told, sent>>
  BY Zenon DEF Expire, FirstIsLate, js
<1>2. calls[c].wire = <<>>  BY <1>1, InvCall, Zenon DEF CallOK, InStep
<1>3. "expired" \in Ended  BY DEF Ended
<1> QED  BY <1>1, <1>2, <1>3, RejectStep, Zenon

\* The caller cancels: nothing more is sent.
LEMMA CancelKeeps ==
    ASSUME HostInv, NEW c \in Calls, Cancel(c)
    PROVE  HostInv'
<1> DEFINE r == calls[c]
           r2 == Cancelled(r)
<1>1. /\ r.pc = "reading" /\ calls' = [calls EXCEPT ![c] = r2]
      /\ UNCHANGED <<pending, live, created, told, sent>>
  BY Zenon DEF Cancel, js, Cancelled
<1>2. CallOK(r, sent[c], c) /\ r.bridge <= created  BY InvCall
<1>3. "cancelled" \in Ended  BY DEF Ended
<1>4. CallOK(r2, sent[c], c) /\ r2.pc = "cancelled" /\ r2.bridge = r.bridge
  BY <1>2, EndOK, Zenon
<1> HIDE DEF r2
<1>5. r2.pc \notin {"new", "starting", "reading"} /\ r2.pc \notin Ended \ {"cancelled"}  BY <1>4
<1> QED  BY <1>1, <1>2, <1>4, <1>5, StepOfOne, Zenon

-----------------------------------------------------------------------------
(* Admission (PendingCalls::insert), and tables that are dropped.          *)

\* What PendingCalls::insert answers.
LEMMA InsertIs ==
    ASSUME NEW table, NEW c, IsFiniteSet(DOMAIN table)
    PROVE  LET r == insert(table, c) IN
           /\ r.res \in {"limit", "duplicate", "ok"}
           /\ r.res # "ok" => r.table = table
           /\ r.res = "ok" => /\ r.table = Added(table, c) /\ CidOf[c] \notin DOMAIN table
                              /\ ~(Cardinality(DOMAIN table) >= MaxPending)
<1> DEFINE n == Cardinality(DOMAIN table)
<1>1. n \in Nat /\ MaxPending \in Nat  BY FS_CardinalityType, HostAssumption DEF HostAssumption
<1> HIDE DEF n
<1>2. CASE n >= MaxPending
  <2>1. insert(table, c) = [res |-> "limit", table |-> table]  BY <1>1, <1>2 DEF insert, n
  <2> QED  BY <2>1
<1>3. CASE n < MaxPending /\ CidOf[c] \in DOMAIN table
  <2>1. insert(table, c) = [res |-> "duplicate", table |-> table]  BY <1>1, <1>3 DEF insert, n
  <2> QED  BY <2>1
<1>4. CASE n < MaxPending /\ CidOf[c] \notin DOMAIN table
  <2>1. insert(table, c) = [res |-> "ok", table |-> Added(table, c)]  BY <1>1, <1>4 DEF insert, n
  <2>2. ~(n >= MaxPending)  BY <1>1, <1>4
  <2> QED  BY <1>4, <2>1, <2>2 DEF n
<1> QED  BY <1>1, <1>2, <1>3, <1>4

\* One entry more: the table keeps its limit and its other entries.
LEMMA AddedTable ==
    ASSUME NEW table, NEW c \in Calls, CidOf[c] \notin DOMAIN table, DOMAIN table \subseteq Cids,
           IsFiniteSet(DOMAIN table), ~(Cardinality(DOMAIN table) >= MaxPending)
    PROVE  LET t2 == Added(table, c) IN
           /\ DOMAIN t2 = DOMAIN table \cup {CidOf[c]} /\ DOMAIN t2 \subseteq Cids /\ IsFiniteSet(DOMAIN t2)
           /\ Cardinality(DOMAIN t2) <= MaxPending
           /\ t2[CidOf[c]] = c /\ \A k \in DOMAIN table : t2[k] = table[k]
<1> DEFINE D == DOMAIN table
           t2 == Added(table, c)
<1>1. DOMAIN t2 = D \cup {CidOf[c]} /\ t2[CidOf[c]] = c /\ \A k \in D : t2[k] = table[k]  BY DEF Added
<1>2. DOMAIN t2 \subseteq Cids  BY <1>1 DEF Cids
<1>3. IsFiniteSet(DOMAIN t2) /\ Cardinality(DOMAIN t2) = Cardinality(D) + 1
  BY <1>1, FS_AddElement
<1>4. Cardinality(D) \in Nat  BY FS_CardinalityType
<1>5. Cardinality(DOMAIN t2) <= MaxPending
  BY <1>3, <1>4, HostAssumption DEF HostAssumption
<1> QED  BY <1>1, <1>2, <1>3, <1>5

\* The table of a new bridge.
LEMMA EmptyTable ==
    DOMAIN NoEntries = {} /\ IsFiniteSet({}) /\ Cardinality({}) <= MaxPending
BY FS_EmptySet, HostAssumption DEF NoEntries, HostAssumption

\* A bridge nobody holds loses its table; the live one keeps it.
LEMMA DroppedIs ==
    ASSUME NEW p, NEW cs, NEW l, NEW b \in Bridges
    PROVE  Dropped(p, cs, l)[b] \in {p[b], NoEntries} /\ (b = l => Dropped(p, cs, l)[b] = p[b])
BY DEF Dropped, Held

\* The tables of a step, where the one of bridge b0 becomes t0 and any may be dropped,
\* though not the one of the live bridge.
TablesBecome(b0, t0) ==
    /\ DOMAIN pending' = Bridges
    /\ \A b \in Bridges : pending'[b] \in {IF b = b0 THEN t0 ELSE pending[b], NoEntries}
    /\ live \in Bridges => pending'[live] = IF live = b0 THEN t0 ELSE pending[live]
CanAdd(b0, c) == CidOf[c] \notin DOMAIN pending[b0] /\ ~(Cardinality(DOMAIN pending[b0]) >= MaxPending)
\* A call c that becomes r2 leaves the table of its bridge alone or is added to it.
StartsWith(c, r2, t0) ==
    LET b0 == calls[c].bridge IN
    \/ t0 = pending[b0] /\ r2.pc # "reading"
    \/ t0 = Added(pending[b0], c) /\ CanAdd(b0, c) /\ r2.pc \notin {"new", "starting"}
EndsAnswered(c, r2) ==
    r2.pc \in Ended \ {"cancelled"} /\ c \notin OneWay => r2.wire # <<>> /\ Terminal(r2.wire[Len(r2.wire)])

\* The tables stay good when one call is added to the table of its bridge.
LEMMA TablesStep ==
    ASSUME HostInv, NEW c \in Calls, NEW r2, calls' = [calls EXCEPT ![c] = r2], sent' = sent,
           calls[c].pc = "starting", r2.bridge = calls[c].bridge, NEW t0,
           TablesBecome(calls[c].bridge, t0), StartsWith(c, r2, t0)
    PROVE  \A b \in Bridges : TableOK(b)'
<1> DEFINE b0 == calls[c].bridge
<1> SUFFICES ASSUME NEW b \in Bridges PROVE TableOK(b)'  OBVIOUS
<1>1. calls \in [Calls -> Records] /\ TableOK(b)  BY Zenon DEF HostInv
<1>2. calls'[c] = r2 /\ \A d \in Calls : d # c => calls'[d] = calls[d]  BY <1>1
<1>3. ASSUME NEW k \in DOMAIN pending[b], NEW d, d = pending[b][k]
      PROVE  /\ d \in Calls /\ CidOf[d] = k /\ calls'[d].bridge = b /\ calls'[d].pc \notin {"new", "starting"}
             /\ Unresolved(sent'[d])
  <2>1. /\ d \in Calls /\ CidOf[d] = k /\ calls[d].bridge = b /\ calls[d].pc \notin {"new", "starting"}
        /\ Unresolved(sent[d])
    BY <1>1, <1>3, Zenon DEF TableOK, EntryOK
  <2>2. d # c  BY <2>1
  <2> QED  BY <1>2, <2>1, <2>2, Zenon
<1>4. CASE pending'[b] = NoEntries
  <2>1. DOMAIN pending'[b] = {} /\ IsFiniteSet({}) /\ Cardinality({}) <= MaxPending  BY <1>4, EmptyTable, Zenon
  <2>2. \A k \in DOMAIN pending'[b] : EntryOK(b, k)'  BY <2>1
  <2>3. DOMAIN pending'[b] \subseteq Cids  BY <2>1
  <2> QED  BY <2>1, <2>2, <2>3, ZenonT(40) DEF TableOK
<1>5. CASE pending'[b] = pending[b]
  <2>1. \A k \in DOMAIN pending'[b] : EntryOK(b, k)'  BY <1>3, <1>5, ZenonT(40) DEF EntryOK
  <2> QED  BY <1>1, <1>5, <2>1, Zenon DEF TableOK
<1>6. CASE /\ b = b0 /\ pending'[b] = Added(pending[b], c) /\ CidOf[c] \notin DOMAIN pending[b]
           /\ ~(Cardinality(DOMAIN pending[b]) >= MaxPending)
           /\ r2.bridge = b /\ r2.pc \notin {"new", "starting"}
  <2> DEFINE t2 == Added(pending[b], c)
  <2>1. DOMAIN pending[b] \subseteq Cids /\ IsFiniteSet(DOMAIN pending[b])  BY <1>1, Zenon DEF TableOK
  <2>2. /\ DOMAIN t2 = DOMAIN pending[b] \cup {CidOf[c]} /\ DOMAIN t2 \subseteq Cids /\ IsFiniteSet(DOMAIN t2)
        /\ Cardinality(DOMAIN t2) <= MaxPending
        /\ t2[CidOf[c]] = c /\ \A k \in DOMAIN pending[b] : t2[k] = pending[b][k]
    BY <1>6, <2>1, AddedTable, ZenonT(40)
  <2>3. pending'[b] = t2  BY <1>6
  <2> HIDE DEF t2
  <2>4. Unresolved(sent'[c])
    <3>1. sent[c] = <<>>  BY InvCall, ZenonT(40) DEF CallOK
    <3> QED  BY <3>1 DEF Unresolved
  <2>5. \A k \in DOMAIN t2 : EntryOK(b, k)'
    <3> SUFFICES ASSUME NEW k \in DOMAIN t2 PROVE EntryOK(b, k)'  OBVIOUS
    <3>1. CASE k \in DOMAIN pending[b]  BY <3>1, <1>3, <2>2, <2>3, ZenonT(40) DEF EntryOK
    <3>2. CASE k = CidOf[c]  BY <3>2, <1>2, <1>6, <2>2, <2>3, <2>4, ZenonT(40) DEF EntryOK
    <3> QED  BY <3>1, <3>2, <2>2
  <2> QED  BY <2>2, <2>3, <2>5, Zenon DEF TableOK
<1>7. CASE b # b0
  <2>1. pending'[b] \in {pending[b], NoEntries}  BY <1>7, Zenon DEF TablesBecome
  <2> QED  BY <1>4, <1>5, <2>1
<1>8. CASE b = b0
  <2>1. pending'[b] \in {t0, NoEntries}  BY <1>8, Zenon DEF TablesBecome
  <2>2. \/ t0 = pending[b0]
        \/ t0 = Added(pending[b0], c) /\ CanAdd(b0, c) /\ r2.pc \notin {"new", "starting"}
    BY Zenon DEF StartsWith
  <2>3. CASE pending'[b] = NoEntries  BY <1>4, <2>3
  <2>4. CASE pending'[b] = t0 /\ t0 = pending[b0]  BY <1>5, <1>8, <2>4
  <2>5. CASE pending'[b] = t0 /\ t0 = Added(pending[b0], c) /\ CanAdd(b0, c) /\ r2.pc \notin {"new", "starting"}
    BY <1>6, <1>8, <2>5, Zenon DEF CanAdd
  <2> QED  BY <2>1, <2>2, <2>3, <2>4, <2>5, ZenonT(40)
<1> QED  BY <1>7, <1>8

\* The pieces of HostInv' when one call starts and the tables change with it.
LEMMA StartStep ==
    ASSUME HostInv, NEW c \in Calls, NEW r2, calls' = [calls EXCEPT ![c] = r2], sent' = sent,
           live' = live, created' = created, told' \subseteq Cids,
           calls[c].pc = "starting", CallOK(r2, sent[c], c), r2.bridge = calls[c].bridge, NEW t0,
           TablesBecome(calls[c].bridge, t0), StartsWith(c, r2, t0), EndsAnswered(c, r2)
    PROVE  HostInv'
<1> DEFINE b0 == calls[c].bridge
<1>1. /\ calls \in [Calls -> Records] /\ r2 \in Records /\ sent \in [Calls -> Seq(Pushes)]
      /\ live \in 0..created /\ created \in Bridges
  BY Zenon DEF HostInv, CallOK
<1>2. calls' \in [Calls -> Records] /\ calls'[c] = r2 /\ \A d \in Calls : d # c => calls'[d] = calls[d]
  BY <1>1
<1>3. \A d \in Calls : CallOK(calls'[d], sent'[d], d) /\ calls'[d].bridge <= created'
  BY <1>2, InvCall, Zenon
<1>4. b0 \in Bridges  BY InvCall, Zenon
<1>5. \A b \in Bridges : TableOK(b)'  BY TablesStep, Zenon
<1>6. DOMAIN pending[b0] \subseteq Cids /\ IsFiniteSet(DOMAIN pending[b0])
  BY <1>4, Zenon DEF HostInv, TableOK
<1>7. ASSUME t0 = Added(pending[b0], c), CanAdd(b0, c)
      PROVE  /\ CidOf[c] \in DOMAIN t0 /\ t0[CidOf[c]] = c
             /\ \A k \in DOMAIN pending[b0] : k \in DOMAIN t0 /\ t0[k] = pending[b0][k]
  <2> DEFINE t2 == Added(pending[b0], c)
  <2>1. /\ DOMAIN t2 = DOMAIN pending[b0] \cup {CidOf[c]} /\ t2[CidOf[c]] = c
        /\ \A k \in DOMAIN pending[b0] : t2[k] = pending[b0][k]
    BY <1>6, <1>7, AddedTable, ZenonT(40) DEF CanAdd
  <2>2. t0 = t2  BY <1>7
  <2> HIDE DEF t2, b0
  <2> QED  BY <2>1, <2>2, ZenonT(40)
<1>8. \A d \in Calls : OpenOrResolved(d)' /\ Answered(d)'
  <2> SUFFICES ASSUME NEW d \in Calls PROVE OpenOrResolved(d)' /\ Answered(d)'  OBVIOUS
  <2>1. OpenOrResolved(d) /\ Answered(d)  BY InvCall
  <2>2. CASE d = c
    <3>1. Answered(c)'  BY <1>2, Zenon DEF Answered, EndsAnswered
    <3>2. OpenOrResolved(c)'
      <4> SUFFICES ASSUME r2.pc = "reading", r2.bridge = live
                   PROVE  CidOf[c] \in DOMAIN pending'[live] /\ pending'[live][CidOf[c]] = c
        BY <1>2, Zenon DEF OpenOrResolved
      <4>1. live = b0 /\ live \in Bridges  BY <1>4
      <4>2. pending'[live] = t0  BY <4>1, Zenon DEF TablesBecome
      <4>3. t0 = Added(pending[b0], c) /\ CanAdd(b0, c)  BY Zenon DEF StartsWith
      <4> QED  BY <4>2, <4>3, <1>7, Zenon
    <3> QED  BY <2>2, <3>1, <3>2
  <2>3. CASE d # c
    <3>1. calls'[d] = calls[d]  BY <2>3, <1>2
    <3>2. Answered(d)'  BY <2>1, <3>1, ZenonT(40) DEF Answered
    <3>3. OpenOrResolved(d)'
      <4> SUFFICES ASSUME calls[d].pc = "reading", calls[d].bridge = live, ~Resolved(sent[d])
                   PROVE  CidOf[d] \in DOMAIN pending'[live] /\ pending'[live][CidOf[d]] = d
        BY <3>1, Zenon DEF OpenOrResolved
      <4>1. live \in Bridges  BY InvCall, Zenon
      <4>2. CidOf[d] \in DOMAIN pending[live] /\ pending[live][CidOf[d]] = d  BY <2>1, ZenonT(40) DEF OpenOrResolved
      <4>3. CASE live # b0 \/ t0 = pending[b0]
        <5>1. pending'[live] = pending[live]  BY <4>1, <4>3 DEF TablesBecome
        <5> QED  BY <4>2, <5>1
      <4>4. CASE live = b0 /\ t0 # pending[b0]
        <5>1. pending'[live] = t0  BY <4>1, <4>4, Zenon DEF TablesBecome
        <5>2. t0 = Added(pending[b0], c) /\ CanAdd(b0, c)  BY <4>4, ZenonT(40) DEF StartsWith
        <5> QED  BY <4>2, <4>4, <5>1, <5>2, <1>7, ZenonT(40)
      <4> QED  BY <4>3, <4>4
    <3> QED  BY <3>2, <3>3
  <2> QED  BY <2>2, <2>3
<1>9. told' \subseteq Cids /\ DOMAIN pending' = Bridges  BY DEF TablesBecome
<1> QED  BY <1>1, <1>2, <1>3, <1>5, <1>8, <1>9, ZenonT(40) DEF HostInv

\* start_call: the call is admitted and handed to JavaScript, or rejected.
LEMMA StartKeeps ==
    ASSUME HostInv, NEW c \in Calls, start_call(c)
    PROVE  HostInv'
<1> DEFINE r == calls[c]
           b0 == r.bridge
           adm == insert(pending[b0], c)
           After(cs, table) == calls' = cs /\ pending' = Dropped([pending EXCEPT ![b0] = table], cs, live)
<1>1. r.pc = "starting" /\ live' = live /\ created' = created /\ sent' = sent  BY ZenonT(40) DEF start_call
<1>2. \/ \E q \in {adm.res, "unreachable"} : q # "ok" /\ After(Reject(c, q), pending[b0]) /\ told' = told
      \/ /\ adm.res = "ok" /\ told' = told \cup {CidOf[c]}
         /\ After([calls EXCEPT ![c].pc = Started(c)], adm.table)
  <2>1. "unreachable" # "ok"  OBVIOUS
  <2> QED  BY <2>1 DEF start_call
<1>3. CallOK(r, sent[c], c) /\ r.wire = <<>> /\ b0 \in Bridges /\ told \subseteq Cids /\ DOMAIN pending = Bridges
  BY <1>1, InvCall, ZenonT(40) DEF CallOK, HostInv
<1>4. IsFiniteSet(DOMAIN pending[b0])  BY <1>3, ZenonT(40) DEF HostInv, TableOK
<1>5. /\ adm.res \in {"limit", "duplicate", "ok"}
      /\ adm.res = "ok" => adm.table = Added(pending[b0], c) /\ CanAdd(b0, c)
  BY <1>4, InsertIs DEF CanAdd
<1>6. ASSUME NEW cs, NEW t0, pending' = Dropped([pending EXCEPT ![b0] = t0], cs, live)
      PROVE  TablesBecome(b0, t0)
  <2> DEFINE p == [pending EXCEPT ![b0] = t0]
  <2>1. DOMAIN pending' = Bridges  BY <1>6 DEF Dropped
  <2>2. \A b \in Bridges : p[b] = IF b = b0 THEN t0 ELSE pending[b]  BY <1>3
  <2>3. pending' = Dropped(p, cs, live)  BY <1>6
  <2> HIDE DEF p, b0
  <2>4. \A b \in Bridges : pending'[b] \in {p[b], NoEntries} /\ (b = live => pending'[b] = p[b])
    BY <2>3, DroppedIs, ZenonT(40)
  <2>5. \A b \in Bridges : pending'[b] \in {IF b = b0 THEN t0 ELSE pending[b], NoEntries}
    BY <2>2, <2>4, Zenon
  <2>6. live \in Bridges => pending'[live] = IF live = b0 THEN t0 ELSE pending[live]
    BY <2>2, <2>4, Zenon
  <2> QED  BY <2>1, <2>5, <2>6, ZenonT(40) DEF TablesBecome
<1>7. ASSUME NEW q \in {adm.res, "unreachable"}, q # "ok", After(Reject(c, q), pending[b0]), told' = told
      PROVE  HostInv'
  <2> DEFINE r2 == Rejected(r, c, q)
  <2>1. q \in Ended  BY <1>5, <1>7, Zenon DEF Ended
  <2>2. /\ CallOK(r2, sent[c], c) /\ r2.pc = q /\ r2.bridge = b0
        /\ c \notin OneWay => r2.wire # <<>> /\ Terminal(r2.wire[Len(r2.wire)])
    BY <1>3, <2>1, RejectOK, Zenon
  <2>3. calls' = [calls EXCEPT ![c] = r2]  BY <1>7, Zenon DEF Reject, Rejected
  <2>4. r2.pc # "reading"  BY <2>1, <2>2, ZenonT(40) DEF Ended
  <2>5. told' \subseteq Cids  BY <1>3, <1>7
  <2>6. TablesBecome(b0, pending[b0])  BY <1>6, <1>7, Zenon
  <2>7. StartsWith(c, r2, pending[b0]) /\ EndsAnswered(c, r2)  BY <2>2, <2>4, ZenonT(40) DEF StartsWith, EndsAnswered
  <2> HIDE DEF r2
  <2> QED  BY <1>1, <2>2, <2>3, <2>5, <2>6, <2>7, StartStep, Zenon
<1>8. ASSUME adm.res = "ok", told' = told \cup {CidOf[c]}, After([calls EXCEPT ![c].pc = Started(c)], adm.table)
      PROVE  HostInv'
  <2> DEFINE q == Started(c)
             r2 == Begun(r, b0, q)
             t0 == adm.table
  <2>1. q \in {"starting", "reading", "ended"} /\ (q = "reading" => c \notin OneWay)
        /\ (q = "ended" => c \in OneWay) /\ q # "starting"
    BY DEF Started
  <2>2. CallOK(r2, sent[c], c) /\ r2.pc = q /\ r2.bridge = b0
    <3>1. b0 \in 1..MaxBridges  BY <1>3 DEF Bridges
    <3>2. r.pc \in {"new", "starting"}  BY <1>1
    <3> HIDE DEF r, q, b0
    <3> QED  BY <1>3, <2>1, <3>1, <3>2, StartOK
  <2>3. calls' = [calls EXCEPT ![c] = r2]
    <3>1. calls \in [Calls -> Records]  BY DEF HostInv
    <3>2. calls[c] = [calls[c] EXCEPT !.bridge = calls[c].bridge]  BY <3>1 DEF Records
    <3> QED  BY <1>8, <3>1, ZenonT(40) DEF Begun, Records
  <2>4. told' \subseteq Cids  BY <1>3, <1>8 DEF Cids
  <2>5. TablesBecome(b0, t0)  BY <1>6, <1>8, ZenonT(40)
  <2>6. t0 = Added(pending[b0], c) /\ CanAdd(b0, c)  BY <1>5, <1>8
  <2>7. r2.pc \notin {"new", "starting"} /\ (r2.pc \in Ended => c \in OneWay)  BY <2>1, <2>2, ZenonT(40) DEF Ended
  <2>8. StartsWith(c, r2, t0) /\ EndsAnswered(c, r2)
    <3> HIDE DEF r2, t0
    <3> QED  BY <2>6, <2>7, ZenonT(40) DEF StartsWith, EndsAnswered
  <2> HIDE DEF r2, t0
  <2> QED  BY <1>1, <2>2, <2>3, <2>4, <2>5, <2>8, StartStep, ZenonT(40)
<1> QED  BY <1>2, <1>7, <1>8, ZenonT(40)

-----------------------------------------------------------------------------
(* JavaScript, and the bridge.                                             *)

\* What a push does to the calls: only the call of the entry learns of it.
PushEffect(c, op) ==
    /\ calls' \in [Calls -> Records] /\ sent' \in [Calls -> Seq(Pushes)]
    /\ \A d \in Calls : /\ CallOK(calls'[d], sent'[d], d) /\ calls'[d].bridge = calls[d].bridge
                        /\ calls'[d].pc = calls[d].pc /\ calls'[d].wire = calls[d].wire
    /\ \A d \in Calls : d # c => sent'[d] = sent[d]
    /\ op = "emit" => Unresolved(sent'[c])
    /\ op = "resolve" /\ calls[c].pc = "reading" => Resolved(sent'[c])

\* The call behind an entry of the live bridge.
LEMMA EntryIs ==
    ASSUME HostInv, NEW k, Entry(k) # NoCall
    PROVE  LET c == Entry(k) IN
           /\ live # 0 /\ live \in Bridges /\ k \in DOMAIN pending[live] /\ pending[live][k] = c
           /\ c \in Calls /\ CidOf[c] = k /\ calls[c].bridge = live /\ Unresolved(sent[c])
<1> DEFINE c == Entry(k)
<1>1. live # 0 /\ k \in DOMAIN pending[live] /\ pending[live][k] = c  BY DEF Entry
<1>2. live \in Bridges  BY <1>1, LiveIsBridge
<1>3. EntryOK(live, k)  BY <1>1, <1>2, ZenonT(40) DEF HostInv, TableOK
<1> QED  BY <1>1, <1>2, <1>3, ZenonT(40) DEF EntryOK

\* A push into a call that is not resolved has this effect.
LEMMA PushEffects ==
    ASSUME HostInv, NEW c \in Calls, Unresolved(sent[c]), NEW op \in {"emit", "resolve"}, NEW v \in JsValues,
           EnvOf([op |-> op, value |-> v]) # Refused, Push(c, EnvOf([op |-> op, value |-> v]), op, v)
    PROVE  PushEffect(c, op)
<1> DEFINE x == [op |-> op, value |-> v]
           r2 == Pushed(calls[c], x)
           s2 == Append(sent[c], x)
<1>1. x \in Pushes /\ x.op = op  BY DEF Pushes
<1>2. calls \in [Calls -> Records] /\ sent \in [Calls -> Seq(Pushes)]  BY Zenon DEF HostInv
<1>3. CASE calls[c].pc # "reading"
  <2>1. calls' = calls /\ sent' = sent  BY <1>3 DEF Push, Reading
  <2>2. op = "emit" => Unresolved(sent'[c])  BY <2>1
  <2> QED  BY <1>2, <1>3, <2>1, <2>2, InvCall, ZenonT(40) DEF PushEffect
<1>4. CASE calls[c].pc = "reading"
  <2>1. calls' = [calls EXCEPT ![c] = r2] /\ sent' = [sent EXCEPT ![c] = s2]
    BY <1>4, ZenonT(40) DEF Push, Reading, Pushed
  <2>2. CallOK(calls[c], sent[c], c)  BY InvCall
  <2>3. /\ CallOK(r2, s2, c) /\ r2.pc = "reading" /\ r2.bridge = calls[c].bridge /\ r2.wire = calls[c].wire
        /\ op = "emit" => Unresolved(s2)
        /\ op = "resolve" => Resolved(s2)
    <3> HIDE DEF x
    <3>1. PushGood(calls[c], sent[c], c, x)  BY <1>1, <1>4, <2>2, PushOK, ZenonT(40)
    <3> QED  BY <1>1, <3>1, ZenonT(40) DEF PushGood
  <2> HIDE DEF r2, s2
  <2>4. r2 \in Records /\ s2 \in Seq(Pushes)  BY <2>3, Zenon DEF CallOK
  <2>5. /\ calls' \in [Calls -> Records] /\ sent' \in [Calls -> Seq(Pushes)]
        /\ calls'[c] = r2 /\ sent'[c] = s2
        /\ \A d \in Calls : d # c => calls'[d] = calls[d] /\ sent'[d] = sent[d]
    BY <1>2, <2>1, <2>4
  <2>6. ASSUME NEW d \in Calls
        PROVE  /\ CallOK(calls'[d], sent'[d], d) /\ calls'[d].bridge = calls[d].bridge
               /\ calls'[d].pc = calls[d].pc /\ calls'[d].wire = calls[d].wire
    <3>1. CASE d = c  BY <3>1, <1>4, <2>3, <2>5, ZenonT(40)
    <3>2. CASE d # c  BY <3>2, <2>5, InvCall, Zenon
    <3> QED  BY <3>1, <3>2
  <2> QED  BY <2>3, <2>5, <2>6, Zenon DEF PushEffect
<1> QED  BY <1>3, <1>4

\* An entry of another call, or of this one as long as it is not resolved, stays good.
LEMMA EntryStays ==
    ASSUME HostInv, NEW c \in Calls, NEW op, PushEffect(c, op), NEW b \in Bridges, NEW k \in DOMAIN pending[b],
           NEW d, d = pending[b][k], d = c => op = "emit"
    PROVE  /\ d \in Calls /\ CidOf[d] = k /\ calls'[d].bridge = b /\ calls'[d].pc \notin {"new", "starting"}
           /\ Unresolved(sent'[d])
<1>1. /\ d \in Calls /\ CidOf[d] = k /\ calls[d].bridge = b /\ calls[d].pc \notin {"new", "starting"}
      /\ Unresolved(sent[d])
  <2>1. TableOK(b)  BY Zenon DEF HostInv
  <2>2. EntryOK(b, k)  BY <2>1, Zenon DEF TableOK
  <2> QED  BY <2>2, Zenon DEF EntryOK
<1>2. Unresolved(sent'[d])
  <2>1. CASE d = c  BY <2>1, Zenon DEF PushEffect
  <2>2. CASE d # c  BY <1>1, <2>2, Zenon DEF PushEffect
  <2> QED  BY <2>1, <2>2
<1>3. calls'[d].bridge = calls[d].bridge /\ calls'[d].pc = calls[d].pc  BY <1>1, Zenon DEF PushEffect
<1> QED  BY <1>1, <1>2, <1>3, Zenon

\* A push ends no call.
LEMMA PushedAnswered ==
    ASSUME HostInv, NEW c, NEW op, PushEffect(c, op), live' = live, created' = created, NEW d \in Calls
    PROVE  Answered(d)' /\ calls'[d].bridge <= created'
<1>1. calls'[d].bridge = calls[d].bridge /\ calls'[d].pc = calls[d].pc /\ calls'[d].wire = calls[d].wire
  BY Zenon DEF PushEffect
<1> QED  BY <1>1, InvCall, Zenon DEF Answered

\* emit_event: the entry stays.
LEMMA EmitKeeps ==
    ASSUME HostInv, NEW k, NEW v \in JsValues, emit_event(k, v)
    PROVE  HostInv'
<1> DEFINE c == Entry(k)
           x == [op |-> "emit", value |-> v]
<1>1. Entry(k) # NoCall /\ next_envelope(v) # Refused /\ Push(c, next_envelope(v), "emit", v)
      /\ pending' = pending /\ live' = live /\ created' = created /\ told' = told
  BY Zenon DEF emit_event
<1>2. /\ live # 0 /\ live \in Bridges /\ k \in DOMAIN pending[live] /\ pending[live][k] = c
      /\ c \in Calls /\ CidOf[c] = k /\ calls[c].bridge = live /\ Unresolved(sent[c])
  BY <1>1, EntryIs, Zenon
<1>3. EnvOf(x) = next_envelope(v)  BY DEF EnvOf
<1>4. PushEffect(c, "emit")
  <2>1. "emit" \in {"emit", "resolve"}  OBVIOUS
  <2> HIDE DEF c
  <2> QED  BY <1>1, <1>2, <1>3, <2>1, PushEffects, Zenon
<1> HIDE DEF c
<1>5. \A b \in Bridges : TableOK(b)'
  <2> SUFFICES ASSUME NEW b \in Bridges PROVE TableOK(b)'  OBVIOUS
  <2>1. ASSUME NEW i \in DOMAIN pending[b] PROVE EntryOK(b, i)'
    <3> DEFINE d == pending[b][i]
    <3>1. /\ d \in Calls /\ CidOf[d] = i /\ calls'[d].bridge = b /\ calls'[d].pc \notin {"new", "starting"}
          /\ Unresolved(sent'[d])
      <4> HIDE DEF PushEffect, HostInv
      <4> QED  BY <1>2, <1>4, EntryStays, SMT
    <3> QED  BY <1>1, <3>1, ZenonT(40) DEF EntryOK
  <2> QED  BY <1>1, <2>1, Zenon DEF HostInv, TableOK
<1>6. ASSUME NEW d \in Calls PROVE OpenOrResolved(d)' /\ Answered(d)'
  <2>1. Answered(d)'  BY <1>1, <1>4, PushedAnswered, Zenon
  <2>2. OpenOrResolved(d)'
    <3> SUFFICES ASSUME calls'[d].pc = "reading", calls'[d].bridge = live
                 PROVE  \/ CidOf[d] \in DOMAIN pending[live] /\ pending[live][CidOf[d]] = d
                        \/ Resolved(sent'[d])
      BY <1>1, Zenon DEF OpenOrResolved
    <3>1. calls[d].pc = "reading" /\ calls[d].bridge = live  BY <1>4, Zenon DEF PushEffect
    <3>2. CASE d = c  BY <3>2, <1>2, Zenon
    <3>3. CASE d # c
      <4>1. sent'[d] = sent[d]  BY <3>3, <1>4, Zenon DEF PushEffect
      <4> QED  BY <3>1, <4>1, InvCall, Zenon DEF OpenOrResolved
    <3> QED  BY <3>2, <3>3
  <2> QED  BY <2>1, <2>2
<1>7. \A d \in Calls : CallOK(calls'[d], sent'[d], d) /\ calls'[d].bridge <= created'
  BY <1>1, <1>4, PushedAnswered, Zenon DEF PushEffect
<1>8. calls' \in [Calls -> Records] /\ sent' \in [Calls -> Seq(Pushes)]  BY <1>4, Zenon DEF PushEffect
<1> QED  BY <1>1, <1>5, <1>6, <1>7, <1>8, ZenonT(40) DEF HostInv

\* resolve: the entry goes, and its call is resolved.
LEMMA ResolveKeeps ==
    ASSUME HostInv, NEW k, NEW v \in JsValues, resolve(k, v)
    PROVE  HostInv'
<1> DEFINE c == Entry(k)
           x == [op |-> "resolve", value |-> v]
           t0 == Restrict(pending[live], DOMAIN pending[live] \ {k})
<1>1. Entry(k) # NoCall /\ terminal_envelope(v) # Refused /\ Push(c, terminal_envelope(v), "resolve", v)
      /\ pending' = [pending EXCEPT ![live] = t0] /\ live' = live /\ created' = created /\ told' = told
  BY Zenon DEF resolve
<1>2. /\ live # 0 /\ live \in Bridges /\ k \in DOMAIN pending[live] /\ pending[live][k] = c
      /\ c \in Calls /\ CidOf[c] = k /\ calls[c].bridge = live /\ Unresolved(sent[c])
  BY <1>1, EntryIs, Zenon
<1>3. EnvOf(x) = terminal_envelope(v)  BY DEF EnvOf
<1>4. PushEffect(c, "resolve")
  <2>1. "resolve" \in {"emit", "resolve"}  OBVIOUS
  <2> HIDE DEF c
  <2> QED  BY <1>1, <1>2, <1>3, <2>1, PushEffects, ZenonT(40)
<1> HIDE DEF c
<1>5. DOMAIN t0 = DOMAIN pending[live] \ {k} /\ \A i \in DOMAIN t0 : t0[i] = pending[live][i]
  BY DEF Restrict
<1> HIDE DEF t0
<1>6. /\ DOMAIN pending' = Bridges /\ pending'[live] = t0
      /\ \A b \in Bridges : b # live => pending'[b] = pending[b]
  <2>1. DOMAIN pending = Bridges  BY Zenon DEF HostInv
  <2> QED  BY <1>1, <1>2, <2>1
<1>7. ASSUME NEW b \in Bridges
      PROVE  /\ DOMAIN pending'[b] \subseteq DOMAIN pending[b]
             /\ \A i \in DOMAIN pending'[b] : pending'[b][i] = pending[b][i] /\ (b = live => i # k)
  <2>1. CASE b = live  BY <2>1, <1>5, <1>6
  <2>2. CASE b # live  BY <2>2, <1>6
  <2> QED  BY <2>1, <2>2
<1>8. \A b \in Bridges : TableOK(b)'
  <2> SUFFICES ASSUME NEW b \in Bridges PROVE TableOK(b)'  OBVIOUS
  <2>1. /\ DOMAIN pending[b] \subseteq Cids /\ IsFiniteSet(DOMAIN pending[b])
        /\ Cardinality(DOMAIN pending[b]) <= MaxPending
    BY Zenon DEF HostInv, TableOK
  <2>2. /\ IsFiniteSet(DOMAIN pending'[b])
        /\ Cardinality(DOMAIN pending'[b]) <= Cardinality(DOMAIN pending[b])
    BY <1>7, <2>1, FS_Subset, ZenonT(40)
  <2>3. Cardinality(DOMAIN pending'[b]) <= MaxPending
    <3>1. Cardinality(DOMAIN pending'[b]) \in Nat /\ Cardinality(DOMAIN pending[b]) \in Nat
      BY <2>1, <2>2, FS_CardinalityType, Zenon
    <3> QED  BY <2>1, <2>2, <3>1, HostAssumption DEF HostAssumption
  <2>4. ASSUME NEW i \in DOMAIN pending'[b] PROVE EntryOK(b, i)'
    <3> DEFINE d == pending[b][i]
    <3>1. i \in DOMAIN pending[b] /\ pending'[b][i] = d /\ (b = live => i # k)  BY <1>7, Zenon
    <3>2. d # c
      <4>1. EntryOK(b, i)  BY <3>1, Zenon DEF HostInv, TableOK
      <4>2. CidOf[d] = i /\ calls[d].bridge = b  BY <4>1, ZenonT(40) DEF EntryOK
      <4> QED  BY <1>2, <3>1, <4>2, Zenon
    <3>3. /\ d \in Calls /\ CidOf[d] = i /\ calls'[d].bridge = b /\ calls'[d].pc \notin {"new", "starting"}
          /\ Unresolved(sent'[d])
      <4> HIDE DEF PushEffect, HostInv
      <4> QED  BY <1>2, <1>4, <3>1, <3>2, EntryStays, SMT
    <3> QED  BY <3>1, <3>3, Zenon DEF EntryOK
  <2> QED  BY <1>7, <2>1, <2>2, <2>3, <2>4, ZenonT(40) DEF TableOK
<1>9. ASSUME NEW d \in Calls PROVE OpenOrResolved(d)' /\ Answered(d)'
  <2>1. Answered(d)'  BY <1>1, <1>4, PushedAnswered, ZenonT(40)
  <2>2. OpenOrResolved(d)'
    <3> SUFFICES ASSUME calls'[d].pc = "reading", calls'[d].bridge = live
                 PROVE  \/ CidOf[d] \in DOMAIN pending'[live] /\ pending'[live][CidOf[d]] = d
                        \/ Resolved(sent'[d])
      BY <1>1, Zenon DEF OpenOrResolved
    <3>1. calls[d].pc = "reading" /\ calls[d].bridge = live  BY <1>4, Zenon DEF PushEffect
    <3>2. CASE d = c  BY <3>1, <3>2, <1>4, Zenon DEF PushEffect
    <3>3. CASE d # c
      <4>1. sent'[d] = sent[d]  BY <3>3, <1>4, Zenon DEF PushEffect
      <4>2. CASE Resolved(sent[d])  BY <4>1, <4>2
      <4>3. CASE CidOf[d] \in DOMAIN pending[live] /\ pending[live][CidOf[d]] = d
        <5>1. CidOf[d] # k  BY <3>3, <4>3, <1>2, Zenon
        <5> QED  BY <4>3, <5>1, <1>5, <1>6
      <4> QED  BY <3>1, <4>2, <4>3, InvCall, ZenonT(40) DEF OpenOrResolved
    <3> QED  BY <3>2, <3>3
  <2> QED  BY <2>1, <2>2
<1>10. \A d \in Calls : CallOK(calls'[d], sent'[d], d) /\ calls'[d].bridge <= created'
  BY <1>1, <1>4, PushedAnswered, ZenonT(40) DEF PushEffect
<1>11. calls' \in [Calls -> Records] /\ sent' \in [Calls -> Seq(Pushes)]  BY <1>4, Zenon DEF PushEffect
<1> QED  BY <1>1, <1>6, <1>8, <1>9, <1>10, <1>11, ZenonT(40) DEF HostInv

\* A shutdown takes the bridge out of the cell.
LEMMA StopKeeps ==
    ASSUME HostInv, stop
    PROVE  HostInv'
<1>1. calls' = calls /\ sent' = sent /\ created' = created /\ told' = told /\ live' = 0
      /\ pending' = Dropped(pending, calls, 0)
  BY Zenon DEF stop, js
<1>2. DOMAIN pending' = Bridges  BY <1>1, Zenon DEF Dropped
<1>3. \A b \in Bridges : TableOK(b)'
  <2> SUFFICES ASSUME NEW b \in Bridges PROVE TableOK(b)'  OBVIOUS
  <2>1. pending'[b] \in {pending[b], NoEntries}  BY <1>1, DroppedIs, Zenon
  <2>2. CASE pending'[b] = pending[b]  
    <3>1. TableOK(b)  BY Zenon DEF HostInv
    <3>2. \A i \in DOMAIN pending[b] : EntryOK(b, i)'  BY <1>1, <2>2, <3>1, Zenon DEF TableOK, EntryOK
    <3> QED  BY <2>2, <3>1, <3>2, Zenon DEF TableOK
  <2>3. CASE pending'[b] = NoEntries  BY <2>3, EmptyTable, Zenon DEF TableOK
  <2> QED  BY <2>1, <2>2, <2>3
<1>4. ASSUME NEW d \in Calls PROVE OpenOrResolved(d)' /\ Answered(d)'
  <2>1. calls[d].pc = "reading" => calls[d].bridge # 0  BY InvCall, Zenon DEF CallOK
  <2> QED  BY <1>1, <2>1, Zenon DEF OpenOrResolved, Answered
<1>5. live' \in 0..created'
  <2>1. created \in Bridges  BY Zenon DEF HostInv
  <2> QED  BY <1>1, <2>1 DEF Bridges
<1> QED  BY <1>1, <1>2, <1>3, <1>4, <1>5, Zenon DEF HostInv

\* An init puts in a bridge no call was served through.
LEMMA CompleteStartKeeps ==
    ASSUME HostInv, complete_start
    PROVE  HostInv'
<1>1. created < MaxBridges /\ calls' = calls /\ sent' = sent /\ created' = created + 1 /\ told' = told
      /\ live' = created + 1 /\ pending' = pending
  BY Zenon DEF complete_start, js
<1>2. created \in Bridges  BY Zenon DEF HostInv
<1>3. created' \in Bridges /\ live' \in 0..created'  BY <1>1, <1>2, HostAssumption DEF Bridges, HostAssumption
<1>4. ASSUME NEW d \in Calls PROVE calls[d].bridge # live' /\ calls'[d].bridge <= created'
  <2>1. calls[d].bridge \in 0..MaxBridges /\ calls[d].bridge <= created  BY InvCall
  <2> QED  BY <1>1, <1>2, <2>1, HostAssumption DEF Bridges, HostAssumption
<1>5. \A d \in Calls : OpenOrResolved(d)' /\ Answered(d)'
  BY <1>1, <1>4, Zenon DEF OpenOrResolved, Answered
<1>6. \A b \in Bridges : TableOK(b)'
  <2>1. \A b \in Bridges : TableOK(b)  BY Zenon DEF HostInv
  <2>2. ASSUME NEW b \in Bridges PROVE TableOK(b)'
    <3>1. TableOK(b)  BY <2>1
    <3>2. \A i \in DOMAIN pending[b] : EntryOK(b, i)'  BY <1>1, <3>1, Zenon DEF TableOK, EntryOK
    <3> QED  BY <1>1, <3>1, <3>2, Zenon DEF TableOK
  <2> QED  BY <2>2
<1> QED  BY <1>1, <1>3, <1>4, <1>5, <1>6, ZenonT(40) DEF HostInv

-----------------------------------------------------------------------------
(* The theorem.                                                            *)

\* The invariant holds before any call.
LEMMA HostInit == Init => HostInv
<1> SUFFICES ASSUME Init PROVE HostInv  OBVIOUS
<1> DEFINE r0 == [pc |-> "new", bridge |-> 0, answered |-> FALSE, chan |-> <<>>, wire |-> <<>>]
<1>1. /\ calls = [c \in Calls |-> r0] /\ sent = [c \in Calls |-> <<>>] /\ told = {}
      /\ pending = [b \in Bridges |-> NoEntries] /\ live = 1 /\ created = 1
  BY Zenon DEF Init
<1>2. r0 \in Records
  <2>1. 0 \in 0..MaxBridges  BY HostAssumption DEF HostAssumption
  <2>2. <<>> \in Seq(Envelopes) /\ <<>> \in Seq(Samples)  OBVIOUS
  <2>3. "new" \in Pcs  BY DEF Pcs
  <2> QED  BY <2>1, <2>2, <2>3 DEF Records
<1>3. r0.pc = "new" /\ r0.wire = <<>> /\ r0.chan = <<>> /\ r0.bridge = 0  OBVIOUS
<1> HIDE DEF r0
<1>4. <<>> \in Seq(Pushes) /\ Len(<<>>) = 0 /\ 1..0 = {}  OBVIOUS
<1>5. calls \in [Calls -> Records] /\ sent \in [Calls -> Seq(Pushes)]  BY <1>1, <1>2, <1>4
<1>6. \A c \in Calls : calls[c] = r0 /\ sent[c] = <<>>  BY <1>1
<1>7. \A c \in Calls : CallOK(r0, <<>>, c)
  <2>1. ResolveIsLast(<<>>) /\ ErrorsEnd(<<>>) /\ FollowsJs(<<>>, <<>>)
    BY <1>4 DEF ResolveIsLast, ErrorsEnd, FollowsJs
  <2> QED  BY <1>2, <1>3, <1>4, <2>1 DEF CallOK
<1>8. \A c \in Calls : OpenOrResolved(c) /\ Answered(c)
  <2>1. "new" \notin Ended  BY DEF Ended
  <2> QED  BY <1>3, <1>6, <2>1 DEF OpenOrResolved, Answered
<1>9. \A b \in Bridges : TableOK(b)
  <2>1. \A b \in Bridges : pending[b] = NoEntries  BY <1>1
  <2> QED  BY <2>1, EmptyTable, ZenonT(40) DEF TableOK
<1>10. DOMAIN pending = Bridges /\ live \in 0..created /\ created \in Bridges /\ told \subseteq Cids
  BY <1>1, HostAssumption DEF Bridges, HostAssumption
<1>11. \A c \in Calls : calls[c].bridge <= created  BY <1>1, <1>3, <1>6
<1> QED  BY <1>5, <1>6, <1>7, <1>8, <1>9, <1>10, <1>11, ZenonT(40) DEF HostInv

\* Every step of a handler, a caller, JavaScript or the gateway keeps it.
LEMMA HostStep == HostInv /\ [Next]_vars => HostInv'
<1> SUFFICES ASSUME HostInv, [Next]_vars PROVE HostInv'  OBVIOUS
<1>1. CASE JavaScript
  <2>1. PICK k \in told, v \in JsValues : emit_event(k, v) \/ resolve(k, v)  BY <1>1 DEF JavaScript
  <2> QED  BY <2>1, EmitKeeps, ResolveKeeps, ZenonT(40)
<1>2. CASE stop  BY <1>2, StopKeeps
<1>3. CASE complete_start  BY <1>3, CompleteStartKeeps
<1>4. ASSUME NEW c \in Calls, Serve(c) \/ Cancel(c) PROVE HostInv'
  BY <1>4, DispatchKeeps, StartKeeps, NextKeeps, CloseKeeps, ExpireKeeps, CancelKeeps, ZenonT(40) DEF Serve
<1>5. CASE UNCHANGED vars
  <2>1. /\ calls' = calls /\ pending' = pending /\ live' = live /\ created' = created
        /\ told' = told /\ sent' = sent
    BY <1>5 DEF vars
  <2>2. \A b \in Bridges : TableOK(b)'
    <3>1. \A b \in Bridges : TableOK(b)  BY Zenon DEF HostInv
    <3> SUFFICES ASSUME NEW b \in Bridges PROVE TableOK(b)'  OBVIOUS
    <3>2. TableOK(b)  BY <3>1
    <3>3. \A i \in DOMAIN pending[b] : EntryOK(b, i)'  BY <2>1, <3>2, Zenon DEF TableOK, EntryOK
    <3> QED  BY <2>1, <3>2, <3>3, ZenonT(40) DEF TableOK
  <2>3. \A c \in Calls : OpenOrResolved(c)' /\ Answered(c)'
    BY <2>1, InvCall, ZenonT(40) DEF OpenOrResolved, Answered
  <2> QED  BY <2>1, <2>2, <2>3, ZenonT(40) DEF HostInv
<1> QED  BY <1>1, <1>2, <1>3, <1>4, <1>5 DEF Next

\* The invariant is stronger than the property.
LEMMA HostInvIs == HostInv => HostFollowsJs
<1> SUFFICES ASSUME HostInv PROVE HostFollowsJs  OBVIOUS
<1>1. ASSUME NEW c \in Calls
      PROVE  /\ calls[c].pc \in Pcs /\ calls[c].bridge \in 0..MaxBridges /\ calls[c].wire \in Seq(Samples)
             /\ ErrorsEnd(calls[c].wire) /\ FollowsJs(calls[c].wire, sent[c]) /\ Answered(c)
  <2>1. calls[c] \in Records /\ CallOK(calls[c], sent[c], c) /\ Answered(c)  BY InvCall
  <2> QED  BY <2>1 DEF CallOK, Records
<1>2. \A c \in Calls : DOMAIN calls[c].wire = 1..Len(calls[c].wire)  BY <1>1, SeqLength
<1>3. TypeOK
  <2>1. \A b \in Bridges : DOMAIN pending[b] \subseteq Cids /\ Cardinality(DOMAIN pending[b]) <= MaxPending
    BY Zenon DEF HostInv, TableOK
  <2>2. \A c \in Calls : calls[c].pc \in {"new", "starting", "reading"} \cup Ended
    BY <1>1 DEF Pcs
  <2> QED  BY <1>1, <2>1, <2>2, ZenonT(40) DEF TypeOK, HostInv
<1>4. WireWellFormed  BY <1>1, <1>2, Zenon DEF WireWellFormed, ErrorsEnd
<1>5. WireFollowsJs  BY <1>1, <1>2, Zenon DEF WireFollowsJs, FollowsJs
<1>6. NoSilentEnd  BY <1>1, Zenon DEF NoSilentEnd, Answered
<1> QED  BY <1>3, <1>4, <1>5, <1>6 DEF HostFollowsJs

\* Whatever JavaScript pushes, and however handlers, callers, shutdowns and restarts
\* interleave, the handler of every call (serve, json_host.rs) sends what JavaScript
\* meant, in its order, ends it once, and ends none in silence while its bridge lives;
\* PendingCalls (bridge.rs) never holds more than its limit. For any number of calls,
\* values, bridges and events.
THEOREM HostIsFaithful == Spec => []HostFollowsJs
BY HostInit, HostStep, HostInvIs, PTL DEF Spec
=============================================================================
