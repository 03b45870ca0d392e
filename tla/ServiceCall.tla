----------------------------- MODULE ServiceCall -----------------------------
(***************************************************************************)
(* One call through the code that `#[service]` generates, end to end: the  *)
(* proxy and its modes, the client that encodes the request, the routing   *)
(* of the request by the provider and the handler that decodes it.  The    *)
(* two processes may be built from different contracts of one service.     *)
(***************************************************************************)
EXTENDS Naturals, Sequences, SequencesExt

CONSTANT Inputs     \* the calls: see CallShape

VARIABLES
    in,         \* the call and the two builds
    pc,         \* "call", "request", "dispatched", "answered" or "done"
    req,        \* the request sample
    ran,        \* what the implementation was called with
    wire,       \* samples published on the response channel
    got,        \* events the caller received
    said        \* answer of the inherent one-way call
vars == <<in, pc, req, ran, wire, got, said>>

Nothing == [none |-> TRUE]

\* A method of a contract; its position is its request-enum discriminant.
MethodOf(contract, name) == CHOOSE m \in Range(contract.methods) : m.name = name
DiscriminantOf(contract, name) ==
    CHOOSE i \in DOMAIN contract.methods : contract.methods[i].name = name
Names(contract) == {m.name : m \in Range(contract.methods)}

\* The layout of the request enum: the arguments of its variants, in order.
Layout(contract) == [i \in DOMAIN contract.methods |-> contract.methods[i].args]

method_id_of(name) == in.ids[name]
called == MethodOf(in.consumer, in.name)
TwoWay == ~called.oneway

CallShape(i) ==
    /\ i.mode \in {"Provider", "ProviderJson", "Consumer"}
    /\ i.name \in Names(i.consumer)
    /\ i.form \in IF MethodOf(i.consumer, i.name).oneway THEN {"trait", "inherent"}
                  ELSE {"async", "blocking"}

Init ==
    /\ in \in {i \in Inputs : CallShape(i)}
    /\ pc = "call" /\ req = Nothing /\ ran = Nothing
    /\ wire = <<>> /\ got = <<>> /\ said = "nothing"

-----------------------------------------------------------------------------
\* A call that ends without leaving the process.
Ends(events, answer) ==
    /\ got' = events /\ said' = answer /\ pc' = "done"
    /\ UNCHANGED req
technical(error) == <<[kind |-> "technical", value |-> error]>>

\* Provider mode: the local implementation is called.
Local(answer) ==
    /\ in.mode = "Provider"
    /\ ran' = [name |-> in.name, args |-> called.args]
    /\ Ends(IF TwoWay THEN in.stream ELSE <<>>, answer)

\* ProviderJson mode: a direct call is refused.
Refused(answer) ==
    /\ in.mode = "ProviderJson"
    /\ Ends(IF TwoWay THEN technical("Internal") ELSE <<>>, answer)
    /\ UNCHANGED ran

\* Consumer mode: the request is published under the id of the method's name.
Published(answer) ==
    /\ req' = [protocol |-> in.protocol, version |-> in.consumer.version,
               method |-> method_id_of(in.name),
               variant |-> DiscriminantOf(in.consumer, in.name),
               layout |-> Layout(in.consumer), args |-> called.args]
    /\ pc' = "request" /\ said' = answer /\ UNCHANGED got

\* The client: encoding and publishing are one step, and either may fail.
client_method ==
    /\ in.mode = "Consumer"
    /\ \/ Published("nothing")
       \/ \E e \in {"SerializationError", "ConnectionError"} : Ends(technical(e), "nothing")
    /\ UNCHANGED ran

\* The one-way client reports whether a subscriber took the sample; its caller
\* keeps the report or drops it.
Reports == {"true", "false", "error"}
client_oneway_method(kept) ==
    /\ in.mode = "Consumer"
    /\ \/ Published(kept["true"])
       \/ \E report \in Reports \ {"true"} : Ends(<<>>, kept[report])
    /\ UNCHANGED ran

\* The four callers a proxy has, two for each kind of method.
proxy_method ==
    /\ pc = "call" /\ in.form = "async"
    /\ Local("nothing") \/ Refused("nothing") \/ client_method
    /\ UNCHANGED <<in, wire>>
proxy_blocking_method ==
    /\ pc = "call" /\ in.form = "blocking"
    /\ Local("nothing") \/ Refused("nothing") \/ client_method
    /\ UNCHANGED <<in, wire>>
proxy_oneway_method ==
    /\ pc = "call" /\ in.form = "trait"
    /\ Local("nothing") \/ Refused("nothing") \/ client_oneway_method([report \in Reports |-> "nothing"])
    /\ UNCHANGED <<in, wire>>
proxy_oneway_call ==
    /\ pc = "call" /\ in.form = "inherent"
    /\ Local("true") \/ Refused("error") \/ client_oneway_method([report \in Reports |-> report])
    /\ UNCHANGED <<in, wire>>

-----------------------------------------------------------------------------
rpc_error(error) == <<[kind |-> "RpcError", value |-> error]>>

\* A request that cannot be served is answered from the stable header alone.
reject(error) ==
    /\ wire' = rpc_error(error) /\ pc' = "answered" /\ UNCHANGED ran

\* RequestRejection: the protocol first, then the interface version.
classify ==
    IF req.protocol # 1 THEN "ProtocolMismatch"
    ELSE IF req.version # in.provider.version THEN "IncompatibleVersion"
    ELSE "none"

\* The method table: a later registration under the same id replaces the earlier.
Registered(id) == {i \in DOMAIN in.provider.methods :
                       method_id_of(in.provider.methods[i].name) = id}
Entry(id) == in.provider.methods[CHOOSE i \in Registered(id) : \A j \in Registered(id) : j <= i]

handle_request ==
    /\ pc = "request"
    /\ IF ~in.hosted THEN reject("UnknownService")
       ELSE IF classify # "none" THEN reject(classify)
       ELSE IF Registered(req.method) = {} THEN reject("UnknownMethod")
       ELSE pc' = "dispatched" /\ UNCHANGED <<ran, wire>>
    /\ UNCHANGED <<in, req, got, said>>

\* What decode_aligned may make of the payload: bytes of the same enum are the
\* value that was sent; bytes of another one are refused, or read as any value.
Decodings ==
    IF req.layout = Layout(in.provider)
    THEN {[variant |-> req.variant, args |-> req.args]}
    ELSE {[variant |-> 0, args |-> "invalid"]}
           \cup [variant : DOMAIN in.provider.methods, args : {req.args, "misread"}]

AnyVariant(entry, value) == value.variant # 0
IsOwnVariant(entry, value) ==
    /\ value.variant # 0
    /\ in.provider.methods[value.variant].name = entry.name

reject_undecodable(entry) == IF entry.oneway THEN <<>> ELSE rpc_error("SerializationError")

\* The fold of the response path: a value and the Complete that already follows it
\* are one sample.
Foldings(stream) ==
    LET n == Len(stream)
    IN  {stream} \cup
        IF n >= 2 /\ stream[n].kind = "Complete" /\ stream[n - 1].kind = "Next"
        THEN {Append(SubSeq(stream, 1, n - 2), [stream[n - 1] EXCEPT !.kind = "CompleteWith"])}
        ELSE {}
Framed(stream) ==
    [i \in DOMAIN stream |-> IF stream[i].kind = "technical"
                             THEN [stream[i] EXCEPT !.kind = "RpcError"] ELSE stream[i]]

\* The generated handler: decode, then run the implementation and drive its stream
\* into the emitter, unless the method is one-way.
Handler ==
    LET entry == Entry(req.method)
    IN  /\ pc = "dispatched"
        /\ \E value \in Decodings :
             IF IsOwnVariant(entry, value)
             THEN /\ ran' = [name |-> entry.name, args |-> value.args]
                  /\ IF entry.oneway THEN wire' = <<>>
                     ELSE \E s \in Foldings(in.stream) : wire' = Framed(s)
             ELSE wire' = reject_undecodable(entry) /\ UNCHANGED ran
        /\ pc' = "answered"
        /\ UNCHANGED <<in, req, got, said>>

LosesFoldedValue(sample) ==
    CASE sample.kind = "CompleteWith" -> <<[kind |-> "Complete", value |-> ""]>>
      [] sample.kind = "RpcError" -> <<[sample EXCEPT !.kind = "technical"]>>
      [] OTHER -> <<sample>>
\* A sample becomes one event, or two for a CompleteWith.
normalize_wire_event(sample) ==
    CASE sample.kind = "CompleteWith" ->
           <<[sample EXCEPT !.kind = "Next"], [kind |-> "Complete", value |-> ""]>>
      [] sample.kind = "RpcError" -> <<[sample EXCEPT !.kind = "technical"]>>
      [] OTHER -> <<sample>>

\* The responses reach the handler of the call; a one-way call registered none.
Respond ==
    /\ pc = "answered" /\ pc' = "done"
    /\ got' = IF TwoWay THEN FlattenSeq([i \in DOMAIN wire |-> normalize_wire_event(wire[i])])
              ELSE <<>>
    /\ UNCHANGED <<in, req, ran, wire, said>>

Next == proxy_method \/ proxy_blocking_method \/ proxy_oneway_method \/ proxy_oneway_call
        \/ handle_request \/ Handler \/ Respond

Spec == Init /\ [][Next]_vars

-----------------------------------------------------------------------------
NoCollision == \A a, b \in DOMAIN in.ids : in.ids[a] = in.ids[b] => a = b

\* Types; a stream the caller reads holds only the four kinds of Event, a folded
\* CompleteWith has been expanded (normalize_wire_event).
TypeOK ==
    /\ pc \in {"call", "request", "dispatched", "answered", "done"}
    /\ said \in {"nothing", "true", "false", "error"}
    /\ \A e \in Range(got) : e.kind \in {"Next", "Complete", "Error", "technical"}

\* The implementation runs the method the caller named, on the arguments the caller
\* passed, or does not run at all: methods are found by the hash of their name and the
\* payload must decode as the variant of that very method.  So a reordered contract
\* runs no other method, and neither do two names with one hash in builds that agree;
\* builds whose request enums differ may misread the arguments, never the method.
RightMethodOrRefused ==
    LET sameMethods == in.consumer.methods = in.provider.methods
        sameEnum == Layout(in.consumer) = Layout(in.provider)
    IN  ran # Nothing /\ (NoCollision \/ sameMethods) =>
            ran.name = in.name /\ (sameEnum => ran.args = called.args)

\* A call that waits is answered to the end whatever the provider makes of its request
\* (service, protocol, version or method unknown, payload of another build), as long as
\* the provider's method is not one-way.
FailFast ==
    LET onewayThere == /\ in.mode = "Consumer" /\ in.hosted
                       /\ \E m \in Range(in.provider.methods) :
                            in.ids[m.name] = in.ids[in.name] /\ m.oneway
    IN  pc = "done" /\ TwoWay /\ ~onewayThere => got # <<>> /\ Last(got).kind # "Next"

\* A remote call of a provider built from the same contract is the local call: same
\* implementation call, same events in the same order, whatever the fold put on the wire.
ModesAgree ==
    LET sameBuild == /\ in.consumer = in.provider /\ NoCollision
                     /\ in.hosted /\ in.protocol = 1
    IN  pc = "done" /\ req # Nothing /\ sameBuild =>
            /\ ran = [name |-> in.name, args |-> called.args]
            /\ TwoWay => got = in.stream

\* A peer of another interface version, or of another framing protocol, never reaches an
\* implementation: its request is refused on the header, before the payload is decoded.
OldPeersNeverRun ==
    ran # Nothing /\ in.mode = "Consumer" =>
        in.protocol = 1 /\ in.consumer.version = in.provider.version

=============================================================================
