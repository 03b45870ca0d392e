------------------------------ MODULE JsonCall ------------------------------
(***************************************************************************)
(* A service called through its JSON view (json.rs and the invoker that    *)
(* codegen/json.rs generates) from the two front ends that use it: the     *)
(* HTTP gateway (http_gateway.rs) and callService / callServiceStream of   *)
(* the Node.js addon (consumer.rs).  A request is resolved to a view, its  *)
(* arguments are decoded, the call is published, and its stream is read    *)
(* and turned into an answer.  What the provider and the bus do with the   *)
(* call is the environment's: it fails, or any events arrive.              *)
(***************************************************************************)
EXTENDS Integers, Sequences, FiniteSets, Functions, SequencesExt

CONSTANTS
    Requests,    \* the requests in flight
    Inputs,      \* what a request may carry
    Registered,  \* services this very process provides through the JSON host
    MaxEvents    \* events of one stream

VARIABLES
    calls,       \* each request: [pc, in, view, params, decoded, why, stream, answer]
    cache,       \* the HTTP gateway's views: service -> view, 0 when absent
    built        \* views built by the factories
vars == <<calls, cache, built>>

\* A JSON value: its kind, its text, the fields of an object.
J(k, v) == [k |-> k, v |-> v, f |-> <<>>]
Null == J("null", "")
Obj(fields) == [k |-> "obj", v |-> "", f |-> fields]

\* The services and the methods the macro generates a view for.
Services == {"db"}
Method(names, types, oneway) == [names |-> names, types |-> types, oneway |-> oneway]
Methods ==
    [ping |-> Method(<<>>, <<>>, FALSE),
     age  |-> Method(<<"name">>, <<"String">>, FALSE),
     put  |-> Method(<<"blob">>, <<"bytes">>, FALSE),
     find |-> Method(<<"name", "limit", "key">>, <<"String", "Option", "bytes">>, FALSE),
     note |-> Method(<<"on", "id">>, <<"bool", "i64">>, TRUE)]

\* The texts a query may hold, as the parsers of parse_scalar classify them.
True == {"true", "TRUE"}
False == {"false"}
Nothing == {"null", "none"}
Integer == {"42", "1234"}
Float == {"1.5"}
Bytes == {"b1", "b2"}
Base64 == [b \in Bytes |-> IF b = "b1" THEN "QQ==" ELSE "1234"]

parse_scalar(s) ==
    IF s = "" THEN J("str", "")
    ELSE IF s \in True THEN J("bool", "true")
    ELSE IF s \in False THEN J("bool", "false")
    ELSE IF s \in Nothing THEN Null
    ELSE IF s \in Integer \cup Float THEN J("num", s)
    ELSE J("str", s)

params_to_json(params) ==
    IF DOMAIN params = {} THEN Null
    ELSE IF Cardinality(DOMAIN params) = 1
    THEN parse_scalar(params[CHOOSE k \in DOMAIN params : TRUE])
    ELSE Obj([k \in DOMAIN params |-> parse_scalar(params[k])])

-----------------------------------------------------------------------------
\* Provider side: one argument, and the arguments of one request, as JSON.
EncodeBytes(x) == J("str", Base64[x])
ArgValue(type, x) ==
    CASE type = "bytes" -> EncodeBytes(x)
      [] type = "String" -> J("str", x)
      [] type = "i64" -> J("num", x)
      [] type = "bool" -> J("bool", x)
      [] type = "Option" -> IF x = "None" THEN Null ELSE J("num", x)

deserialize_request_to_value(m, args) ==
    LET names == Methods[m].names
        types == Methods[m].types
    IN  IF names = <<>> THEN Obj(<<>>)
        ELSE IF Len(names) = 1 THEN ArgValue(types[1], args[1])
        ELSE Obj([n \in Range(names) |->
                    LET i == CHOOSE j \in 1..Len(names) : names[j] = n
                    IN  ArgValue(types[i], args[i])])

\* Consumer side: a decoded argument is <<x>>, one that does not decode <<>>.
arg_from_json(type, j) ==
    CASE type = "String" -> IF j.k = "str" THEN <<j.v>> ELSE <<>>
      [] type = "bool" -> IF j.k = "bool" THEN <<j.v>> ELSE <<>>
      [] type = "i64" -> IF j.k = "num" /\ j.v \in Integer THEN <<j.v>> ELSE <<>>
      [] type = "Option" -> IF j = Null THEN <<"None">>
                            ELSE IF j.k = "num" /\ j.v \in Integer THEN <<j.v>> ELSE <<>>

arg_from_base64(j) ==
    IF j.k # "str" THEN <<>> ELSE SetToSeq({b \in Bytes : Base64[b] = j.v})

take_field(j, name) == IF j.k = "obj" /\ name \in DOMAIN j.f THEN j.f[name] ELSE Null

gen_arg_extraction(m, j) ==
    LET names == Methods[m].names
        arg(i) == IF Len(names) = 1 THEN j ELSE take_field(j, names[i])
    IN  [i \in 1..Len(names) |->
            IF Methods[m].types[i] = "bytes" THEN arg_from_base64(arg(i))
            ELSE arg_from_json(Methods[m].types[i], arg(i))]

SomeDecoded(args) == args = <<>> \/ \E i \in DOMAIN args : args[i] # <<>>
AllDecoded(args) == <<>> \notin Range(args)

-----------------------------------------------------------------------------
\* What a call produced (JsonOutcome, JsonCallError), and what it is read from.
Outcome(k, values) == [k |-> k, values |-> values]
Next1(v) == [e |-> "Next", v |-> v]
Ev(e) == [e |-> e, v |-> ""]
NextValues == {"x", "null", "odd"}     \* "odd" does not serialize to JSON
Events == {Next1(v) : v \in NextValues} \cup {Ev("Complete"), Ev("Error"), Ev("Technical")}
Ended(c) == c.stream # <<>> /\ Last(c.stream).e # "Next"
NextEvents(c) == SelectSeq(c.stream, LAMBDA ev : ev.e = "Next")
Values(c) == [i \in 1..Len(NextEvents(c)) |-> NextEvents(c)[i].v]

EmptyStream == Outcome("Nothing", <<>>)

ToJson(values) ==
    IF "odd" \in Range(values) THEN Outcome("Transport", <<>>) ELSE Outcome("Value", values)

FirstIsReady(c) == c.stream # <<>>
Readable(c) == IF c.in.read = "First" THEN FirstIsReady(c) ELSE Ended(c)
read_json(c) ==
    IF c.in.read = "First" /\ Values(c) # <<>> THEN ToJson(<<Head(Values(c))>>)
    ELSE CASE Last(c.stream).e = "Error" -> Outcome("Business", <<>>)
           [] Last(c.stream).e = "Technical" -> Outcome("Transport", <<>>)
           [] OTHER -> IF c.in.read = "First" THEN EmptyStream ELSE ToJson(Values(c))

\* The HTTP answer: a status, and the data, if there is any.
Reply(status, data) == [status |-> status, data |-> data]
HttpReply(o) ==
    CASE o.k = "Value" -> Reply("200", o.values)
      [] o.k = "Nothing" -> Reply("200", <<>>)
      [] o.k = "Accepted" -> Reply("202", o.values)
      [] o.k \in {"InvalidArgs", "Business"} -> Reply("400", <<>>)
      [] o.k = "Transport" -> Reply("502", <<>>)

\* The Node.js answer: a value, an array, or a failure code.
call_ipc_method(o) ==
    CASE o.k = "Value" -> Reply("value", o.values)
      [] o.k = "Nothing" -> Reply("E_BUSINESS", <<>>)
      [] o.k = "Accepted" -> Reply("E_ONE_WAY", <<>>)
call_error(o) ==
    CASE o.k = "InvalidArgs" -> Reply("E_INVALID_ARGS", <<>>)
      [] o.k = "Business" -> Reply("E_BUSINESS", <<>>)
      [] o.k = "Transport" -> Reply("E_TRANSPORT", <<>>)
call_ipc_method_stream(o) ==
    IF o.k = "Accepted" THEN Reply("E_ONE_WAY", <<>>) ELSE Reply("array", o.values)
NodeReply(c, o) ==
    IF o.k \in {"InvalidArgs", "Business", "Transport"} THEN call_error(o)
    ELSE IF c.in.read = "First" THEN call_ipc_method(o) ELSE call_ipc_method_stream(o)

-----------------------------------------------------------------------------
NoAnswer == Reply("", <<>>)
Idle == [pc |-> "idle", in |-> <<>>, view |-> 0, params |-> Null, decoded |-> <<>>,
         why |-> "unpublished", stream |-> <<>>, answer |-> NoAnswer]

Init ==
    /\ calls = [r \in Requests |-> Idle]
    /\ cache = [s \in Services |-> 0]
    /\ built = 0

Answer(r, c, reply) ==
    calls' = [calls EXCEPT ![r] = [c EXCEPT !.pc = "done", !.answer = reply]]
Finish(r, c, o) ==
    Answer(r, c, IF c.in.front = "http" THEN HttpReply(o) ELSE NodeReply(c, o))

\* HttpGateway::run up to the view: the origin, the route, the verb, the parameters.
run(r) ==
    /\ calls[r].pc = "idle"
    /\ \E in \in {i \in Inputs : i.front = "http"} :
         LET c == [calls[r] EXCEPT !.in = in,
                     !.params = IF in.verb = "GET" THEN params_to_json(in.query) ELSE in.body]
         IN  IF ~in.origin THEN Answer(r, c, Reply("403", <<>>))
             ELSE IF in.service = "" THEN Answer(r, c, Reply("404", <<>>))
             ELSE IF in.verb \notin {"GET", "POST"} THEN Answer(r, c, Reply("405", <<>>))
             ELSE calls' = [calls EXCEPT ![r] = [c EXCEPT !.pc = "lookup"]]
    /\ UNCHANGED <<cache, built>>

\* get_or_create: the read of the cache, and the factory when it has nothing.
Lookup(r) ==
    LET c == calls[r]
    IN  /\ c.pc = "lookup"
        /\ \/ /\ c.in.service \notin Services
              /\ Answer(r, c, Reply("404", <<>>)) /\ built' = built
           \/ /\ c.in.service \in Services /\ cache[c.in.service] # 0
              /\ calls' = [calls EXCEPT ![r].pc = "invoke", ![r].view = cache[c.in.service]]
              /\ built' = built
           \/ /\ c.in.service \in Services /\ cache[c.in.service] = 0
              /\ built' = built + 1
              /\ calls' = [calls EXCEPT ![r].pc = "insert", ![r].view = built + 1]
        /\ UNCHANGED cache

\* or_insert_with: the view that got there first stays.
OrInsert(old, new) == IF old = 0 THEN new ELSE old
Insert(r) ==
    /\ calls[r].pc = "insert"
    /\ cache' = [cache EXCEPT ![calls[r].in.service] = OrInsert(@, calls[r].view)]
    /\ calls' = [calls EXCEPT ![r].pc = "invoke"]
    /\ UNCHANGED built

\* call_outcome: the service is looked up in the table of the addon, and the
\* locator gives a proxy: the registered one, or one that consumes.
call_outcome(r) ==
    /\ calls[r].pc = "idle"
    /\ \E in \in {i \in Inputs : i.front = "node"} :
         LET c == [calls[r] EXCEPT !.in = in, !.params = in.body]
         IN  IF in.service \notin Services THEN Answer(r, c, Reply("E_UNKNOWN_SERVICE", <<>>))
             ELSE calls' = [calls EXCEPT ![r] = [c EXCEPT !.pc = "invoke"]]
    /\ UNCHANGED <<cache, built>>

\* The proxy of a service this process provides refuses a direct call.
ProviderJson(c) == c.in.front = "node" /\ c.in.service \in Registered

\* A notification is published at once: taken by a subscriber, by nobody, or refused.
Notify(r, c) ==
    \/ ~ProviderJson(c) /\ \E delivered \in {"true", "false"} :
           Finish(r, [c EXCEPT !.why = "sent"], Outcome("Accepted", <<delivered>>))
    \/ ProviderJson(c) /\ Finish(r, c, Outcome("Transport", <<>>))
    \/ ~ProviderJson(c) /\ Finish(r, [c EXCEPT !.why = "cancelled"], Outcome("Transport", <<>>))

\* A two-way call opens its stream, or is a stream of one technical error.
Call(r, c) ==
    LET failed(why) == [c EXCEPT !.pc = "reading", !.why = why, !.stream = <<Ev("Technical")>>]
    IN  \/ ProviderJson(c) /\ calls' = [calls EXCEPT ![r] = failed("unpublished")]
        \/ ~ProviderJson(c) /\ \E why \in {"no provider", "cancelled"} :
               calls' = [calls EXCEPT ![r] = failed(why)]
        \/ /\ ~ProviderJson(c)
           /\ calls' = [calls EXCEPT ![r] = [c EXCEPT !.pc = "reading", !.why = "sent"]]

UnknownMethod(front) == Reply(IF front = "http" THEN "404" ELSE "E_UNKNOWN_METHOD", <<>>)

\* invoke_json: the table of methods, the arguments, the call.
invoke_json(r) ==
    LET m == calls[r].in.method
        args == gen_arg_extraction(m, calls[r].params)
        c == [calls[r] EXCEPT !.decoded = args]
    IN  /\ calls[r].pc = "invoke"
        /\ IF m \notin DOMAIN Methods
           THEN Answer(r, calls[r], UnknownMethod(calls[r].in.front))
           ELSE IF ~AllDecoded(args) THEN Finish(r, c, Outcome("InvalidArgs", <<>>))
           ELSE IF Methods[m].oneway THEN Notify(r, c)
           ELSE Call(r, c)
        /\ UNCHANGED <<cache, built>>

\* The provider's events arrive.  The sender of the stream stays in the table of
\* handlers until a terminal event or the drop of the stream, so nothing closes
\* the stream under its reader.
Emit(r) ==
    /\ calls[r].pc = "reading" /\ ~Ended(calls[r])
    /\ Len(calls[r].stream) < MaxEvents
    /\ \E ev \in Events : calls' = [calls EXCEPT ![r].stream = Append(@, ev)]
    /\ UNCHANGED <<cache, built>>

Read(r) ==
    /\ calls[r].pc = "reading" /\ Readable(calls[r])
    /\ Finish(r, calls[r], read_json(calls[r]))
    /\ UNCHANGED <<cache, built>>

invoke_service(r) == Lookup(r) \/ Insert(r) \/ invoke_json(r) \/ Read(r)
Next == \E r \in Requests : run(r) \/ call_outcome(r) \/ invoke_service(r) \/ Emit(r)
Spec == Init /\ [][Next]_vars

\* The executor polls a request that can go on; nothing is said of the provider.
LiveSpec == Spec /\ \A r \in Requests : WF_vars(invoke_service(r))

-----------------------------------------------------------------------------
Done(r) == calls[r].pc = "done"

\* A request that carries its arguments the way the provider-side conversion
\* writes them is decoded to those very arguments: the two generated conversions
\* agree on every method (deserialize_request_to_value, gen_arg_extraction).
ConventionsAgree ==
    \A r \in Requests :
        (calls[r].pc \in {"reading", "done"} /\ calls[r].in.sent # <<>>) =>
            calls[r].decoded = [i \in DOMAIN calls[r].in.sent[1] |-> <<calls[r].in.sent[1][i]>>]

\* A request that is refused for its origin, route, verb, method or arguments
\* never reached the bus, and a call that did reach it had every argument.
RefusedIsUnpublished ==
    \A r \in Requests :
        calls[r].why # "unpublished" =>
            /\ calls[r].in.method \in DOMAIN Methods
            /\ \A i \in 1..Len(Methods[calls[r].in.method].names) : calls[r].decoded[i] # <<>>
            /\ calls[r].answer.status \notin
                 {"403", "404", "405", "E_UNKNOWN_SERVICE", "E_UNKNOWN_METHOD", "E_INVALID_ARGS"}

\* The answer says what the stream said: data only for an emitted value, every
\* value in order for a stream call, no data for none, a business failure only
\* for an error of the service or the missing value of a single-value call, and
\* a transport failure never for an error of the service.
AnswerFollowsStream ==
    \A r \in Requests : (Done(r) /\ calls[r].why = "sent" /\ ~Methods[calls[r].in.method].oneway) =>
        LET c == calls[r]
            read == SubSeq(c.stream, 1, IF c.in.read = "First" THEN 1 ELSE Len(c.stream))
            end == read[Len(read)].e
            emitted == SelectSeq(read, LAMBDA ev : ev.e = "Next")
            data == [i \in 1..Len(emitted) |-> emitted[i].v]
        IN  CASE c.answer.status \in {"200", "value", "array"} ->
                   c.answer.data = data /\ end \notin {"Error", "Technical"}
              [] c.answer.status = "400" -> end = "Error"
              [] c.answer.status = "E_BUSINESS" -> end = "Error" \/ (c.in.read = "First" /\ data = <<>>)
              [] c.answer.status \in {"502", "E_TRANSPORT"} ->
                   end = "Technical" \/ (end # "Error" /\ \E i \in DOMAIN data : data[i] = "odd")
              [] OTHER -> FALSE

\* The first view a request stored serves every later one: requests that raced
\* to build it do not replace it (HttpGatewayState::get_or_create).
CachedViewStays ==
    \A s \in Services : cache[s] # 0 => cache'[s] = cache[s]

=============================================================================
