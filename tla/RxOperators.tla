----------------------------- MODULE RxOperators -----------------------------
(***************************************************************************)
(* The poll-based operators of ice-rpc-rx (src/transform/*.rs) and the     *)
(* deferred source (creation.rs), each over arbitrary small sources.       *)
(*                                                                         *)
(* An action is one iteration of the loop of the operator's poll_next: it  *)
(* polls a source at most once and returns an item to the consumer,        *)
(* returns Pending, or goes round the loop.  The consumer polls until it   *)
(* receives None, also past a terminal event, as Delay does when it reads  *)
(* ahead.                                                                  *)
(***************************************************************************)
EXTENDS RxEvents, SequencesExt

CONSTANTS
    Operators,    \* the operators to drive: the records the methods below build
    Sources,      \* the sources an operator is applied to
    Seconds,      \* its second source: right operand, notifier, recovery
    Attempts,     \* the streams the factory of retry_with may build
    Keep(_),      \* the predicate of filter, first_with
    F(_),         \* the closure of map
    G(_),         \* the closure of map_err, on the payload of a business error
    Project(_)    \* the closure of switch_map: the stream a value projects to

VARIABLES
    st,           \* the operator: its name and its fields
    src,          \* its source
    alt,          \* its second source
    out,          \* what its consumer received: events, then None
    calls,        \* the calls it made to the closure it was given
    given         \* the operator and sources at the start, the attempts built

vars == <<st, src, alt, out, calls, given>>

-----------------------------------------------------------------------------
(* The methods of Observable: the operator each one wraps its source in.   *)

filter == [op |-> "filter"]
take(n) == [op |-> "take", remaining |-> n, done |-> FALSE]
skip(n) == [op |-> "skip", remaining |-> n]
distinct_until_changed == [op |-> "distinct", last |-> {}]
first_with == [op |-> "first", completed |-> FALSE, done |-> FALSE]
map == [op |-> "map"]
map_err == [op |-> "map_err"]
scan(initial) == [op |-> "scan", acc |-> initial]
tap == [op |-> "tap"]
finalize == [op |-> "finalize", f |-> TRUE]
start_with(v) == [op |-> "start_with", first |-> {v}]
catch_error == [op |-> "catch_error", f |-> TRUE, recovery |-> FALSE, finished |-> FALSE]
merge == [op |-> "merge", done |-> [s \in {"left", "right"} |-> FALSE],
          completed |-> FALSE, left_first |-> TRUE, turn |-> <<>>]
take_until == [op |-> "take_until", notifier |-> TRUE, stopped |-> FALSE, done |-> FALSE]
switch_map == [op |-> "switch_map", projected |-> FALSE, source_end |-> Pending,
               finished |-> FALSE]
defer == [op |-> "defer", factory |-> TRUE, pending |-> FALSE, stream |-> FALSE]
retry_with(attempts, delay, only_retryable) ==
    [op |-> "retry", max |-> attempts, delay |-> delay, only |-> only_retryable,
     attempts |-> 0, phase |-> "start", finished |-> FALSE]

-----------------------------------------------------------------------------
Live == ~Contains(out, None)

\* A poll of operator o by its consumer.
PollOf(o) == st.op = o /\ Live

Ev == Polled(src)
Pull == src' = Rest(src)
Return(r) == out' = IF r = Pending THEN out ELSE Append(out, r)
Again == UNCHANGED out

Stateless == UNCHANGED <<st, alt, calls, given>>
OneSource == UNCHANGED <<alt, calls, given>>

Filter ==
    /\ PollOf("filter") /\ Pull /\ Stateless
    /\ IF Ev.k = "next" /\ ~Keep(Ev.v) THEN Again ELSE Return(Ev)

Take ==
    /\ PollOf("take") /\ OneSource
    /\ \/ /\ st.done
          /\ Return(None) /\ UNCHANGED <<st, src>>
       \/ /\ ~st.done /\ st.remaining = 0
          /\ st' = [st EXCEPT !.done = TRUE]
          /\ Return(Complete) /\ UNCHANGED src
       \/ /\ ~st.done /\ st.remaining > 0
          /\ Pull /\ Return(Ev)
          /\ st' = CASE Ev.k = "next" -> [st EXCEPT !.remaining = @ - 1]
                     [] Ev = Pending -> st
                     [] OTHER -> [st EXCEPT !.done = TRUE]

Skip ==
    /\ PollOf("skip") /\ Pull /\ OneSource
    /\ IF Ev.k = "next" /\ st.remaining > 0
       THEN st' = [st EXCEPT !.remaining = @ - 1] /\ Again
       ELSE UNCHANGED st /\ Return(Ev)

DistinctUntilChanged ==
    /\ PollOf("distinct") /\ Pull /\ OneSource
    /\ \/ Ev.k = "next" /\ Ev.v \in st.last /\ Again /\ UNCHANGED st
       \/ Ev.k = "next" /\ Ev.v \notin st.last /\ Return(Ev)
                        /\ st' = [st EXCEPT !.last = {Ev.v}]
       \/ Ev.k # "next" /\ Return(Ev) /\ UNCHANGED st

First ==
    /\ PollOf("first") /\ OneSource
    /\ \/ st.done /\ Return(None) /\ UNCHANGED <<st, src>>
       \/ /\ ~st.done /\ st.completed
          /\ st' = [st EXCEPT !.done = TRUE]
          /\ Return(Complete) /\ UNCHANGED src
       \/ /\ ~st.done /\ ~st.completed /\ Pull
          /\ IF Ev.k = "next" /\ ~Keep(Ev.v) THEN Again ELSE Return(Ev)
          /\ st' = [st EXCEPT !.completed = Ev.k = "next" /\ Keep(Ev.v),
                              !.done = is_terminal(Ev)]

Map ==
    /\ PollOf("map") /\ Pull /\ Stateless
    /\ Return(IF Ev.k = "next" THEN NextEv(F(Ev.v)) ELSE Ev)

MapErr ==
    /\ PollOf("map_err") /\ Pull /\ Stateless
    /\ Return(IF is_business(Ev) THEN ErrorEv(Business(G(Ev.e.code))) ELSE Ev)

Scan ==
    /\ PollOf("scan") /\ Pull /\ OneSource
    /\ IF Ev.k = "next"
       THEN st' = [st EXCEPT !.acc = @ + Ev.v] /\ Return(NextEv(st.acc + Ev.v))
       ELSE UNCHANGED st /\ Return(Ev)

Tap ==
    /\ PollOf("tap") /\ Pull /\ Return(Ev)
    /\ calls' = IF Ev.k = "next" THEN Append(calls, Ev.v) ELSE calls
    /\ UNCHANGED <<st, alt, given>>

TakeHook == st' = [st EXCEPT !.f = FALSE]

\* The hook is an Option taken by the first terminal, or by the exhaustion.
Finalize ==
    /\ PollOf("finalize") /\ Pull /\ Return(Ev)
    /\ IF st.f /\ (is_terminal(Ev) \/ Ev = None)
       THEN TakeHook /\ calls' = Append(calls, Len(out))
       ELSE UNCHANGED <<st, calls>>
    /\ UNCHANGED <<alt, given>>

StartWith ==
    /\ PollOf("start_with") /\ OneSource
    /\ \/ \E v \in st.first : /\ st' = [st EXCEPT !.first = {}]
                              /\ Return(NextEv(v)) /\ UNCHANGED src
       \/ st.first = {} /\ Pull /\ Return(Ev) /\ UNCHANGED st

CatchError ==
    /\ PollOf("catch_error") /\ UNCHANGED given
    /\ \/ st.finished /\ Return(None) /\ UNCHANGED <<st, src, alt, calls>>
       \/ /\ ~st.finished /\ st.recovery
          /\ alt' = Rest(alt) /\ Return(Polled(alt))
          /\ st' = [st EXCEPT !.finished = is_terminal(Polled(alt)) \/ Polled(alt) = None]
          /\ UNCHANGED <<src, calls>>
       \/ /\ ~st.finished /\ ~st.recovery /\ Pull /\ UNCHANGED alt
          /\ IF is_business(Ev)
             THEN /\ st.f /\ st' = [st EXCEPT !.f = FALSE, !.recovery = TRUE]
                  /\ calls' = Append(calls, Ev.e.code) /\ Again
             ELSE /\ Return(Ev) /\ UNCHANGED calls
                  /\ st' = [st EXCEPT !.finished = is_terminal(Ev) \/ Ev = None]

BothDone == st.done["left"] /\ st.done["right"]
MergeOver == st' = [st EXCEPT !.completed = TRUE]
PollOrder == IF st.left_first THEN <<"left", "right">> ELSE <<"right", "left">>
SourceOver(r) == r \in {Complete, None}

\* A pass of Merge polls the two sources in turn, the other one first at the
\* next pass; a value or an error cuts the pass short.
MergePass ==
    /\ PollOf("merge") /\ st.turn = <<>> /\ UNCHANGED <<src, alt, calls, given>>
    /\ \/ st.completed /\ Return(None) /\ UNCHANGED st
       \/ ~st.completed /\ BothDone /\ MergeOver /\ Return(Complete)
       \/ /\ ~st.completed /\ ~BothDone /\ Again
          /\ st' = [st EXCEPT !.left_first = ~@, !.turn = PollOrder]

MergeSource ==
    /\ PollOf("merge") /\ st.turn # <<>> /\ UNCHANGED <<calls, given>>
    /\ LET side == Head(st.turn)
           r == Polled(IF side = "left" THEN src ELSE alt)
       IN IF st.done[side]
          THEN st' = [st EXCEPT !.turn = Tail(@)] /\ Again /\ UNCHANGED <<src, alt>>
          ELSE /\ IF side = "left" THEN Pull /\ UNCHANGED alt
                                   ELSE alt' = Rest(alt) /\ UNCHANGED src
               /\ IF r.k \in {"next", "error"} THEN Return(r) ELSE Again
               /\ st' = [st EXCEPT !.turn = IF r.k \in {"next", "error"} THEN <<>> ELSE Tail(@),
                                   !.completed = r.k = "error",
                                   !.done[side] = SourceOver(r)]

TakeUntil ==
    /\ PollOf("take_until") /\ UNCHANGED <<calls, given>>
    /\ LET n == IF st.notifier THEN Polled(alt) ELSE Pending
           stopped == st.stopped \/ n.k = "next"
       IN \/ st.done /\ Return(None) /\ UNCHANGED <<st, src, alt>>
          \/ /\ ~st.done
             /\ alt' = IF st.notifier THEN Rest(alt) ELSE alt
             /\ st' = [st EXCEPT !.notifier = @ /\ n = Pending, !.stopped = stopped,
                                 !.done = n.k = "error" \/ stopped]
             /\ \/ n.k = "error" /\ Return(n) /\ UNCHANGED src
                \/ n.k # "error" /\ stopped /\ Return(Complete) /\ UNCHANGED src
                \/ n.k # "error" /\ ~stopped /\ Pull /\ Return(Ev)

StillOpenNever(p) == FALSE
StillOpen(p) == st.projected /\ p = Pending

\* The projected stream is polled first; only when it is over or pending, and
\* the source has not ended, is the source polled.
SwitchMap ==
    /\ PollOf("switch_map") /\ UNCHANGED given
    /\ LET p == IF st.projected THEN Polled(alt) ELSE None
           rest == IF st.projected THEN Rest(alt) ELSE alt
           open == StillOpen(p)
       IN \/ st.finished /\ Return(None) /\ UNCHANGED <<st, src, alt, calls>>
          \/ /\ ~st.finished /\ st.projected /\ p.k \in {"next", "error"}
             /\ Return(p) /\ alt' = rest /\ UNCHANGED <<src, calls>>
             /\ st' = [st EXCEPT !.finished = p.k = "error"]
          \/ /\ ~st.finished /\ p.k \notin {"next", "error"} /\ st.source_end # Pending
             /\ alt' = rest /\ Return(IF open THEN Pending ELSE st.source_end)
             /\ st' = [st EXCEPT !.projected = open, !.finished = ~open]
             /\ UNCHANGED <<src, calls>>
          \/ /\ ~st.finished /\ p.k \notin {"next", "error"} /\ st.source_end = Pending
             /\ Pull
             /\ \/ /\ Ev.k = "next" /\ Again
                   /\ st' = [st EXCEPT !.projected = TRUE] /\ alt' = Project(Ev.v)
                   /\ calls' = Append(calls, Ev.v)
                \/ /\ Ev.k = "error" /\ Return(Ev) /\ alt' = rest /\ UNCHANGED calls
                   /\ st' = [st EXCEPT !.projected = open, !.finished = TRUE]
                \/ /\ Ev \in {Complete, None, Pending} /\ Again
                   /\ alt' = rest /\ UNCHANGED calls
                   /\ st' = [st EXCEPT !.projected = open, !.source_end = Ev]

\* The factory runs at the first poll, its future is awaited, then the stream
\* it produced is polled; a pending future leaves everything as it is.
Deferred ==
    /\ PollOf("defer") /\ UNCHANGED <<alt, given>>
    /\ \/ /\ ~st.pending /\ ~st.stream /\ st.factory /\ Again
          /\ st' = [st EXCEPT !.factory = FALSE, !.pending = TRUE]
          /\ calls' = Append(calls, 1) /\ UNCHANGED src
       \/ /\ st.pending /\ Again /\ UNCHANGED <<src, calls>>
          /\ st' = [st EXCEPT !.pending = FALSE, !.stream = TRUE]
       \/ st.stream /\ Pull /\ Return(Ev) /\ UNCHANGED <<st, calls>>

should_retry(e) ==
    /\ st.attempts < IF st.max = 0 THEN 1 ELSE st.max
    /\ st.only => e.kind = "technical" /\ is_retryable(e.code)

\* phase: "sleep" (pause before an attempt), "start" (nothing built yet),
\* "pending" (the factory's future), "stream" (the attempt's stream).
Retrying ==
    /\ PollOf("retry") /\ UNCHANGED <<alt, calls>>
    /\ \/ st.finished /\ Return(None) /\ UNCHANGED <<st, src, given>>
       \/ /\ ~st.finished /\ st.phase = "sleep" /\ Again /\ UNCHANGED <<src, given>>
          /\ st' = [st EXCEPT !.phase = "start"]
       \/ /\ ~st.finished /\ st.phase = "start" /\ Again /\ UNCHANGED src
          /\ st' = [st EXCEPT !.phase = "pending", !.attempts = @ + 1]
          /\ \E s \in Attempts : given' = [given EXCEPT !.tried = Append(@, s)]
       \/ /\ ~st.finished /\ st.phase = "pending" /\ Again /\ UNCHANGED given
          /\ st' = [st EXCEPT !.phase = "stream"] /\ src' = Last(given.tried)
       \/ /\ ~st.finished /\ st.phase = "stream" /\ Pull /\ UNCHANGED given
          /\ IF Ev.k = "error" /\ should_retry(Ev.e)
             THEN st' = [st EXCEPT !.phase = IF st.delay THEN "sleep" ELSE "start"] /\ Again
             ELSE /\ Return(Ev)
                  /\ st' = [st EXCEPT !.finished = is_terminal(Ev) \/ Ev = None]

-----------------------------------------------------------------------------
Init ==
    /\ st \in Operators
    /\ src \in IF st.op = "retry" THEN {<<>>} ELSE Sources
    /\ alt \in IF st.op \in {"catch_error", "merge", "take_until"} THEN Seconds ELSE {<<>>}
    /\ out = <<>> /\ calls = <<>>
    /\ given = [op |-> st, src |-> src, alt |-> alt, tried |-> <<>>]

Next ==
    \/ Filter \/ Take \/ Skip \/ DistinctUntilChanged \/ First
    \/ Map \/ MapErr \/ Scan \/ Tap \/ Finalize \/ StartWith
    \/ CatchError \/ MergePass \/ MergeSource \/ TakeUntil \/ SwitchMap
    \/ Deferred \/ Retrying

Spec == Init /\ [][Next]_vars /\ WF_vars(Next)
-----------------------------------------------------------------------------
(* Reference definitions: what each operator is documented to produce, as a *)
(* function of the whole source.                                           *)

V == ValuesOf(given.src)
End == EndOf(given.src)
Stream(values, end) ==
    [i \in 1..Len(values) |-> NextEv(values[i])] \o (IF end = None THEN <<>> ELSE <<end>>)

Changes(values) ==
    FoldLeft(LAMBDA acc, v : IF acc # <<>> /\ Last(acc) = v THEN acc ELSE Append(acc, v),
             <<>>, values)
Totals(initial, values) ==
    Tail(FoldLeft(LAMBDA acc, v : Append(acc, Last(acc) + v), <<initial>>, values))
FirstIndex(s, Test(_)) ==
    LET I == {i \in 1..Len(s) : Test(s[i])}
    IN IF I = {} THEN 0 ELSE CHOOSE i \in I : \A j \in I : i <= j
UpToTerminal(s) ==
    IF FirstIndex(s, is_terminal) = 0 THEN s ELSE SubSeq(s, 1, FirstIndex(s, is_terminal))

\* take_until polls notifier and source in lockstep: the notifier's first
\* result other than Pending, at poll j, decides what follows poll j - 1,
\* unless the source was exhausted before.
Stopped(source, notifier) ==
    LET j == FirstIndex(notifier, LAMBDA r : r # Pending)
        n == IF j \in 1..Len(source) + 1 THEN notifier[j] ELSE None
        before == Events(SubSeq(source, 1, j - 1))
    IN CASE n.k = "next" -> UpToTerminal(Append(before, Complete))
         [] n.k = "error" -> UpToTerminal(Append(before, n))
         [] OTHER -> Events(source)

Expected ==
    LET o == given.op
        n == IF o.op \in {"take", "skip"} THEN o.remaining ELSE 0
        hit == FirstIndex(V, Keep)
    IN CASE o.op = "filter" -> Stream(SelectSeq(V, Keep), End)
         [] o.op = "take" -> IF Len(V) >= n THEN Stream(SubSeq(V, 1, n), Complete)
                                            ELSE Stream(V, End)
         [] o.op = "skip" -> Stream(SubSeq(V, n + 1, Len(V)), End)
         [] o.op = "distinct" -> Stream(Changes(V), End)
         [] o.op = "first" -> IF hit = 0 THEN Stream(<<>>, End) ELSE of(V[hit])
         [] o.op = "map" -> Stream([i \in 1..Len(V) |-> F(V[i])], End)
         [] o.op = "map_err" ->
                Stream(V, IF is_business(End) THEN ErrorEv(Business(G(End.e.code))) ELSE End)
         [] o.op = "scan" -> Stream(Totals(o.acc, V), End)
         [] o.op = "start_with" ->
                Stream(<<CHOOSE v \in o.first : TRUE>> \o V, End)
         [] o.op = "catch_error" -> IF is_business(End) THEN Stream(V, None) \o Events(given.alt)
                                                       ELSE Stream(V, End)
         [] o.op = "take_until" -> Stopped(given.src, given.alt)
         [] OTHER -> Stream(V, End)

Deterministic == given.op.op \notin {"merge", "switch_map", "retry"}

\* Whatever the polls that find a source pending, an operator delivers exactly
\* what its documentation defines on the whole source: up to its first
\* terminal, a prefix of the reference; all of it once None is returned.
OperatorMatchesReference ==
    Deterministic =>
        LET got == UpToTerminal(SelectSeq(out, LAMBDA r : r # None))
        IN IsPrefix(got, Expected) /\ (~Live => got = Expected)

\* Nothing but None follows a terminal, when the operator tracks its own end.
NothingAfterTerminal ==
    st.op # "take_until" =>
        \A i \in 1..Len(out) : is_terminal(out[i]) => \A j \in i + 1..Len(out) : out[j] = None

\* Closures: tap sees the delivered values; the finalize hook ran once iff the
\* end was delivered, together with it; a deferred factory runs once, before
\* anything is delivered; a recovery selector runs at most once.
HooksRunOnce ==
    /\ st.op = "tap" => calls = ValuesOf(out)
    /\ st.op = "finalize" =>
           LET end == FirstIndex(out, LAMBDA r : is_terminal(r) \/ r = None)
           IN calls = IF end = 0 THEN <<>> ELSE <<end - 1>>
    /\ st.op = "defer" => Len(calls) <= 1 /\ (out # <<>> => Len(calls) = 1)
    /\ st.op = "catch_error" => Len(calls) <= 1

LeftOf(s) == SelectSeq(ValuesOf(s), LAMBDA v : v < 10)
RightOf(s) == SelectSeq(ValuesOf(s), LAMBDA v : v >= 10)

\* merge loses and reorders nothing of either operand (the right one's values
\* are 10 and above), completes only when both have been exhausted, and fails
\* only with an operand's error.
MergeKeepsBoth ==
    st.op = "merge" =>
        /\ IsPrefix(LeftOf(out), V) /\ IsPrefix(RightOf(out), ValuesOf(given.alt))
        /\ Contains(out, Complete) =>
               /\ LeftOf(out) = V /\ RightOf(out) = ValuesOf(given.alt)
               /\ {End, EndOf(given.alt)} \subseteq {Complete, None}
        /\ \A i \in 1..Len(out) : out[i].k = "error" => out[i] \in {End, EndOf(given.alt)}

\* When neither operand is ever pending, merge alternates: while both still
\* have values, neither operand gets two values ahead of the other.
MergeIsFair ==
    st.op = "merge" /\ ~Contains(given.src, Pending) /\ ~Contains(given.alt, Pending) =>
        LET l == Len(LeftOf(out))
            r == Len(RightOf(out))
        IN l < Len(V) /\ r < Len(ValuesOf(given.alt)) => l <= r + 1 /\ r <= l + 1

\* switch_map emits from the latest projection only (the values of Project(v)
\* lie in 10v .. 10v + 9), and completes only after the last one was drained.
SwitchMapFollowsLatest ==
    st.op = "switch_map" =>
        LET vs == ValuesOf(out)
        IN /\ IsPrefix(calls, V)
           /\ \E f \in [1..Len(vs) -> 1..Len(calls)] :
                  /\ \A i \in 1..Len(vs) : vs[i] \in 10 * calls[f[i]]..10 * calls[f[i]] + 9
                  /\ \A i, j \in 1..Len(vs) : i <= j => f[i] <= f[j]
           /\ Contains(out, Complete) =>
                  /\ calls = V
                  /\ V # <<>> => IsSuffix(ValuesOf(Project(Last(V))), vs)

\* retry_with keeps what the failed attempts emitted, starts another attempt
\* only after an error its policy retries, never exceeds the policy, and gives
\* up only when the policy says so.
RetryFollowsPolicy ==
    st.op = "retry" =>
        LET tried == given.tried
            earlier == FlattenSeq([i \in 1..Len(tried) - 1 |-> ValuesOf(tried[i])])
            eligible(e) == e.k = "error" /\ (given.op.only =>
                              e.e.kind = "technical" /\ e.e.code \in {"TransportError", "Timeout"})
        IN /\ Len(tried) <= IF given.op.max = 0 THEN 1 ELSE given.op.max
           /\ \A i \in 1..Len(tried) - 1 : eligible(EndOf(tried[i]))
           /\ tried # <<>> => IsPrefix(ValuesOf(out), earlier \o ValuesOf(Last(tried)))
           /\ ~Live => /\ ValuesOf(out) = earlier \o ValuesOf(Last(tried))
                       /\ UpToTerminal(out) = Append(NextsOf(out), EndOf(Last(tried)))
                       /\ eligible(EndOf(Last(tried))) =>
                              Len(tried) = IF given.op.max = 0 THEN 1 ELSE given.op.max

=============================================================================
