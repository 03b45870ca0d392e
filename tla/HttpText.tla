------------------------------ MODULE HttpText ------------------------------
(***************************************************************************)
(* The text of an HTTP request as http_gateway.rs takes it apart:          *)
(* split_path, parse_query_string and percent_decode, over byte strings    *)
(* (sequences of byte values).  The inputs are ASCII and decode to ASCII,  *)
(* where from_utf8_lossy changes nothing.                                  *)
(***************************************************************************)
EXTENDS Integers, Sequences, FiniteSets, Functions, SequencesExt

CONSTANTS
    Paths,      \* request paths
    Encoded,    \* texts given to percent_decode
    Plain       \* texts a client writes into a query, before encoding

VARIABLES input, out
vars == <<input, out>>

Slash == 47
Amp == 38
Equals == 61
Percent == 37
Plus == 43
Space == 32

\* str::split of one byte: the pieces between the separators, at least one.
RECURSIVE Split(_, _)
Split(s, sep) ==
    LET cuts == {i \in 1..Len(s) : s[i] = sep}
    IN  IF cuts = {} THEN <<s>>
        ELSE LET i == CHOOSE c \in cuts : \A d \in cuts : c <= d
             IN  <<SubSeq(s, 1, i - 1)>> \o Split(SubSeq(s, i + 1, Len(s)), sep)

\* The bytes that are not a slash at either end.
Inside(path) == {i \in 1..Len(path) : path[i] # Slash}
trim_matches(path) ==
    IF Inside(path) = {} THEN <<>>
    ELSE LET first == CHOOSE i \in Inside(path) : \A j \in Inside(path) : i <= j
             last == CHOOSE i \in Inside(path) : \A j \in Inside(path) : i >= j
         IN  SubSeq(path, first, last)

NoRoute == <<>>
ExactlyTwo(segments) ==
    IF Len(segments) # 2 \/ <<>> \in Range(segments) THEN NoRoute ELSE segments

split_path(path) ==
    IF trim_matches(path) = <<>> THEN NoRoute ELSE ExactlyTwo(Split(trim_matches(path), Slash))

\* The value of a hexadecimal digit, or -1.
hex_value(b) ==
    IF b \in 48..57 THEN b - 48
    ELSE IF b \in 97..102 THEN b - 97 + 10
    ELSE IF b \in 65..70 THEN b - 65 + 10
    ELSE -1

EscapeFits(s) == Len(s) >= 3

AfterEscape(s) == SubSeq(s, 4, Len(s))

RECURSIVE percent_decode(_)
percent_decode(s) ==
    IF s = <<>> THEN <<>>
    ELSE IF s[1] = Plus THEN <<Space>> \o percent_decode(Tail(s))
    ELSE IF s[1] = Percent /\ EscapeFits(s)
    THEN (IF hex_value(s[2]) >= 0 /\ hex_value(s[3]) >= 0
          THEN <<16 * hex_value(s[2]) + hex_value(s[3])>>
          ELSE SubSeq(s, 1, 3)) \o percent_decode(AfterEscape(s))
    ELSE <<s[1]>> \o percent_decode(Tail(s))

\* split_once('='): the first one ends the key, and a key may come alone.
SplitOnce(pair) ==
    LET pieces == Split(pair, Equals)
    IN  IF Len(pieces) = 1 THEN <<pair, <<>>>>
        ELSE <<pieces[1], SubSeq(pair, Len(pieces[1]) + 2, Len(pair))>>

\* HashMap::insert: a later pair replaces an earlier one of the same key.
Insert(params, key, value) ==
    [k \in DOMAIN params \cup {key} |-> IF k = key THEN value ELSE params[k]]

NoParams == [k \in {} |-> <<>>]
parse_query_string(query) ==
    LET pairs == IF query = <<>> THEN <<>> ELSE Split(query, Amp)
    IN  FoldSeq(LAMBDA pair, params :
                  Insert(params, percent_decode(SplitOnce(pair)[1]),
                                 percent_decode(SplitOnce(pair)[2])),
                NoParams, pairs)

\* What a client sends: the escapes of RFC 3986 and `+` for a space.
Digit(n) == IF n < 10 THEN 48 + n ELSE 65 + n - 10
Alphanumeric == 48..57 \cup 65..90 \cup 97..122
EncodeByte(b) ==
    IF b \in Alphanumeric THEN <<b>>
    ELSE IF b = Space THEN <<Plus>>
    ELSE <<Percent, Digit(b \div 16), Digit(b % 16)>>
Encode(s) == FlattenSeq([i \in 1..Len(s) |-> EncodeByte(s[i])])

\* A query that carries the keys of the map in one of the orders.
Queries == UNION {[keys -> Plain] : keys \in {k \in SUBSET Plain : Cardinality(k) <= 2}}
Render(params, order) ==
    FlattenSeq([i \in 1..Len(order) |->
        (IF i = 1 THEN <<>> ELSE <<Amp>>)
        \o Encode(order[i]) \o <<Equals>> \o Encode(params[order[i]])])
Orders(params) == {o \in [1..Cardinality(DOMAIN params) -> DOMAIN params] : IsInjective(o)}

Init ==
    /\ out = <<>>
    /\ input \in
         {[kind |-> "path", text |-> p] : p \in Paths}
         \cup {[kind |-> "text", text |-> s] : s \in Encoded}
         \cup UNION {{[kind |-> "query", text |-> Render(q, o), params |-> q] : o \in Orders(q)} :
                     q \in Queries}

Route == input.kind = "path" /\ out' = <<split_path(input.text)>>
Decode == input.kind = "text" /\ out' = <<percent_decode(input.text)>>
Query == input.kind = "query" /\ out' = <<parse_query_string(input.text)>>

Next == out = <<>> /\ UNCHANGED input /\ (Route \/ Decode \/ Query)
Spec == Init /\ [][Next]_vars

-----------------------------------------------------------------------------
\* split_path accepts a path exactly when two non-empty names are left of it,
\* and between them they give the trimmed path back: no path is routed to a
\* service by dropping a part of it.
RouteIsWhole ==
    (out # <<>> /\ input.kind = "path") =>
        LET slashes == {i \in 1..Len(input.text) : input.text[i] = Slash}
            inner == {i \in slashes : (\E j \in 1..i : j \notin slashes)
                                      /\ (\E j \in i..Len(input.text) : j \notin slashes)}
            kept == {i \in 1..Len(input.text) : i \in inner \/ i \notin slashes}
        IN  IF Cardinality(inner) # 1 THEN out = <<NoRoute>>
            ELSE /\ Len(out[1]) = 2 /\ <<>> \notin Range(out[1])
                 /\ Len(out[1][1]) + 1 + Len(out[1][2]) = Cardinality(kept)
                 /\ \E i \in inner : \A j \in 1..Len(out[1][2]) : out[1][2][j] = input.text[i + j]

\* percent_decode never reads past the end and never invents text: it is total
\* on malformed escapes, does not grow the text, and leaves a text without `%`
\* and `+` alone.
DecodeIsTotal ==
    (out # <<>> /\ input.kind = "text") =>
        /\ Len(out[1]) <= Len(input.text)
        /\ Range(input.text) \cap {Percent, Plus} = {} => out[1] = input.text
        /\ Plus \notin Range(out[1]) \/ Percent \in Range(input.text)

\* A query any client writes by the encoding rules is read back as the same
\* parameters, whatever bytes the keys and the values hold and in whatever
\* order they come (parse_query_string, percent_decode).
QueryIsRead ==
    (out # <<>> /\ input.kind = "query") => out[1] = input.params
=============================================================================
