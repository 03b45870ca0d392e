----------------------------- MODULE ServiceMacro -----------------------------
(***************************************************************************)
(* What #[service] reads: the parameters of the attribute, the names and   *)
(* the signatures of the methods (macros model.rs and codegen/helpers.rs). *)
(*                                                                         *)
(* A name is a sequence of characters, a type a tree: a unit, a leaf, or a *)
(* path with generic arguments, which may be lifetimes.                    *)
(***************************************************************************)
EXTENDS Naturals, FiniteSets, Sequences, SequencesExt

CONSTANTS
    Attrs,      \* the attributes: sequences of parameters
    Traits,     \* names of traits
    Returns,    \* return types of a method
    NameLen,    \* SERVICE_NAME_LEN
    MaxVersion  \* the largest u16

VARIABLES input, model
vars == <<input, model>>

Letters == {"a", "A"}
Digits == {"1"}

\* An optional value is a sequence of at most one element.
None == <<>>
Some(x) == <<x>>
Or(o, default) == IF o = None THEN default ELSE o[1]
Unit == [kind |-> "unit", name |-> "()", args |-> <<>>]
Leaf(n) == [kind |-> "path", name |-> n, args |-> <<>>]
Path(n, args) == [kind |-> "path", name |-> n, args |-> args]
Stream == Path("Observable", <<Leaf("T"), Leaf("E")>>)
Lifetime == [kind |-> "lifetime", name |-> "'a", args |-> <<>>]

Refused == [ok |-> FALSE]
Pending == [ok |-> FALSE, read |-> FALSE]
Nothing == [kind |-> "nothing", name |-> "", args |-> <<>>]

-----------------------------------------------------------------------------
DefaultAttr == [ok |-> TRUE, name |-> None, group |-> None, version |-> 1,
                slice |-> None, blocking |-> FALSE]

GroupFromName(attr, p) ==
    CASE p.key = "name" -> [attr EXCEPT !.name = Some(p.value), !.group = Some(p.value)]
      [] p.key = "group" -> [attr EXCEPT !.group = Some(p.value)]
      [] OTHER -> attr

\* One parameter; a later one of the same kind replaces an earlier one.
Parameter(attr, p) ==
    CASE p.key = "name" -> [attr EXCEPT !.name = Some(p.value)]
      [] p.key = "group" -> [attr EXCEPT !.group = Some(p.value)]
      [] p.key = "blocking" -> [attr EXCEPT !.blocking = TRUE]
      [] p.key = "version" -> IF p.value <= MaxVersion
                              THEN [attr EXCEPT !.version = p.value] ELSE Refused
      [] p.key = "max_slice_len" -> IF p.value > 0
                                    THEN [attr EXCEPT !.slice = Some(p.value)] ELSE Refused
      [] OTHER -> Refused

\* ServiceAttr::parse, which stops at the first error.
parse(params) ==
    FoldLeft(LAMBDA attr, p : IF attr.ok THEN Parameter(attr, p) ELSE attr, DefaultAttr, params)

-----------------------------------------------------------------------------
validate_name(name) ==
    /\ Len(name) <= NameLen
    /\ \A i \in DOMAIN name : name[i] \in Letters \cup Digits \cup {"_", "-"}
    /\ name # <<>> => name[1] \in Letters \cup Digits

to_lowercase(name) == [i \in DOMAIN name |-> IF name[i] = "A" THEN "a" ELSE name[i]]

-----------------------------------------------------------------------------
extract_first_generic_arg(ty) ==
    IF ty.args # <<>> /\ ty.args[1].kind # "lifetime" THEN Some(ty.args[1]) ELSE None

extract_two_generic_args(ty) ==
    IF Len(ty.args) >= 2 /\ \A i \in 1..2 : ty.args[i].kind # "lifetime"
    THEN Some(<<ty.args[1], ty.args[2]>>) ELSE None

\* At most three levels are looked at, each the first argument of the one before it;
\* the first with two arguments answers.
extract_rpc_result_types(ty) ==
    LET first == extract_first_generic_arg(ty)
        inner == IF first = None THEN None ELSE extract_first_generic_arg(first[1])
        levels == Some(ty) \o first \o inner
        pairs == SelectSeq([i \in DOMAIN levels |-> extract_two_generic_args(levels[i])],
                           LAMBDA p : p # None)
    IN  IF pairs = <<>> THEN None ELSE pairs[1]

\* read_method: no return type is one-way, the unit type is refused.
read_method(ty) ==
    CASE ty.kind = "nothing" -> [ok |-> TRUE, oneway |-> TRUE, types |-> <<Unit, Unit>>]
      [] ty = Unit -> Refused
      [] OTHER -> LET types == extract_rpc_result_types(ty)
                  IN  IF types = None THEN Refused
                      ELSE [ok |-> TRUE, oneway |-> FALSE, types |-> types[1]]

read(in) ==
    LET parsed == parse(in.attr)
        ok == parsed.ok
        attr == IF ok THEN parsed ELSE DefaultAttr
        name == Or(attr.name, to_lowercase(in.trait))
        group == Or(attr.group, name)
        method == read_method(in.returns)
    IN  IF ok /\ validate_name(name) /\ validate_name(group) /\ method.ok
        THEN [ok |-> TRUE, name |-> name, group |-> group, version |-> attr.version,
              slice |-> attr.slice, blocking |-> attr.blocking, method |-> method]
        ELSE Refused

-----------------------------------------------------------------------------
Init ==
    /\ input \in [attr : Attrs, trait : Traits, returns : Returns]
    /\ model = Pending

Expand == model = Pending /\ model' = read(input) /\ UNCHANGED input

Next == Expand
Spec == Init /\ [][Next]_vars

Accepted == model.ok

-----------------------------------------------------------------------------
\* The types of the model: an accepted service has a version and a slice that fit.
TypeOK == Accepted => model.version \in 0..MaxVersion /\ (model.slice # None => model.slice[1] > 0)

\* The names an accepted service puts on the bus, its own and its channel's, are short
\* enough and contain no separator, wherever they come from.
NamesFit ==
    Accepted => \A n \in {model.name, model.group} :
                    Len(n) <= NameLen /\ ToSet(n) \cap {".", "/"} = {}

\* Parameters of different kinds may be written in any order: a service reads the same.
OrderIsFree ==
    LET keys == {input.attr[i].key : i \in DOMAIN input.attr}
        distinct == Cardinality(keys) = Len(input.attr)
    IN  distinct => read(input) = read([input EXCEPT !.attr = Reverse(@)])

\* A method that answers with a stream behind one or two wrappers of one argument has
\* the types of that stream, and one with no return type is the only one-way method.
StreamTypes ==
    Accepted =>
        /\ model.method.oneway <=> input.returns = Nothing
        /\ \A w, v \in {"Vec", "Box"} :
             input.returns \in {Stream, Path(w, <<Stream>>), Path(v, <<Path(w, <<Stream>>)>>)} =>
                 model.method.types = Stream.args

=============================================================================
