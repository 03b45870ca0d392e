----------------------------- MODULE ObserverView -----------------------------
(***************************************************************************)
(* What the monitor computes without state: its command line (config.rs),  *)
(* the fixed-bucket histograms and their quantiles (metrics.rs, render.rs) *)
(* and the frame of the live view (console.rs).  A step computes the       *)
(* answer to one input.                                                    *)
(***************************************************************************)
EXTENDS SequencesExt, FiniteSetsExt, Integers, TLC

CONSTANTS
    Args,        \* command lines
    Samples,     \* sequences of observed values
    Bounds,      \* histogram bounds, increasing
    Frames       \* frames: [metrics, messages, max_lines, max_width]

VARIABLES input, output
vars == <<input, output>>

-----------------------------------------------------------------------------
(* Config::from_args: a flag with a value takes the next argument whatever *)
(* it is; the first error ends the parse.                                  *)

Number == {"0", "7"}
Repeatable == {"--channel", "--detail-channel"}
Numeric == {"--discover-interval-ms", "--call-ttl-ms", "--max-inflight", "--trace-sample-rate",
            "--health-interval-ms"}
Switches == {"--health-shm", "--cleanup", "--live"}
Valued == Repeatable \cup Numeric \cup {"--prometheus", "--mode", "--trace-file", "--trace-format"}

\* The values a flag accepts, of the words a command line is made of.
Accepts(flag, v) ==
    CASE flag \in Numeric -> v \in Number
      [] flag = "--prometheus" -> v \in {"off", "addr"}
      [] flag = "--mode" -> v \in {"stats", "detail"}
      [] flag = "--trace-format" -> v \in {"json", "human"}
      [] OTHER -> TRUE

\* A configuration: what each flag left, the mode under "--mode".
Default == [flag \in Valued \cup Switches |->
               IF flag \in Repeatable THEN <<>> ELSE IF flag \in Switches THEN FALSE
               ELSE IF flag = "--mode" THEN "stats" ELSE "default"]

Ok(config) == [ok |-> TRUE, config |-> config, flag |-> ""]
Err(state) == [state EXCEPT !.ok = FALSE, !.flag = ""]

Assign(config, flag, v) == [config EXCEPT ![flag] = IF flag \in Repeatable THEN Append(@, v) ELSE v]

\* state: the configuration so far and the flag that waits for its value.
ParseStep(state, arg) ==
    CASE ~state.ok -> state
      [] state.ok /\ state.flag # "" ->
            IF Accepts(state.flag, arg) THEN Ok(Assign(state.config, state.flag, arg)) ELSE Err(state)
      [] state.ok /\ state.flag = "" /\ arg \in Valued -> [state EXCEPT !.flag = arg]
      [] state.ok /\ state.flag = "" /\ arg \in Switches -> Ok(Assign(state.config, arg, TRUE))
      [] state.ok /\ state.flag = "" /\ arg = "--detail" -> Ok(Assign(state.config, "--mode", "detail"))
      [] OTHER -> Err(state)   \* --help, -h and anything unknown

\* A flag still waiting at the end has no value.
from_args(args) ==
    LET end == FoldLeft(ParseStep, Ok(Default), args)
    IN  IF end.flag # "" THEN Err(end) ELSE end

detail_for(config, channel) ==
    config["--mode"] = "detail" \/ Contains(config["--detail-channel"], channel)

-----------------------------------------------------------------------------
(* Histograms.                                                             *)

empty == [buckets |-> [i \in DOMAIN Bounds |-> 0], sum |-> 0, count |-> 0]

observe(h, value) ==
    [buckets |-> [i \in DOMAIN Bounds |-> h.buckets[i] + (IF value =< Bounds[i] THEN 1 ELSE 0)],
     sum |-> h.sum + value, count |-> h.count + 1]

HistogramOf(values) == FoldLeft(observe, empty, values)

merge(a, b) ==
    [buckets |-> [i \in DOMAIN Bounds |-> a.buckets[i] + b.buckets[i]],
     sum |-> a.sum + b.sum, count |-> a.count + b.count]

\* The rank of the q-th percentile: the ceiling, at least 1.
RankDown(count, q) == Max({1, (q * count) \div 100})
Rank(count, q) == Max({1, (q * count + 99) \div 100})

\* The first bound whose bucket reaches the rank.
None == -1
Infinity == -2
quantile(h, q) ==
    LET reached == {i \in DOMAIN Bounds : h.buckets[i] >= Rank(h.count, q)}
    IN  IF h.count = 0 THEN None ELSE IF reached = {} THEN Infinity ELSE Bounds[Min(reached)]

-----------------------------------------------------------------------------
(* The frame.  A frame is its metrics lines and its message lines; a line  *)
(* is its text's name and its width.                                       *)

Notice == [text |-> "notice", width |-> 1]
Marker == [text |-> "marker", width |-> 1]
Minus(a, b) == IF a > b THEN a - b ELSE 0

clamp_frame(lines, max_lines) ==
    IF Len(lines) =< max_lines THEN lines
    ELSE Append(SubSeq(lines, 1, Minus(max_lines, 1)), Notice)

\* Drops the middle: the head and the tail survive.
clamp_middle(lines, max_lines) ==
    LET kept == Minus(max_lines, 1)
        head == kept \div 2
        tail == kept - head
    IN  IF Len(lines) =< max_lines THEN lines
        ELSE SubSeq(lines, 1, head) \o <<Notice>> \o SubSeq(lines, Len(lines) - tail + 1, Len(lines))

truncate_width(line, max_width) == [line EXCEPT !.width = Min({@, max_width})]

\* The lines kept for the messages when the metrics do not fit.
Reserved(metrics, max_lines) ==
    IF Len(metrics) + 2 =< max_lines THEN 0 ELSE Max({1, max_lines \div 3})

\* The latest messages that fit.
LatestThatFit(messages, room) == SubSeq(messages, Minus(Len(messages), room) + 1, Len(messages))

fit_frame(f) ==
    IF f.messages = <<>> THEN clamp_frame(f.metrics, f.max_lines)
    ELSE LET budget == Max({1, Minus(f.max_lines, Reserved(f.metrics, f.max_lines) + 1)})
             top == Append(clamp_middle(f.metrics, budget), Marker)
             shown == LatestThatFit(f.messages, Minus(f.max_lines, Len(top)))
         IN  top \o [i \in DOMAIN shown |-> truncate_width(shown[i], f.max_width)]

-----------------------------------------------------------------------------
Inputs ==
    {[kind |-> "args", args |-> a] : a \in Args}
    \cup {[kind |-> "samples", left |-> a, right |-> b, q |-> q] : a, b \in Samples, q \in {50, 90, 99}}
    \cup {[kind |-> "frame", frame |-> f] : f \in Frames}

Unknown == [kind |-> "unknown"]
Init == input \in Inputs /\ output = Unknown

Compute ==
    /\ output = Unknown /\ UNCHANGED input
    /\ output' =
         CASE input.kind = "args" -> [kind |-> "config", parsed |-> from_args(input.args)]
           [] input.kind = "samples" ->
                LET h == merge(HistogramOf(input.left), HistogramOf(input.right))
                IN  [kind |-> "histogram", h |-> h, quantile |-> quantile(h, input.q)]
           [] input.kind = "frame" -> [kind |-> "screen", lines |-> fit_frame(input.frame)]

Next == Compute
Spec == Init /\ [][Next]_vars

-----------------------------------------------------------------------------
\* The positions of a command line that hold a flag: the ones that are not the
\* value of the flag before.
FlagsAt(args) ==
    LET at[i \in 0..Len(args)] == i > 0 /\ ~(i > 1 /\ at[i - 1] /\ args[i - 1] \in Valued)
    IN  {i \in 1..Len(args) : at[i]}

\* A command line is accepted exactly when every flag is known and has a value it
\* accepts, and then means what its flags say: the last of a scalar wins, a
\* repeatable one accumulates in order, and a value that looks like a flag is
\* never read as one (Config::from_args).
ConfigMeansArgs ==
    output.kind = "config" =>
        LET args == input.args
            config == output.parsed.config
            flags == FlagsAt(args)
            At(flag) == {i \in flags : args[i] = flag}
            modes == At("--mode") \cup At("--detail")
        IN  /\ output.parsed.ok = \A i \in flags :
                   \/ args[i] \in Switches \cup {"--detail"}
                   \/ args[i] \in Valued /\ i < Len(args) /\ Accepts(args[i], args[i + 1])
            /\ output.parsed.ok =>
                 /\ \A flag \in Switches : config[flag] = (At(flag) # {})
                 /\ config["--mode"] = IF modes = {} THEN "stats"
                                       ELSE IF args[Max(modes)] = "--detail" THEN "detail"
                                       ELSE args[Max(modes) + 1]
                 /\ \A flag \in Repeatable :
                       /\ Len(config[flag]) = Cardinality(At(flag))
                       /\ \A i \in At(flag) : config[flag][Cardinality({j \in At(flag) : j =< i})] = args[i + 1]
                 /\ \A flag \in Numeric : At(flag) # {} => config[flag] = args[Max(At(flag)) + 1]
                 /\ \A i \in At("--detail-channel") : detail_for(config, args[i + 1])

\* The quantile is the least bound that at least q percent of all the observed
\* values do not exceed, though the histogram keeps only counts and was merged
\* from two (merge, quantile).
QuantileIsTight ==
    output.kind = "histogram" =>
        LET all == input.left \o input.right
            enough == {i \in DOMAIN Bounds :
                          100 * Cardinality({k \in DOMAIN all : all[k] =< Bounds[i]}) >= input.q * Len(all)}
        IN  output.quantile = IF all = <<>> THEN None ELSE IF enough = {} THEN Infinity ELSE Bounds[Min(enough)]

\* A frame never has more lines than the terminal, whatever the metrics and the
\* messages, and no message is wider: "a frame taller than the terminal makes it
\* scroll" (LiveConsole::lines, fit_frame).
FrameFits ==
    output.kind = "screen" =>
        /\ Len(output.lines) =< input.frame.max_lines
        /\ \A i \in DOMAIN output.lines :
               output.lines[i] \in ToSet(input.frame.metrics) \/ output.lines[i].width =< input.frame.max_width

\* The first and the last line of the metrics are always shown when there are
\* messages: "the top counters and the bottom inventory both survive" (clamp_middle).
EndsSurvive ==
    output.kind = "screen" /\ input.frame.metrics # <<>> /\ input.frame.messages # <<>> =>
        {input.frame.metrics[1], Last(input.frame.metrics)} \subseteq ToSet(output.lines)

\* Metrics that fit are shown whole and the messages fill what is left; the
\* messages shown are the latest (fit_frame).
LatestShown ==
    output.kind = "screen" /\ input.frame.messages # <<>> =>
        LET f == input.frame
            texts == [i \in DOMAIN f.messages |-> f.messages[i].text]
            shown == SelectSeq([i \in DOMAIN output.lines |-> output.lines[i].text], LAMBDA t : Contains(texts, t))
        IN  /\ shown # <<>> /\ IsSuffix(shown, texts)
            /\ Len(f.metrics) + 2 =< f.max_lines =>
                   /\ IsPrefix(f.metrics, output.lines)
                   /\ shown = texts \/ Len(output.lines) = f.max_lines
=============================================================================
