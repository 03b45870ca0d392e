------------------------------ MODULE InitOrder -------------------------------
(***************************************************************************)
(* The order in which ServiceLocator::initialize_all initializes the       *)
(* services of a process (locator.rs, topological_order).                  *)
(***************************************************************************)
EXTENDS Naturals, SequencesExt, FiniteSetsExt

CONSTANTS
    Services,    \* the services of the process
    External     \* names that are provided elsewhere

\* One service of a pass: initialized when nothing it needs is missing.
UnknownBlocks(deps, done, names) == deps \subseteq done
Ready(deps, done, names) == \A d \in deps : d \in done \/ d \notin names

\* One pass over the remaining services; what becomes ready counts at once.
Pass(remaining, order, names, deps) ==
    FoldLeft(LAMBDA acc, s :
                 IF Ready(deps[s], ToSet(acc.order), names)
                 THEN [acc EXCEPT !.order = Append(@, s)]
                 ELSE [acc EXCEPT !.remaining = Append(@, s)],
             [order |-> order, remaining |-> <<>>], remaining)

\* A pass without progress is a cycle: what remains follows as it is.
CycleFallback(pass, before) ==
    IF pass.remaining = before
    THEN [order |-> pass.order \o before, remaining |-> <<>>] ELSE pass

topological_order(names, deps) ==
    FoldLeft(LAMBDA acc, i : CycleFallback(Pass(acc.remaining, acc.order, ToSet(names), deps), acc.remaining),
             [order |-> <<>>, remaining |-> names], names).order

-----------------------------------------------------------------------------
\* The services of a graph that reach a cycle; the others can be ordered.
Closure(deps) ==
    LET step(set) == set \cup UNION {deps[s] : s \in set \cap Services}
    IN  [s \in Services |-> FoldLeft(LAMBDA acc, i : step(acc), deps[s], SetToSeq(Services))]
Cyclic(deps) == {s \in Services : s \in Closure(deps)[s]}
Blocked(deps) == {s \in Services : ({s} \cup Closure(deps)[s]) \cap Cyclic(deps) # {}}

Position(order, s) == SelectInSeq(order, LAMBDA x : x = s)
===============================================================================
