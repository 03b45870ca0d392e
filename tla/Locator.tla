------------------------------- MODULE Locator --------------------------------
(***************************************************************************)
(* ServiceLocator::get and its twin get_blocking (locator.rs): two fast    *)
(* paths under a read lock each, then a proxy built outside of any lock    *)
(* and inserted under the write lock. Tasks ask for one service name,      *)
(* by the proxy type they know it under.                                   *)
(***************************************************************************)
EXTENDS Naturals, FiniteSets

CONSTANTS
    Getters,     \* tasks that call get or get_blocking
    TypeOf,      \* the type each of them asks for
    Registered,  \* types under which a provider may register the name
    MaxGets,     \* bound: calls of one task
    MaxRegisters \* bound: registrations of the name

VARIABLES
    entry,       \* the provider registered under the name, a set of at most one
    cached,      \* the lazily built proxy of the name, a set of at most one
    built,       \* how many proxies and providers were made so far
    registers,   \* how many registrations took place
    get          \* each task: [pc, gets, proxy, result]
vars == <<entry, cached, built, registers, get>>

Instance(n, type) == [id |-> n, type |-> type]

\* downcast: the instance under the name, if it has the type asked for.
downcast(found, g) == {x \in found : x.type = TypeOf[g]}

Init ==
    /\ entry = {} /\ cached = {} /\ built = 0 /\ registers = 0
    /\ get = [g \in Getters |-> [pc |-> "idle", gets |-> 0, proxy |-> {}, result |-> {}]]

\* register: an entry of the same name is replaced.
register ==
    /\ registers < MaxRegisters /\ registers' = registers + 1 /\ built' = built + 1
    /\ \E type \in Registered : entry' = {Instance(built + 1, type)}
    /\ UNCHANGED <<cached, get>>

Return(g, result) == [get EXCEPT ![g].pc = "idle", ![g].result = result]

\* Fast path 1: a registered provider.
ReadEntries(g) ==
    /\ get[g].pc = "idle" /\ get[g].gets < MaxGets
    /\ LET called == [get EXCEPT ![g].gets = @ + 1, ![g].proxy = {}]
       IN  get' = IF entry # {} THEN [called EXCEPT ![g].result = downcast(entry, g)]
                  ELSE [called EXCEPT ![g].pc = "cache", ![g].result = {}]
    /\ UNCHANGED <<entry, cached, built, registers>>

\* Fast path 2: the cache.
ReadCache(g) ==
    /\ get[g].pc = "cache"
    /\ get' = IF cached # {} THEN Return(g, downcast(cached, g)) ELSE [get EXCEPT ![g].pc = "build"]
    /\ UNCHANGED <<entry, cached, built, registers>>

consume_proxy(g) ==
    /\ get[g].pc = "build" /\ built' = built + 1
    /\ get' = [get EXCEPT ![g].pc = "insert", ![g].proxy = {Instance(built + 1, TypeOf[g])}]
    /\ UNCHANGED <<entry, cached, registers>>

\* or_insert_with: the first proxy stays.
Overwrite(proxy) == proxy
OrInsert(proxy) == IF cached = {} THEN proxy ELSE cached

Insert(g) ==
    /\ get[g].pc = "insert" /\ cached' = OrInsert(get[g].proxy) /\ get' = Return(g, get[g].proxy)
    /\ UNCHANGED <<entry, built, registers>>

\* get_blocking takes the same steps, and blocks for the locks.
get_blocking(g) == ReadEntries(g) \/ ReadCache(g) \/ consume_proxy(g) \/ Insert(g)

Next == register \/ \E g \in Getters : get_blocking(g)
Spec == Init /\ [][Next]_vars

\* The cache keeps the first proxy it was given, so that every later get of the
\* process shares it, whatever calls raced to fill it (or_insert_with in get).
CacheIsStable ==
    cached # {} => cached' = cached

\* A get never hands out an instance of another type than the one asked for, even
\* when the name is registered, or was cached, under another type (downcast).
TypeIsRight == \A g \in Getters : \A x \in get[g].result : x.type = TypeOf[g]

\* However gets race, the cache keeps the first proxy it was given, and a get
\* answers an instance of the type that was asked for (ServiceLocator::get).
LocatorSound == []TypeIsRight /\ [][CacheIsStable]_vars

===============================================================================
