----------------------------- MODULE StartupProofs -----------------------------
(***************************************************************************)
(* Proofs about a process from its start to its exit, for any number of    *)
(* tasks that provide and that call, of services and of channels (Startup).*)
(***************************************************************************)
EXTENDS Startup, TLAPS

(* A leaf that names no prover is tried with these, one after the other.   *)
USE SMT, ZenonT(30), SMTT(30), Z3

(* What Append does to a sequence.                                         *)
LEMMA Appended ==
    ASSUME NEW S, NEW s \in Seq(S), NEW e \in S
    PROVE  /\ Append(s, e) \in Seq(S) /\ Append(s, e) # <<>>
           /\ Len(Append(s, e)) = Len(s) + 1 /\ Len(s) \in Nat
           /\ DOMAIN Append(s, e) = DOMAIN s \cup {Len(s) + 1}
           /\ \A i \in DOMAIN s : Append(s, e)[i] = s[i]
           /\ Append(s, e)[Len(s) + 1] = e
  OBVIOUS

(* What an assignment to one element does to a sequence.                   *)
LEMMA Assigned ==
    ASSUME NEW S, NEW s \in Seq(S), NEW k \in DOMAIN s, NEW e \in S
    PROVE  /\ [s EXCEPT ![k] = e] \in Seq(S) /\ Len([s EXCEPT ![k] = e]) = Len(s)
           /\ DOMAIN [s EXCEPT ![k] = e] = DOMAIN s
           /\ [s EXCEPT ![k] = e][k] = e
           /\ \A i \in DOMAIN s : i # k => [s EXCEPT ![k] = e][i] = s[i]
  OBVIOUS

-----------------------------------------------------------------------------
(* A process from start to exit.                                           *)

ProviderState ==
    [pc : {"register", "init", "hook", "check", "push", "spawn", "spawned", "drain", "start", "waiting", "ended"},
     todo : SUBSET Services, order : Seq(Services), failed : BOOLEAN]
Thread ==
    [channel : {ChannelOf[s] : s \in Services} \cup {"remote"}, table : SUBSET Services,
     state : {"opening", "serving", "done"}, tries : Nat]

(* The tasks have names of their own, and the order of initialization      *)
(* lists every registered service (EachOnce of InitOrder).                 *)
StartSets ==
    /\ Providers \cap Callers = {} /\ None \notin Providers \cup Callers
    /\ Provides \in [Providers -> SUBSET Services]
    /\ \A d \in Deps, set \in SUBSET Services : \A names \in Listings(set) :
         topological_order(names, d) \in Seq(Services) /\ set \subseteq Range(topological_order(names, d))

StartTypes ==
    /\ deps \in Deps /\ entries \subseteq Services /\ started \subseteq Services /\ pending \subseteq Services
    /\ prov \in [Providers -> ProviderState] /\ lock \in [Services -> Providers \cup {None}]
    /\ threads \in Seq(Thread) /\ spawned \in [Tasks -> SUBSET DOMAIN threads]
    /\ callers \in [Callers -> {"call", "open", "spawned", "insert", "done"}]
    /\ cache \in [locked : Callers \cup {None}, filled : BOOLEAN]
    /\ main \in [pc : {"body", "handles", "threads", "join", "ports", "node", "exit"}, joins : SUBSET DOMAIN threads]
    /\ handles \subseteq DOMAIN threads /\ sealed \in BOOLEAN

Pc(p) == prov[p].pc
Table(i) == threads[i].table
Alone == \A p, q \in Providers : p = q
Released == main.pc \in {"node", "exit"}
Dispatching == DOMAIN threads \ Providing

(* A provider task holds the mode of the service it initializes.           *)
Holding == {"hook", "check", "push", "spawn", "spawned"}
LockInv == \A p \in Providers : Pc(p) \in Holding => prov[p].order # <<>> /\ lock[Service(p)] = p

(* A service in the registry, in the list of the task that drained it or   *)
(* in the table of a thread is started, or about to be.                    *)
Placed(s) ==
    \/ s \in pending
    \/ \E p \in Providers : Pc(p) = "start" /\ s \in prov[p].todo
    \/ \E i \in DOMAIN threads : s \in Table(i)
PlaceInv ==
    /\ \A s : Placed(s) => s \in started \/ \E p \in Providers : Pc(p) = "spawned" /\ Service(p) = s
    /\ \A s : Placed(s) => \A p \in Providers : Pc(p) \in Holding \ {"spawned"} => Service(p) # s

(* One task drains the registry, and a task that failed sealed nothing.    *)
Draining == {"drain", "start"}
Sealing == {"drain", "start", "waiting", "ended"}
SealInv ==
    /\ \A p \in Providers : Pc(p) \in {"spawn", "spawned", "drain", "start", "waiting"} => sealed
    /\ \A p, q \in Providers : Pc(p) \in Draining /\ Pc(q) \in Draining => p = q
    /\ \A p \in Providers : prov[p].failed => Pc(p) = "ended"
    /\ sealed => \E p \in Providers : Pc(p) \in Sealing /\ ~prov[p].failed
    /\ Providing # {} => sealed

(* A service is in one of these places only.                               *)
TableInv ==
    /\ \A i, j \in DOMAIN threads : \A s \in Table(i) : s \in Table(j) => i = j
    /\ \A i \in DOMAIN threads : \A s \in Table(i) : s \notin pending
    /\ \A p \in Providers : Pc(p) = "start" => \A s \in prov[p].todo :
          s \notin pending /\ \A i \in DOMAIN threads : s \notin Table(i)

Distinct(set) == \A s, t \in set : ChannelOf[s] = ChannelOf[t] /\ IdOf[s] = IdOf[t] => s = t
IdInv ==
    /\ Distinct(pending)
    /\ \A p \in Providers : Pc(p) = "start" => Distinct(prov[p].todo)
    /\ \A i \in DOMAIN threads : \A s, t \in Table(i) : IdOf[s] = IdOf[t] => s = t

(* The lock of the cache covers the opening of the ports.                  *)
CallerInv ==
    /\ \A c \in Callers : callers[c] \in {"open", "spawned", "insert"} <=> cache.locked = c
    /\ \A c \in Callers : callers[c] = "open" => ~cache.filled
    /\ MainAwaits \/ ~Released => \A i, j \in Dispatching : i = j
    /\ ~Released /\ Dispatching # {} => cache.filled \/ \E c \in Callers : callers[c] \in {"spawned", "insert"}

(* Every thread is with the task that spawned it, registered, or among     *)
(* those main joins; and once the tasks main awaits are over no other      *)
(* comes.                                                                  *)
ThreadInv ==
    /\ \A p \in Providers : spawned[p] # {} => Pc(p) \in {"spawned", "start"}
    /\ \A c \in Callers : spawned[c] # {} => callers[c] = "spawned"
    /\ \A i \in DOMAIN threads : i \in handles \/ i \in main.joins \/ \E t \in Tasks : i \in spawned[t]
ExitInv ==
    MainAwaits /\ main.pc # "body" =>
        /\ \A p \in Providers : Pc(p) = "ended"
        /\ \A c \in Callers : callers[c] = "done"
        /\ main.pc = "threads" => Dispatchers = {}
        /\ main.pc \in {"join", "ports", "node", "exit"} => handles = {}
        /\ main.pc \in {"ports", "node", "exit"} => \A i \in main.joins : ~Running(i)
        /\ Released => ~cache.filled
        /\ main.pc = "exit" => node = "empty"

(* A provider task that is alone finds every service it provides where     *)
(* its progress has put it.                                                *)
Served(s) == \E i \in DOMAIN threads : s \in Table(i)
InOrder(p, s) == \E k \in DOMAIN prov[p].order : prov[p].order[k] = s
Before == {"register", "init", "hook", "check", "push"}
Ready(p) ==
    /\ Pc(p) \notin {"spawn", "spawned"}
    /\ Pc(p) \in Before => ~sealed
    /\ Pc(p) \in Before => \A s \in started : s \in pending \/ (Pc(p) \in Holding /\ s = Service(p))
    /\ Pc(p) = "register" => \A s \in Provides[p] : s \in entries \/ s \in prov[p].todo
    /\ Pc(p) \in Before \ {"register"} => \A s \in Provides[p] : s \in pending \/ InOrder(p, s)
    /\ Pc(p) = "drain" => \A s \in Provides[p] : s \in pending
    /\ Pc(p) = "start" => \A s \in Provides[p] : s \in prov[p].todo \/ Served(s)
    /\ Pc(p) = "waiting" => \A s \in Provides[p] : Served(s)
ReadyInv == Alone => \A p \in Providers : Ready(p)

StartInv ==
    /\ StartTypes /\ LockInv /\ PlaceInv /\ SealInv /\ TableInv /\ IdInv /\ CallerInv /\ ThreadInv /\ ExitInv /\ ReadyInv

(* Before any task has run.                                                *)
LEMMA InitStart == StartSets /\ Init => StartInv
<1> SUFFICES ASSUME StartSets, Init PROVE StartInv
  BY Zenon
<1>1. /\ threads = <<>> /\ DOMAIN threads = {} /\ threads \in Seq(Thread)
  BY DEF Init
<1>2. prov \in [Providers -> ProviderState] /\ \A p \in Providers : Pc(p) = "register" /\ ~prov[p].failed /\ prov[p].todo = Provides[p]
  <2>1. <<>> \in Seq(Services)
    OBVIOUS
  <2>2. ASSUME NEW p \in Providers PROVE [pc |-> "register", todo |-> Provides[p], order |-> <<>>, failed |-> FALSE] \in ProviderState
    BY Zenon, <2>1 DEF ProviderState, StartSets
  <2> QED
    BY Zenon, <2>2 DEF Init, Pc
<1>3. StartTypes
  BY Zenon, <1>1, <1>2 DEF StartTypes, Init
<1>4. LockInv /\ PlaceInv /\ SealInv
  BY Zenon, <1>1, <1>2 DEF LockInv, PlaceInv, SealInv, Placed, Holding, Draining, Init, Providing
<1>5. TableInv /\ IdInv
  BY Zenon, <1>1, <1>2 DEF TableInv, IdInv, Distinct, Init
<1>6. CallerInv /\ ThreadInv /\ ExitInv
  BY Zenon, <1>1, <1>2 DEF CallerInv, ThreadInv, ExitInv, Dispatching, Init, StartSets, Tasks
<1>7. ReadyInv
  BY Zenon, <1>1, <1>2 DEF ReadyInv, Ready, Before, Init
<1> QED
  BY Zenon, <1>3, <1>4, <1>5, <1>6, <1>7 DEF StartInv

-----------------------------------------------------------------------------
(* The threads, the callers and main leave the registry alone, and the     *)
(* threads they start have no table.                                       *)
SameTables ==
    /\ DOMAIN threads \subseteq DOMAIN threads'
    /\ \A i \in DOMAIN threads : Table(i)' = Table(i)
    /\ \A i \in DOMAIN threads' : i \notin DOMAIN threads => Table(i)' = {}
SameRegistry == UNCHANGED <<deps, entries, prov, lock, started, sealed, pending>>

LEMMA RegistryKept ==
    ASSUME StartInv, SameTables, SameRegistry
    PROVE  LockInv' /\ PlaceInv' /\ SealInv' /\ TableInv' /\ IdInv' /\ ReadyInv'
<1>1. \A i, s : i \in DOMAIN threads' /\ s \in Table(i)' <=> i \in DOMAIN threads /\ s \in Table(i)
  BY Zenon DEF SameTables
<1>2. \A i : i \in Providing' => i \in Providing
  BY Zenon, <1>1 DEF Providing, Table
<1>3. prov' = prov /\ lock' = lock /\ started' = started /\ sealed' = sealed /\ pending' = pending /\ entries' = entries
  BY Zenon DEF SameRegistry
<1>4. LockInv'
  BY Zenon, <1>3 DEF StartInv, LockInv, Pc, Service
<1>5. \A s : Placed(s)' <=> Placed(s)
  BY Zenon, <1>1, <1>3 DEF Placed, Pc
<1>6. PlaceInv'
  BY Zenon, <1>3, <1>5 DEF StartInv, PlaceInv, Pc, Service
<1>7. SealInv'
  BY Zenon, <1>2, <1>3 DEF StartInv, SealInv, Pc
<1>8. TableInv'
  BY Zenon, <1>1, <1>3 DEF StartInv, TableInv, Pc
<1>9. IdInv'
  BY Zenon, <1>1, <1>3 DEF StartInv, IdInv, Distinct, Pc
<1>10. ReadyInv'
  BY ZenonT(40), <1>1, <1>3 DEF StartInv, ReadyInv, Ready, InOrder, Served, Pc, Service
<1> QED
  BY Zenon, <1>4, <1>6, <1>7, <1>8, <1>9, <1>10

(* A step of a thread.                                                     *)
LEMMA ThreadStep ==
    ASSUME StartInv, Alive, NEW i \in DOMAIN threads, Open(i) \/ Stop(i) \/ request_shutdown(i)
    PROVE  StartInv'
<1>0. threads \in Seq(Thread) /\ threads[i] \in Thread
  BY DEF StartInv, StartTypes
<1>1. SameRegistry /\ UNCHANGED <<handles, spawned, callers, cache, main>>
  BY Zenon DEF Open, Stop, request_shutdown, registry, ipc, rest, SameRegistry
<1>2. PICK x \in Thread : /\ threads' = [threads EXCEPT ![i] = x] /\ x.table = threads[i].table
                          /\ threads[i].state = "done" => x.state = "done"
  <2>1. CASE threads' = threads
    <3>1. threads' = [threads EXCEPT ![i] = threads[i]]
      BY <1>0, <2>1
    <3> QED
      BY Zenon, <1>0, <3>1
  <2>2. ASSUME NEW st \in {"serving", "done"}, threads' = [threads EXCEPT ![i].state = st]
        PROVE  \E x \in Thread : /\ threads' = [threads EXCEPT ![i] = x] /\ x.table = threads[i].table
                                 /\ x.state = st
    <3> DEFINE x == [threads[i] EXCEPT !.state = st]
    <3>1. x \in Thread /\ x.table = threads[i].table /\ x.state = st
      BY Zenon, <1>0 DEF Thread
    <3>2. threads' = [threads EXCEPT ![i] = x]
      BY Zenon, <2>2
    <3> HIDE DEF x
    <3> QED
      BY Zenon, <3>1, <3>2
  <2>3. CASE threads' = [threads EXCEPT ![i].tries = @ + 1]
    <3> DEFINE x == [threads[i] EXCEPT !.tries = @ + 1]
    <3>0. threads[i].tries + 1 \in Nat
      BY <1>0 DEF Thread
    <3>1. x \in Thread /\ x.table = threads[i].table /\ x.state = threads[i].state
      BY Zenon, <1>0, <3>0 DEF Thread
    <3>2. threads' = [threads EXCEPT ![i] = x]
      BY Zenon, <2>3
    <3> HIDE DEF x
    <3> QED
      BY Zenon, <3>1, <3>2
  <2>4. CASE Open(i)
    <3>1. threads[i].state # "done"
      BY Zenon, <2>4 DEF Open
    <3>2. \/ \E st \in {"serving", "done"} : threads' = [threads EXCEPT ![i].state = st]
          \/ threads' = [threads EXCEPT ![i].tries = @ + 1]
      BY Zenon, <2>4 DEF Open
    <3> QED
      BY Zenon, <2>2, <2>3, <3>1, <3>2
  <2>5. CASE Stop(i)
    BY Zenon, <2>2, <2>5 DEF Stop
  <2>6. CASE request_shutdown(i)
    BY Zenon, <2>1, <2>6 DEF request_shutdown, ipc
  <2> QED
    BY Zenon, <2>4, <2>5, <2>6
<1>3. /\ threads' \in Seq(Thread) /\ DOMAIN threads' = DOMAIN threads /\ threads'[i] = x
      /\ \A j \in DOMAIN threads : j # i => threads'[j] = threads[j]
  BY Zenon, <1>0, <1>2, Assigned
<1>4. SameTables /\ \A j \in DOMAIN threads : Table(j)' = Table(j) /\ (~Running(j) => ~Running(j)')
  BY Zenon, <1>2, <1>3 DEF SameTables, Table, Running
<1>5. StartTypes'
  BY Zenon, <1>1, <1>3 DEF StartInv, StartTypes, SameRegistry, Tasks
<1>6. Dispatching' = Dispatching
  BY Zenon, <1>3, <1>4 DEF Dispatching, Providing, Table
<1>7. CallerInv'
  BY Zenon, <1>1, <1>6 DEF StartInv, CallerInv, Released
<1>8. ThreadInv'
  BY Zenon, <1>1, <1>3 DEF StartInv, ThreadInv, SameRegistry, Pc
<1>9. ExitInv'
  <2>1. handles \subseteq DOMAIN threads /\ main.joins \subseteq DOMAIN threads
    BY Zenon DEF StartInv, StartTypes
  <2>2. Dispatchers' = Dispatchers
    BY Zenon, <1>1, <1>4, <2>1 DEF Dispatchers, Table
  <2> QED
    BY Zenon, <1>1, <1>4, <2>1, <2>2 DEF StartInv, ExitInv, SameRegistry, Pc, Released, Alive
<1> QED
  BY Zenon, <1>1, <1>4, <1>5, <1>7, <1>8, <1>9, RegistryKept DEF StartInv

(* main.                                                                   *)
MainPc == {"body", "handles", "threads", "join", "ports", "node", "exit"}
LEMMA MainMoved ==
    ASSUME NEW S, NEW g \in [pc : MainPc, joins : SUBSET S], NEW pc \in MainPc
    PROVE  /\ [g EXCEPT !.pc = pc] \in [pc : MainPc, joins : SUBSET S]
           /\ [g EXCEPT !.pc = pc].pc = pc /\ [g EXCEPT !.pc = pc].joins = g.joins
  BY Zenon

LEMMA MainStep ==
    ASSUME StartInv, Main
    PROVE  StartInv'
<1>0. /\ main \in [pc : MainPc, joins : SUBSET DOMAIN threads] /\ handles \subseteq DOMAIN threads
      /\ spawned \in [Tasks -> SUBSET DOMAIN threads]
      /\ cache \in [locked : Callers \cup {None}, filled : BOOLEAN]
  BY Zenon DEF StartInv, StartTypes, MainPc
<1>1. SameRegistry /\ UNCHANGED <<threads, spawned, callers>>
  BY Zenon DEF Main, cancel, join_all, Take, Joined, release_process_ports,
     release_shared_node, registry, ipc, SameRegistry
<1>2. SameTables
  BY Zenon, <1>1 DEF SameTables, Table
<1>3. SUFFICES /\ main' \in [pc : MainPc, joins : SUBSET DOMAIN threads] /\ handles' \subseteq DOMAIN threads
               /\ cache' \in [locked : Callers \cup {None}, filled : BOOLEAN]
               /\ CallerInv' /\ ThreadInv' /\ ExitInv'
  <2>1. ASSUME /\ main' \in [pc : MainPc, joins : SUBSET DOMAIN threads] /\ handles' \subseteq DOMAIN threads
               /\ cache' \in [locked : Callers \cup {None}, filled : BOOLEAN]
        PROVE  StartTypes'
    BY Zenon, <1>1, <2>1 DEF StartInv, StartTypes, SameRegistry, MainPc, Tasks
  <2> QED
    BY Zenon, <1>1, <1>2, <2>1, RegistryKept DEF StartInv
<1>4. Dispatching' = Dispatching
  BY Zenon, <1>1 DEF Dispatching, Providing
<1>5. ASSUME handles' \cup main'.joins = handles \cup main.joins
      PROVE  ThreadInv'
  BY Zenon, <1>1, <1>5 DEF StartInv, ThreadInv, SameRegistry, Pc
<1>6. ASSUME cache' = cache, Released' <=> Released
      PROVE  CallerInv'
  BY Zenon, <1>1, <1>4, <1>6 DEF StartInv, CallerInv
<1>7. CASE cancel
  <2>1. /\ main.pc = "body" /\ main' = [main EXCEPT !.pc = "handles"] /\ UNCHANGED <<handles, cache>>
        /\ MainAwaits => (\A p \in Providers : Pc(p) = "ended") /\ (\A c \in Callers : callers[c] = "done")
    BY Zenon, <1>7 DEF cancel, BodyEnds, ipc, Pc
  <2>2. main' \in [pc : MainPc, joins : SUBSET DOMAIN threads] /\ main'.pc = "handles" /\ main'.joins = main.joins
    BY Zenon, <1>0, <2>1, MainMoved DEF MainPc
  <2>3. ExitInv'
    BY Zenon, <1>1, <2>1, <2>2 DEF ExitInv, SameRegistry, Pc, Released
  <2> QED
    BY Zenon, <1>0, <1>5, <1>6, <2>1, <2>2, <2>3 DEF Released
<1>8. ASSUME NEW taken \in SUBSET handles, NEW from \in {"handles", "threads"}, NEW to \in {"threads", "join"},
             main.pc = from, main' = [pc |-> to, joins |-> main.joins \cup taken], handles' = handles \ taken,
             cache' = cache, to = "threads" => taken = Dispatchers,
             to = "join" => from = "threads" /\ taken = handles \ Dispatchers
      PROVE  /\ main' \in [pc : MainPc, joins : SUBSET DOMAIN threads] /\ handles' \subseteq DOMAIN threads
             /\ cache' \in [locked : Callers \cup {None}, filled : BOOLEAN]
             /\ CallerInv' /\ ThreadInv' /\ ExitInv'
  <2>1. /\ main' \in [pc : MainPc, joins : SUBSET DOMAIN threads] /\ main'.pc = to /\ main'.joins = main.joins \cup taken
        /\ handles' \subseteq DOMAIN threads /\ main.pc \in {"handles", "threads"} /\ main'.pc \in {"threads", "join"}
    <3>1. main.joins \in SUBSET DOMAIN threads
      BY Zenon, <1>0
    <3> QED
      BY Zenon, <1>0, <1>8, <3>1 DEF MainPc
  <2>2. handles' \cup main'.joins = handles \cup main.joins
    BY Zenon, <1>8, <2>1
  <2>3. to = "threads" => Dispatchers' = {}
    BY Zenon, <1>1, <1>8 DEF Dispatchers
  <2>4. to = "join" /\ MainAwaits => handles' = {}
    BY Zenon, <1>8 DEF StartInv, ExitInv
  <2>5. ExitInv'
    BY Zenon, <1>1, <2>1, <2>3, <2>4 DEF StartInv, ExitInv, SameRegistry, Pc, Released
  <2> QED
    BY Zenon, <1>0, <1>5, <1>6, <1>8, <2>1, <2>2, <2>5 DEF Released
<1>9. CASE join_all
  <2>1. Dispatchers \subseteq handles
    BY Zenon DEF Dispatchers
  <2>2. CASE Take("handles", "threads", Dispatchers)
    <3>1. /\ main.pc = "handles" /\ main' = [pc |-> "threads", joins |-> main.joins \cup Dispatchers]
          /\ handles' = handles \ Dispatchers /\ cache' = cache
      BY Zenon, <2>2 DEF Take
    <3> QED
      BY Zenon, <1>8, <2>1, <3>1
  <2>3. CASE Take("threads", "join", ThreadsToJoin)
    <3> DEFINE left == handles \ Dispatchers
    <3>1. /\ main.pc = "threads" /\ main' = [pc |-> "join", joins |-> main.joins \cup left]
          /\ handles' = handles \ left /\ cache' = cache
      BY Zenon, <2>3 DEF Take, ThreadsToJoin
    <3>2. left \in SUBSET handles
      BY Zenon
    <3> QED
      BY Zenon, <1>8, <3>1, <3>2
  <2> QED
    BY Zenon, <1>9, <2>2, <2>3 DEF join_all
<1>10. CASE Joined
  <2>1. /\ main.pc = "join" /\ main' = [main EXCEPT !.pc = "ports"] /\ UNCHANGED <<handles, cache>>
        /\ \A i \in main.joins : threads[i].state = "done"
    BY Zenon, <1>10 DEF Joined, ipc
  <2>2. main' \in [pc : MainPc, joins : SUBSET DOMAIN threads] /\ main'.pc = "ports" /\ main'.joins = main.joins
    BY Zenon, <1>0, <2>1, MainMoved DEF MainPc
  <2>3. ExitInv'
    BY Zenon, <1>1, <2>1, <2>2 DEF StartInv, ExitInv, SameRegistry, Pc, Released, Running
  <2> QED
    BY Zenon, <1>0, <1>5, <1>6, <2>1, <2>2, <2>3 DEF Released
<1>11. CASE release_process_ports
  <2>1. /\ main.pc = "ports" /\ main' = [main EXCEPT !.pc = "node"] /\ handles' = handles
        /\ cache.locked = None /\ cache' = [cache EXCEPT !.filled = FALSE]
    BY Zenon, <1>11 DEF release_process_ports, ipc, PortsReleased
  <2>2. main' \in [pc : MainPc, joins : SUBSET DOMAIN threads] /\ main'.pc = "node" /\ main'.joins = main.joins
    BY Zenon, <1>0, <2>1, MainMoved DEF MainPc
  <2>3. /\ cache' \in [locked : Callers \cup {None}, filled : BOOLEAN]
        /\ cache'.locked = cache.locked /\ ~cache'.filled
    BY Zenon, <1>0, <2>1
  <2>4. CallerInv'
    BY Zenon, <1>1, <1>4, <2>1, <2>2, <2>3 DEF StartInv, CallerInv, Released
  <2>5. ExitInv'
    BY Zenon, <1>1, <2>1, <2>2, <2>3 DEF StartInv, ExitInv, SameRegistry, Pc, Released, Running
  <2> QED
    BY Zenon, <1>0, <1>5, <2>1, <2>2, <2>3, <2>4, <2>5
<1>12. CASE release_shared_node
  <2>1. main.pc = "node" /\ main' = [main EXCEPT !.pc = "exit"] /\ node' = "empty" /\ UNCHANGED <<handles, cache>>
    BY Zenon, <1>12 DEF release_shared_node
  <2>2. main' \in [pc : MainPc, joins : SUBSET DOMAIN threads] /\ main'.pc = "exit" /\ main'.joins = main.joins
    BY Zenon, <1>0, <2>1, MainMoved DEF MainPc
  <2>3. ExitInv'
    BY Zenon, <1>1, <2>1, <2>2 DEF StartInv, ExitInv, SameRegistry, Pc, Released, Running
  <2> QED
    BY Zenon, <1>0, <1>5, <1>6, <2>1, <2>2, <2>3 DEF Released
<1> QED
  BY Zenon, <1>7, <1>9, <1>10, <1>11, <1>12 DEF Main

(* A thread is spawned by a task, and later registered.                    *)
LEMMA ThreadSpawned ==
    ASSUME StartTypes, NEW t \in Tasks, NEW channel \in {ChannelOf[s] : s \in Services} \cup {"remote"},
           NEW table \in SUBSET Services, NEW state \in {"opening", "serving"},
           SpawnThread(t, channel, table, state)
    PROVE  /\ threads' \in Seq(Thread) /\ spawned' \in [Tasks -> SUBSET DOMAIN threads']
           /\ \E n : /\ n \notin DOMAIN threads /\ DOMAIN threads' = DOMAIN threads \cup {n}
                     /\ Table(n)' = table /\ \A i \in DOMAIN threads : threads'[i] = threads[i]
                     /\ spawned' = [spawned EXCEPT ![t] = {n}]
<1> DEFINE x == [channel |-> channel, table |-> table, state |-> state, tries |-> 0]
           n == Len(threads) + 1
<1>1. threads \in Seq(Thread) /\ x \in Thread /\ x.table = table /\ spawned \in [Tasks -> SUBSET DOMAIN threads]
  BY Zenon DEF StartTypes, Thread
<1>2. threads' = Append(threads, x) /\ spawned' = [spawned EXCEPT ![t] = {n}]
  BY Zenon DEF SpawnThread
<1> HIDE DEF x
<1>3. n \notin DOMAIN threads
  BY <1>1
<1> HIDE DEF n
<1>4. /\ threads' \in Seq(Thread) /\ DOMAIN threads' = DOMAIN threads \cup {n} /\ threads'[n] = x
      /\ \A i \in DOMAIN threads : threads'[i] = threads[i]
  BY <1>1, <1>2 DEF n
<1>5. spawned' \in [Tasks -> SUBSET DOMAIN threads']
  <2>1. {n} \in SUBSET DOMAIN threads'
    BY Zenon, <1>4
  <2>2. \A u \in Tasks : spawned[u] \in SUBSET DOMAIN threads'
    BY Zenon, <1>1, <1>4
  <2>3. spawned \in [Tasks -> SUBSET DOMAIN threads']
    BY <1>1, <2>2
  <2> QED
    BY Zenon, <1>2, <2>1, <2>3
<1> QED
  BY Zenon, <1>1, <1>2, <1>3, <1>4, <1>5 DEF Table

LEMMA ThreadRegistered ==
    ASSUME StartTypes, NEW t \in Tasks, RegisterThread(t)
    PROVE  /\ spawned' \in [Tasks -> SUBSET DOMAIN threads] /\ handles' \subseteq DOMAIN threads
           /\ spawned'[t] = {} /\ \A u \in Tasks : u # t => spawned'[u] = spawned[u]
           /\ \A i : i \in handles \/ i \in spawned[t] => i \in handles'
  BY Zenon DEF StartTypes, RegisterThread

(* A call of a consumer.                                                   *)
CallerPc == {"call", "open", "spawned", "insert", "done"}
LEMMA CallerStep ==
    ASSUME StartSets, StartInv, NEW c \in Callers, Call(c)
    PROVE  StartInv'
<1>0. /\ StartTypes /\ callers \in [Callers -> CallerPc] /\ c \in Tasks /\ c \notin Providers /\ c # None
      /\ cache \in [locked : Callers \cup {None}, filled : BOOLEAN]
      /\ spawned \in [Tasks -> SUBSET DOMAIN threads] /\ handles \subseteq DOMAIN threads
      /\ Providers \subseteq Tasks /\ Callers \subseteq Tasks
  BY Zenon DEF StartInv, StartTypes, CallerPc, StartSets, Tasks
<1>1. SameRegistry /\ main' = main
  BY Zenon DEF Call, consumer_ports, open_consumer_ports, spawn_response_dispatcher,
     InsertPorts, registry, SameRegistry
<1>2. PICK pc \in CallerPc : callers' = [callers EXCEPT ![c] = pc]
  BY Zenon DEF Call, consumer_ports, open_consumer_ports, spawn_response_dispatcher,
     InsertPorts, CallerPc
<1>3. /\ callers' \in [Callers -> CallerPc] /\ callers'[c] = pc /\ \A d \in Callers : d # c => callers'[d] = callers[d]
  BY Zenon, <1>0, <1>2
<1>4. callers[c] # "done" /\ ~(MainAwaits /\ main.pc # "body")
  <2>1. callers[c] # "done"
    BY Zenon DEF Call, consumer_ports, open_consumer_ports, spawn_response_dispatcher,
       InsertPorts
  <2> QED
    BY Zenon, <2>1 DEF StartInv, ExitInv
<1>5. ExitInv'
  BY Zenon, <1>1, <1>4 DEF ExitInv
<1>6. ASSUME threads' \in Seq(Thread), DOMAIN threads \subseteq DOMAIN threads',
             spawned' \in [Tasks -> SUBSET DOMAIN threads'], handles' \subseteq DOMAIN threads',
             cache' \in [locked : Callers \cup {None}, filled : BOOLEAN], SameTables,
             CallerInv', ThreadInv'
      PROVE  StartInv'
  <2>1. main' \in [pc : {"body", "handles", "threads", "join", "ports", "node", "exit"}, joins : SUBSET DOMAIN threads']
    <3>1. main \in [pc : MainPc, joins : SUBSET DOMAIN threads]
      BY Zenon DEF StartInv, StartTypes, MainPc
    <3> QED
      BY <1>1, <1>6, <3>1 DEF MainPc
  <2>2. StartTypes'
    BY Zenon, <1>1, <1>3, <1>6, <2>1 DEF StartInv, StartTypes, SameRegistry, CallerPc, Tasks
  <2> QED
    BY Zenon, <1>1, <1>5, <1>6, <2>2, RegistryKept DEF StartInv
<1>7. ASSUME threads' = threads PROVE SameTables /\ Dispatching' = Dispatching
  BY Zenon, <1>7 DEF SameTables, Table, Dispatching, Providing
<1>8. CASE consumer_ports(c)
  <2>1. /\ callers[c] = "call" /\ cache.locked = None /\ UNCHANGED <<threads, handles, spawned>>
        /\ \/ cache.filled /\ pc = "done" /\ cache' = cache
           \/ ~cache.filled /\ pc = "open" /\ cache' = [cache EXCEPT !.locked = c]
    <3>1. callers[c] = "call" /\ cache.locked = None /\ UNCHANGED <<threads, handles, spawned>>
      BY Zenon, <1>8 DEF consumer_ports, CacheFree, ipc
    <3>2. CASE cache.filled
      <4>1. callers' = [callers EXCEPT ![c] = "done"] /\ cache' = cache
        BY Zenon, <1>8, <3>2 DEF consumer_ports
      <4> QED
        BY Zenon, <1>0, <1>3, <3>1, <3>2, <4>1
    <3>3. CASE ~cache.filled
      <4>1. callers' = [callers EXCEPT ![c] = "open"] /\ cache' = [cache EXCEPT !.locked = c]
        BY Zenon, <1>8, <3>3 DEF consumer_ports
      <4> QED
        BY Zenon, <1>0, <1>3, <3>1, <3>3, <4>1
    <3> QED
      BY Zenon, <3>2, <3>3
  <2>2. /\ cache' \in [locked : Callers \cup {None}, filled : BOOLEAN] /\ cache'.filled = cache.filled
        /\ \/ cache.filled /\ pc = "done" /\ cache'.locked = None
           \/ ~cache.filled /\ pc = "open" /\ cache'.locked = c
    BY Zenon, <1>0, <2>1
  <2>3. \A d \in Callers : d # None
    BY Zenon DEF StartSets
  <2>4. /\ \A d \in Callers : callers'[d] \in {"open", "spawned", "insert"} <=> cache'.locked = d
        /\ \A d \in Callers : callers'[d] = "open" => ~cache'.filled
    <3>1. \A d \in Callers : callers[d] \notin {"open", "spawned", "insert"}
      BY Zenon, <2>1, <2>3 DEF StartInv, CallerInv
    <3> QED
      BY Zenon, <1>3, <2>2, <2>3, <3>1
  <2>5. \A d \in Callers : callers[d] \notin {"spawned", "insert"}
    BY Zenon, <2>1, <2>3 DEF StartInv, CallerInv
  <2>6. CallerInv'
    BY ZenonT(40), <1>1, <1>7, <2>1, <2>2, <2>4, <2>5 DEF StartInv, CallerInv, Released
  <2>7. ThreadInv'
    BY Zenon, <1>0, <1>1, <1>3, <2>1 DEF StartInv, ThreadInv, SameRegistry, Pc
  <2> QED
    BY Zenon, <1>0, <1>6, <1>7, <2>1, <2>2, <2>6, <2>7 DEF StartInv, StartTypes
<1>9. CASE open_consumer_ports(c)
  <2>1. callers[c] = "open" /\ handles' = handles /\ cache.locked = c /\ ~cache.filled
    BY Zenon, <1>9 DEF open_consumer_ports, StartInv, CallerInv
  <2>2. \A d \in Callers : d # c => callers[d] \notin {"open", "spawned", "insert"}
    BY Zenon, <2>1 DEF StartInv, CallerInv
  <2>3. ~Released => Dispatching = {}
    BY Zenon, <2>1, <2>2 DEF StartInv, CallerInv
  <2>4. CASE SpawnThread(c, "remote", {}, "serving") /\ cache' = cache /\ callers' = [callers EXCEPT ![c] = "spawned"]
    <3>1. "remote" \in {ChannelOf[s] : s \in Services} \cup {"remote"} /\ {} \in SUBSET Services
      BY Zenon
    <3>2. /\ threads' \in Seq(Thread) /\ spawned' \in [Tasks -> SUBSET DOMAIN threads']
      BY Zenon, <1>0, <2>4, <3>1, ThreadSpawned
    <3>3. PICK n : /\ n \notin DOMAIN threads /\ DOMAIN threads' = DOMAIN threads \cup {n}
                   /\ Table(n)' = {} /\ \A i \in DOMAIN threads : threads'[i] = threads[i]
                   /\ spawned' = [spawned EXCEPT ![c] = {n}]
      BY ZenonT(40), <1>0, <2>4, <3>1, ThreadSpawned
    <3>4. /\ callers'[c] = "spawned" /\ spawned'[c] = {n}
          /\ \A u \in Tasks : u # c => spawned'[u] = spawned[u]
      BY Zenon, <1>0, <2>4, <3>3
    <3>5. SameTables
      BY Zenon, <3>3 DEF SameTables, Table
    <3>6. \A i \in Dispatching' : i = n \/ i \in Dispatching
      BY Zenon, <3>3 DEF Dispatching, Providing, Table
    <3>7. ~(MainAwaits /\ Released)
      BY Zenon, <1>4 DEF Released
    <3>8. CallerInv'
      <4>1. /\ \A d \in Callers : callers'[d] \in {"open", "spawned", "insert"} <=> cache'.locked = d
            /\ \A d \in Callers : callers'[d] # "open"
        BY Zenon, <1>3, <2>1, <2>2, <2>4, <3>4
      <4>2. MainAwaits \/ ~Released' => ~Released
        BY Zenon, <1>1, <3>7 DEF Released
      <4>3. MainAwaits \/ ~Released' => \A i, j \in Dispatching' : i = j
        BY Zenon, <2>3, <3>6, <4>2
      <4> QED
        BY Zenon, <3>4, <4>1, <4>3 DEF CallerInv
    <3>9. ThreadInv'
      <4>1. /\ \A p \in Providers : spawned'[p] = spawned[p]
            /\ \A d \in Callers : d # c => spawned'[d] = spawned[d]
        BY Zenon, <1>0, <3>4
      <4>2. \A i \in DOMAIN threads' : i \in DOMAIN threads \/ i \in spawned'[c]
        BY Zenon, <3>3, <3>4
      <4>3. spawned[c] = {}
        BY Zenon, <2>1 DEF StartInv, ThreadInv
      <4>4. \A t \in Tasks : \A i \in spawned[t] : i \in spawned'[t]
        BY Zenon, <3>4, <4>3
      <4>5. \A i \in DOMAIN threads' : i \in handles' \/ i \in main'.joins \/ \E t \in Tasks : i \in spawned'[t]
        BY Zenon, <1>0, <1>1, <2>1, <4>2, <4>4 DEF StartInv, ThreadInv
      <4> QED
        BY Zenon, <1>1, <1>3, <3>4, <4>1, <4>5 DEF StartInv, ThreadInv, SameRegistry, Pc
    <3> QED
      BY Zenon, <1>0, <1>6, <2>1, <2>4, <3>2, <3>3, <3>5, <3>8, <3>9
  <2>5. CASE /\ callers' = [callers EXCEPT ![c] = "done"] /\ cache' = [cache EXCEPT !.locked = None]
             /\ UNCHANGED <<threads, spawned>>
    <3>1. /\ cache' \in [locked : Callers \cup {None}, filled : BOOLEAN] /\ cache'.filled = cache.filled
          /\ cache'.locked = None /\ callers'[c] = "done"
      BY Zenon, <1>0, <2>5
    <3>2. \A d \in Callers : d # None
      BY Zenon DEF StartSets
    <3>3. CallerInv'
      BY ZenonT(40), <1>1, <1>3, <1>7, <2>1, <2>2, <2>3, <2>5, <3>1, <3>2 DEF StartInv, CallerInv, Released
    <3>4. ThreadInv'
      BY Zenon, <1>0, <1>1, <1>3, <2>1, <2>5 DEF StartInv, ThreadInv, SameRegistry, Pc
    <3> QED
      BY Zenon, <1>0, <1>6, <1>7, <2>1, <2>5, <3>1, <3>3, <3>4 DEF StartInv, StartTypes
  <2> QED
    BY Zenon, <1>9, <2>4, <2>5 DEF open_consumer_ports
<1>10. CASE spawn_response_dispatcher(c)
  <2>1. /\ callers[c] = "spawned" /\ UNCHANGED <<threads, cache>> /\ callers' = [callers EXCEPT ![c] = "insert"]
        /\ RegisterThread(c)
    BY Zenon, <1>10 DEF spawn_response_dispatcher
  <2>2. /\ spawned' \in [Tasks -> SUBSET DOMAIN threads] /\ handles' \subseteq DOMAIN threads
        /\ spawned'[c] = {} /\ \A u \in Tasks : u # c => spawned'[u] = spawned[u]
        /\ \A i : i \in handles \/ i \in spawned[c] => i \in handles'
    BY Zenon, <1>0, <2>1, ThreadRegistered
  <2>3. callers'[c] = "insert"
    BY Zenon, <1>0, <2>1
  <2>4. CallerInv'
    BY ZenonT(40), <1>1, <1>3, <1>7, <2>1, <2>3 DEF StartInv, CallerInv, Released
  <2>5. ThreadInv'
    BY Zenon, <1>0, <1>1, <1>3, <2>1, <2>2 DEF StartInv, ThreadInv, SameRegistry, Pc
  <2> QED
    BY Zenon, <1>0, <1>6, <1>7, <2>1, <2>2, <2>4, <2>5 DEF StartInv, StartTypes
<1>11. CASE InsertPorts(c)
  <2>1. /\ callers[c] = "insert" /\ UNCHANGED <<threads, handles, spawned>> /\ callers' = [callers EXCEPT ![c] = "done"]
        /\ cache' = [locked |-> None, filled |-> TRUE]
    BY Zenon, <1>11 DEF InsertPorts, ipc
  <2>2. /\ cache' \in [locked : Callers \cup {None}, filled : BOOLEAN] /\ cache'.filled
        /\ cache'.locked = None /\ callers'[c] = "done"
    BY Zenon, <1>0, <2>1
  <2>3. \A d \in Callers : d # None
    BY Zenon DEF StartSets
  <2>4. \A d \in Callers : d # c => callers[d] \notin {"open", "spawned", "insert"}
    BY Zenon, <2>1 DEF StartInv, CallerInv
  <2>5. CallerInv'
    BY ZenonT(40), <1>1, <1>3, <1>7, <2>1, <2>2, <2>3, <2>4 DEF StartInv, CallerInv, Released
  <2>6. ThreadInv'
    BY Zenon, <1>0, <1>1, <1>3, <2>1 DEF StartInv, ThreadInv, SameRegistry, Pc
  <2> QED
    BY Zenon, <1>0, <1>6, <1>7, <2>1, <2>2, <2>5, <2>6 DEF StartInv, StartTypes
<1> QED
  BY Zenon, <1>8, <1>9, <1>10, <1>11 DEF Call

-----------------------------------------------------------------------------
(* A provider task moves, and the others stay.                             *)
ProviderPc ==
    {"register", "init", "hook", "check", "push", "spawn", "spawned", "drain", "start", "waiting", "ended"}
Becomes(p, pc, todo, order, failed) ==
    /\ prov' \in [Providers -> ProviderState]
    /\ prov'[p].pc = pc /\ prov'[p].todo = todo /\ prov'[p].order = order /\ prov'[p].failed = failed
    /\ \A q \in Providers : q # p => prov'[q] = prov[q]

LEMMA Becoming ==
    ASSUME prov \in [Providers -> ProviderState], NEW p \in Providers, NEW x \in ProviderState,
           prov' = [prov EXCEPT ![p] = x]
    PROVE  Becomes(p, x.pc, x.todo, x.order, x.failed)
  BY Zenon DEF Becomes

LEMMA Moves ==
    ASSUME prov \in [Providers -> ProviderState], NEW p \in Providers, NEW pc \in ProviderPc,
           NEW todo \in SUBSET Services, NEW order \in Seq(Services)
    PROVE  /\ prov' = [prov EXCEPT ![p].pc = pc] => Becomes(p, pc, prov[p].todo, prov[p].order, prov[p].failed)
           /\ prov' = [prov EXCEPT ![p].todo = todo] => Becomes(p, prov[p].pc, todo, prov[p].order, prov[p].failed)
           /\ prov' = [prov EXCEPT ![p].pc = pc, ![p].order = order] => Becomes(p, pc, prov[p].todo, order, prov[p].failed)
           /\ prov' = [prov EXCEPT ![p].pc = pc, ![p].todo = todo] => Becomes(p, pc, todo, prov[p].order, prov[p].failed)
           /\ prov' = [prov EXCEPT ![p].pc = pc, ![p].failed = TRUE] => Becomes(p, pc, prov[p].todo, prov[p].order, TRUE)
<1>1. prov[p] \in ProviderState
  BY Zenon
<1>2. prov' = [prov EXCEPT ![p].pc = pc] => Becomes(p, pc, prov[p].todo, prov[p].order, prov[p].failed)
  <2> DEFINE x == [prov[p] EXCEPT !.pc = pc]
  <2>1. /\ x \in ProviderState /\ x.pc = pc /\ x.todo = prov[p].todo /\ x.order = prov[p].order
        /\ x.failed = prov[p].failed
    BY Zenon, <1>1 DEF ProviderState, ProviderPc
  <2>2. [prov EXCEPT ![p].pc = pc] = [prov EXCEPT ![p] = x]
    BY Zenon
  <2> HIDE DEF x
  <2>3. prov' = [prov EXCEPT ![p] = x] => Becomes(p, x.pc, x.todo, x.order, x.failed)
    BY Zenon, <2>1, Becoming
  <2> QED
    BY Zenon, <2>1, <2>2, <2>3
<1>3. prov' = [prov EXCEPT ![p].todo = todo] => Becomes(p, prov[p].pc, todo, prov[p].order, prov[p].failed)
  <2> DEFINE x == [prov[p] EXCEPT !.todo = todo]
  <2>1. /\ x \in ProviderState /\ x.pc = prov[p].pc /\ x.todo = todo /\ x.order = prov[p].order
        /\ x.failed = prov[p].failed
    BY Zenon, <1>1 DEF ProviderState, ProviderPc
  <2>2. [prov EXCEPT ![p].todo = todo] = [prov EXCEPT ![p] = x]
    BY Zenon
  <2> HIDE DEF x
  <2>3. prov' = [prov EXCEPT ![p] = x] => Becomes(p, x.pc, x.todo, x.order, x.failed)
    BY Zenon, <2>1, Becoming
  <2> QED
    BY Zenon, <2>1, <2>2, <2>3
<1>4. prov' = [prov EXCEPT ![p].pc = pc, ![p].order = order] => Becomes(p, pc, prov[p].todo, order, prov[p].failed)
  <2> DEFINE x == [prov[p] EXCEPT !.pc = pc, !.order = order]
  <2>1. /\ x \in ProviderState /\ x.pc = pc /\ x.todo = prov[p].todo /\ x.order = order
        /\ x.failed = prov[p].failed
    BY Zenon, <1>1 DEF ProviderState, ProviderPc
  <2>2. [prov EXCEPT ![p].pc = pc, ![p].order = order] = [prov EXCEPT ![p] = x]
    BY Zenon
  <2> HIDE DEF x
  <2>3. prov' = [prov EXCEPT ![p] = x] => Becomes(p, x.pc, x.todo, x.order, x.failed)
    BY Zenon, <2>1, Becoming
  <2> QED
    BY Zenon, <2>1, <2>2, <2>3
<1>5. prov' = [prov EXCEPT ![p].pc = pc, ![p].todo = todo] => Becomes(p, pc, todo, prov[p].order, prov[p].failed)
  <2> DEFINE x == [prov[p] EXCEPT !.pc = pc, !.todo = todo]
  <2>1. /\ x \in ProviderState /\ x.pc = pc /\ x.todo = todo /\ x.order = prov[p].order
        /\ x.failed = prov[p].failed
    BY Zenon, <1>1 DEF ProviderState, ProviderPc
  <2>2. [prov EXCEPT ![p].pc = pc, ![p].todo = todo] = [prov EXCEPT ![p] = x]
    BY Zenon
  <2> HIDE DEF x
  <2>3. prov' = [prov EXCEPT ![p] = x] => Becomes(p, x.pc, x.todo, x.order, x.failed)
    BY Zenon, <2>1, Becoming
  <2> QED
    BY Zenon, <2>1, <2>2, <2>3
<1>6. prov' = [prov EXCEPT ![p].pc = pc, ![p].failed = TRUE] => Becomes(p, pc, prov[p].todo, prov[p].order, TRUE)
  <2> DEFINE x == [prov[p] EXCEPT !.pc = pc, !.failed = TRUE]
  <2>1. /\ x \in ProviderState /\ x.pc = pc /\ x.todo = prov[p].todo /\ x.order = prov[p].order
        /\ x.failed = TRUE
    BY Zenon, <1>1 DEF ProviderState, ProviderPc
  <2>2. [prov EXCEPT ![p].pc = pc, ![p].failed = TRUE] = [prov EXCEPT ![p] = x]
    BY Zenon
  <2> HIDE DEF x
  <2>3. prov' = [prov EXCEPT ![p] = x] => Becomes(p, x.pc, x.todo, x.order, x.failed)
    BY Zenon, <2>1, Becoming
  <2> QED
    BY Zenon, <2>1, <2>2, <2>3
<1> QED
  BY Zenon, <1>2, <1>3, <1>4, <1>5, <1>6

(* What holds of the services, when the task p moves.                      *)
LEMMA LocksKept ==
    ASSUME StartSets, StartInv, NEW p \in Providers, NEW pc, NEW todo, NEW order, NEW failed,
           Becomes(p, pc, todo, order, failed),
           \A s \in Services : lock'[s] = lock[s] \/ lock[s] = p \/ lock[s] = None,
           pc \in Holding => order # <<>> /\ lock'[Head(order)] = p
    PROVE  LockInv'
<1> SUFFICES ASSUME NEW q \in Providers, Pc(q)' \in Holding
             PROVE  prov'[q].order # <<>> /\ lock'[Head(prov'[q].order)] = q
  BY Zenon DEF LockInv, Service
<1>1. CASE q = p
  BY Zenon, <1>1 DEF Becomes, Pc
<1>2. CASE q # p
  <2>1. prov'[q] = prov[q] /\ Pc(q) \in Holding
    BY Zenon, <1>2 DEF Becomes, Pc
  <2>2. prov[q].order # <<>> /\ lock[Head(prov[q].order)] = q
    BY Zenon, <2>1 DEF StartInv, LockInv, Service
  <2>3. Head(prov[q].order) \in Services
    <3>1. prov[q].order \in Seq(Services)
      BY Zenon DEF StartInv, StartTypes, ProviderState
    <3> QED
      BY <2>2, <3>1
  <2>4. q # None
    BY Zenon DEF StartSets
  <2> QED
    BY Zenon, <1>2, <2>1, <2>2, <2>3, <2>4
<1> QED
  BY Zenon, <1>1, <1>2

LEMMA PlacesKept ==
    ASSUME StartInv, NEW p \in Providers, NEW pc, NEW todo, NEW order, NEW failed,
           Becomes(p, pc, todo, order, failed), started \subseteq started',
           \A s : Placed(s)' => Placed(s) \/ (Pc(p) \in Holding \ {"spawned"} /\ Service(p) = s),
           \A s : Placed(s)' /\ Pc(p) \in Holding /\ Service(p) = s =>
               s \in started' \/ (pc = "spawned" /\ order = prov[p].order),
           \A s : Placed(s)' /\ pc \in Holding \ {"spawned"} => Head(order) # s
    PROVE  PlaceInv'
<1>1. /\ prov'[p].pc = pc /\ prov'[p].order = order /\ \A q \in Providers : q # p => prov'[q] = prov[q]
  BY Zenon DEF Becomes
<1>2. ASSUME NEW s, Placed(s)' PROVE s \in started' \/ \E q \in Providers : Pc(q)' = "spawned" /\ Service(q)' = s
  <2>1. CASE Pc(p) \in Holding /\ Service(p) = s
    <3>1. pc = "spawned" /\ order = prov[p].order => Pc(p)' = "spawned" /\ Service(p)' = s
      BY Zenon, <1>1, <2>1 DEF Pc, Service
    <3> QED
      BY Zenon, <1>2, <2>1, <3>1
  <2>2. CASE ~(Pc(p) \in Holding /\ Service(p) = s)
    <3>1. Placed(s)
      BY Zenon, <1>2, <2>2
    <3>2. CASE s \in started
      BY Zenon, <3>2
    <3>3. ASSUME NEW q \in Providers, Pc(q) = "spawned", Service(q) = s
          PROVE  Pc(q)' = "spawned" /\ Service(q)' = s
      <4>1. q # p
        BY Zenon, <2>2, <3>3 DEF Holding
      <4> QED
        BY Zenon, <1>1, <3>3, <4>1 DEF Pc, Service
    <3> QED
      BY Zenon, <3>1, <3>2, <3>3 DEF StartInv, PlaceInv
  <2> QED
    BY Zenon, <2>1, <2>2
<1>3. ASSUME NEW s, Placed(s)', NEW q \in Providers, Pc(q)' \in Holding \ {"spawned"} PROVE Service(q)' # s
  <2>1. CASE q = p
    BY Zenon, <1>1, <1>3, <2>1 DEF Pc, Service
  <2>2. CASE q # p
    <3>1. Service(q)' = Service(q) /\ Pc(q) \in Holding \ {"spawned"}
      BY Zenon, <1>1, <1>3, <2>2 DEF Pc, Service
    <3>2. Pc(p) \in Holding => Service(p) # Service(q)
      BY Zenon, <2>2, <3>1 DEF StartInv, LockInv
    <3>3. Placed(s) => Service(q) # s
      BY Zenon, <3>1 DEF StartInv, PlaceInv
    <3> QED
      BY Zenon, <1>3, <3>1, <3>2, <3>3
  <2> QED
    BY Zenon, <2>1, <2>2
<1> QED
  BY Zenon, <1>2, <1>3 DEF PlaceInv

Sealable(p, pc, failed) ==
    /\ sealed => sealed'
    /\ pc \in {"spawn", "spawned", "drain", "start", "waiting"} => sealed'
    /\ pc \in Draining => Pc(p) \in Draining \/ ~sealed
    /\ failed => pc = "ended"
    /\ Pc(p) \in Sealing => pc \in Sealing /\ failed = prov[p].failed
    /\ sealed' => sealed \/ (pc \in Sealing /\ ~failed)
    /\ Providing' # {} => Providing # {} \/ sealed

LEMMA SealKept ==
    ASSUME StartInv, NEW p \in Providers, NEW pc, NEW todo, NEW order, NEW failed,
           Becomes(p, pc, todo, order, failed), Sealable(p, pc, failed)
    PROVE  SealInv'
<1>1. /\ prov'[p].pc = pc /\ prov'[p].failed = failed /\ \A q \in Providers : q # p => prov'[q] = prov[q]
  BY Zenon DEF Becomes
<1>2. /\ \A q \in Providers : Pc(q)' \in {"spawn", "spawned", "drain", "start", "waiting"} => sealed'
      /\ \A q \in Providers : prov'[q].failed => Pc(q)' = "ended"
  BY Zenon, <1>1 DEF StartInv, SealInv, Pc, Sealable
<1>3. ASSUME NEW q \in Providers, NEW r \in Providers, Pc(q)' \in Draining, Pc(r)' \in Draining PROVE q = r
  <2>1. \A x \in Providers : Pc(x) \in Draining => sealed
    BY Zenon DEF StartInv, SealInv, Draining
  <2>2. \A x, y \in Providers : Pc(x) \in Draining /\ Pc(y) \in Draining => x = y
    BY Zenon DEF StartInv, SealInv
  <2>3. pc \in Draining => Pc(p) \in Draining \/ ~sealed
    BY Zenon DEF Sealable
  <2>4. \A x \in Providers : Pc(x)' \in Draining => Pc(x) \in Draining \/ (x = p /\ ~sealed)
    BY Zenon, <1>1, <2>3 DEF Pc
  <2> QED
    BY Zenon, <1>3, <2>1, <2>2, <2>4
<1>4. ASSUME sealed' PROVE \E q \in Providers : Pc(q)' \in Sealing /\ ~prov'[q].failed
  <2>1. CASE pc \in Sealing /\ ~failed
    BY Zenon, <1>1, <2>1 DEF Pc
  <2>2. CASE sealed
    <3>1. PICK q \in Providers : Pc(q) \in Sealing /\ ~prov[q].failed
      BY Zenon, <2>2 DEF StartInv, SealInv
    <3> QED
      BY Zenon, <1>1, <3>1 DEF Pc, Sealable
  <2> QED
    BY Zenon, <1>4, <2>1, <2>2 DEF Sealable
<1> QED
  BY Zenon, <1>2, <1>3, <1>4 DEF StartInv, SealInv, Sealable

(* The tables stay, and the task p is not about to start channels.         *)
LEMMA TablesKept ==
    ASSUME StartInv, NEW p \in Providers, NEW pc, NEW todo, NEW order, NEW failed,
           Becomes(p, pc, todo, order, failed), threads' = threads, pending' = pending, pc # "start"
    PROVE  TableInv' /\ IdInv'
<1>1. \A q \in Providers : Pc(q)' = "start" => Pc(q) = "start" /\ prov'[q].todo = prov[q].todo
  BY Zenon DEF Becomes, Pc
<1>2. \A i : Table(i)' = Table(i)
  BY Zenon DEF Table
<1>3. TableInv'
  BY Zenon, <1>1, <1>2 DEF StartInv, TableInv
<1>4. IdInv'
  BY Zenon, <1>1, <1>2 DEF StartInv, IdInv, Distinct
<1> QED
  BY Zenon, <1>3, <1>4

(* What holds of the callers and of the exit: no task that main awaits     *)
(* still moves.                                                            *)
LEMMA ExitKept ==
    ASSUME StartInv, NEW p \in Providers, Pc(p) # "ended", UNCHANGED <<callers, cache, main>>,
           Dispatching' = Dispatching
    PROVE  CallerInv' /\ ExitInv'
<1>1. ~(MainAwaits /\ main.pc # "body")
  BY Zenon DEF StartInv, ExitInv
<1> QED
  BY Zenon, <1>1 DEF StartInv, CallerInv, ExitInv, Released

LEMMA ReadyKept ==
    ASSUME NEW p \in Providers, Alone => Ready(p)'
    PROVE  ReadyInv'
  BY Zenon DEF ReadyInv, Alone

(* A step of the task p that spawns and registers nothing, as on the way   *)
(* to its first service, within the hook or after its last service.        *)
Quiet(p, pc, order, failed) ==
    /\ UNCHANGED <<deps, pending, threads, handles, spawned, callers, cache, main>>
    /\ entries' \subseteq Services /\ started' \subseteq Services /\ started \subseteq started'
    /\ lock' \in [Services -> Providers \cup {None}]
    /\ \A s \in Services : lock'[s] = lock[s] \/ lock[s] = p \/ lock[s] = None
    /\ pc \in Holding => order # <<>> /\ lock'[Head(order)] = p
    /\ pc \in Holding => order = prov[p].order /\ pc # "spawned"
    /\ pc \in Holding /\ Pc(p) \notin Holding => Service(p) \notin started /\ lock[Service(p)] = None
    /\ sealed' \in BOOLEAN /\ (sealed => sealed')
    /\ pc \in {"spawn", "drain", "waiting"} => sealed'
    /\ pc = "drain" => ~sealed
    /\ failed => pc = "ended"
    /\ Pc(p) \in Sealing => pc \in Sealing /\ failed = prov[p].failed
    /\ sealed' => sealed \/ (pc \in Sealing /\ ~failed)
    /\ Pc(p) # "ended" /\ Pc(p) # "spawned" /\ pc # "start" /\ spawned[p] = {}

LEMMA QuietStep ==
    ASSUME StartSets, StartInv, NEW p \in Providers, NEW pc, NEW todo, NEW order, NEW failed,
           Becomes(p, pc, todo, order, failed), Quiet(p, pc, order, failed), Alone => Ready(p)'
    PROVE  StartInv'
<1>1. StartTypes'
  BY Zenon DEF StartInv, StartTypes, Quiet, Becomes, Tasks
<1>2. LockInv'
  BY Zenon, LocksKept DEF Quiet
<1>3. /\ prov'[p].pc = pc /\ prov'[p].order = order /\ \A q \in Providers : q # p => prov'[q] = prov[q]
  BY Zenon DEF Becomes
<1>4. threads' = threads /\ pending' = pending
  BY Zenon DEF Quiet
<1>5. \A s : Placed(s)' => Placed(s)
  <2>1. \A q \in Providers : Pc(q)' = "start" => Pc(q) = "start" /\ prov'[q].todo = prov[q].todo
    BY Zenon, <1>3 DEF Quiet, Pc
  <2> QED
    BY Zenon, <1>4, <2>1 DEF Placed, Table
<1>6. ASSUME NEW s, Placed(s) PROVE Pc(p) \in Holding => Service(p) # s
  BY Zenon, <1>6 DEF Quiet, StartInv, PlaceInv
<1>7. ASSUME NEW s, Placed(s), pc \in Holding PROVE Head(order) # s
  <2>1. Head(order) = Service(p)
    BY Zenon, <1>7 DEF Quiet, Service
  <2>2. CASE Pc(p) \in Holding
    BY Zenon, <1>6, <1>7, <2>1, <2>2
  <2>3. CASE Pc(p) \notin Holding
    <3>1. Service(p) \notin started /\ lock[Service(p)] = None
      BY Zenon, <1>7, <2>3 DEF Quiet
    <3>2. \A q \in Providers : q # None
      BY Zenon DEF StartSets
    <3>3. \A q \in Providers : Pc(q) = "spawned" => lock[Service(q)] = q
      BY Zenon DEF StartInv, LockInv, Holding
    <3>4. s \in started \/ \E q \in Providers : Pc(q) = "spawned" /\ Service(q) = s
      BY Zenon, <1>7 DEF StartInv, PlaceInv
    <3> QED
      BY Zenon, <2>1, <3>1, <3>2, <3>3, <3>4
  <2> QED
    BY Zenon, <2>2, <2>3
<1>8. PlaceInv'
  <2>1. \A s : Placed(s)' => Placed(s) \/ (Pc(p) \in Holding \ {"spawned"} /\ Service(p) = s)
    BY Zenon, <1>5
  <2>2. \A s : Placed(s)' /\ Pc(p) \in Holding /\ Service(p) = s =>
            s \in started' \/ (pc = "spawned" /\ order = prov[p].order)
    BY Zenon, <1>5, <1>6
  <2>3. \A s : Placed(s)' /\ pc \in Holding \ {"spawned"} => Head(order) # s
    BY Zenon, <1>5, <1>7
  <2>4. started \subseteq started'
    BY Zenon DEF Quiet
  <2> QED
    BY Zenon, <2>1, <2>2, <2>3, <2>4, PlacesKept
<1>9. SealInv'
  <2>1. Providing' = Providing
    BY Zenon, <1>4 DEF Providing
  <2>2. /\ pc \in {"spawn", "spawned", "drain", "start", "waiting"} => sealed'
        /\ pc \in Draining => Pc(p) \in Draining \/ ~sealed
    BY Zenon DEF Quiet, Draining, Holding
  <2>3. /\ sealed => sealed'
        /\ failed => pc = "ended"
        /\ Pc(p) \in Sealing => pc \in Sealing /\ failed = prov[p].failed
    BY Zenon DEF Quiet
  <2>4. sealed' => sealed \/ (pc \in Sealing /\ ~failed)
    BY Zenon DEF Quiet
  <2> QED
    BY Zenon, <2>1, <2>2, <2>3, <2>4, SealKept DEF Sealable
<1>10. TableInv' /\ IdInv'
  BY Zenon, TablesKept DEF Quiet
<1>11. CallerInv' /\ ExitInv'
  <2>1. Dispatching' = Dispatching
    BY Zenon, <1>4 DEF Dispatching, Providing
  <2> QED
    BY Zenon, <2>1, ExitKept DEF Quiet
<1>12. ThreadInv'
  <2>1. spawned' = spawned /\ handles' = handles /\ main' = main /\ callers' = callers /\ spawned[p] = {}
    BY Zenon DEF Quiet
  <2>2. \A q \in Providers : q # p => Pc(q)' = Pc(q)
    BY Zenon, <1>3 DEF Pc
  <2> QED
    BY Zenon, <1>4, <2>1, <2>2 DEF StartInv, ThreadInv
<1>13. ReadyInv'
  BY Zenon, ReadyKept
<1> QED
  BY Zenon, <1>1, <1>2, <1>8, <1>9, <1>10, <1>11, <1>12, <1>13 DEF StartInv

LEMMA ProviderTypes ==
    ASSUME StartInv, NEW p \in Providers
    PROVE  /\ prov \in [Providers -> ProviderState] /\ prov[p].todo \in SUBSET Services
           /\ prov[p].order \in Seq(Services) /\ Pc(p) \in ProviderPc /\ prov[p].failed \in BOOLEAN
           /\ prov[p].order # <<>> => Service(p) \in Services /\ Tail(prov[p].order) \in Seq(Services)
           /\ prov[p].failed => Pc(p) = "ended"
           /\ Pc(p) \notin {"spawned", "start"} => spawned[p] = {}
           /\ p \in Tasks
<1>1. /\ prov \in [Providers -> ProviderState] /\ prov[p].todo \in SUBSET Services
      /\ prov[p].order \in Seq(Services) /\ Pc(p) \in ProviderPc /\ prov[p].failed \in BOOLEAN
  BY Zenon DEF StartInv, StartTypes, ProviderState, ProviderPc, Pc
<1>2. prov[p].order # <<>> => Service(p) \in Services /\ Tail(prov[p].order) \in Seq(Services)
  BY <1>1 DEF Service
<1>3. prov[p].failed => Pc(p) = "ended"
  BY Zenon DEF StartInv, SealInv
<1>4. Pc(p) \notin {"spawned", "start"} => spawned[p] = {}
  BY Zenon DEF StartInv, ThreadInv
<1> QED
  BY Zenon, <1>1, <1>2, <1>3, <1>4 DEF Tasks

(* Which services are left in the order of initialization.                 *)
LEMMA TailOf ==
    ASSUME NEW order \in Seq(Services), order # <<>>, NEW k \in DOMAIN order
    PROVE  order[k] = Head(order) \/ \E j \in DOMAIN Tail(order) : Tail(order)[j] = order[k]
<1>1. CASE k = 1
  BY <1>1
<1>2. CASE k # 1
  <2>1. k - 1 \in DOMAIN Tail(order) /\ Tail(order)[k - 1] = order[k]
    BY <1>2
  <2> QED
    BY Zenon, <2>1
<1> QED
  BY Zenon, <1>1, <1>2

(* The steps before the first service.                                     *)
LEMMA RegisterStep ==
    ASSUME StartSets, StartInv, NEW p \in Providers, register(p)
    PROVE  StartInv'
<1>1. PICK s \in prov[p].todo : entries' = entries \cup {s} /\ prov' = [prov EXCEPT ![p].todo = @ \ {s}]
  BY Zenon DEF register
<1> DEFINE todo == prov[p].todo \ {s}
<1>2. /\ Pc(p) = "register"
      /\ UNCHANGED <<deps, pending, threads, handles, spawned, callers, cache, main, lock, started, sealed>>
  BY Zenon DEF register, ipc, rest, Pc
<1>3. prov[p].todo \in SUBSET Services /\ ~prov[p].failed /\ spawned[p] = {} /\ todo \in SUBSET Services
  BY Zenon, <1>2, ProviderTypes
<1>4. Becomes(p, "register", todo, prov[p].order, prov[p].failed)
  <2>1. prov' = [prov EXCEPT ![p].todo = todo]
    BY Zenon, <1>1
  <2>2. prov \in [Providers -> ProviderState] /\ "register" \in ProviderPc /\ prov[p].order \in Seq(Services)
    BY Zenon, ProviderTypes DEF ProviderPc
  <2> HIDE DEF todo
  <2>3. Becomes(p, prov[p].pc, todo, prov[p].order, prov[p].failed)
    BY Zenon, <1>3, <2>1, <2>2, Moves
  <2> QED
    BY Zenon, <1>2, <2>3 DEF Pc
<1>5. Quiet(p, "register", prov[p].order, prov[p].failed)
  <2>1. entries' \subseteq Services
    BY ZenonT(40), <1>1, <1>3 DEF StartInv, StartTypes
  <2> QED
    BY Zenon, <1>2, <1>3, <2>1 DEF Quiet, StartInv, StartTypes, Holding, Sealing
<1>6. ASSUME Alone PROVE Ready(p)'
  <2>1. prov'[p].pc = "register" /\ prov'[p].todo = prov[p].todo \ {s}
    BY Zenon, <1>4 DEF Becomes
  <2>2. Ready(p)
    BY Zenon, <1>6 DEF StartInv, ReadyInv
  <2>3. ~sealed' /\ \A t \in started' : t \in pending'
    BY Zenon, <1>2, <2>2 DEF Ready, Before, Holding
  <2>4. \A t \in Provides[p] : t \in entries' \/ t \in prov'[p].todo
    BY Zenon, <1>1, <1>2, <2>1, <2>2 DEF Ready
  <2> QED
    BY Zenon, <2>1, <2>3, <2>4 DEF Ready, Pc, Before
<1> HIDE DEF todo
<1> QED
  BY Zenon, <1>4, <1>5, <1>6, QuietStep

LEMMA OrderStep ==
    ASSUME StartSets, StartInv, NEW p \in Providers, initialize_all(p)
    PROVE  StartInv'
<1>1. PICK names \in Listings(entries) :
          prov' = [prov EXCEPT ![p].pc = "init", ![p].order = topological_order(names, deps)]
  BY Zenon DEF initialize_all
<1> DEFINE order == topological_order(names, deps)
<1>2. /\ Pc(p) = "register" /\ prov[p].todo = {}
      /\ UNCHANGED <<deps, pending, threads, handles, spawned, callers, cache, main, entries, lock, started, sealed>>
  BY Zenon DEF initialize_all, registry, ipc, rest, Pc
<1>3. order \in Seq(Services) /\ entries \subseteq Range(order)
  <2>1. deps \in Deps /\ entries \in SUBSET Services
    BY Zenon DEF StartInv, StartTypes
  <2> QED
    BY Zenon, <2>1 DEF StartSets
<1>4. ~prov[p].failed /\ spawned[p] = {}
  BY Zenon, <1>2, ProviderTypes
<1>5. Becomes(p, "init", prov[p].todo, order, prov[p].failed)
  <2>1. prov' = [prov EXCEPT ![p].pc = "init", ![p].order = order]
    BY Zenon, <1>1
  <2>2. prov \in [Providers -> ProviderState] /\ "init" \in ProviderPc /\ prov[p].todo \in SUBSET Services
    BY Zenon, ProviderTypes DEF ProviderPc
  <2> HIDE DEF order
  <2> QED
    BY Zenon, <1>3, <2>1, <2>2, Moves
<1> HIDE DEF order
<1>6. Quiet(p, "init", order, prov[p].failed)
  BY Zenon, <1>2, <1>4 DEF Quiet, StartInv, StartTypes, Holding, Sealing
<1>7. ASSUME Alone PROVE Ready(p)'
  <2>1. prov'[p].pc = "init" /\ prov'[p].order = order
    BY Zenon, <1>5 DEF Becomes
  <2>2. Ready(p)
    BY Zenon, <1>7 DEF StartInv, ReadyInv
  <2>3. ~sealed' /\ \A t \in started' : t \in pending'
    BY Zenon, <1>2, <2>2 DEF Ready, Before, Holding
  <2>4. ASSUME NEW t \in Provides[p] PROVE InOrder(p, t)'
    <3>1. t \in entries
      BY Zenon, <1>2, <2>2 DEF Ready
    <3>2. \E k \in DOMAIN order : order[k] = t
      BY Zenon, <1>3, <3>1 DEF Range
    <3> QED
      BY Zenon, <2>1, <3>2 DEF InOrder
  <2> QED
    BY Zenon, <2>1, <2>3, <2>4 DEF Ready, Pc, Before
<1> QED
  BY Zenon, <1>5, <1>6, <1>7, QuietStep

(* A service whose initialization fails ends the task: no other step of it *)
(* comes.                                                                  *)
LEMMA FailStep ==
    ASSUME StartSets, StartInv, NEW p \in Providers, Pc(p) \in {"init", "hook", "push"}, prov[p].order # <<>>,
           prov' = InitFailed(p), lock' = lock \/ (Pc(p) \in Holding /\ lock' = [lock EXCEPT ![Service(p)] = None]),
           UNCHANGED <<deps, entries, started, sealed, pending, threads, handles, spawned, callers, cache, main>>
    PROVE  StartInv'
<1>1. ~prov[p].failed /\ spawned[p] = {} /\ Service(p) \in Services
  BY Zenon, ProviderTypes
<1>2. Becomes(p, "ended", prov[p].todo, prov[p].order, TRUE)
  <2>1. /\ prov \in [Providers -> ProviderState] /\ "ended" \in ProviderPc /\ prov[p].todo \in SUBSET Services
        /\ prov[p].order \in Seq(Services)
    BY Zenon, ProviderTypes DEF ProviderPc
  <2>2. prov' = [prov EXCEPT ![p].pc = "ended", ![p].failed = TRUE]
    BY Zenon DEF InitFailed
  <2> QED
    BY Zenon, <2>1, <2>2, Moves
<1>3. /\ lock' \in [Services -> Providers \cup {None}]
      /\ \A s \in Services : lock'[s] = lock[s] \/ lock[s] = p \/ lock[s] = None
  <2>1. lock \in [Services -> Providers \cup {None}]
    BY Zenon DEF StartInv, StartTypes
  <2>2. Pc(p) \in Holding => lock[Service(p)] = p
    BY Zenon DEF StartInv, LockInv
  <2>3. CASE lock' = lock
    BY Zenon, <2>1, <2>3
  <2>4. CASE Pc(p) \in Holding /\ lock' = [lock EXCEPT ![Service(p)] = None]
    BY Zenon, <1>1, <2>1, <2>2, <2>4
  <2> QED
    BY Zenon, <2>3, <2>4
<1>4. Quiet(p, "ended", prov[p].order, TRUE)
  <2>1. Pc(p) \notin Sealing /\ Pc(p) # "spawned" /\ Pc(p) # "ended"
    BY Zenon DEF Sealing
  <2> QED
    BY Zenon, <1>1, <1>3, <2>1 DEF Quiet, StartInv, StartTypes, Holding
<1>5. Ready(p)'
  <2>1. prov'[p].pc = "ended"
    BY Zenon, <1>2 DEF Becomes
  <2> QED
    BY Zenon, <2>1 DEF Ready, Pc, Before
<1> QED
  BY Zenon, <1>2, <1>4, <1>5, QuietStep

(* The next service is already started.                                    *)
LEMMA SkipStep ==
    ASSUME StartSets, StartInv, NEW p \in Providers, Pc(p) = "init", prov[p].order # <<>>,
           Service(p) \in started, prov' = Initialized(p),
           UNCHANGED <<deps, entries, lock, started, sealed, pending, threads, handles, spawned, callers, cache, main>>
    PROVE  StartInv'
<1> DEFINE order == Tail(prov[p].order)
<1>1. ~prov[p].failed /\ spawned[p] = {} /\ Service(p) \in Services /\ order \in Seq(Services)
  BY Zenon, ProviderTypes
<1>2. Becomes(p, "init", prov[p].todo, order, prov[p].failed)
  <2>1. prov \in [Providers -> ProviderState] /\ "init" \in ProviderPc /\ prov[p].todo \in SUBSET Services
    BY Zenon, ProviderTypes DEF ProviderPc
  <2>2. prov' = [prov EXCEPT ![p].pc = "init", ![p].order = order]
    BY Zenon DEF Initialized
  <2> HIDE DEF order
  <2> QED
    BY Zenon, <1>1, <2>1, <2>2, Moves
<1>3. Quiet(p, "init", order, prov[p].failed)
  BY Zenon, <1>1 DEF Quiet, StartInv, StartTypes, Holding, Sealing
<1>4. ASSUME Alone PROVE Ready(p)'
  <2>1. prov'[p].pc = "init" /\ prov'[p].order = order
    BY Zenon, <1>2 DEF Becomes
  <2>2. Ready(p)
    BY Zenon, <1>4 DEF StartInv, ReadyInv
  <2>3. ~sealed' /\ \A t \in started : t \in pending
    BY Zenon, <2>2 DEF Ready, Before, Holding
  <2>4. ASSUME NEW t \in Provides[p] PROVE t \in pending' \/ InOrder(p, t)'
    <3>1. CASE t \in pending
      BY Zenon, <3>1
    <3>2. ASSUME NEW k \in DOMAIN prov[p].order, prov[p].order[k] = t PROVE t \in pending' \/ InOrder(p, t)'
      <4>1. prov[p].order \in Seq(Services)
        BY Zenon, ProviderTypes
      <4>2. prov[p].order[k] = Head(prov[p].order) \/ \E j \in DOMAIN order : order[j] = prov[p].order[k]
        BY Zenon, <4>1, TailOf
      <4> HIDE DEF order
      <4>3. CASE prov[p].order[k] = Head(prov[p].order)
        BY Zenon, <2>3, <3>2, <4>3 DEF Service
      <4>4. CASE \E j \in DOMAIN order : order[j] = prov[p].order[k]
        BY Zenon, <2>1, <3>2, <4>4 DEF InOrder
      <4> QED
        BY Zenon, <4>2, <4>3, <4>4
    <3>3. t \in pending \/ InOrder(p, t)
      BY Zenon, <2>2 DEF Ready, Before
    <3> QED
      BY Zenon, <3>1, <3>2, <3>3 DEF InOrder
  <2> QED
    BY Zenon, <2>1, <2>3, <2>4 DEF Ready, Pc, Before
<1> HIDE DEF order
<1> QED
  BY Zenon, <1>2, <1>3, <1>4, QuietStep

(* The next service is taken under the lock of its mode.                   *)
LEMMA TakeStep ==
    ASSUME StartSets, StartInv, NEW p \in Providers, NEW pc \in {"check", "hook"}, NEW new \in SUBSET {Service(p)},
           Pc(p) = "init", prov[p].order # <<>>, lock[Service(p)] = None, Service(p) \notin started,
           prov' = [prov EXCEPT ![p].pc = pc], started' = started \cup new,
           lock' = [lock EXCEPT ![Service(p)] = p],
           UNCHANGED <<deps, entries, sealed, pending, threads, handles, spawned, callers, cache, main>>
    PROVE  StartInv'
<1>1. ~prov[p].failed /\ spawned[p] = {} /\ Service(p) \in Services
  BY Zenon, ProviderTypes
<1>2. Becomes(p, pc, prov[p].todo, prov[p].order, prov[p].failed)
  <2>1. /\ prov \in [Providers -> ProviderState] /\ pc \in ProviderPc /\ prov[p].todo \in SUBSET Services
        /\ prov[p].order \in Seq(Services)
    BY Zenon, ProviderTypes DEF ProviderPc
  <2> QED
    BY Zenon, <2>1, Moves
<1>3. /\ lock' \in [Services -> Providers \cup {None}] /\ lock'[Service(p)] = p
      /\ \A s \in Services : lock'[s] = lock[s] \/ lock[s] = p \/ lock[s] = None
  <2>1. lock \in [Services -> Providers \cup {None}]
    BY Zenon DEF StartInv, StartTypes
  <2> QED
    BY Zenon, <1>1, <2>1
<1>4. Quiet(p, pc, prov[p].order, prov[p].failed)
  <2>1. pc \notin {"spawn", "drain", "waiting", "spawned", "start"} /\ Pc(p) \notin Sealing /\ Pc(p) \notin Holding
    BY Zenon DEF Sealing, Holding
  <2>2. started' \subseteq Services /\ started \subseteq started'
    BY Zenon, <1>1 DEF StartInv, StartTypes
  <2> QED
    BY Zenon, <1>1, <1>3, <2>1, <2>2 DEF Quiet, StartInv, StartTypes, Service
<1>5. ASSUME Alone PROVE Ready(p)'
  <2>1. prov'[p].pc = pc /\ prov'[p].order = prov[p].order
    BY Zenon, <1>2 DEF Becomes
  <2>2. Ready(p)
    BY Zenon, <1>5 DEF StartInv, ReadyInv
  <2>3. ~sealed /\ \A t \in started : t \in pending
    BY Zenon, <2>2 DEF Ready, Before, Holding
  <2>4. \A t \in Provides[p] : t \in pending' \/ InOrder(p, t)'
    BY Zenon, <2>1, <2>2 DEF Ready, Before, InOrder
  <2>5. \A t \in started' : t \in pending' \/ (pc \in Holding /\ t = Service(p)')
    BY Zenon, <2>1, <2>3 DEF Holding, Service
  <2> QED
    BY Zenon, <2>1, <2>3, <2>4, <2>5 DEF Ready, Pc, Before
<1> QED
  BY Zenon, <1>2, <1>4, <1>5, QuietStep

LEMMA BeginStep ==
    ASSUME StartSets, StartInv, NEW p \in Providers, BeginInit(p)
    PROVE  StartInv'
<1>1. /\ Pc(p) = "init" /\ prov[p].order # <<>> /\ lock[Service(p)] = None
      /\ UNCHANGED <<deps, entries, sealed, pending, threads, handles, spawned, callers, cache, main>>
  BY Zenon DEF BeginInit, ipc, rest, Pc
<1>2. CASE Service(p) \in started
  <2>1. UNCHANGED <<lock, started>> /\ (prov' = InitFailed(p) \/ prov' = Initialized(p))
    BY Zenon, <1>2 DEF BeginInit, AlreadyStarted
  <2> QED
    BY Zenon, <1>1, <1>2, <2>1, FailStep, SkipStep
<1>3. CASE Service(p) \notin started
  <2>1. /\ prov' = [prov EXCEPT ![p].pc = IF Service(p) \in Json THEN "check" ELSE "hook"]
        /\ started' = started \cup ({Service(p)} \cap Json) /\ lock' = [lock EXCEPT ![Service(p)] = p]
    BY Zenon, <1>3 DEF BeginInit, AlreadyStarted
  <2>2. PICK pc \in {"check", "hook"} : prov' = [prov EXCEPT ![p].pc = pc]
    BY Zenon, <2>1
  <2>3. {Service(p)} \cap Json \in SUBSET {Service(p)}
    BY Zenon
  <2> QED
    BY Zenon, <1>1, <1>3, <2>1, <2>2, <2>3, TakeStep
<1> QED
  BY Zenon, <1>2, <1>3

(* The hook has returned, and the seal is read.                            *)
LEMMA HoldStep ==
    ASSUME StartSets, StartInv, NEW p \in Providers, NEW pc \in {"check", "push", "spawn"},
           Pc(p) \in {"hook", "check"}, pc = "spawn" <=> Pc(p) = "check" /\ sealed, prov' = [prov EXCEPT ![p].pc = pc],
           UNCHANGED <<deps, entries, lock, started, sealed, pending, threads, handles, spawned, callers, cache, main>>
    PROVE  StartInv'
<1>1. ~prov[p].failed /\ spawned[p] = {} /\ prov[p].order # <<>> /\ lock[Service(p)] = p
  BY Zenon, ProviderTypes DEF StartInv, LockInv, Holding
<1>2. Becomes(p, pc, prov[p].todo, prov[p].order, prov[p].failed)
  <2>1. /\ prov \in [Providers -> ProviderState] /\ pc \in ProviderPc /\ prov[p].todo \in SUBSET Services
        /\ prov[p].order \in Seq(Services)
    BY Zenon, ProviderTypes DEF ProviderPc
  <2> QED
    BY Zenon, <2>1, Moves
<1>3. Quiet(p, pc, prov[p].order, prov[p].failed)
  <2>1. /\ pc \notin {"drain", "waiting", "spawned", "start"} /\ Pc(p) \notin Sealing /\ Pc(p) \in Holding
        /\ Pc(p) # "spawned" /\ Pc(p) # "ended" /\ (pc = "spawn" => sealed)
    BY Zenon DEF Sealing, Holding
  <2> QED
    BY Zenon, <1>1, <2>1 DEF Quiet, StartInv, StartTypes, Service
<1>4. ASSUME Alone PROVE Ready(p)'
  <2>1. prov'[p].pc = pc /\ prov'[p].order = prov[p].order
    BY Zenon, <1>2 DEF Becomes
  <2>2. Ready(p)
    BY Zenon, <1>4 DEF StartInv, ReadyInv
  <2>3. ~sealed /\ \A t \in started : t \in pending \/ t = Service(p)
    BY Zenon, <2>2 DEF Ready, Before
  <2>4. \A t \in Provides[p] : t \in pending' \/ InOrder(p, t)'
    BY Zenon, <2>1, <2>2 DEF Ready, Before, InOrder
  <2>5. \A t \in started' : t \in pending' \/ (pc \in Holding /\ t = Service(p)')
    BY Zenon, <2>1, <2>3 DEF Holding, Service
  <2>6. pc \in {"check", "push"}
    BY Zenon, <2>3
  <2> QED
    BY Zenon, <2>1, <2>3, <2>4, <2>5, <2>6 DEF Ready, Pc, Before
<1> QED
  BY Zenon, <1>2, <1>3, <1>4, QuietStep

LEMMA HookStep ==
    ASSUME StartSets, StartInv, NEW p \in Providers, on_init(p)
    PROVE  StartInv'
<1>1. /\ Pc(p) = "hook"
      /\ UNCHANGED <<deps, entries, started, sealed, pending, threads, handles, spawned, callers, cache, main>>
  BY Zenon DEF on_init, ipc, rest, Pc
<1>2. CASE prov' = [prov EXCEPT ![p].pc = "check"] /\ lock' = lock
  BY Zenon, <1>1, <1>2, HoldStep
<1>3. CASE prov' = InitFailed(p) /\ lock' = [lock EXCEPT ![Service(p)] = None]
  <2>1. prov[p].order # <<>> /\ Pc(p) \in Holding
    BY Zenon, <1>1 DEF StartInv, LockInv, Holding
  <2> QED
    BY Zenon, <1>1, <1>3, <2>1, FailStep
<1> QED
  BY Zenon, <1>2, <1>3 DEF on_init

LEMMA ReadSealStep ==
    ASSUME StartSets, StartInv, NEW p \in Providers, ReadSeal(p)
    PROVE  StartInv'
<1>1. /\ Pc(p) = "check"
      /\ UNCHANGED <<deps, entries, lock, started, sealed, pending, threads, handles, spawned, callers, cache, main>>
  BY Zenon DEF ReadSeal, registry, ipc, rest, Pc
<1>2. CASE sealed
  <2>1. prov' = [prov EXCEPT ![p].pc = "spawn"]
    BY Zenon, <1>2 DEF ReadSeal
  <2> QED
    BY Zenon, <1>1, <1>2, <2>1, HoldStep
<1>3. CASE ~sealed
  <2>1. prov' = [prov EXCEPT ![p].pc = "push"]
    BY Zenon, <1>3 DEF ReadSeal
  <2> QED
    BY Zenon, <1>1, <1>3, <2>1, HoldStep
<1> QED
  BY Zenon, <1>2, <1>3

(* The task has no service left to initialize.                             *)
LEMMA SealStep ==
    ASSUME StartSets, StartInv, NEW p \in Providers, Seal(p)
    PROVE  StartInv'
<1>1. /\ Pc(p) = "init" /\ prov[p].order = <<>> /\ sealed'
      /\ UNCHANGED <<deps, entries, lock, started, pending, threads, handles, spawned, callers, cache, main>>
  BY Zenon DEF Seal, ipc, rest, Pc
<1>2. PICK pc \in {"waiting", "drain"} : prov' = [prov EXCEPT ![p].pc = pc] /\ (pc = "waiting" <=> sealed)
  <2>1. CASE sealed
    BY Zenon, <2>1 DEF Seal
  <2>2. CASE ~sealed
    BY Zenon, <2>2 DEF Seal
  <2> QED
    BY Zenon, <2>1, <2>2
<1>3. ~prov[p].failed /\ spawned[p] = {}
  BY Zenon, <1>1, ProviderTypes
<1>4. Becomes(p, pc, prov[p].todo, prov[p].order, prov[p].failed)
  <2>1. /\ prov \in [Providers -> ProviderState] /\ pc \in ProviderPc /\ prov[p].todo \in SUBSET Services
        /\ prov[p].order \in Seq(Services)
    BY Zenon, ProviderTypes DEF ProviderPc
  <2> QED
    BY Zenon, <1>2, <2>1, Moves
<1>5. Quiet(p, pc, prov[p].order, prov[p].failed)
  <2>1. pc \notin {"spawned", "start"} /\ pc \notin Holding /\ pc \in Sealing /\ (pc = "drain" => ~sealed)
    BY Zenon, <1>2 DEF Sealing, Holding
  <2>2. sealed' \in BOOLEAN
    BY Zenon DEF Seal
  <2> QED
    BY Zenon, <1>1, <1>3, <2>1, <2>2 DEF Quiet, StartInv, StartTypes, Sealing
<1>6. ASSUME Alone PROVE Ready(p)'
  <2>1. prov'[p].pc = pc
    BY Zenon, <1>4 DEF Becomes
  <2>2. Ready(p)
    BY Zenon, <1>6 DEF StartInv, ReadyInv
  <2>3. pc = "drain"
    BY Zenon, <1>1, <1>2, <2>2 DEF Ready, Before
  <2>4. \A t : ~InOrder(p, t)
    <3>1. DOMAIN prov[p].order = {}
      BY <1>1
    <3> QED
      BY Zenon, <3>1 DEF InOrder
  <2>5. \A t \in Provides[p] : t \in pending'
    BY Zenon, <1>1, <2>2, <2>4 DEF Ready, Before
  <2> QED
    BY Zenon, <2>1, <2>3, <2>5 DEF Ready, Pc, Before
<1> QED
  BY Zenon, <1>4, <1>5, <1>6, QuietStep

(* The channels are started, and the token is cancelled.                   *)
LEMMA LateStep ==
    ASSUME StartSets, StartInv, NEW p \in Providers, ChannelsStarted(p) \/ wait_for_shutdown(p)
    PROVE  StartInv'
<1>1. UNCHANGED <<deps, entries, lock, started, sealed, pending, threads, handles, spawned, callers, cache, main>>
  BY Zenon DEF ChannelsStarted, wait_for_shutdown, registry, ipc, rest
<1>2. PICK pc \in {"waiting", "ended"} :
         /\ prov' = [prov EXCEPT ![p].pc = pc] /\ spawned[p] = {}
         /\ \/ pc = "waiting" /\ Pc(p) = "start" /\ prov[p].todo = {}
            \/ pc = "ended" /\ Pc(p) = "waiting"
  <2>1. CASE ChannelsStarted(p)
    BY Zenon, <2>1 DEF ChannelsStarted, Pc
  <2>2. CASE wait_for_shutdown(p)
    <3>1. Pc(p) = "waiting" /\ prov' = [prov EXCEPT ![p].pc = "ended"]
      BY Zenon, <2>2 DEF wait_for_shutdown, Pc
    <3> QED
      BY Zenon, <3>1, ProviderTypes
  <2> QED
    BY Zenon, <2>1, <2>2
<1>3. Becomes(p, pc, prov[p].todo, prov[p].order, prov[p].failed)
  <2>1. /\ prov \in [Providers -> ProviderState] /\ pc \in ProviderPc /\ prov[p].todo \in SUBSET Services
        /\ prov[p].order \in Seq(Services)
    BY Zenon, ProviderTypes DEF ProviderPc
  <2> QED
    BY Zenon, <1>2, <2>1, Moves
<1>4. Quiet(p, pc, prov[p].order, prov[p].failed)
  <2>1. /\ pc \notin {"spawn", "spawned", "start", "drain"} /\ pc \notin Holding /\ pc \in Sealing
        /\ Pc(p) \notin Holding /\ Pc(p) # "spawned" /\ Pc(p) # "ended"
    BY Zenon, <1>2 DEF Sealing, Holding
  <2>2. sealed /\ ~prov[p].failed
    BY Zenon, <1>2, ProviderTypes DEF StartInv, SealInv
  <2> QED
    BY Zenon, <1>1, <1>2, <2>1, <2>2 DEF Quiet, StartInv, StartTypes
<1>5. ASSUME Alone PROVE Ready(p)'
  <2>1. prov'[p].pc = pc
    BY Zenon, <1>3 DEF Becomes
  <2>2. Ready(p)
    BY Zenon, <1>5 DEF StartInv, ReadyInv
  <2>3. pc = "waiting" => \A t \in Provides[p] : Served(t)'
    BY Zenon, <1>1, <1>2, <2>2 DEF Ready, Served, Table
  <2> QED
    BY Zenon, <2>1, <2>3 DEF Ready, Pc, Before
<1> QED
  BY Zenon, <1>3, <1>4, <1>5, QuietStep

(* A step of the task p that starts and registers no thread.               *)
LEMMA ThreadsStay ==
    ASSUME StartInv, NEW p \in Providers, NEW pc, NEW todo, NEW order, NEW failed, Becomes(p, pc, todo, order, failed),
           Pc(p) # "ended", spawned[p] = {}, UNCHANGED <<threads, handles, spawned, callers, cache, main>>
    PROVE  CallerInv' /\ ExitInv' /\ ThreadInv'
<1>1. CallerInv' /\ ExitInv'
  <2>1. Dispatching' = Dispatching
    BY Zenon DEF Dispatching, Providing
  <2> QED
    BY Zenon, <2>1, ExitKept
<1>2. \A q \in Providers : q # p => Pc(q)' = Pc(q)
  BY Zenon DEF Becomes, Pc
<1>3. ThreadInv'
  BY Zenon, <1>2 DEF StartInv, ThreadInv
<1> QED
  BY Zenon, <1>1, <1>3

(* A service of a free id joins the registry.                              *)
LEMMA JoinedStep ==
    ASSUME StartSets, StartInv, NEW p \in Providers, NEW n, Pc(p) = "push", n = Service(p),
           ~conflicting_name(n), pending' = pending \cup {n}, started' = started \cup {n},
           lock' = [lock EXCEPT ![n] = None], prov' = Initialized(p),
           UNCHANGED <<deps, entries, sealed, threads, handles, spawned, callers, cache, main>>
    PROVE  StartInv'
<1> DEFINE order == Tail(prov[p].order)
<1>1. prov[p].order # <<>> /\ lock[n] = p
  BY Zenon DEF StartInv, LockInv, Holding
<1>2. ~prov[p].failed /\ spawned[p] = {} /\ n \in Services /\ order \in Seq(Services)
  BY Zenon, <1>1, ProviderTypes
<1>3. Becomes(p, "init", prov[p].todo, order, prov[p].failed)
  <2>1. prov \in [Providers -> ProviderState] /\ "init" \in ProviderPc /\ prov[p].todo \in SUBSET Services
    BY Zenon, ProviderTypes DEF ProviderPc
  <2>2. prov' = [prov EXCEPT ![p].pc = "init", ![p].order = order]
    BY Zenon DEF Initialized
  <2> HIDE DEF order
  <2> QED
    BY Zenon, <1>2, <2>1, <2>2, Moves
<1>4. /\ lock' \in [Services -> Providers \cup {None}]
      /\ \A s \in Services : lock'[s] = lock[s] \/ lock[s] = p \/ lock[s] = None
  <2>1. lock \in [Services -> Providers \cup {None}]
    BY Zenon DEF StartInv, StartTypes
  <2> QED
    BY Zenon, <1>1, <1>2, <2>1
<1>5. StartTypes'
  <2>1. started' \subseteq Services /\ pending' \subseteq Services /\ prov' \in [Providers -> ProviderState]
    BY Zenon, <1>2, <1>3 DEF StartInv, StartTypes, Becomes
  <2> QED
    BY Zenon, <1>4, <2>1 DEF StartInv, StartTypes, Tasks
<1>6. /\ prov'[p].pc = "init" /\ prov'[p].order = order /\ \A q \in Providers : q # p => prov'[q] = prov[q]
  BY Zenon, <1>3 DEF Becomes
<1>7. ~Placed(n)
  BY Zenon DEF StartInv, PlaceInv, Holding
<1>8. \A q \in Providers : Pc(q)' = "start" => Pc(q) = "start" /\ prov'[q].todo = prov[q].todo
  BY Zenon, <1>6 DEF Pc
<1>9. \A i : Table(i)' = Table(i)
  BY Zenon DEF Table
<1>10. \A s : Placed(s)' => Placed(s) \/ s = n
  BY Zenon, <1>8, <1>9 DEF Placed
<1> HIDE DEF order
<1>11. LockInv'
  BY Zenon, <1>3, <1>4, LocksKept DEF Holding
<1>12. PlaceInv'
  <2>1. \A s : Placed(s)' => Placed(s) \/ (Pc(p) \in Holding \ {"spawned"} /\ Service(p) = s)
    BY Zenon, <1>10 DEF Holding
  <2>2. \A s : Placed(s)' /\ Pc(p) \in Holding /\ Service(p) = s =>
            s \in started' \/ ("init" = "spawned" /\ order = prov[p].order)
    BY Zenon
  <2>3. \A s : Placed(s)' /\ "init" \in Holding \ {"spawned"} => Head(order) # s
    BY Zenon DEF Holding
  <2>4. started \subseteq started'
    BY Zenon
  <2> QED
    BY Zenon, <1>3, <2>1, <2>2, <2>3, <2>4, PlacesKept
<1>13. SealInv'
  <2>1. Providing' = Providing
    BY Zenon DEF Providing
  <2>2. Sealable(p, "init", prov[p].failed)
    BY Zenon, <1>2, <2>1 DEF Sealable, Sealing, Draining
  <2> QED
    BY Zenon, <1>3, <2>2, SealKept
<1>14. TableInv'
  <2>1. /\ \A i \in DOMAIN threads : n \notin Table(i)
        /\ \A q \in Providers : Pc(q) = "start" => n \notin prov[q].todo
    BY Zenon, <1>7 DEF Placed
  <2> QED
    BY Zenon, <1>8, <1>9, <2>1 DEF StartInv, TableInv
<1>15. IdInv'
  <2>1. Distinct(pending \cup {n})
    <3>1. \A s \in pending : ~(ChannelOf[s] = ChannelOf[n] /\ IdOf[s] = IdOf[n])
      BY Zenon DEF conflicting_name
    <3>2. Distinct(pending)
      BY Zenon DEF StartInv, IdInv
    <3> QED
      BY Zenon, <3>1, <3>2 DEF Distinct
  <2>2. Distinct(pending)'
    BY Zenon, <2>1 DEF Distinct
  <2>3. ASSUME NEW q \in Providers, Pc(q)' = "start" PROVE Distinct(prov[q].todo)'
    <3>1. prov'[q].todo = prov[q].todo /\ Distinct(prov[q].todo)
      BY Zenon, <1>8, <2>3 DEF StartInv, IdInv
    <3> QED
      BY Zenon, <3>1 DEF Distinct
  <2>4. \A i \in DOMAIN threads : \A s, t \in Table(i) : IdOf[s] = IdOf[t] => s = t
    BY Zenon DEF StartInv, IdInv
  <2> QED
    BY Zenon, <1>9, <2>2, <2>3, <2>4 DEF IdInv
<1>16. CallerInv' /\ ExitInv' /\ ThreadInv'
  BY Zenon, <1>2, <1>3, ThreadsStay
<1>17. ASSUME Alone PROVE Ready(p)'
  <2>1. Ready(p)
    BY Zenon, <1>17 DEF StartInv, ReadyInv
  <2>2. ~sealed' /\ \A t \in started' : t \in pending'
    BY Zenon, <2>1 DEF Ready, Before
  <2>3. ASSUME NEW t \in Provides[p] PROVE t \in pending' \/ InOrder(p, t)'
    <3>1. CASE t \in pending
      BY Zenon, <3>1
    <3>2. ASSUME NEW k \in DOMAIN prov[p].order, prov[p].order[k] = t PROVE t \in pending' \/ InOrder(p, t)'
      <4>1. prov[p].order \in Seq(Services)
        BY Zenon, ProviderTypes
      <4>2. prov[p].order[k] = Head(prov[p].order) \/ \E j \in DOMAIN order : order[j] = prov[p].order[k]
        BY Zenon, <1>1, <4>1, TailOf DEF order
      <4>3. CASE prov[p].order[k] = Head(prov[p].order)
        BY Zenon, <3>2, <4>3 DEF Service
      <4>4. CASE \E j \in DOMAIN order : order[j] = prov[p].order[k]
        BY Zenon, <1>6, <3>2, <4>4 DEF InOrder
      <4> QED
        BY Zenon, <4>2, <4>3, <4>4
    <3>3. t \in pending \/ InOrder(p, t)
      BY Zenon, <2>1 DEF Ready, Before
    <3> QED
      BY Zenon, <3>1, <3>2, <3>3 DEF InOrder
  <2> QED
    BY Zenon, <1>6, <2>2, <2>3 DEF Ready, Pc, Before
<1>18. ReadyInv'
  BY Zenon, <1>17, ReadyKept
<1> QED
  BY Zenon, <1>5, <1>11, <1>12, <1>13, <1>14, <1>15, <1>16, <1>18 DEF StartInv

LEMMA JoinStep ==
    ASSUME StartSets, StartInv, NEW p \in Providers, JoinRegistry(p)
    PROVE  StartInv'
<1>1. /\ Pc(p) = "push"
      /\ UNCHANGED <<deps, entries, sealed, threads, handles, spawned, callers, cache, main>>
  BY Zenon DEF JoinRegistry, ipc, rest, Pc
<1>2. CASE conflicting_name(Service(p))
  <2>1. /\ prov' = InitFailed(p) /\ lock' = [lock EXCEPT ![Service(p)] = None]
        /\ UNCHANGED <<started, pending>>
    BY Zenon, <1>2 DEF JoinRegistry
  <2>2. prov[p].order # <<>> /\ Pc(p) \in Holding
    BY Zenon, <1>1 DEF StartInv, LockInv, Holding
  <2> QED
    BY Zenon, <1>1, <2>1, <2>2, FailStep
<1>3. CASE ~conflicting_name(Service(p))
  <2>1. /\ pending' = pending \cup {Service(p)} /\ started' = started \cup {Service(p)}
        /\ lock' = [lock EXCEPT ![Service(p)] = None] /\ prov' = Initialized(p)
    BY Zenon, <1>3 DEF JoinRegistry, Registered
  <2> QED
    BY Zenon, <1>1, <1>3, <2>1, JoinedStep
<1> QED
  BY Zenon, <1>2, <1>3

(* The first task through drains the registry into its own list.           *)
LEMMA DrainStep ==
    ASSUME StartSets, StartInv, NEW p \in Providers, Drain(p)
    PROVE  StartInv'
<1>1. /\ Pc(p) = "drain" /\ pending' = {} /\ prov' = [prov EXCEPT ![p].pc = "start", ![p].todo = pending]
      /\ UNCHANGED <<deps, entries, lock, started, sealed, threads, handles, spawned, callers, cache, main>>
  BY Zenon DEF Drain, ipc, rest, Pc
<1>2. ~prov[p].failed /\ spawned[p] = {} /\ sealed
  BY Zenon, <1>1, ProviderTypes DEF StartInv, SealInv
<1>3. Becomes(p, "start", pending, prov[p].order, prov[p].failed)
  <2>1. /\ prov \in [Providers -> ProviderState] /\ "start" \in ProviderPc /\ pending \in SUBSET Services
        /\ prov[p].order \in Seq(Services)
    BY Zenon, ProviderTypes DEF ProviderPc, StartInv, StartTypes
  <2> QED
    BY Zenon, <1>1, <2>1, Moves
<1>4. StartTypes'
  BY Zenon, <1>1, <1>3 DEF StartInv, StartTypes, Tasks, Becomes
<1>5. /\ prov'[p].pc = "start" /\ prov'[p].todo = pending /\ \A q \in Providers : q # p => prov'[q] = prov[q]
  BY Zenon, <1>3 DEF Becomes
<1>6. \A q \in Providers : Pc(q)' = "start" => q = p
  BY Zenon, <1>1, <1>5 DEF StartInv, SealInv, Draining, Pc
<1>7. \A i : Table(i)' = Table(i)
  BY Zenon, <1>1 DEF Table
<1>8. \A s : Placed(s)' => Placed(s)
  BY Zenon, <1>1, <1>5, <1>6, <1>7 DEF Placed
<1>9. LockInv'
  BY Zenon, <1>1, <1>3, LocksKept DEF Holding
<1>10. PlaceInv'
  <2>1. \A s : Placed(s)' => Placed(s) \/ (Pc(p) \in Holding \ {"spawned"} /\ Service(p) = s)
    BY Zenon, <1>8
  <2>2. Pc(p) \notin Holding /\ "start" \notin Holding
    BY Zenon, <1>1 DEF Holding
  <2>3. started \subseteq started'
    BY Zenon, <1>1
  <2> QED
    BY Zenon, <1>3, <2>1, <2>2, <2>3, PlacesKept
<1>11. SealInv'
  <2>1. Providing' = Providing
    BY Zenon, <1>1 DEF Providing
  <2>2. Sealable(p, "start", prov[p].failed)
    BY Zenon, <1>1, <1>2, <2>1 DEF Sealable, Sealing, Draining
  <2> QED
    BY Zenon, <1>3, <2>2, SealKept
<1>12. TableInv'
  BY Zenon, <1>1, <1>5, <1>6, <1>7 DEF StartInv, TableInv
<1>13. IdInv'
  BY ZenonT(40), <1>1, <1>5, <1>6, <1>7 DEF StartInv, IdInv, Distinct
<1>14. CallerInv' /\ ExitInv' /\ ThreadInv'
  BY Zenon, <1>1, <1>2, <1>3, ThreadsStay
<1>15. ASSUME Alone PROVE Ready(p)'
  <2>1. Ready(p)
    BY Zenon, <1>15 DEF StartInv, ReadyInv
  <2>2. \A s \in Provides[p] : s \in prov'[p].todo
    BY Zenon, <1>1, <1>5, <2>1 DEF Ready
  <2> QED
    BY Zenon, <1>5, <2>2 DEF Ready, Pc, Before
<1>16. ReadyInv'
  BY Zenon, <1>15, ReadyKept
<1> QED
  BY Zenon, <1>4, <1>9, <1>10, <1>11, <1>12, <1>13, <1>14, <1>16 DEF StartInv

(* A task starts a thread with a table of services.                        *)
LEMMA TableSpawned ==
    ASSUME StartSets, StartInv, NEW p \in Providers, NEW pc \in {"spawned", "start"}, NEW todo, NEW order, NEW failed,
           NEW channel \in {ChannelOf[s] : s \in Services}, NEW table \in SUBSET Services, table # {},
           Becomes(p, pc, todo, order, failed), SpawnThread(p, channel, table, "opening"),
           Pc(p) # "ended", spawned[p] = {},
           UNCHANGED <<deps, entries, lock, started, sealed, pending, handles, callers, cache, main>>
    PROVE  /\ StartTypes' /\ CallerInv' /\ ThreadInv' /\ ExitInv'
           /\ \E n : /\ n \notin DOMAIN threads /\ DOMAIN threads' = DOMAIN threads \cup {n}
                     /\ Table(n)' = table /\ \A i \in DOMAIN threads : Table(i)' = Table(i)
<1>0. /\ StartTypes /\ p \in Tasks /\ channel \in {ChannelOf[s] : s \in Services} \cup {"remote"}
      /\ "opening" \in {"opening", "serving"}
  BY Zenon DEF StartInv, Tasks
<1>1. /\ threads' \in Seq(Thread) /\ spawned' \in [Tasks -> SUBSET DOMAIN threads']
  BY Zenon, <1>0, ThreadSpawned
<1>2. PICK n : /\ n \notin DOMAIN threads /\ DOMAIN threads' = DOMAIN threads \cup {n}
               /\ Table(n)' = table /\ \A i \in DOMAIN threads : threads'[i] = threads[i]
               /\ spawned' = [spawned EXCEPT ![p] = {n}]
  BY Zenon, <1>0, ThreadSpawned
<1>3. \A i \in DOMAIN threads : Table(i)' = Table(i)
  BY Zenon, <1>2 DEF Table
<1>4. spawned'[p] = {n} /\ \A u \in Tasks : u # p => spawned'[u] = spawned[u]
  BY Zenon, <1>0, <1>2 DEF StartTypes
<1>5. StartTypes'
  <2>1. main' \in [pc : {"body", "handles", "threads", "join", "ports", "node", "exit"}, joins : SUBSET DOMAIN threads']
    <3>1. main \in [pc : MainPc, joins : SUBSET DOMAIN threads] /\ main' = main
      BY Zenon DEF StartInv, StartTypes, MainPc
    <3> QED
      BY <1>2, <3>1 DEF MainPc
  <2>2. handles' \subseteq DOMAIN threads'
    BY Zenon, <1>2 DEF StartInv, StartTypes
  <2> QED
    BY Zenon, <1>1, <2>1, <2>2 DEF StartInv, StartTypes, Becomes, Tasks
<1>6. Dispatching' = Dispatching
  <2>1. \A i : i \in Dispatching' <=> i \in Dispatching
    BY Zenon, <1>2, <1>3 DEF Dispatching, Providing, Table
  <2> QED
    BY Zenon, <2>1
<1>7. CallerInv' /\ ExitInv'
  BY Zenon, <1>6, ExitKept
<1>8. ThreadInv'
  <2>1. /\ prov'[p].pc = pc /\ \A q \in Providers : q # p => prov'[q] = prov[q]
    BY Zenon DEF Becomes
  <2>2. \A q \in Providers : spawned'[q] # {} => Pc(q)' \in {"spawned", "start"}
    BY Zenon, <1>4, <2>1 DEF StartInv, ThreadInv, Tasks, Pc
  <2>3. \A c \in Callers : spawned'[c] # {} => callers'[c] = "spawned"
    <3>1. p \notin Callers
      BY Zenon DEF StartSets
    <3> QED
      BY Zenon, <1>4, <3>1 DEF StartInv, ThreadInv, Tasks
  <2>4. ASSUME NEW i \in DOMAIN threads' PROVE i \in handles' \/ i \in main'.joins \/ \E t \in Tasks : i \in spawned'[t]
    <3>1. CASE i = n
      BY Zenon, <1>0, <1>4, <3>1
    <3>2. CASE i \in DOMAIN threads
      <4>1. i \in handles \/ i \in main.joins \/ \E t \in Tasks : i \in spawned[t]
        BY Zenon, <3>2 DEF StartInv, ThreadInv
      <4>2. ASSUME NEW t \in Tasks, i \in spawned[t] PROVE i \in spawned'[t]
        BY Zenon, <1>4, <4>2
      <4> QED
        BY Zenon, <4>1, <4>2
    <3> QED
      BY Zenon, <1>2, <3>1, <3>2
  <2> QED
    BY Zenon, <2>2, <2>3, <2>4 DEF ThreadInv
<1> QED
  BY Zenon, <1>2, <1>3, <1>5, <1>7, <1>8

(* After the seal a service gets a thread of its own.                      *)
LEMMA SpawnStep ==
    ASSUME StartSets, StartInv, NEW p \in Providers, SpawnOwn(p)
    PROVE  StartInv'
<1>0. PICK own : own = Service(p)
  BY Zenon
<1>1. /\ Pc(p) = "spawn" /\ SpawnThread(p, ChannelOf[own], {own}, "opening") /\ prov' = [prov EXCEPT ![p].pc = "spawned"]
      /\ UNCHANGED <<deps, entries, lock, started, sealed, pending, handles, callers, cache, main>>
  BY Zenon, <1>0 DEF SpawnOwn, registry, rest, Pc
<1>2. prov[p].order # <<>> /\ lock[own] = p /\ sealed
  BY Zenon, <1>0, <1>1 DEF StartInv, LockInv, Holding, SealInv
<1>3. ~prov[p].failed /\ spawned[p] = {} /\ own \in Services
  BY Zenon, <1>0, <1>1, <1>2, ProviderTypes
<1>4. Becomes(p, "spawned", prov[p].todo, prov[p].order, prov[p].failed)
  <2>1. /\ prov \in [Providers -> ProviderState] /\ "spawned" \in ProviderPc /\ prov[p].todo \in SUBSET Services
        /\ prov[p].order \in Seq(Services)
    BY Zenon, ProviderTypes DEF ProviderPc
  <2> QED
    BY Zenon, <1>1, <2>1, Moves
<1>5. /\ StartTypes' /\ CallerInv' /\ ThreadInv' /\ ExitInv'
      /\ \E n : /\ n \notin DOMAIN threads /\ DOMAIN threads' = DOMAIN threads \cup {n}
                /\ Table(n)' = {own} /\ \A i \in DOMAIN threads : Table(i)' = Table(i)
  <2>1. /\ "spawned" \in {"spawned", "start"} /\ ChannelOf[own] \in {ChannelOf[s] : s \in Services} /\ {own} \in SUBSET Services
        /\ {own} # {} /\ Pc(p) # "ended"
    BY Zenon, <1>1, <1>3
  <2> QED
    BY ZenonT(40), <1>1, <1>3, <1>4, <2>1, TableSpawned
<1>6. PICK n : /\ n \notin DOMAIN threads /\ DOMAIN threads' = DOMAIN threads \cup {n}
               /\ Table(n)' = {own} /\ \A i \in DOMAIN threads : Table(i)' = Table(i)
  BY Zenon, <1>5
<1>7. /\ prov'[p].pc = "spawned" /\ prov'[p].order = prov[p].order /\ \A q \in Providers : q # p => prov'[q] = prov[q]
  BY Zenon, <1>4 DEF Becomes
<1>8. \A q \in Providers : Pc(q)' = "start" => Pc(q) = "start" /\ prov'[q].todo = prov[q].todo
  BY Zenon, <1>7 DEF Pc
<1>9. ~Placed(own)
  BY Zenon, <1>0, <1>1 DEF StartInv, PlaceInv, Holding
<1>10. \A s : Placed(s)' => Placed(s) \/ s = own
  BY Zenon, <1>1, <1>6, <1>8 DEF Placed
<1>11. LockInv'
  BY ZenonT(40), <1>0, <1>1, <1>2, <1>4, LocksKept DEF Service
<1>12. PlaceInv'
  <2>1. \A s : Placed(s)' => Placed(s) \/ (Pc(p) \in Holding \ {"spawned"} /\ Service(p) = s)
    BY Zenon, <1>0, <1>1, <1>10 DEF Holding
  <2>2. started \subseteq started'
    BY Zenon, <1>1
  <2> QED
    BY Zenon, <1>4, <2>1, <2>2, PlacesKept
<1>13. SealInv'
  <2>1. Sealable(p, "spawned", prov[p].failed)
    BY Zenon, <1>1, <1>2, <1>3 DEF Sealable, Sealing, Draining
  <2> QED
    BY Zenon, <1>4, <2>1, SealKept
<1>14. TableInv'
  <2>1. /\ \A i \in DOMAIN threads : own \notin Table(i)
        /\ \A q \in Providers : Pc(q) = "start" => own \notin prov[q].todo
        /\ own \notin pending
    BY Zenon, <1>9 DEF Placed
  <2>2. ASSUME NEW i \in DOMAIN threads', NEW s \in Table(i)'
        PROVE  (i = n /\ s = own) \/ (i \in DOMAIN threads /\ s \in Table(i))
    BY Zenon, <1>6, <2>2
  <2>3. ASSUME NEW i \in DOMAIN threads', NEW j \in DOMAIN threads', NEW s \in Table(i)', s \in Table(j)' PROVE i = j
    <3>1. \A x, y \in DOMAIN threads : s \in Table(x) /\ s \in Table(y) => x = y
      BY Zenon DEF StartInv, TableInv
    <3> QED
      BY Zenon, <2>1, <2>2, <2>3, <3>1
  <2>4. ASSUME NEW i \in DOMAIN threads', NEW s \in Table(i)' PROVE s \notin pending'
    <3>1. \A x \in DOMAIN threads : s \in Table(x) => s \notin pending
      BY Zenon DEF StartInv, TableInv
    <3> QED
      BY ZenonT(40), <1>1, <2>1, <2>2, <2>4, <3>1
  <2>5. ASSUME NEW q \in Providers, Pc(q)' = "start", NEW s \in prov'[q].todo
        PROVE  s \notin pending' /\ \A i \in DOMAIN threads' : s \notin Table(i)'
    <3>1. Pc(q) = "start" /\ s \in prov[q].todo
      BY Zenon, <1>8, <2>5
    <3>2. s \notin pending /\ \A i \in DOMAIN threads : s \notin Table(i)
      BY Zenon, <3>1 DEF StartInv, TableInv
    <3>3. s # own
      BY Zenon, <2>1, <3>1
    <3> QED
      BY ZenonT(40), <1>1, <2>2, <3>2, <3>3
  <2> QED
    BY Zenon, <2>3, <2>4, <2>5 DEF TableInv
<1>15. IdInv'
  <2>1. Distinct(pending)'
    BY Zenon, <1>1 DEF StartInv, IdInv, Distinct
  <2>2. ASSUME NEW q \in Providers, Pc(q)' = "start" PROVE Distinct(prov[q].todo)'
    <3>1. prov'[q].todo = prov[q].todo /\ Distinct(prov[q].todo)
      BY Zenon, <1>8, <2>2 DEF StartInv, IdInv
    <3> QED
      BY Zenon, <3>1 DEF Distinct
  <2>3. ASSUME NEW i \in DOMAIN threads', NEW s \in Table(i)', NEW t \in Table(i)', IdOf[s] = IdOf[t] PROVE s = t
    <3>1. CASE i = n
      BY Zenon, <1>6, <2>3, <3>1
    <3>2. CASE i \in DOMAIN threads
      <4>1. \A x, y \in Table(i) : IdOf[x] = IdOf[y] => x = y
        BY Zenon, <3>2 DEF StartInv, IdInv
      <4>2. s \in Table(i) /\ t \in Table(i)
        BY Zenon, <1>6, <2>3, <3>2
      <4> QED
        BY Zenon, <2>3, <4>1, <4>2
    <3> QED
      BY Zenon, <1>6, <3>1, <3>2
  <2> QED
    BY Zenon, <2>1, <2>2, <2>3 DEF IdInv
<1>16. ReadyInv'
  <2>1. Ready(p) => FALSE
    BY Zenon, <1>1 DEF Ready
  <2>2. ~Alone
    BY Zenon, <2>1 DEF StartInv, ReadyInv
  <2> QED
    BY Zenon, <2>2, ReadyKept
<1> QED
  BY ZenonT(40), <1>5, <1>11, <1>12, <1>13, <1>14, <1>15, <1>16 DEF StartInv

(* The thread a task has spawned is registered for the shutdown.           *)
LEMMA ThreadKnown ==
    ASSUME StartSets, StartInv, NEW p \in Providers, RegisterThread(p), Pc(p) # "ended",
           \A q \in Providers : q # p => prov'[q] = prov[q], UNCHANGED <<threads, callers, cache, main>>
    PROVE  /\ spawned' \in [Tasks -> SUBSET DOMAIN threads'] /\ handles' \subseteq DOMAIN threads'
           /\ CallerInv' /\ ThreadInv' /\ ExitInv'
<1>0. StartTypes /\ p \in Tasks /\ p \notin Callers
  BY Zenon DEF StartInv, Tasks, StartSets
<1>1. /\ spawned' \in [Tasks -> SUBSET DOMAIN threads] /\ handles' \subseteq DOMAIN threads
      /\ spawned'[p] = {} /\ \A u \in Tasks : u # p => spawned'[u] = spawned[u]
      /\ \A i : i \in handles \/ i \in spawned[p] => i \in handles'
  BY Zenon, <1>0, ThreadRegistered
<1>2. Dispatching' = Dispatching
  BY Zenon DEF Dispatching, Providing
<1>3. CallerInv' /\ ExitInv'
  BY Zenon, <1>2, ExitKept
<1>4. ThreadInv'
  <2>1. \A q \in Providers : spawned'[q] # {} => Pc(q)' \in {"spawned", "start"}
    BY Zenon, <1>1 DEF StartInv, ThreadInv, Tasks, Pc
  <2>2. \A c \in Callers : spawned'[c] # {} => callers'[c] = "spawned"
    BY Zenon, <1>0, <1>1 DEF StartInv, ThreadInv, Tasks
  <2>3. ASSUME NEW i \in DOMAIN threads' PROVE i \in handles' \/ i \in main'.joins \/ \E t \in Tasks : i \in spawned'[t]
    <3>1. i \in handles \/ i \in main.joins \/ \E t \in Tasks : i \in spawned[t]
      BY Zenon DEF StartInv, ThreadInv
    <3>2. ASSUME NEW t \in Tasks, i \in spawned[t] PROVE i \in handles' \/ i \in spawned'[t]
      BY Zenon, <1>1, <3>2
    <3> QED
      BY Zenon, <1>1, <3>1, <3>2
  <2> QED
    BY Zenon, <2>1, <2>2, <2>3 DEF ThreadInv
<1> QED
  BY Zenon, <1>1, <1>3, <1>4

LEMMA RegisterOwnStep ==
    ASSUME StartSets, StartInv, NEW p \in Providers, RegisterOwn(p)
    PROVE  StartInv'
<1>0. PICK own : own = Service(p)
  BY Zenon
<1> DEFINE order == Tail(prov[p].order)
<1>1. /\ Pc(p) = "spawned" /\ RegisterThread(p) /\ prov' = Initialized(p)
      /\ started' = started \cup {own} /\ lock' = [lock EXCEPT ![own] = None]
      /\ UNCHANGED <<deps, entries, sealed, pending, threads, callers, cache, main>>
  BY Zenon, <1>0 DEF RegisterOwn, Registered, rest, Pc
<1>2. prov[p].order # <<>> /\ lock[own] = p
  BY Zenon, <1>0, <1>1 DEF StartInv, LockInv, Holding
<1>3. ~prov[p].failed /\ own \in Services /\ order \in Seq(Services)
  BY Zenon, <1>0, <1>1, <1>2, ProviderTypes
<1>4. Becomes(p, "init", prov[p].todo, order, prov[p].failed)
  <2>1. prov \in [Providers -> ProviderState] /\ "init" \in ProviderPc /\ prov[p].todo \in SUBSET Services
    BY Zenon, ProviderTypes DEF ProviderPc
  <2>2. prov' = [prov EXCEPT ![p].pc = "init", ![p].order = order]
    BY Zenon, <1>1 DEF Initialized
  <2> HIDE DEF order
  <2> QED
    BY Zenon, <1>3, <2>1, <2>2, Moves
<1> HIDE DEF order
<1>5. /\ prov' \in [Providers -> ProviderState] /\ prov'[p].pc = "init"
      /\ \A q \in Providers : q # p => prov'[q] = prov[q]
  BY Zenon, <1>4 DEF Becomes
<1>6. /\ spawned' \in [Tasks -> SUBSET DOMAIN threads'] /\ handles' \subseteq DOMAIN threads'
      /\ CallerInv' /\ ThreadInv' /\ ExitInv'
  BY Zenon, <1>1, <1>5, ThreadKnown
<1>7. /\ lock' \in [Services -> Providers \cup {None}]
      /\ \A s \in Services : lock'[s] = lock[s] \/ lock[s] = p \/ lock[s] = None
  <2>1. lock \in [Services -> Providers \cup {None}]
    BY Zenon DEF StartInv, StartTypes
  <2> QED
    BY ZenonT(40), <1>1, <1>2, <1>3, <2>1
<1>8. StartTypes'
  <2>1. started' \subseteq Services
    BY Zenon, <1>1, <1>3 DEF StartInv, StartTypes
  <2> QED
    BY ZenonT(40), <1>1, <1>5, <1>6, <1>7, <2>1 DEF StartInv, StartTypes, Tasks
<1>9. LockInv'
  BY Zenon, <1>4, <1>7, LocksKept DEF Holding
<1>10. \A s : Placed(s)' => Placed(s)
  <2>1. \A q \in Providers : Pc(q)' = "start" => Pc(q) = "start" /\ prov'[q].todo = prov[q].todo
    BY Zenon, <1>5 DEF Pc
  <2> QED
    BY Zenon, <1>1, <2>1 DEF Placed, Table
<1>11. PlaceInv'
  <2>1. \A s : Placed(s)' => Placed(s) \/ (Pc(p) \in Holding \ {"spawned"} /\ Service(p) = s)
    BY Zenon, <1>10
  <2>2. \A s : Placed(s)' /\ Pc(p) \in Holding /\ Service(p) = s =>
            s \in started' \/ ("init" = "spawned" /\ order = prov[p].order)
    BY Zenon, <1>0, <1>1
  <2>3. started \subseteq started' /\ "init" \notin Holding
    BY Zenon, <1>1 DEF Holding
  <2> QED
    BY ZenonT(40), <1>4, <2>1, <2>2, <2>3, PlacesKept
<1>12. SealInv'
  <2>1. Providing' = Providing
    BY Zenon, <1>1 DEF Providing
  <2>2. Sealable(p, "init", prov[p].failed)
    BY Zenon, <1>1, <1>3, <2>1 DEF Sealable, Sealing, Draining
  <2> QED
    BY Zenon, <1>4, <2>2, SealKept
<1>13. TableInv' /\ IdInv'
  BY Zenon, <1>1, <1>4, TablesKept
<1>14. ReadyInv'
  <2>1. Ready(p) => FALSE
    BY Zenon, <1>1 DEF Ready
  <2>2. ~Alone
    BY Zenon, <2>1 DEF StartInv, ReadyInv
  <2> QED
    BY Zenon, <2>2, ReadyKept
<1> QED
  BY ZenonT(40), <1>6, <1>8, <1>9, <1>11, <1>12, <1>13, <1>14 DEF StartInv

LEMMA RegisterChannelStep ==
    ASSUME StartSets, StartInv, NEW p \in Providers, RegisterChannel(p)
    PROVE  StartInv'
<1>1. /\ Pc(p) = "start" /\ RegisterThread(p)
      /\ UNCHANGED <<deps, entries, lock, started, sealed, pending, prov, threads, callers, cache, main>>
  BY Zenon DEF RegisterChannel, registry, rest, Pc
<1>2. SameTables /\ SameRegistry
  BY Zenon, <1>1 DEF SameTables, SameRegistry, Table
<1>3. /\ spawned' \in [Tasks -> SUBSET DOMAIN threads'] /\ handles' \subseteq DOMAIN threads'
      /\ CallerInv' /\ ThreadInv' /\ ExitInv'
  BY Zenon, <1>1, ThreadKnown
<1>4. StartTypes'
  BY Zenon, <1>1, <1>3 DEF StartInv, StartTypes, Tasks
<1> QED
  BY Zenon, <1>2, <1>3, <1>4, RegistryKept DEF StartInv

(* The first task through starts a thread for a channel.                   *)
LEMMA ChannelStep ==
    ASSUME StartSets, StartInv, NEW p \in Providers, StartChannel(p)
    PROVE  StartInv'
<1>1. PICK ch \in {ChannelOf[s] : s \in prov[p].todo} :
         /\ SpawnThread(p, ch, {s \in prov[p].todo : ChannelOf[s] = ch}, "opening")
         /\ prov' = [prov EXCEPT ![p].todo = @ \ {s \in prov[p].todo : ChannelOf[s] = ch}]
  BY Zenon DEF StartChannel
<1>2. /\ Pc(p) = "start" /\ spawned[p] = {}
      /\ UNCHANGED <<deps, entries, lock, started, sealed, pending, handles, callers, cache, main>>
  BY Zenon DEF StartChannel, registry, rest, Pc
<1> DEFINE table == {s \in prov[p].todo : ChannelOf[s] = ch}
           todo == prov[p].todo \ table
<1>3. /\ prov[p].todo \in SUBSET Services /\ ~prov[p].failed /\ sealed
  BY Zenon, <1>2, ProviderTypes DEF StartInv, SealInv
<1>4. /\ table # {} /\ table \in SUBSET Services /\ todo \in SUBSET Services
      /\ ch \in {ChannelOf[s] : s \in Services}
  BY Zenon, <1>3
<1>5. /\ \A s : s \in prov[p].todo <=> s \in table \/ s \in todo
      /\ \A s \in table : s \notin todo /\ ChannelOf[s] = ch
  BY Zenon
<1>6. SpawnThread(p, ch, table, "opening") /\ prov' = [prov EXCEPT ![p].todo = todo]
  BY Zenon, <1>1
<1> HIDE DEF table, todo
<1>7. Becomes(p, "start", todo, prov[p].order, prov[p].failed)
  <2>1. /\ prov \in [Providers -> ProviderState] /\ "start" \in ProviderPc /\ prov[p].order \in Seq(Services)
    BY Zenon, ProviderTypes DEF ProviderPc
  <2>2. Becomes(p, prov[p].pc, todo, prov[p].order, prov[p].failed)
    BY Zenon, <1>4, <1>6, <2>1, Moves
  <2> QED
    BY Zenon, <1>2, <2>2 DEF Pc
<1>8. /\ StartTypes' /\ CallerInv' /\ ThreadInv' /\ ExitInv'
      /\ \E n : /\ n \notin DOMAIN threads /\ DOMAIN threads' = DOMAIN threads \cup {n}
                /\ Table(n)' = table /\ \A i \in DOMAIN threads : Table(i)' = Table(i)
  <2>1. "start" \in {"spawned", "start"} /\ Pc(p) # "ended"
    BY Zenon, <1>2
  <2> QED
    BY Zenon, <1>2, <1>4, <1>6, <1>7, <2>1, TableSpawned
<1>9. PICK n : /\ n \notin DOMAIN threads /\ DOMAIN threads' = DOMAIN threads \cup {n}
               /\ Table(n)' = table /\ \A i \in DOMAIN threads : Table(i)' = Table(i)
  BY Zenon, <1>8
<1>10. /\ prov'[p].pc = "start" /\ prov'[p].todo = todo /\ \A q \in Providers : q # p => prov'[q] = prov[q]
  BY Zenon, <1>7 DEF Becomes
<1>11. \A q \in Providers : Pc(q)' = "start" => q = p
  BY Zenon, <1>2, <1>10 DEF StartInv, SealInv, Draining, Pc
<1>12. ASSUME NEW i \in DOMAIN threads', NEW s \in Table(i)'
       PROVE  (i = n /\ s \in table) \/ (i \in DOMAIN threads /\ s \in Table(i))
  BY Zenon, <1>9, <1>12
<1>13. \A s : Placed(s)' => Placed(s)
  <2>1. \A s \in prov[p].todo : Placed(s)
    BY Zenon, <1>2 DEF Placed
  <2> QED
    BY ZenonT(40), <1>2, <1>5, <1>10, <1>11, <1>12, <2>1 DEF Placed
<1>14. LockInv'
  BY Zenon, <1>2, <1>7, LocksKept DEF Holding
<1>15. PlaceInv'
  <2>1. \A s : Placed(s)' => Placed(s) \/ (Pc(p) \in Holding \ {"spawned"} /\ Service(p) = s)
    BY Zenon, <1>13
  <2>2. Pc(p) \notin Holding /\ "start" \notin Holding
    BY Zenon, <1>2 DEF Holding
  <2>3. started \subseteq started'
    BY Zenon, <1>2
  <2> QED
    BY Zenon, <1>7, <2>1, <2>2, <2>3, PlacesKept
<1>16. SealInv'
  <2>1. Sealable(p, "start", prov[p].failed)
    BY Zenon, <1>2, <1>3 DEF Sealable, Sealing, Draining
  <2> QED
    BY Zenon, <1>7, <2>1, SealKept
<1>17. \A s \in prov[p].todo : s \notin pending /\ \A i \in DOMAIN threads : s \notin Table(i)
  BY Zenon, <1>2 DEF StartInv, TableInv
<1>18. TableInv'
  <2>1. ASSUME NEW i \in DOMAIN threads', NEW j \in DOMAIN threads', NEW s \in Table(i)', s \in Table(j)' PROVE i = j
    <3>1. \A x, y \in DOMAIN threads : s \in Table(x) /\ s \in Table(y) => x = y
      BY Zenon DEF StartInv, TableInv
    <3> QED
      BY Zenon, <1>5, <1>12, <1>17, <2>1, <3>1
  <2>2. ASSUME NEW i \in DOMAIN threads', NEW s \in Table(i)' PROVE s \notin pending'
    <3>1. \A x \in DOMAIN threads : s \in Table(x) => s \notin pending
      BY Zenon DEF StartInv, TableInv
    <3> QED
      BY Zenon, <1>2, <1>5, <1>12, <1>17, <2>2, <3>1
  <2>3. ASSUME NEW s \in todo PROVE s \notin pending' /\ \A i \in DOMAIN threads' : s \notin Table(i)'
    BY Zenon, <1>2, <1>5, <1>12, <1>17, <2>3
  <2> QED
    BY Zenon, <1>10, <1>11, <2>1, <2>2, <2>3 DEF TableInv
<1>19. IdInv'
  <2>1. Distinct(prov[p].todo)
    BY Zenon, <1>2 DEF StartInv, IdInv
  <2>2. Distinct(pending)'
    BY Zenon, <1>2 DEF StartInv, IdInv, Distinct
  <2>3. ASSUME NEW q \in Providers, Pc(q)' = "start" PROVE Distinct(prov[q].todo)'
    <3>1. prov'[q].todo = todo
      BY Zenon, <1>10, <1>11, <2>3
    <3> QED
      BY Zenon, <1>5, <2>1, <3>1 DEF Distinct
  <2>4. ASSUME NEW i \in DOMAIN threads', NEW s \in Table(i)', NEW t \in Table(i)', IdOf[s] = IdOf[t] PROVE s = t
    <3>1. CASE i = n
      <4>1. s \in table /\ t \in table
        BY Zenon, <1>9, <2>4, <3>1
      <4> QED
        BY Zenon, <1>5, <2>1, <2>4, <4>1 DEF Distinct
    <3>2. CASE i \in DOMAIN threads
      <4>1. \A x, y \in Table(i) : IdOf[x] = IdOf[y] => x = y
        BY Zenon, <3>2 DEF StartInv, IdInv
      <4>2. s \in Table(i) /\ t \in Table(i)
        BY Zenon, <1>9, <2>4, <3>2
      <4> QED
        BY Zenon, <2>4, <4>1, <4>2
    <3> QED
      BY Zenon, <1>9, <3>1, <3>2
  <2> QED
    BY Zenon, <2>2, <2>3, <2>4 DEF IdInv
<1>20. ASSUME Alone PROVE Ready(p)'
  <2>1. Ready(p)
    BY Zenon, <1>20 DEF StartInv, ReadyInv
  <2>2. ASSUME NEW s \in Provides[p] PROVE s \in prov'[p].todo \/ Served(s)'
    <3>1. s \in prov[p].todo \/ Served(s)
      BY Zenon, <1>2, <2>1 DEF Ready
    <3>2. CASE s \in table
      BY Zenon, <1>9, <3>2 DEF Served
    <3>3. CASE s \in todo
      BY Zenon, <1>10, <3>3
    <3>4. ASSUME NEW i \in DOMAIN threads, s \in Table(i) PROVE Served(s)'
      BY Zenon, <1>9, <3>4 DEF Served
    <3> QED
      BY Zenon, <1>5, <3>1, <3>2, <3>3, <3>4 DEF Served
  <2> QED
    BY Zenon, <1>10, <2>2 DEF Ready, Pc, Before
<1>21. ReadyInv'
  BY Zenon, <1>20, ReadyKept
<1> QED
  BY ZenonT(40), <1>8, <1>14, <1>15, <1>16, <1>18, <1>19, <1>21 DEF StartInv

LEMMA ProviderStep ==
    ASSUME StartSets, StartInv, NEW p \in Providers, Provide(p)
    PROVE  StartInv'
  BY ZenonT(40), RegisterStep, OrderStep, BeginStep, HookStep, ReadSealStep, JoinStep, SpawnStep, RegisterOwnStep, SealStep,
     DrainStep, ChannelStep, RegisterChannelStep, LateStep DEF Provide

LEMMA NextStart == StartSets /\ StartInv /\ [Next]_(vars) => StartInv'
<1> SUFFICES ASSUME StartSets, StartInv, [Next]_(vars) PROVE StartInv'
  BY Zenon
<1>1. CASE UNCHANGED vars
  <2>1. UNCHANGED <<deps, entries, prov, lock, started, sealed, pending, threads, handles, spawned, callers, cache, node, main>>
    BY Zenon, <1>1 DEF vars
  <2>2. SameTables /\ SameRegistry
    BY Zenon, <2>1 DEF SameTables, SameRegistry, Table
  <2>3. StartTypes'
    BY Zenon, <2>1 DEF StartInv, StartTypes, Tasks
  <2>4. CallerInv'
    BY Zenon, <2>1 DEF StartInv, CallerInv, Dispatching, Providing, Released
  <2>5. ThreadInv'
    BY Zenon, <2>1 DEF StartInv, ThreadInv, Tasks, Pc
  <2>6. ExitInv'
    BY Zenon, <2>1 DEF StartInv, ExitInv, Released, Dispatchers, Running, Pc
  <2> QED
    BY Zenon, <2>2, <2>3, <2>4, <2>5, <2>6, RegistryKept DEF StartInv
<1>2. CASE Next
  BY Zenon, <1>2, ProviderStep, ThreadStep, CallerStep, MainStep DEF Next
<1> QED
  BY Zenon, <1>1, <1>2

LEMMA StartInvSound == StartInv => StartupSound
<1> SUFFICES ASSUME StartInv PROVE StartupSound
  BY Zenon
<1>1. ServedOnce
  <2>1. ASSUME NEW i \in Providing, NEW j \in Providing, i # j, NEW s, s \in threads[i].table, s \in threads[j].table
        PROVE  FALSE
    BY Zenon, <2>1 DEF StartInv, TableInv, Table, Providing
  <2> QED
    BY Zenon, <2>1 DEF ServedOnce
<1>2. TablesUnambiguous
  BY Zenon DEF StartInv, IdInv, Table, TablesUnambiguous, Providing
<1>3. FailureServesNothing
  BY Zenon DEF StartInv, SealInv, FailureServesNothing
<1>4. (\A p, q \in Providers : p = q) => ReadyMeansServed
  <2> SUFFICES ASSUME Alone, NEW p \in Providers, prov[p].pc = "waiting", NEW s \in Provides[p]
               PROVE  \E i \in Providing : s \in threads[i].table
    BY Zenon DEF Alone, ReadyMeansServed
  <2>1. Served(s)
    BY Zenon DEF StartInv, ReadyInv, Ready, Pc
  <2> QED
    BY Zenon, <2>1 DEF Served, Table, Providing
<1>5. MainAwaits \/ main.pc \notin {"node", "exit"} => OpenedOnce
  BY Zenon DEF StartInv, CallerInv, Dispatching, Released, OpenedOnce
<1>6. MainAwaits => CleanExit
  <2> SUFFICES ASSUME MainAwaits, main.pc = "exit"
               PROVE  ~cache.filled /\ node = "empty" /\ \A i \in DOMAIN threads : ~Running(i)
    BY Zenon DEF CleanExit, Alive
  <2>1. /\ \A p \in Providers : Pc(p) = "ended"
        /\ \A c \in Callers : callers[c] = "done"
        /\ handles = {} /\ ~cache.filled /\ node = "empty"
        /\ \A i \in main.joins : ~Running(i)
    BY Zenon DEF StartInv, ExitInv, Released
  <2>2. \A t \in Tasks : spawned[t] = {}
    BY Zenon, <2>1 DEF StartInv, ThreadInv, Tasks
  <2>3. \A i \in DOMAIN threads : i \in main.joins
    BY Zenon, <2>1, <2>2 DEF StartInv, ThreadInv
  <2> QED
    BY Zenon, <2>1, <2>3
<1> QED
  BY Zenon, <1>1, <1>2, <1>3, <1>4, <1>5, <1>6 DEF StartupSound

(* However many tasks provide and call, and whatever fails: a service is   *)
(* served by one thread and under one id, by none when every provider      *)
(* failed, a provider that is alone and says it is ready serves all its    *)
(* services, a channel is opened once, and a main that awaits its tasks    *)
(* leaves no thread, port or node behind (run_provider_inner,              *)
(* register_native_service, start_registered_channels, consumer_ports,     *)
(* ShutdownGuard::shutdown).                                               *)
THEOREM StartupIsSound == ASSUME StartSets PROVE Spec => []StartupSound
<1>1. Init => StartInv
  BY InitStart
<1>2. StartInv /\ [Next]_(vars) => StartInv'
  BY NextStart
<1>3. StartInv => StartupSound
  BY StartInvSound
<1> QED
  BY <1>1, <1>2, <1>3, PTL DEF Spec

=============================================================================
