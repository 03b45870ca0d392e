-------------------------- MODULE ChannelPortsProofs --------------------------
(***************************************************************************)
(* Proofs about the opening of a channel, for any processes, services and  *)
(* configurations: a failed opening leaves nothing behind, and an error    *)
(* names a remedy that applies.                                            *)
(***************************************************************************)
EXTENDS ChannelPorts, TLAPS

(* A leaf that names no prover is tried with these, one after the other.   *)
USE SMT, ZenonT(30), SMTT(30), Z3

Places == {"idle", "opening", "open", "failed", "dead"}
Errors == {"none", "config", "stale", "transport"}

Proc == [at : Places, next : Nat, attempt : Nat, error : Errors, stop : BOOLEAN]

States == {"absent", "creating", "ready", "broken"}

\* The shape of the state.
ShapeInv ==
    /\ proc \in [Procs -> Proc]
    /\ held \in [Procs -> SUBSET Names]
    /\ DOMAIN bus = Names /\ bus = [s \in Names |-> bus[s]]
    /\ \A s \in Names :
         /\ bus[s] = [state |-> bus[s].state, config |-> bus[s].config, by |-> bus[s].by]
         /\ bus[s].state \in States
    /\ crashes \in Nat

\* Who is on the bus: a process holds something, or has a publisher, only from its
\* second step of an opening on, and a finished service has a holder.
HoldInv ==
    /\ \A p \in Procs : proc[p].at \in {"idle", "failed"} => held[p] = {}
    /\ \A p \in Procs : proc[p].at = "idle" => proc[p].next = 1
    /\ \A p \in Procs : proc[p].at = "opening" /\ proc[p].next = 1 => held[p] = {}
    /\ \A p \in publishers : p \in Procs /\ proc[p].at \in {"open", "dead"}
    /\ \A s \in Names : bus[s].state = "ready" => \E p \in Procs : s \in held[p]

\* Where bad services come from: what is broken, or was being created by a process that
\* is dead, follows a crash, and a service has the configuration of its creator.
OriginInv ==
    /\ \A p \in Procs : proc[p].at = "dead" => crashes > 0
    /\ \A s \in Names : bus[s].state = "broken" => crashes > 0
    /\ \A s \in Names : bus[s].state = "creating" => bus[s].by \in Procs
    /\ \A s \in Names : bus[s].state # "absent" => \E q \in Procs : bus[s].config = ConfigOf[q]
    /\ \A p \in Procs : \A s \in held[p] : bus[s].state \in {"ready", "broken"}

PortsInv == ShapeInv /\ HoldInv /\ OriginInv /\ RemedyFits

\* How far a process has come: it holds the services it has opened so far, and a provider
\* that is open holds all of them and has its publisher.
Progress(p, r, h, publishes) ==
    /\ r.attempt \in 0..Attempts /\ r.next \in 1..(Len(Wanted(p)) + 1)
    /\ r.at = "opening" => \A i \in 1..(r.next - 1) : Wanted(p)[i] \in h
    /\ r.at = "open" /\ p \in Providers => publishes /\ Names \subseteq h

ServeInv ==
    /\ publishers \subseteq Providers /\ asking \subseteq Consumers
    /\ \A p \in Procs : Progress(p, proc[p], held[p], p \in publishers)
    /\ ProbeHidesNoProvider

-----------------------------------------------------------------------------
\* What the answer of iceoryx2 says of the service.
LEMMA OutcomeFacts ==
    ASSUME ShapeInv, NEW p \in Procs, NEW s \in Names, NEW out \in Outcomes(p, s)
    PROVE  /\ out \in {"missing", "create", "corrupted", "created", "flux", "hangs", "open", "mismatch"}
           /\ out = "create" => bus[s].state = "absent"
           /\ out = "corrupted" => bus[s].state = "broken"
           /\ out = "hangs" => bus[s].state = "creating" /\ ~Alive(bus[s].by)
           /\ out = "mismatch" => bus[s].state = "ready" /\ bus[s].config # ConfigOf[p]
           /\ out \in {"created", "open"} => bus[s].state \in {"creating", "ready"}
<1>1. CASE bus[s].state = "absent"
  BY Zenon, <1>1 DEF Outcomes
<1>2. CASE bus[s].state = "broken"
  BY Zenon, <1>2 DEF Outcomes
<1>3. CASE bus[s].state = "creating" /\ bus[s].by = p
  BY Zenon, <1>3 DEF Outcomes
<1>4. CASE bus[s].state = "creating" /\ bus[s].by # p
  BY Zenon, <1>4 DEF Outcomes
<1>5. CASE bus[s].state = "ready"
  BY Zenon, <1>5 DEF Outcomes
<1> QED
  BY Zenon, <1>1, <1>2, <1>3, <1>4, <1>5 DEF ShapeInv, States

\* Dropping tags leaves no finished service without a holder, and changes no other.
LEMMA UnlinkedFacts ==
    ASSUME NEW b, NEW h,
           \A s \in Names : b[s] = [state |-> b[s].state, config |-> b[s].config, by |-> b[s].by]
                            /\ b[s].state \in States
    PROVE  /\ Unlinked(b, h) = [s \in Names |-> Unlinked(b, h)[s]]
           /\ DOMAIN Unlinked(b, h) = Names
           /\ \A s \in Names :
                /\ Unlinked(b, h)[s] \in {b[s], Absent}
                /\ Unlinked(b, h)[s].state = "ready" => \E p \in Procs : s \in h[p]
                /\ (\E p \in Procs : s \in h[p]) => Unlinked(b, h)[s] = b[s]
BY Zenon DEF Unlinked, Absent

\* The start has no service and no process.
LEMMA InitPorts == Init => PortsInv
<1> SUFFICES ASSUME Init PROVE PortsInv
  BY Zenon
<1> USE DEF Init, Fresh, Absent
<1>1. ShapeInv
  BY Zenon DEF ShapeInv, Proc, Places, Errors, States
<1>2. HoldInv
  BY Zenon DEF HoldInv
<1>3. OriginInv
  BY Zenon DEF OriginInv
<1>4. RemedyFits
  BY Zenon DEF RemedyFits
<1> QED
  BY Zenon, <1>1, <1>2, <1>3, <1>4 DEF PortsInv

\* The bus after tags were dropped: the same facts, for the new tags.
LEMMA UnlinkedKeeps ==
    ASSUME PortsInv, bus' = Unlinked(bus, held'), crashes' = crashes,
           held' \in [Procs -> SUBSET Names], \A p \in Procs : held'[p] \subseteq held[p]
    PROVE  /\ DOMAIN bus' = Names /\ bus' = [s \in Names |-> bus'[s]]
           /\ \A s \in Names :
                /\ bus'[s] = [state |-> bus'[s].state, config |-> bus'[s].config, by |-> bus'[s].by]
                /\ bus'[s].state \in States
                /\ bus'[s].state = "ready" => \E p \in Procs : s \in held'[p]
                /\ bus'[s].state = "broken" => crashes' > 0
                /\ bus'[s].state = "creating" => bus'[s].by \in Procs
                /\ bus'[s].state # "absent" => \E q \in Procs : bus'[s].config = ConfigOf[q]
           /\ \A p \in Procs : \A s \in held'[p] : bus'[s].state \in {"ready", "broken"}
<1>1. \A s \in Names : bus'[s] \in {bus[s], Absent}
  BY UnlinkedFacts DEF PortsInv, ShapeInv
<1>2. /\ DOMAIN bus' = Names /\ bus' = [s \in Names |-> bus'[s]]
      /\ \A s \in Names : bus'[s].state = "ready" => \E p \in Procs : s \in held'[p]
  BY UnlinkedFacts DEF PortsInv, ShapeInv
<1>3. ASSUME NEW s \in Names
      PROVE  /\ bus'[s] = [state |-> bus'[s].state, config |-> bus'[s].config, by |-> bus'[s].by]
             /\ bus'[s].state \in States
             /\ bus'[s].state = "broken" => crashes' > 0
             /\ bus'[s].state = "creating" => bus'[s].by \in Procs
             /\ bus'[s].state # "absent" => \E q \in Procs : bus'[s].config = ConfigOf[q]
  <2>1. CASE bus'[s] = bus[s]
    BY ZenonT(60), <2>1 DEF PortsInv, ShapeInv, OriginInv
  <2>2. CASE bus'[s] = Absent
    BY <2>2 DEF Absent, States
  <2> QED
    BY Zenon, <1>1, <2>1, <2>2
<1>4. ASSUME NEW p \in Procs, NEW s \in held'[p] PROVE bus'[s].state \in {"ready", "broken"}
  <2>1. s \in Names /\ s \in held[p]
    BY Zenon
  <2>2. bus'[s] = bus[s]
    BY <2>1, UnlinkedFacts DEF PortsInv, ShapeInv
  <2> QED
    BY Zenon, <2>1, <2>2 DEF PortsInv, OriginInv
<1> QED
  BY ZenonT(40), <1>2, <1>3, <1>4

\* Facts about the services a process opens.
LEMMA WantedFacts ==
    ASSUME NEW p \in Procs, NEW i \in DOMAIN Wanted(p)
    PROVE  Wanted(p)[i] \in Names
BY PortsAssumption DEF Wanted, Names

\* A failed attempt: the tags of the process go, and an error names its remedy.
LEMMA FailsKeeps ==
    ASSUME PortsInv, NEW p \in Procs, NEW error \in Errors \ {"none"}, Opening(p), Fails(p, error),
           UNCHANGED <<publishers, crashes>>,
           error = "config" => \E q \in Procs : ConfigOf[q] # ConfigOf[p],
           error = "stale" => crashes > 0
    PROVE  PortsInv'
<1>1. held' \in [Procs -> SUBSET Names] /\ held'[p] = {}
      /\ \A q \in Procs : q # p => held'[q] = held[q]
  BY Zenon DEF PortsInv, ShapeInv, Fails, Dropped
<1>2. bus' = Unlinked(bus, held') /\ crashes' = crashes /\ publishers' = publishers
      /\ \A q \in Procs : held'[q] \subseteq held[q]
  BY Zenon, <1>1 DEF Fails
<1>3. /\ proc' \in [Procs -> Proc]
      /\ \A q \in Procs : q # p => proc'[q] = proc[q]
      /\ \/ proc'[p].at = "opening" /\ proc'[p].next = 1 /\ proc'[p].error = proc[p].error
         \/ proc'[p].at = "failed" /\ proc'[p].error = error
  <2> DEFINE again == p \notin Readers /\ is_retryable(error)
                      /\ Budget(proc[p].attempt) /\ ~proc[p].stop
  <2>0. proc \in [Procs -> Proc] /\ proc[p].at = "opening" /\ proc[p] \in Proc
    BY Zenon DEF PortsInv, ShapeInv, Opening
  <2>1. CASE again
    BY <2>0, <2>1 DEF Fails, Proc, Places, Errors, NextAttempt
  <2>2. CASE ~again
    BY Zenon, <2>0, <2>2 DEF Fails, Proc, Places, Errors
  <2> QED
    BY Zenon, <2>1, <2>2
<1>4. ShapeInv'
  BY ZenonT(40), <1>1, <1>2, <1>3, UnlinkedKeeps DEF PortsInv, ShapeInv
<1>5. HoldInv'
  <2>1. \A q \in publishers : q # p
    BY Zenon DEF PortsInv, HoldInv, Opening
  <2>2. \A s \in Names : bus'[s].state = "ready" => \E q \in Procs : s \in held'[q]
    BY Zenon, <1>1, <1>2, UnlinkedKeeps
  <2> QED
    BY <1>1, <1>2, <1>3, <2>1, <2>2 DEF PortsInv, HoldInv
<1>6. OriginInv'
  <2>1. \A q \in Procs : proc'[q].at = "dead" => crashes' > 0
    BY Zenon, <1>2, <1>3 DEF PortsInv, OriginInv
  <2> QED
    BY Zenon, <1>1, <1>2, <2>1, UnlinkedKeeps DEF OriginInv
<1>7. RemedyFits'
  BY Zenon, <1>2, <1>3 DEF PortsInv, RemedyFits
<1> QED
  BY Zenon, <1>4, <1>5, <1>6, <1>7 DEF PortsInv

\* Reaping takes tags and ports from the dead only.
LEMMA ReapKeeps ==
    ASSUME PortsInv, NEW p \in Procs, Reap \/ UNCHANGED <<held, bus, publishers>>,
           crashes' = crashes
    PROVE  /\ held' \in [Procs -> SUBSET Names]
           /\ \A q \in Procs : held'[q] \subseteq held[q]
           /\ publishers' \subseteq publishers
           /\ DOMAIN bus' = Names /\ bus' = [s \in Names |-> bus'[s]]
           /\ \A s \in Names :
                /\ bus'[s] = [state |-> bus'[s].state, config |-> bus'[s].config, by |-> bus'[s].by]
                /\ bus'[s].state \in States
                /\ bus'[s].state = "ready" => \E q \in Procs : s \in held'[q]
                /\ bus'[s].state = "broken" => crashes' > 0
                /\ bus'[s].state = "creating" => bus'[s].by \in Procs
                /\ bus'[s].state # "absent" => \E q \in Procs : bus'[s].config = ConfigOf[q]
           /\ \A q \in Procs : \A s \in held'[q] : bus'[s].state \in {"ready", "broken"}
<1>1. CASE Reap
  <2>1. /\ held' \in [Procs -> SUBSET Names] /\ \A q \in Procs : held'[q] \subseteq held[q]
        /\ publishers' \subseteq publishers /\ bus' = Unlinked(bus, held')
    BY Zenon, <1>1 DEF Reap, PortsInv, ShapeInv
  <2> QED
    BY Zenon, <2>1, UnlinkedKeeps
<1>2. CASE UNCHANGED <<held, bus, publishers>>
  <2>1. held' = held /\ bus' = bus /\ publishers' = publishers
    BY <1>2
  <2>2. /\ held' \in [Procs -> SUBSET Names] /\ DOMAIN bus' = Names
        /\ bus' = [s \in Names |-> bus'[s]]
    BY <2>1, Zenon DEF PortsInv, ShapeInv
  <2>3. ASSUME NEW s \in Names
        PROVE  /\ bus'[s] = [state |-> bus'[s].state, config |-> bus'[s].config, by |-> bus'[s].by]
               /\ bus'[s].state \in States
               /\ bus'[s].state = "ready" => \E q \in Procs : s \in held'[q]
               /\ bus'[s].state = "broken" => crashes' > 0
               /\ bus'[s].state = "creating" => bus'[s].by \in Procs
               /\ bus'[s].state # "absent" => \E q \in Procs : bus'[s].config = ConfigOf[q]
    BY ZenonT(60), <2>1 DEF PortsInv, ShapeInv, HoldInv, OriginInv
  <2>4. \A q \in Procs : \A s \in held'[q] : bus'[s].state \in {"ready", "broken"}
    BY Zenon, <2>1 DEF PortsInv, OriginInv
  <2> QED
    BY Zenon, <2>1, <2>2, <2>3, <2>4
<1> QED
  BY Zenon, <1>1, <1>2

-----------------------------------------------------------------------------
\* Every step keeps the invariant.
LEMMA NextPorts == PortsInv /\ [Next]_vars => PortsInv'
<1> SUFFICES ASSUME PortsInv, [Next]_vars PROVE PortsInv'
  BY Zenon
<1>0. proc \in [Procs -> Proc] /\ \A q \in Procs : proc[q] \in Proc
  BY Zenon DEF PortsInv, ShapeInv
<1>1. ASSUME NEW p \in Procs, run_provider(p) PROVE PortsInv'
  <2>1. /\ crashes' = crashes /\ (Reap \/ UNCHANGED <<held, bus, publishers>>)
        /\ proc' = [proc EXCEPT ![p].at = "opening"] /\ proc[p].at = "idle"
    BY Zenon, <1>1 DEF run_provider
  <2>2. /\ proc' \in [Procs -> Proc] /\ proc'[p].at = "opening" /\ proc'[p].next = 1
        /\ proc'[p].error = proc[p].error /\ \A q \in Procs : q # p => proc'[q] = proc[q]
    BY <1>0, <2>1 DEF Proc, Places, PortsInv, HoldInv
  <2>3. ShapeInv'
    BY Zenon, <2>1, <2>2, ReapKeeps DEF PortsInv, ShapeInv
  <2>4. HoldInv'
    <3>1. \A q \in Procs : held'[q] \subseteq held[q]
      BY Zenon, <2>1, ReapKeeps
    <3>2. publishers' \subseteq publishers
      BY Zenon, <2>1, ReapKeeps
    <3>3. \A s \in Names : bus'[s].state = "ready" => \E q \in Procs : s \in held'[q]
      BY Zenon, <2>1, ReapKeeps
    <3> QED
      BY <2>1, <2>2, <3>1, <3>2, <3>3 DEF PortsInv, HoldInv
  <2>5. OriginInv'
    <3>1. \A q \in Procs : proc'[q].at = "dead" => crashes' > 0
      BY Zenon, <2>1, <2>2 DEF PortsInv, OriginInv
    <3> QED
      BY Zenon, <2>1, <3>1, ReapKeeps DEF OriginInv
  <2>6. RemedyFits'
    BY <2>1, <2>2 DEF PortsInv, RemedyFits
  <2> QED
    BY Zenon, <2>3, <2>4, <2>5, <2>6 DEF PortsInv
<1>2. ASSUME NEW p \in Procs, first_use(p) PROVE PortsInv'
  <2>1. /\ UNCHANGED <<bus, held, publishers, crashes>> /\ proc[p].at \in {"idle", "failed"}
        /\ proc' = [proc EXCEPT ![p] = [Fresh EXCEPT !.at = "opening"]]
    BY Zenon, <1>2 DEF first_use
  <2>2. /\ proc' \in [Procs -> Proc] /\ proc'[p].at = "opening" /\ proc'[p].next = 1
        /\ proc'[p].error = "none" /\ \A q \in Procs : q # p => proc'[q] = proc[q]
    BY Zenon, <1>0, <2>1 DEF Proc, Places, Errors, Fresh
  <2>3. ShapeInv'
    BY ZenonT(40), <2>1, <2>2 DEF PortsInv, ShapeInv
  <2>4. HoldInv'
    BY <2>1, <2>2 DEF PortsInv, HoldInv
  <2>5. OriginInv'
    BY Zenon, <2>1, <2>2 DEF PortsInv, OriginInv
  <2>6. RemedyFits'
    BY Zenon, <2>1, <2>2 DEF PortsInv, RemedyFits
  <2> QED
    BY Zenon, <2>3, <2>4, <2>5, <2>6 DEF PortsInv
<1>3. ASSUME NEW p \in Procs, shared_node(p) PROVE PortsInv'
  <2>1. crashes' = crashes /\ Reap /\ proc' = proc
    BY Zenon, <1>3 DEF shared_node
  <2>2. ShapeInv'
    BY Zenon, <2>1, ReapKeeps DEF PortsInv, ShapeInv
  <2>3. HoldInv'
    <3>1. /\ \A q \in Procs : held'[q] \subseteq held[q]
          /\ publishers' \subseteq publishers
          /\ \A s \in Names : bus'[s].state = "ready" => \E q \in Procs : s \in held'[q]
      BY Zenon, <2>1, ReapKeeps
    <3> QED
      BY Zenon, <2>1, <3>1 DEF PortsInv, HoldInv
  <2>4. OriginInv'
    <3>1. \A q \in Procs : proc'[q].at = "dead" => crashes' > 0
      BY Zenon, <2>1 DEF PortsInv, OriginInv
    <3> QED
      BY Zenon, <2>1, <3>1, ReapKeeps DEF OriginInv
  <2>5. RemedyFits'
    BY Zenon, <2>1 DEF PortsInv, RemedyFits
  <2> QED
    BY Zenon, <2>2, <2>3, <2>4, <2>5 DEF PortsInv
<1>4. ASSUME NEW p \in Procs, open_service(p) PROVE PortsInv'
  <2> DEFINE s == Wanted(p)[proc[p].next]
  <2>1. /\ UNCHANGED <<publishers, crashes>> /\ Opening(p) /\ s \in Names
        /\ proc[p].at = "opening" /\ proc[p].next \in DOMAIN Wanted(p)
    BY Zenon, <1>4, WantedFacts DEF open_service, Opening
  <2>2. PICK out \in Outcomes(p, s) :
             \/ /\ out = "create"
                /\ bus' = [bus EXCEPT ![s] = [state |-> "creating", config |-> ConfigOf[p], by |-> p]]
                /\ UNCHANGED <<held, proc>>
             \/ /\ out \in {"created", "open"}
                /\ bus' = [bus EXCEPT ![s].state = "ready"]
                /\ held' = [held EXCEPT ![p] = @ \cup {s}]
                /\ proc' = [proc EXCEPT ![p].next = @ + 1]
             \/ out \notin {"create", "created", "open"} /\ Fails(p, open_error(out))
    BY Zenon, <1>4 DEF open_service
  <2> HIDE DEF s
  <2>3. CASE out = "create" /\ UNCHANGED <<held, proc>>
             /\ bus' = [bus EXCEPT ![s] = [state |-> "creating", config |-> ConfigOf[p], by |-> p]]
    <3>1. bus[s].state = "absent"
      BY Zenon, <2>1, <2>3, OutcomeFacts DEF PortsInv
    <3>2. /\ DOMAIN bus' = Names /\ bus' = [t \in Names |-> bus'[t]]
          /\ bus'[s] = [state |-> "creating", config |-> ConfigOf[p], by |-> p]
          /\ \A t \in Names : t # s => bus'[t] = bus[t]
      BY Zenon, <2>1, <2>3 DEF PortsInv, ShapeInv
    <3>3. ShapeInv'
      BY Zenon, <2>1, <2>3, <3>2 DEF PortsInv, ShapeInv, States
    <3>4. HoldInv'
      BY Zenon, <2>1, <2>3, <3>2 DEF PortsInv, HoldInv
    <3>5. OriginInv'
      <4>1. \A q \in Procs : s \notin held[q]
        BY Zenon, <3>1 DEF PortsInv, OriginInv
      <4>2. \A q \in Procs : \A t \in held[q] : t \in Names
        BY Zenon DEF PortsInv, ShapeInv
      <4> QED
        BY <2>1, <2>3, <3>2, <4>1, <4>2 DEF PortsInv, OriginInv
    <3>6. RemedyFits'
      BY Zenon, <2>1, <2>3 DEF PortsInv, RemedyFits
    <3> QED
      BY Zenon, <3>3, <3>4, <3>5, <3>6 DEF PortsInv
  <2>4. CASE /\ out \in {"created", "open"}
             /\ bus' = [bus EXCEPT ![s].state = "ready"]
             /\ held' = [held EXCEPT ![p] = @ \cup {s}]
             /\ proc' = [proc EXCEPT ![p].next = @ + 1]
    <3>1. bus[s].state \in {"creating", "ready"}
      BY Zenon, <2>1, <2>4, OutcomeFacts DEF PortsInv
    <3>2. /\ DOMAIN bus' = Names /\ bus' = [t \in Names |-> bus'[t]]
          /\ bus'[s] = [state |-> "ready", config |-> bus[s].config, by |-> bus[s].by]
          /\ \A t \in Names : t # s => bus'[t] = bus[t]
      BY <2>1, <2>4 DEF PortsInv, ShapeInv
    <3>3. /\ held' \in [Procs -> SUBSET Names] /\ held'[p] = held[p] \cup {s}
          /\ \A q \in Procs : q # p => held'[q] = held[q]
      BY <2>1, <2>4 DEF PortsInv, ShapeInv
    <3>4. /\ proc' \in [Procs -> Proc] /\ proc'[p].at = "opening" /\ proc'[p].next = proc[p].next + 1
          /\ proc'[p].next # 1 /\ proc'[p].error = proc[p].error
          /\ \A q \in Procs : q # p => proc'[q] = proc[q]
      <4>1. proc[p].next \in Nat /\ proc[p].next # 0
        BY <2>1, PortsAssumption DEF Wanted
      <4> QED
        BY <1>0, <2>1, <2>4, <4>1 DEF Proc
    <3>5. ShapeInv'
      BY <2>1, <3>2, <3>3, <3>4 DEF PortsInv, ShapeInv, States
    <3>6. HoldInv'
      <4>1. \A t \in Names : bus'[t].state = "ready" => \E q \in Procs : t \in held'[q]
        BY <3>2, <3>3 DEF PortsInv, HoldInv
      <4> QED
        BY <2>1, <3>3, <3>4, <4>1 DEF PortsInv, HoldInv
    <3>7. OriginInv'
      <4>1. \A q \in Procs : \A t \in held'[q] : bus'[t].state \in {"ready", "broken"}
        <5> SUFFICES ASSUME NEW q \in Procs, NEW t \in held'[q]
                     PROVE  bus'[t].state \in {"ready", "broken"}
          BY Zenon
        <5>1. t \in Names /\ (t = s \/ t \in held[q])
          BY Zenon, <3>3
        <5>2. CASE t = s
          BY <3>2, <5>2
        <5>3. CASE t # s
          <6>1. bus'[t] = bus[t] /\ t \in held[q]
            BY Zenon, <3>2, <5>1, <5>3
          <6> QED
            BY Zenon, <6>1 DEF PortsInv, OriginInv
        <5> QED
          BY Zenon, <5>2, <5>3
      <4> QED
        BY <2>1, <3>1, <3>2, <3>4, <4>1 DEF PortsInv, OriginInv
    <3>8. RemedyFits'
      BY <2>1, <3>4 DEF PortsInv, RemedyFits
    <3> QED
      BY Zenon, <3>5, <3>6, <3>7, <3>8 DEF PortsInv
  <2>5. CASE out \notin {"create", "created", "open"} /\ Fails(p, open_error(out))
    <3>1. open_error(out) \in Errors \ {"none"}
      BY Zenon DEF open_error, Errors
    <3>2. ASSUME open_error(out) = "config" PROVE \E q \in Procs : ConfigOf[q] # ConfigOf[p]
      <4>1. out = "mismatch"
        BY Zenon, <3>2 DEF open_error
      <4>2. bus[s].state = "ready" /\ bus[s].config # ConfigOf[p]
        BY Zenon, <2>1, <4>1, OutcomeFacts DEF PortsInv
      <4> QED
        BY Zenon, <2>1, <4>2 DEF PortsInv, OriginInv
    <3>3. ASSUME open_error(out) = "stale" PROVE crashes > 0
      <4>1. out \in {"corrupted", "hangs"}
        BY Zenon, <3>3 DEF open_error
      <4>2. bus[s].state = "broken" \/ (bus[s].state = "creating" /\ ~Alive(bus[s].by))
        BY Zenon, <2>1, <4>1, OutcomeFacts DEF PortsInv
      <4> QED
        BY Zenon, <2>1, <4>2 DEF PortsInv, OriginInv, Alive
    <3> QED
      BY Zenon, <2>1, <2>5, <3>1, <3>2, <3>3, FailsKeeps
  <2> QED
    BY Zenon, <2>2, <2>3, <2>4, <2>5
<1>5. ASSUME NEW p \in Procs, open_ports(p) PROVE PortsInv'
  <2>1. crashes' = crashes /\ Opening(p) /\ proc[p].at = "opening"
    BY Zenon, <1>5 DEF open_ports, Opening
  <2>2. CASE /\ proc' = [proc EXCEPT ![p].at = "open"] /\ UNCHANGED <<held, bus>>
             /\ publishers' = publishers \cup ({p} \cap Providers)
    <3>1. /\ proc' \in [Procs -> Proc] /\ proc'[p].at = "open" /\ proc'[p].error = proc[p].error
          /\ \A q \in Procs : q # p => proc'[q] = proc[q]
      BY ZenonT(40), <1>0, <2>2 DEF Proc, Places
    <3>2. ShapeInv'
      BY <2>1, <2>2, <3>1 DEF PortsInv, ShapeInv
    <3>3. HoldInv'
      BY <2>2, <3>1 DEF PortsInv, HoldInv
    <3>4. OriginInv'
      BY Zenon, <2>1, <2>2, <3>1 DEF PortsInv, OriginInv
    <3>5. RemedyFits'
      BY <2>1, <3>1 DEF PortsInv, RemedyFits
    <3> QED
      BY Zenon, <3>2, <3>3, <3>4, <3>5 DEF PortsInv
  <2>3. CASE Fails(p, "transport") /\ UNCHANGED publishers
    BY Zenon, <2>1, <2>3, FailsKeeps DEF Errors
  <2> QED
    BY Zenon, <1>5, <2>2, <2>3 DEF open_ports
<1>6. ASSUME NEW p \in Procs, request_shutdown(p) PROVE PortsInv'
  <2>1. /\ UNCHANGED <<bus, held, publishers, crashes>>
        /\ proc' = [proc EXCEPT ![p].stop = TRUE]
    BY Zenon, <1>6 DEF request_shutdown
  <2>2. /\ proc' \in [Procs -> Proc]
        /\ \A q \in Procs : /\ proc'[q].at = proc[q].at /\ proc'[q].next = proc[q].next
                             /\ proc'[q].error = proc[q].error
    BY Zenon, <1>0, <2>1 DEF Proc
  <2>3. ShapeInv'
    BY <2>1, <2>2 DEF PortsInv, ShapeInv
  <2>4. HoldInv'
    BY <2>1, <2>2 DEF PortsInv, HoldInv
  <2>5. OriginInv'
    BY <2>1, <2>2 DEF PortsInv, OriginInv
  <2>6. RemedyFits'
    BY <2>1, <2>2 DEF PortsInv, RemedyFits
  <2> QED
    BY Zenon, <2>3, <2>4, <2>5, <2>6 DEF PortsInv
<1>7. ASSUME NEW p \in Procs, release_ports(p) PROVE PortsInv'
  <2>1. /\ crashes' = crashes /\ publishers' = publishers \ {p} /\ bus' = Unlinked(bus, held')
        /\ proc' = [proc EXCEPT ![p] = Fresh]
    BY Zenon, <1>7 DEF release_ports
  <2>2. /\ held' \in [Procs -> SUBSET Names] /\ held'[p] = {}
        /\ \A q \in Procs : q # p => held'[q] = held[q]
    BY Zenon, <1>7 DEF release_ports, Dropped, PortsInv, ShapeInv
  <2>3. \A q \in Procs : held'[q] \subseteq held[q]
    BY Zenon, <2>2
  <2>4. /\ proc' \in [Procs -> Proc] /\ proc'[p].at = "idle" /\ proc'[p].next = 1
        /\ proc'[p].error = "none" /\ \A q \in Procs : q # p => proc'[q] = proc[q]
    BY Zenon, <1>0, <2>1 DEF Proc, Places, Errors, Fresh
  <2>5. ShapeInv'
    BY <2>1, <2>2, <2>3, <2>4, UnlinkedKeeps DEF PortsInv, ShapeInv
  <2>6. HoldInv'
    <3>1. \A s \in Names : bus'[s].state = "ready" => \E q \in Procs : s \in held'[q]
      BY Zenon, <2>1, <2>2, <2>3, UnlinkedKeeps
    <3> QED
      BY <2>1, <2>2, <2>4, <3>1 DEF PortsInv, HoldInv
  <2>7. OriginInv'
    <3>1. \A q \in Procs : proc'[q].at = "dead" => crashes' > 0
      BY Zenon, <2>1, <2>4 DEF PortsInv, OriginInv
    <3> QED
      BY Zenon, <2>1, <2>2, <2>3, <3>1, UnlinkedKeeps DEF OriginInv
  <2>8. RemedyFits'
    BY Zenon, <2>1, <2>4 DEF PortsInv, RemedyFits
  <2> QED
    BY Zenon, <2>5, <2>6, <2>7, <2>8 DEF PortsInv
<1>8. ASSUME NEW p \in Procs, Crash(p) PROVE PortsInv'
  <2>1. /\ crashes' = crashes + 1 /\ held' = held /\ publishers' = publishers
        /\ proc' = [proc EXCEPT ![p] = [Fresh EXCEPT !.at = "dead"]]
    BY Zenon, <1>8 DEF Crash
  <2>2. crashes' \in Nat /\ crashes' > 0
    BY <2>1 DEF PortsInv, ShapeInv
  <2>3. /\ proc' \in [Procs -> Proc] /\ proc'[p].at = "dead"
        /\ proc'[p].error = "none" /\ \A q \in Procs : q # p => proc'[q] = proc[q]
    BY Zenon, <1>0, <2>1 DEF Proc, Places, Errors, Fresh
  <2>4. PICK broken \in {{}, held[p]} :
          bus' = [s \in Names |-> IF s \in broken THEN [bus[s] EXCEPT !.state = "broken"] ELSE bus[s]]
    BY Zenon, <1>8 DEF Crash
  <2>5. /\ DOMAIN bus' = Names /\ bus' = [s \in Names |-> bus'[s]]
        /\ \A s \in Names : s \notin broken => bus'[s] = bus[s]
        /\ \A s \in broken : s \in Names => bus'[s] = [bus[s] EXCEPT !.state = "broken"]
    BY Zenon, <2>4
  <2>6. \A s \in broken : s \in held[p] /\ s \in Names /\ bus[s].state \in {"ready", "broken"}
    BY ZenonT(60) DEF PortsInv, ShapeInv, OriginInv
  <2>7. \A s \in broken : bus'[s] = [state |-> "broken", config |-> bus[s].config, by |-> bus[s].by]
    BY <2>5, <2>6 DEF PortsInv, ShapeInv
  <2>8. ShapeInv'
    BY <2>1, <2>2, <2>3, <2>5, <2>7 DEF PortsInv, ShapeInv, States
  <2>9. HoldInv'
    BY <2>1, <2>3, <2>5, <2>7 DEF PortsInv, HoldInv
  <2>10. OriginInv'
    <3>1. \A q \in Procs : \A s \in held[q] : s \in Names
      BY Zenon DEF PortsInv, ShapeInv
    <3>2. ASSUME NEW q \in Procs, NEW s \in held'[q] PROVE bus'[s].state \in {"ready", "broken"}
      <4>1. s \in held[q] /\ s \in Names
        BY Zenon, <2>1, <3>1
      <4>2. bus[s].state \in {"ready", "broken"}
        BY Zenon, <4>1 DEF PortsInv, OriginInv
      <4>3. bus'[s] = bus[s] \/ bus'[s].state = "broken"
        BY Zenon, <2>5, <2>7, <4>1
      <4> QED
        BY Zenon, <4>2, <4>3
    <3>3. ASSUME NEW s \in Names
          PROVE  /\ bus'[s].state = "creating" => bus'[s].by \in Procs
                 /\ bus'[s].state # "absent" => \E q \in Procs : bus'[s].config = ConfigOf[q]
      <4>1. CASE s \in broken
        <5>0. bus'[s] = [state |-> "broken", config |-> bus[s].config, by |-> bus[s].by]
          BY <2>7, <4>1, Zenon
        <5>1. bus'[s].state = "broken" /\ bus'[s].config = bus[s].config
          BY <5>0
        <5>2. bus[s].state # "absent"
          BY Zenon, <2>6, <4>1
        <5> QED
          BY Zenon, <5>1, <5>2 DEF PortsInv, OriginInv
      <4>2. CASE s \notin broken
        <5>1. bus'[s] = bus[s]
          BY Zenon, <2>5, <4>2
        <5> QED
          BY Zenon, <5>1 DEF PortsInv, OriginInv
      <4> QED
        BY Zenon, <4>1, <4>2
    <3> QED
      BY Zenon, <2>2, <3>2, <3>3 DEF OriginInv
  <2>11. RemedyFits'
    BY Zenon, <2>2, <2>3 DEF PortsInv, RemedyFits
  <2> QED
    BY Zenon, <2>8, <2>9, <2>10, <2>11 DEF PortsInv
<1>9. ASSUME Purge PROVE PortsInv'
  <2>1. /\ bus' = [s \in Names |-> Absent] /\ held' = [p \in Procs |-> {}] /\ publishers' = {}
        /\ proc' = [p \in Procs |-> Fresh] /\ crashes' = crashes
    BY Zenon, <1>9 DEF Purge
  <2>2. ShapeInv'
    BY Zenon, <2>1 DEF PortsInv, ShapeInv, Fresh, Absent, Proc, Places, Errors, States
  <2>3. HoldInv'
    BY Zenon, <2>1 DEF HoldInv, Fresh, Absent
  <2>4. OriginInv'
    BY Zenon, <2>1 DEF OriginInv, Fresh, Absent
  <2>5. RemedyFits'
    BY Zenon, <2>1 DEF RemedyFits, Fresh
  <2> QED
    BY Zenon, <2>2, <2>3, <2>4, <2>5 DEF PortsInv
<1>10. ASSUME UNCHANGED <<bus, held, publishers, proc, crashes>> PROVE PortsInv'
  <2>1. bus' = bus /\ held' = held /\ publishers' = publishers /\ proc' = proc /\ crashes' = crashes
    BY Zenon, <1>10
  <2>2. ShapeInv'
    BY <2>1, Zenon DEF PortsInv, ShapeInv
  <2>3. HoldInv'
    BY <2>1, Zenon DEF PortsInv, HoldInv
  <2>4. OriginInv'
    BY <2>1, Zenon DEF PortsInv, OriginInv
  <2>5. RemedyFits'
    BY <2>1, Zenon DEF PortsInv, RemedyFits
  <2> QED
    BY Zenon, <2>2, <2>3, <2>4, <2>5 DEF PortsInv
<1>11. ASSUME NEW p \in Procs, probe(p) \/ is_provider_connected(p) PROVE PortsInv'
  BY Zenon, <1>10, <1>11 DEF probe, is_provider_connected
<1>12. ASSUME UNCHANGED vars PROVE PortsInv'
  BY Zenon, <1>10, <1>12 DEF vars
<1> QED
  BY Zenon, <1>1, <1>2, <1>3, <1>4, <1>5, <1>6, <1>7, <1>8, <1>9, <1>11, <1>12 DEF Next

\* The invariant holds throughout.
LEMMA PortsAlways == Spec => []PortsInv
BY InitPorts, NextPorts, PTL DEF Spec

\* The lengths of what a process opens.
LEMMA WantedTypes ==
    ASSUME NEW p \in Procs
    PROVE  /\ Wanted(p) \in Seq(Names) /\ Len(Wanted(p)) \in Nat
           /\ DOMAIN Wanted(p) = 1..Len(Wanted(p))
           /\ p \in Providers => Wanted(p) = Services
<1>1. Services \in Seq(Names) /\ Viewed \in Seq(Names)
  BY PortsAssumption DEF Names
<1>2. Wanted(p) \in Seq(Names)
  BY Zenon, <1>1 DEF Wanted
<1>3. p \in Providers => Wanted(p) = Services
  BY Zenon, PortsAssumption DEF Wanted
<1> QED
  BY <1>2, <1>3

\* A process that is not where it was, or has just started.
LEMMA FreshProgress ==
    ASSUME NEW p \in Procs, NEW r, NEW h, NEW publishes, r.attempt = 0, r.next = 1,
           r.at \in {"idle", "opening", "dead"}
    PROVE  Progress(p, r, h, publishes)
<1>1. 0 \in 0..Attempts /\ 1 \in 1..(Len(Wanted(p)) + 1)
  BY WantedTypes, PortsAssumption
<1>2. 1..(1 - 1) = {}
  OBVIOUS
<1> QED
  BY <1>1, <1>2 DEF Progress

LEMMA InitServe == Init => ServeInv
<1> SUFFICES ASSUME Init PROVE ServeInv
  BY Zenon
<1>1. \A p \in Procs : Progress(p, proc[p], held[p], p \in publishers)
  BY FreshProgress DEF Init, Fresh
<1> QED
  BY Zenon, <1>1 DEF Init, ServeInv, ProbeHidesNoProvider

\* A step of one process, in which the living others keep what they have.
LEMMA ServeFrame ==
    ASSUME ServeInv, NEW p \in Procs,
           \A q \in Procs : q # p => proc'[q] = proc[q],
           \A q \in Procs : q # p /\ Alive(q) => held'[q] = held[q] /\ (q \in publishers => q \in publishers'),
           publishers' \subseteq Providers, asking' \subseteq Consumers, answer' = answer,
           Progress(p, proc'[p], held'[p], p \in publishers')
    PROVE  ServeInv'
<1>1. ASSUME NEW q \in Procs, q # p PROVE Progress(q, proc'[q], held'[q], q \in publishers')
  <2>1. proc'[q] = proc[q] /\ Progress(q, proc[q], held[q], q \in publishers)
    BY Zenon, <1>1 DEF ServeInv
  <2>2. CASE Alive(q)
    BY Zenon, <1>1, <2>1, <2>2 DEF Progress
  <2>3. CASE ~Alive(q)
    <3>1. proc[q].at = "dead"
      BY Zenon, <2>3 DEF Alive
    <3> QED
      BY <2>1, <3>1 DEF Progress
  <2> QED
    BY Zenon, <2>2, <2>3
<1>2. \A q \in Procs : Progress(q, proc'[q], held'[q], q \in publishers')
  BY Zenon, <1>1
<1> QED
  BY Zenon, <1>2 DEF ServeInv, ProbeHidesNoProvider

\* A failed attempt starts again from the first service, within the budget, or ends.
LEMMA FailsServe ==
    ASSUME PortsInv, ServeInv, NEW p \in Procs, NEW error, Opening(p), Fails(p, error),
           UNCHANGED <<publishers, asking, answer>>
    PROVE  ServeInv'
<1>1. /\ proc \in [Procs -> Proc] /\ proc[p] \in Proc /\ proc[p].at = "opening"
      /\ Progress(p, proc[p], held[p], p \in publishers)
  BY Zenon DEF PortsInv, ShapeInv, ServeInv, Opening
<1>2. \A q \in Procs : q # p => proc'[q] = proc[q] /\ held'[q] = held[q]
  BY Zenon, <1>1 DEF Fails, Dropped, PortsInv, ShapeInv
<1>3. Progress(p, proc'[p], held'[p], p \in publishers')
  <2>1. CASE proc' = [proc EXCEPT ![p].next = 1, ![p].attempt = NextAttempt(@)] /\ Budget(proc[p].attempt)
    <3>1. proc'[p].next = 1 /\ proc'[p].attempt = proc[p].attempt + 1 /\ proc'[p].at = "opening"
      BY <1>1, <2>1 DEF Proc, NextAttempt
    <3>2. proc[p].attempt \in Nat /\ proc[p].attempt < Attempts
      BY Zenon, <1>1, <2>1 DEF Proc, Budget
    <3>3. /\ proc'[p].attempt \in 0..Attempts /\ proc'[p].next \in 1..(Len(Wanted(p)) + 1)
          /\ 1..(proc'[p].next - 1) = {}
      BY <3>1, <3>2, WantedTypes, PortsAssumption
    <3> QED
      BY Zenon, <3>1, <3>3 DEF Progress
  <2>2. CASE proc' = [proc EXCEPT ![p].at = "failed", ![p].error = error]
    <3>1. proc'[p].next = proc[p].next /\ proc'[p].attempt = proc[p].attempt /\ proc'[p].at = "failed"
      BY <1>1, <2>2 DEF Proc
    <3> QED
      BY <1>1, <3>1 DEF Progress
  <2> QED
    BY Zenon, <2>1, <2>2 DEF Fails
<1> QED
  BY Zenon, <1>2, <1>3, ServeFrame DEF ServeInv

\* Reaping leaves the processes that live what they have.
LEMMA ReapServe ==
    ASSUME Reap \/ UNCHANGED <<held, bus, publishers>>
    PROVE  \A q \in Procs : Alive(q) => held'[q] = held[q] /\ (q \in publishers => q \in publishers')
  BY Zenon DEF Reap

\* A probe denies a provider only when none serves: an open one has its publisher, and a
\* tag that keeps the response service on the bus.
LEMMA ProbeIsTrue ==
    ASSUME PortsInv, ServeInv, NEW p \in Consumers, Probed(p) = "false"
    PROVE  ~Served
<1> SUFFICES ASSUME NEW q \in Providers, proc[q].at = "open" PROVE FALSE
  BY Zenon DEF Served
<1>1. q \in Procs /\ q \in publishers /\ "resp" \in held[q] /\ "resp" \in Names
  BY Zenon, PortsAssumption DEF ServeInv, Progress, Procs, Names
<1>2. bus["resp"].state # "absent"
  BY <1>1 DEF PortsInv, OriginInv
<1>3. Connected = "true"
  BY Zenon, <1>1 DEF Connected
<1> QED
  BY <1>2, <1>3 DEF Probed

LEMMA NextServe == PortsInv /\ ServeInv /\ [Next]_vars => ServeInv'
<1> SUFFICES ASSUME PortsInv, ServeInv, [Next]_vars PROVE ServeInv'
  BY Zenon
<1>0. /\ proc \in [Procs -> Proc] /\ \A q \in Procs : proc[q] \in Proc
      /\ \A q \in Procs : Progress(q, proc[q], held[q], q \in publishers)
      /\ publishers \subseteq Providers /\ asking \subseteq Consumers
      /\ held \in [Procs -> SUBSET Names]
  BY Zenon DEF PortsInv, ShapeInv, ServeInv
<1>1. ASSUME NEW p \in Procs, run_provider(p) PROVE ServeInv'
  <2>1. /\ Reap \/ UNCHANGED <<held, bus, publishers>>
        /\ proc' = [proc EXCEPT ![p].at = "opening"] /\ proc[p].at = "idle" /\ proc[p].next = 1
        /\ asking' = asking /\ answer' = answer
    BY Zenon, <1>1 DEF run_provider, probing, PortsInv, HoldInv
  <2>2. /\ proc'[p].at = "opening" /\ proc'[p].next = 1 /\ proc'[p].attempt = proc[p].attempt
        /\ \A q \in Procs : q # p => proc'[q] = proc[q]
    BY Zenon, <1>0, <2>1 DEF Proc
  <2>3. 1..(proc'[p].next - 1) = {}
    BY <2>2
  <2>4. Progress(p, proc'[p], held'[p], p \in publishers')
    BY <1>0, <2>1, <2>2, <2>3 DEF Progress
  <2>5. publishers' \subseteq Providers
    BY Zenon, <1>0, <2>1 DEF Reap
  <2> QED
    BY Zenon, <1>0, <2>1, <2>2, <2>4, <2>5, ReapServe, ServeFrame
<1>2. ASSUME NEW p \in Procs, first_use(p) PROVE ServeInv'
  <2>1. /\ UNCHANGED <<held, publishers, asking, answer>>
        /\ proc' = [proc EXCEPT ![p] = [Fresh EXCEPT !.at = "opening"]]
    BY Zenon, <1>2 DEF first_use, probing
  <2>2. /\ proc'[p].at = "opening" /\ proc'[p].next = 1 /\ proc'[p].attempt = 0
        /\ \A q \in Procs : q # p => proc'[q] = proc[q]
    BY Zenon, <1>0, <2>1 DEF Fresh
  <2>3. Progress(p, proc'[p], held'[p], p \in publishers')
    BY Zenon, <2>2, FreshProgress
  <2> QED
    BY Zenon, <1>0, <2>1, <2>2, <2>3, ServeFrame
<1>3. ASSUME NEW p \in Procs, shared_node(p) PROVE ServeInv'
  <2>1. Reap /\ proc' = proc /\ asking' = asking /\ answer' = answer
    BY Zenon, <1>3 DEF shared_node, probing
  <2>2. Progress(p, proc'[p], held'[p], p \in publishers')
    <3>1. CASE Alive(p)
      BY Zenon, <1>0, <2>1, <3>1, ReapServe DEF Progress
    <3>2. CASE proc[p].at = "dead"
      BY <1>0, <2>1, <3>2 DEF Progress
    <3> QED
      BY Zenon, <3>1, <3>2 DEF Alive
  <2>3. publishers' \subseteq Providers
    BY Zenon, <1>0, <2>1 DEF Reap
  <2> QED
    BY Zenon, <1>0, <2>1, <2>2, <2>3, ReapServe, ServeFrame
<1>4. ASSUME NEW p \in Procs, open_service(p) PROVE ServeInv'
  <2> DEFINE s == Wanted(p)[proc[p].next]
  <2>1. /\ UNCHANGED <<publishers, asking, answer>> /\ Opening(p)
        /\ proc[p].at = "opening" /\ proc[p].next \in DOMAIN Wanted(p)
    BY Zenon, <1>4 DEF open_service, Opening, probing
  <2>2. PICK out \in Outcomes(p, s) :
             \/ UNCHANGED <<held, proc>>
             \/ /\ held' = [held EXCEPT ![p] = @ \cup {s}]
                /\ proc' = [proc EXCEPT ![p].next = @ + 1]
             \/ Fails(p, open_error(out))
    BY Zenon, <1>4 DEF open_service
  <2>3. CASE UNCHANGED <<held, proc>>
    BY Zenon, <1>0, <2>1, <2>3, ServeFrame
  <2>4. CASE held' = [held EXCEPT ![p] = @ \cup {s}] /\ proc' = [proc EXCEPT ![p].next = @ + 1]
    <3>1. /\ held'[p] = held[p] \cup {s} /\ \A q \in Procs : q # p => proc'[q] = proc[q] /\ held'[q] = held[q]
          /\ proc'[p].at = "opening" /\ proc'[p].next = proc[p].next + 1 /\ proc'[p].attempt = proc[p].attempt
      BY Zenon, <1>0, <2>1, <2>4 DEF Proc
    <3>2. /\ proc[p].next \in 1..Len(Wanted(p)) /\ Len(Wanted(p)) \in Nat
          /\ proc[p].attempt \in 0..Attempts
          /\ \A i \in 1..(proc[p].next - 1) : Wanted(p)[i] \in held[p]
      BY <1>0, <2>1, WantedTypes DEF Progress
    <3>3. /\ proc'[p].next \in 1..(Len(Wanted(p)) + 1)
          /\ \A i \in 1..(proc'[p].next - 1) : i \in 1..(proc[p].next - 1) \/ i = proc[p].next
      BY <3>1, <3>2
    <3>4. Progress(p, proc'[p], held'[p], p \in publishers')
      BY <3>1, <3>2, <3>3 DEF Progress
    <3> QED
      BY Zenon, <1>0, <2>1, <3>1, <3>4, ServeFrame
  <2>5. CASE Fails(p, open_error(out))
    BY Zenon, <2>1, <2>5, FailsServe
  <2> QED
    BY Zenon, <2>2, <2>3, <2>4, <2>5
<1>5. ASSUME NEW p \in Procs, open_ports(p) PROVE ServeInv'
  <2>1. /\ UNCHANGED <<asking, answer>> /\ Opening(p) /\ proc[p].at = "opening"
        /\ proc[p].next > Len(Wanted(p))
    BY Zenon, <1>5 DEF open_ports, Opening, probing
  <2>2. CASE /\ proc' = [proc EXCEPT ![p].at = "open"] /\ UNCHANGED <<held, bus>>
             /\ publishers' = publishers \cup ({p} \cap Providers)
    <3>1. /\ proc'[p].at = "open" /\ proc'[p].next = proc[p].next /\ proc'[p].attempt = proc[p].attempt
          /\ \A q \in Procs : q # p => proc'[q] = proc[q]
      BY Zenon, <1>0, <2>2 DEF Proc
    <3>2. \A i \in 1..Len(Wanted(p)) : Wanted(p)[i] \in held[p]
      BY <1>0, <2>1, WantedTypes DEF Progress
    <3>3. p \in Providers => Names \subseteq held[p]
      BY Zenon, <3>2, WantedTypes DEF Names
    <3>4. Progress(p, proc'[p], held'[p], p \in publishers')
      <4>1. p \in Providers => p \in publishers'
        BY Zenon, <2>2
      <4> QED
        BY <1>0, <2>2, <3>1, <3>3, <4>1 DEF Progress
    <3> QED
      BY Zenon, <1>0, <2>1, <2>2, <3>1, <3>4, ServeFrame
  <2>3. CASE Fails(p, "transport") /\ UNCHANGED publishers
    BY Zenon, <2>1, <2>3, FailsServe
  <2> QED
    BY Zenon, <1>5, <2>2, <2>3 DEF open_ports
<1>6. ASSUME NEW p \in Procs, request_shutdown(p) PROVE ServeInv'
  <2>1. /\ UNCHANGED <<held, publishers, asking, answer>> /\ proc' = [proc EXCEPT ![p].stop = TRUE]
    BY Zenon, <1>6 DEF request_shutdown, probing
  <2>2. /\ \A q \in Procs : q # p => proc'[q] = proc[q]
        /\ proc'[p].at = proc[p].at /\ proc'[p].next = proc[p].next /\ proc'[p].attempt = proc[p].attempt
    BY Zenon, <1>0, <2>1 DEF Proc
  <2>3. Progress(p, proc'[p], held'[p], p \in publishers')
    BY <1>0, <2>1, <2>2 DEF Progress
  <2> QED
    BY Zenon, <1>0, <2>1, <2>2, <2>3, ServeFrame
<1>7. ASSUME NEW p \in Procs, release_ports(p) PROVE ServeInv'
  <2>1. /\ publishers' = publishers \ {p} /\ proc' = [proc EXCEPT ![p] = Fresh] /\ UNCHANGED <<asking, answer>>
        /\ held' = [held EXCEPT ![p] = {}]
    BY Zenon, <1>7 DEF release_ports, Dropped, probing
  <2>2. /\ proc'[p].at = "idle" /\ proc'[p].next = 1 /\ proc'[p].attempt = 0
        /\ \A q \in Procs : q # p => proc'[q] = proc[q] /\ held'[q] = held[q] /\ (q \in publishers => q \in publishers')
    BY Zenon, <1>0, <2>1 DEF Fresh
  <2>3. Progress(p, proc'[p], held'[p], p \in publishers')
    BY Zenon, <2>2, FreshProgress
  <2>4. publishers' \subseteq Providers
    BY Zenon, <1>0, <2>1
  <2> QED
    BY Zenon, <1>0, <2>1, <2>2, <2>3, <2>4, ServeFrame
<1>8. ASSUME NEW p \in Procs, Crash(p) PROVE ServeInv'
  <2>1. /\ UNCHANGED <<held, publishers, answer>> /\ asking' = asking \ {p}
        /\ proc' = [proc EXCEPT ![p] = [Fresh EXCEPT !.at = "dead"]]
    BY Zenon, <1>8 DEF Crash
  <2>2. /\ proc'[p].at = "dead" /\ proc'[p].next = 1 /\ proc'[p].attempt = 0
        /\ \A q \in Procs : q # p => proc'[q] = proc[q]
    BY Zenon, <1>0, <2>1 DEF Fresh
  <2>3. Progress(p, proc'[p], held'[p], p \in publishers')
    BY Zenon, <2>2, FreshProgress
  <2>4. asking' \subseteq Consumers
    BY Zenon, <1>0, <2>1
  <2> QED
    BY Zenon, <1>0, <2>1, <2>2, <2>3, <2>4, ServeFrame
<1>9. ASSUME Purge PROVE ServeInv'
  <2>1. publishers' = {} /\ proc' = [p \in Procs |-> Fresh] /\ UNCHANGED <<asking, answer>>
    BY Zenon, <1>9 DEF Purge, probing
  <2>2. \A q \in Procs : Progress(q, proc'[q], held'[q], q \in publishers')
    <3> SUFFICES ASSUME NEW q \in Procs PROVE Progress(q, proc'[q], held'[q], q \in publishers')
      BY Zenon
    <3>1. proc'[q].at = "idle" /\ proc'[q].next = 1 /\ proc'[q].attempt = 0
      BY Zenon, <2>1 DEF Fresh
    <3> QED
      BY Zenon, <3>1, FreshProgress
  <2> QED
    BY Zenon, <1>0, <2>1, <2>2 DEF ServeInv, ProbeHidesNoProvider
<1>10. ASSUME NEW p \in Procs, probe(p) PROVE ServeInv'
  BY Zenon, <1>10, ServeFrame DEF probe, ServeInv
<1>11. ASSUME NEW p \in Procs, is_provider_connected(p) PROVE ServeInv'
  <2>1. /\ UNCHANGED <<held, publishers, proc>> /\ asking' = asking \ {p} /\ p \in Consumers
        /\ answer' = [said |-> Probed(p), served |-> Served]
    BY Zenon, <1>0, <1>11 DEF is_provider_connected
  <2>2. ProbeHidesNoProvider'
    <3>1. answer'.said = Probed(p) /\ answer'.served = Served
      BY Zenon, <2>1
    <3> QED
      BY Zenon, <2>1, <3>1, ProbeIsTrue DEF ProbeHidesNoProvider
  <2> QED
    BY Zenon, <1>0, <2>1, <2>2 DEF ServeInv
<1>12. ASSUME UNCHANGED vars PROVE ServeInv'
  BY Zenon, <1>0, <1>12 DEF vars, ServeInv, ProbeHidesNoProvider
<1> QED
  BY Zenon, <1>1, <1>2, <1>3, <1>4, <1>5, <1>6, <1>7, <1>8, <1>9, <1>10, <1>11, <1>12 DEF Next

\* The opening of a channel, for any processes, services and budget of attempts: a failed
\* opening leaves no tag and no port, its error names the remedy that applies, the
\* attempts stay within their budget, and the probe denies no provider that serves
\* (retry_open, open_error, is_provider_connected).
THEOREM PortsAreSound == Spec => []PortsSound
<1>1. Spec => []ServeInv
  BY InitServe, NextServe, PortsAlways, PTL DEF Spec
<1>2. PortsInv /\ ServeInv => PortsSound
  <2> SUFFICES ASSUME PortsInv, ServeInv PROVE PortsSound
    BY Zenon
  <2>1. TypeOK
    BY Zenon DEF TypeOK, PortsInv, ShapeInv, ServeInv, Progress
  <2>2. FailedHoldsNothing
    BY Zenon DEF PortsInv, HoldInv, FailedHoldsNothing, Opening
  <2> QED
    BY Zenon, <2>1, <2>2 DEF PortsInv, ServeInv, PortsSound
<1> QED
  BY <1>1, <1>2, PortsAlways, PTL
=============================================================================
