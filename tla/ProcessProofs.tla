----------------------------- MODULE ProcessProofs -----------------------------
(***************************************************************************)
(* Proofs about what the tasks and threads of one process share, for any   *)
(* number of them and of their steps: the wake-ups of the receive loop     *)
(* (Wakeup), the gateway of a Node.js addon (Gateway), the locator         *)
(* (Locator), the pool of a Node.js binding (NodePool) and the threads of  *)
(* the monitor (ObserverProcess).  The last four are instances, and no     *)
(* fact is shared among the five: a name two of them have in common is     *)
(* arbitrary in each.                                                      *)
(***************************************************************************)
EXTENDS Wakeup, Integers, Sequences, FiniteSets, FiniteSetTheorems, TLAPS

(* A leaf that names no prover is tried with these, one after the other.   *)
USE SMT, ZenonT(30), SMTT(30), Z3

CONSTANTS
    MaxRegistrations, MaxInits, MaxShutdowns,             \* the gateway
    Getters, TypeOf, Registered, MaxGets, MaxRegisters,   \* the locator
    Calls, Endless, Threads, MaxRetries,                  \* the pool
    Sinks, TRACE_QUEUE, RECENT_KEEP, trace_sample_rate, MaxCompleted   \* the monitor

VARIABLES
    phase, bridge, guard, js, proxy, taken, inits, shutdowns, queued, sealed, threads, cancelled,
    entry, cached, built, registers, get,
    task, dispatch, registered, joins, on, retries, out,
    live, sink, flag, slot, handlers, polling, main, obs, writer, screen, traced, hand, written, failed, dropped, recent

Gate == INSTANCE Gateway
Loc == INSTANCE Locator
Pool == INSTANCE NodePool
Mon == INSTANCE ObserverProcess

(* What Append does to a sequence.                                         *)
LEMMA Appended ==
    ASSUME NEW S, NEW s \in Seq(S), NEW e \in S
    PROVE  /\ Append(s, e) \in Seq(S) /\ Append(s, e) # <<>>
           /\ Len(s) \in Nat /\ Len(Append(s, e)) = Len(s) + 1
           /\ DOMAIN Append(s, e) = DOMAIN s \cup {Len(s) + 1}
           /\ \A i \in DOMAIN s : Append(s, e)[i] = s[i]
           /\ Append(s, e)[Len(s) + 1] = e
  OBVIOUS

(* What an assignment to one element does to a sequence.                   *)
LEMMA Assigned ==
    ASSUME NEW S, NEW s \in Seq(S), NEW k \in DOMAIN s, NEW e \in S
    PROVE  /\ [s EXCEPT ![k] = e] \in Seq(S) /\ Len([s EXCEPT ![k] = e]) = Len(s)
           /\ DOMAIN [s EXCEPT ![k] = e] = DOMAIN s
           /\ [s EXCEPT ![k] = e][k] = e
           /\ \A i \in DOMAIN s : i # k => [s EXCEPT ![k] = e][i] = s[i]
  OBVIOUS

(* What is left of a queue when its head is taken.                         *)
LEMMA Taken ==
    ASSUME NEW S, NEW s \in Seq(S), s # <<>>
    PROVE  /\ Head(s) \in S /\ Tail(s) \in Seq(S) /\ 1 \in DOMAIN s /\ Head(s) = s[1]
           /\ \A i \in DOMAIN Tail(s) : i \in Nat /\ i + 1 \in DOMAIN s /\ i + 1 # 1 /\ Tail(s)[i] = s[i + 1]
  OBVIOUS

-----------------------------------------------------------------------------
(* The receive loop, for any number of senders, any window and any longer  *)
(* spin budget.                                                            *)

(* A sender inside the window may skip: something then wakes the loop, or  *)
(* did not reach it, or the loop still spins and began to after the stamp. *)
Covered ==
    \/ stamp >= Window \/ event \/ lost
    \/ \E t \in Senders : sender[t].at = "notify"
    \/ loop.at \in {"setup", "ended"}
    \/ loop.at = "poll" /\ ~loop.spun /\ loop.idle =< stamp

LoopStates ==
    [at : {"setup", "poll", "parked", "drain", "signalled", "ended"},
     spun : BOOLEAN, idle : Nat, notified : BOOLEAN, ticks : Nat]

(* The types of what the ages are compared with.                           *)
WakeTypes ==
    /\ stamp \in Nat
    /\ sender \in [Senders -> [at : {"idle", "published", "store", "notify"}, lag : Nat]]
    /\ loop \in LoopStates
    /\ loop.at = "setup" => ~loop.spun

WakeInv == WakeTypes /\ Covered /\ SamplesAreAnnounced

(* No notification was ever sent, and the loop is not blocked.             *)
LEMMA InitWake == Init => WakeInv
  BY TimesAssumption DEF Init, WakeInv, LoopStates, WakeTypes, Covered, SamplesAreAnnounced, NEVER

(* Time ages the stamp and the spin of the loop alike: a spin that began   *)
(* after the stamp is no older, and a saturated stamp is out of the window.*)
LEMMA TickWake == WakeInv /\ Tick => WakeInv'
<1> SUFFICES ASSUME WakeInv, Tick PROVE WakeInv'
  OBVIOUS
<1> USE DEF WakeInv, LoopStates
<1>1. /\ stamp' \in Nat /\ (stamp >= Window => stamp' >= Window)
      /\ stamp' >= Window \/ stamp' = stamp + 1
  BY TimesAssumption DEF Tick, WakeTypes, Sat, NEVER
<1>2. sender' \in [Senders -> [at : {"idle", "published", "store", "notify"}, lag : Nat]]
      /\ \A t \in Senders : sender'[t].at = sender[t].at
  BY TimesAssumption DEF Tick, WakeTypes, Sat
<1>3. /\ loop' \in LoopStates
      /\ loop'.at = loop.at /\ loop'.spun = loop.spun /\ loop'.idle =< loop.idle + 1
  BY TimesAssumption DEF Tick, WakeTypes, Sat
<1>4. UNCHANGED <<queue, event, lost>>
  BY DEF Tick
<1>5. WakeTypes'
  BY <1>1, <1>2, <1>3 DEF WakeTypes
<1>6. Covered'
  BY <1>1, <1>2, <1>3, <1>4, TimesAssumption DEF Covered, WakeTypes
<1>7. SamplesAreAnnounced'
  BY <1>2, <1>3, <1>4 DEF SamplesAreAnnounced
<1> QED
  BY Zenon, <1>5, <1>6, <1>7

(* A step of a sender: it is on its way to a notification, skips one that  *)
(* is not needed, or has sent it.                                          *)
LEMMA SenderWake ==
    ASSUME WakeInv, NEW t \in Senders, Publish(t) \/ ReadStamp(t) \/ StoreStamp(t) \/ Notify(t)
    PROVE  WakeInv'
<1> USE DEF WakeInv, LoopStates
<1>1. CASE Publish(t)
  BY <1>1 DEF Publish, At, WakeTypes, Covered, SamplesAreAnnounced
<1>2. CASE ReadStamp(t)
  <2>1. WakeTypes' /\ UNCHANGED <<queue, event, lost, stamp, loop>>
    BY <1>2 DEF ReadStamp, At, WakeTypes
  <2>2. \A u \in Senders : u # t => sender'[u] = sender[u]
    BY <1>2 DEF ReadStamp, At, WakeTypes
  <2>3. sender[t].at = "published" /\ (stamp < Window \/ sender'[t].at = "store")
    BY <1>2 DEF ReadStamp, At, WakeTypes
  <2>4. Covered'
    BY <2>1, <2>2, <2>3 DEF Covered
  <2>5. ASSUME loop.at = "parked", stamp < Window PROVE event \/ lost \/ \E u \in Senders : u # t /\ sender[u].at = "notify"
    BY <2>5, <2>3, TimesAssumption DEF Covered, WakeTypes
  <2>6. SamplesAreAnnounced'
    BY <2>1, <2>2, <2>3, <2>5 DEF SamplesAreAnnounced
  <2> QED
    BY Zenon, <2>1, <2>4, <2>6
<1>3. CASE StoreStamp(t)
  BY <1>3 DEF StoreStamp, At, WakeTypes, Covered, SamplesAreAnnounced
<1>4. CASE Notify(t)
  BY <1>4 DEF Notify, At, WakeTypes, Covered, SamplesAreAnnounced
<1> QED
  BY Zenon, <1>1, <1>2, <1>3, <1>4

(* A step of the loop: it gives up spinning only when the window of every  *)
(* earlier stamp is over, and blocks only when it has found nothing.       *)
LEMMA LoopWake == WakeInv /\ (Loop \/ ReceiveError) => WakeInv'
<1> SUFFICES ASSUME WakeInv, Loop \/ ReceiveError PROVE WakeInv'
  OBVIOUS
<1> USE DEF WakeInv, LoopStates
<1>1. CASE Setup
  <2>1. /\ loop' \in LoopStates
        /\ UNCHANGED <<stamp, sender, event, lost, queue>> /\ loop.at = "setup"
        /\ loop'.at \in {"poll", "ended"} /\ loop'.idle = 0 /\ loop'.spun = loop.spun
    <3>1. PICK at \in {"poll", "ended"} : loop' = [loop EXCEPT !.at = at, !.idle = 0]
      BY Zenon, <1>1 DEF Setup
    <3> QED
      BY Zenon, <1>1, <3>1 DEF Setup, WakeTypes
  <2> QED
    BY <2>1 DEF WakeTypes, Covered, SamplesAreAnnounced
<1>2. CASE Stopped
  <2>1. /\ loop' \in LoopStates
        /\ UNCHANGED <<stamp, sender, event, lost, queue>> /\ loop'.at = "ended"
    BY <1>2 DEF Stopped, WakeTypes
  <2> QED
    BY <2>1 DEF WakeTypes, Covered, SamplesAreAnnounced
<1>3. CASE Receive
  <2>1. /\ loop' \in LoopStates
        /\ UNCHANGED <<stamp, sender, event>>
        /\ loop'.at \in {"poll", "ended"} /\ loop'.idle = 0 /\ ~loop'.spun
    <3> DEFINE n == (loop.ticks + 1) % SignalCheck
               at == IF ChecksSignal(n) /\ signal THEN "ended" ELSE "poll"
    <3>1. n \in Nat
      BY SignalAssumption DEF WakeTypes
    <3>2. at \in {"poll", "ended"}
      OBVIOUS
    <3>3. loop' = [loop EXCEPT !.spun = FALSE, !.idle = 0, !.ticks = n, !.at = at]
      BY Zenon, <1>3 DEF Receive
    <3>4. UNCHANGED <<stamp, sender, event>>
      BY Zenon, <1>3 DEF Receive
    <3> HIDE DEF n, at
    <3> QED
      BY Zenon, <3>1, <3>2, <3>3, <3>4 DEF WakeTypes
  <2> QED
    BY <2>1 DEF WakeTypes, Covered, SamplesAreAnnounced
<1>4. CASE ReceiveError
  <2>1. /\ loop' \in LoopStates
        /\ UNCHANGED <<stamp, sender, event, lost, queue>> /\ loop'.at = "poll"
        /\ loop'.idle = 0 /\ ~loop'.spun
    BY Zenon, <1>4 DEF ReceiveError, WakeTypes
  <2> QED
    BY <2>1 DEF WakeTypes, Covered, SamplesAreAnnounced
<1>5. CASE Spin
  <2>1. /\ loop' \in LoopStates
        /\ UNCHANGED <<stamp, sender, event, lost, queue>> /\ loop.at = "poll"
        /\ loop'.at = "poll" /\ loop'.spun /\ loop.idle >= SpinTime
    BY Zenon, <1>5 DEF Spin, WakeTypes, BudgetSpent
  <2> QED
    BY <2>1, TimesAssumption DEF WakeTypes, Covered, SamplesAreAnnounced
<1>6. CASE Park
  <2>1. /\ loop' \in LoopStates
        /\ UNCHANGED <<stamp, sender, event, lost, queue>> /\ loop.at = "poll"
        /\ loop'.at = "parked" /\ loop.spun /\ queue = 0
    BY <1>6 DEF Park, WakeTypes
  <2> QED
    BY <2>1 DEF WakeTypes, Covered, SamplesAreAnnounced
<1>7. CASE Return
  <2>1. /\ loop' \in LoopStates
        /\ UNCHANGED <<stamp, sender, event, lost, queue>>
        /\ loop.at = "parked" /\ loop'.at \in {"drain", "signalled"}
    BY Zenon, <1>7 DEF Return, WakeTypes
  <2> QED
    BY <2>1 DEF WakeTypes, Covered, SamplesAreAnnounced
<1>8. CASE Drain
  <2>1. /\ loop' \in LoopStates
        /\ UNCHANGED <<stamp, sender, queue>>
        /\ lost' = (~loop.notified /\ (lost \/ event)) /\ loop.at \in {"drain", "signalled"}
        /\ loop'.at = "poll" /\ loop'.idle = 0 /\ loop'.spun = ~loop.notified
    BY Zenon, <1>8 DEF Drain, WakeTypes
  <2> QED
    BY <2>1 DEF WakeTypes, Covered, SamplesAreAnnounced
<1> QED
  BY Zenon, <1>1, <1>2, <1>3, <1>4, <1>5, <1>6, <1>7, <1>8 DEF Loop

(* Every step keeps the invariant.                                         *)
LEMMA NextWake == WakeInv /\ [Next]_vars => WakeInv'
<1> SUFFICES ASSUME WakeInv, [Next]_vars PROVE WakeInv'
  OBVIOUS
<1>1. CASE RequestStop \/ Signal \/ UNCHANGED vars
  <2>1. UNCHANGED <<queue, event, lost, stamp, sender, loop>>
    BY Zenon, <1>1 DEF RequestStop, Signal, vars
  <2> QED
    BY <2>1 DEF WakeInv, WakeTypes, Covered, SamplesAreAnnounced
<1> QED
  BY Zenon, <1>1, TickWake, SenderWake, LoopWake DEF Next

(* A sample the blocked loop has not received is announced: should_notify  *)
(* skips a wake-up only while run_receive_loop still polls, unless the     *)
(* wake-up the stamp stands for was lost.                                  *)
THEOREM SamplesAnnounced == Spec => []SamplesAreAnnounced
<1>1. WakeInv => SamplesAreAnnounced
  BY DEF WakeInv
<1> QED
  BY InitWake, NextWake, <1>1, PTL DEF Spec

-----------------------------------------------------------------------------
(* The gateway.                                                            *)

ShutdownTask == [pc : {"queued", "stopped", "joining", "done"}, guard : BOOLEAN, joins : SUBSET Nat]

(* Until a shutdown has emptied the cell, a guard in it belongs to a       *)
(* gateway that runs and whose init returned, and the bridge is there      *)
(* before any task of the initialization.                                  *)
GatewayInv ==
    /\ shutdowns \in Seq(ShutdownTask) /\ threads \in Seq({"up", "gone"})
    /\ guard \in BOOLEAN /\ cancelled \in BOOLEAN
    /\ ~Gate!Stopped =>
         /\ ~cancelled
         /\ guard => phase = "Running" /\ js = "idle"
         /\ js = "begun" => phase = "Running"
         /\ inits # <<>> \/ threads # <<>> => bridge
    /\ Gate!RunningHoldsBridge

(* One case per step of JavaScript, of its tasks and of the threads.       *)
LEMMA GatewayNext == GatewayInv /\ [Gate!Next]_(Gate!vars) => GatewayInv'
<1> SUFFICES ASSUME GatewayInv, [Gate!Next]_(Gate!vars) PROVE GatewayInv'
  BY Zenon
<1>0. /\ shutdowns \in Seq(ShutdownTask) /\ threads \in Seq({"up", "gone"})
      /\ guard \in BOOLEAN /\ cancelled \in BOOLEAN
  BY Zenon DEF GatewayInv
<1>1. CASE Gate!register_service
  BY Zenon, <1>1 DEF GatewayInv, Gate!register_service, Gate!channels, Gate!Stopped, Gate!RunningHoldsBridge
<1>2. CASE Gate!begin_start
  BY Zenon, <1>2 DEF GatewayInv, Gate!begin_start, Gate!channels, Gate!Stopped, Gate!RunningHoldsBridge, Gate!Refused, Gate!Reserve
<1>3. CASE Gate!complete_start
  <2>1. /\ js = "begun" /\ js' = "idle" /\ bridge' = TRUE /\ guard' = TRUE
        /\ cancelled' = (cancelled \/ guard) /\ phase' = phase /\ shutdowns' = shutdowns
        /\ threads' = threads
    BY Zenon, <1>3 DEF Gate!complete_start, Gate!channels
  <2>2. cancelled' \in BOOLEAN /\ (Gate!Stopped' <=> Gate!Stopped)
    BY Zenon, <1>0, <2>1 DEF Gate!Stopped
  <2>3. ~Gate!Stopped => ~guard /\ ~cancelled /\ phase = "Running"
    BY Zenon, <2>1 DEF GatewayInv
  <2> QED
    BY ZenonT(40), <1>0, <2>1, <2>2, <2>3 DEF GatewayInv, Gate!RunningHoldsBridge
<1>4. CASE Gate!shutdown
  <2>1. PICK r \in ShutdownTask : r.pc = "queued" /\ shutdowns' = Append(shutdowns, r)
    BY Zenon, <1>4 DEF Gate!shutdown, ShutdownTask
  <2>2. UNCHANGED <<phase, bridge, guard, js, inits, threads, cancelled>>
    BY Zenon, <1>4 DEF Gate!shutdown, Gate!cell, Gate!channels
  <2>3. /\ shutdowns' \in Seq(ShutdownTask) /\ DOMAIN shutdowns' = DOMAIN shutdowns \cup {Len(shutdowns) + 1}
        /\ \A k \in DOMAIN shutdowns : shutdowns'[k] = shutdowns[k]
        /\ shutdowns'[Len(shutdowns) + 1] = r
    BY <1>0, <2>1
  <2>4. Gate!Stopped' <=> Gate!Stopped
    BY Zenon, <2>1, <2>3 DEF Gate!Stopped
  <2> QED
    BY Zenon, <2>2, <2>3, <2>4 DEF GatewayInv, Gate!RunningHoldsBridge
<1>5. ASSUME NEW i \in DOMAIN inits, Gate!Snapshot(i) \/ Gate!init(i) \/ Gate!start_registered_channels(i)
      PROVE  GatewayInv'
  <2>1. inits # <<>> /\ UNCHANGED <<phase, bridge, guard, js, shutdowns, cancelled>>
    <3>1. inits # <<>>
      BY <1>5
    <3>2. UNCHANGED <<phase, bridge, guard, js, shutdowns, cancelled>>
      BY ZenonT(40), <1>5 DEF Gate!Snapshot, Gate!init, Gate!start_registered_channels, Gate!cell, Gate!channels
    <3> QED
      BY Zenon, <3>1, <3>2
  <2>2. threads' = threads \/ threads' = Append(threads, "up")
    BY Zenon, <1>5 DEF Gate!Snapshot, Gate!init, Gate!start_registered_channels, Gate!channels
  <2>3. threads' \in Seq({"up", "gone"})
    BY <1>0, <2>2
  <2> QED
    BY ZenonT(40), <2>1, <2>3 DEF GatewayInv, Gate!Stopped, Gate!RunningHoldsBridge
<1>6. ASSUME NEW k \in DOMAIN shutdowns, Gate!stop(k) \/ Gate!cancel(k) \/ Gate!release(k)
      PROVE  GatewayInv'
  <2>1. shutdowns[k] \in ShutdownTask /\ DOMAIN threads \subseteq Nat
    BY <1>0
  <2>2. PICK r \in ShutdownTask : r.pc # "queued" /\ shutdowns' = [shutdowns EXCEPT ![k] = r]
    <3>1. CASE Gate!stop(k)
      BY Zenon, <1>0, <2>1, <3>1 DEF Gate!stop, ShutdownTask
    <3>2. CASE Gate!cancel(k)
      BY Zenon, <2>1, <3>2 DEF Gate!cancel, ShutdownTask
    <3>3. CASE Gate!release(k)
      BY Zenon, <2>1, <3>3 DEF Gate!release, ShutdownTask
    <3> QED
      BY ZenonT(40), <1>6, <3>1, <3>2, <3>3
  <2>3. shutdowns' \in Seq(ShutdownTask) /\ k \in DOMAIN shutdowns' /\ shutdowns'[k] = r
    BY <1>0, <2>2
  <2>4. threads' = threads
    BY Zenon, <1>6 DEF Gate!stop, Gate!cancel, Gate!release, Gate!channels
  <2>5. guard' \in BOOLEAN /\ cancelled' \in BOOLEAN
    <3>1. shutdowns[k].guard \in BOOLEAN
      BY <2>1 DEF ShutdownTask
    <3> QED
      BY Zenon, <1>0, <1>6, <3>1 DEF Gate!stop, Gate!cancel, Gate!release, Gate!EmptyCell, Gate!Cancel, Gate!cell
  <2>6. Gate!RunningHoldsBridge'
    BY Zenon, <1>6 DEF GatewayInv, Gate!stop, Gate!cancel, Gate!release, Gate!EmptyCell, Gate!cell, Gate!RunningHoldsBridge
  <2>7. Gate!Stopped'
    BY Zenon, <2>2, <2>3 DEF Gate!Stopped
  <2> QED
    BY Zenon, <1>0, <2>3, <2>4, <2>5, <2>6, <2>7 DEF GatewayInv
<1>7. ASSUME NEW t \in DOMAIN threads, Gate!ThreadStops(t) PROVE GatewayInv'
  <2>1. threads # <<>> /\ UNCHANGED <<phase, bridge, guard, js, shutdowns, cancelled, inits>>
    BY <1>7 DEF Gate!ThreadStops, Gate!cell
  <2>2. threads' \in Seq({"up", "gone"})
    BY <1>0, <1>7 DEF Gate!ThreadStops
  <2> QED
    BY Zenon, <2>1, <2>2 DEF GatewayInv, Gate!Stopped, Gate!RunningHoldsBridge
<1>8. CASE UNCHANGED Gate!vars
  BY Zenon, <1>8 DEF GatewayInv, Gate!vars, Gate!Stopped, Gate!RunningHoldsBridge
<1> QED
  BY ZenonT(40), <1>1, <1>2, <1>3, <1>4, <1>5, <1>6, <1>7, <1>8 DEF Gate!Next, Gate!JavaScript, Gate!Task, Gate!Pool

(* Whatever JavaScript registers, starts and shuts down, and however its   *)
(* tasks interleave: an init that is refused cancels nothing, a running    *)
(* gateway holds its bridge and its guard, and no call is served before    *)
(* the bridge it needs is there (state.rs, napi_api.rs).                   *)
THEOREM GatewayIsSound == Gate!Spec => []Gate!GatewaySound
<1>1. Gate!Init => GatewayInv
  <2>1. ASSUME Gate!Init PROVE shutdowns \in Seq(ShutdownTask) /\ threads \in Seq({"up", "gone"}) /\ ~Gate!Stopped
    BY <2>1 DEF Gate!Init, Gate!Stopped
  <2> QED
    BY Zenon, <2>1 DEF Gate!Init, GatewayInv, Gate!RunningHoldsBridge
<1>2. GatewayInv => Gate!GatewaySound
  BY Zenon DEF GatewayInv, Gate!GatewaySound, Gate!RefusedInitIsHarmless, Gate!ServedThroughBridge
<1> QED
  BY <1>1, <1>2, GatewayNext, PTL DEF Gate!Spec

-----------------------------------------------------------------------------
(* The locator.                                                            *)

Made == [id : Nat, type : Registered \cup {TypeOf[g] : g \in Getters}]
GetState ==
    [pc : {"idle", "cache", "build", "insert"}, gets : Nat, proxy : SUBSET Made, result : SUBSET Made]

(* The proxy a task builds has the type the task asks for, which is why    *)
(* Insert may answer it without a downcast.                                *)
LocatorInv ==
    /\ entry \subseteq Made /\ cached \subseteq Made /\ built \in Nat
    /\ get \in [Getters -> GetState]
    /\ \A g \in Getters : \A x \in get[g].proxy : x.type = TypeOf[g]
    /\ Loc!TypeIsRight

(* A step of one task leaves the others as they were.                      *)
LEMMA OneGetter ==
    ASSUME LocatorInv, NEW g \in Getters, NEW r \in GetState, get' = [get EXCEPT ![g] = r],
           entry' \subseteq Made, cached' \subseteq Made, built' \in Nat,
           \A x \in r.proxy : x.type = TypeOf[g], \A x \in r.result : x.type = TypeOf[g]
    PROVE  LocatorInv'
<1>1. get' \in [Getters -> GetState] /\ get'[g] = r /\ \A h \in Getters : h # g => get'[h] = get[h]
  BY Zenon DEF LocatorInv
<1> QED
  BY ZenonT(40), <1>1 DEF LocatorInv, Loc!TypeIsRight

LEMMA LocatorNext == LocatorInv /\ [Loc!Next]_(Loc!vars) => LocatorInv'
<1> SUFFICES ASSUME LocatorInv, [Loc!Next]_(Loc!vars) PROVE LocatorInv'
  BY Zenon
<1>0. /\ entry \subseteq Made /\ cached \subseteq Made /\ built \in Nat
      /\ get \in [Getters -> GetState]
  BY Zenon DEF LocatorInv
<1>1. CASE Loc!register
  <2>1. entry' \subseteq Made /\ built' \in Nat /\ cached' = cached /\ get' = get
    BY <1>0, <1>1 DEF Loc!register, Loc!Instance, Made
  <2> QED
    BY Zenon, <2>1 DEF LocatorInv, Loc!TypeIsRight
<1>2. ASSUME NEW g \in Getters, Loc!ReadEntries(g) PROVE LocatorInv'
  <2>1. get[g] \in GetState /\ Loc!downcast(entry, g) \subseteq Made
    BY Zenon, <1>0 DEF Loc!downcast
  <2>0. get[g].gets + 1 \in Nat
    BY <2>1 DEF GetState
  <2>2. PICK r \in GetState : /\ get' = [get EXCEPT ![g] = r] /\ r.proxy = {}
                              /\ r.result = Loc!downcast(entry, g) \/ r.result = {}
    <3>1. CASE entry # {}
      <4> DEFINE r == [get[g] EXCEPT !.gets = @ + 1, !.proxy = {}, !.result = Loc!downcast(entry, g)]
      <4>1. r \in GetState
        BY Zenon, <2>0, <2>1 DEF GetState
      <4>2. get' = [get EXCEPT ![g] = r] /\ r.proxy = {} /\ r.result = Loc!downcast(entry, g)
        BY ZenonT(40), <1>0, <1>2, <2>1, <3>1 DEF Loc!ReadEntries, GetState
      <4> QED
        BY Zenon, <4>1, <4>2
    <3>2. CASE entry = {}
      <4> DEFINE r == [get[g] EXCEPT !.gets = @ + 1, !.proxy = {}, !.pc = "cache", !.result = {}]
      <4>1. r \in GetState
        BY Zenon, <2>0, <2>1 DEF GetState
      <4>2. get' = [get EXCEPT ![g] = r] /\ r.proxy = {} /\ r.result = {}
        BY ZenonT(40), <1>0, <1>2, <2>1, <3>2 DEF Loc!ReadEntries, GetState
      <4> QED
        BY Zenon, <4>1, <4>2
    <3> QED
      BY Zenon, <3>1, <3>2
  <2>3. UNCHANGED <<entry, cached, built>>
    BY Zenon, <1>2 DEF Loc!ReadEntries
  <2>4. (\A x \in r.proxy : x.type = TypeOf[g]) /\ (\A x \in r.result : x.type = TypeOf[g])
    BY Zenon, <2>2 DEF Loc!downcast
  <2> QED
    BY Zenon, <1>0, <2>2, <2>3, <2>4, OneGetter
<1>3. ASSUME NEW g \in Getters, Loc!ReadCache(g) PROVE LocatorInv'
  <2>1. get[g] \in GetState /\ Loc!downcast(cached, g) \subseteq cached
    BY <1>0 DEF Loc!downcast
  <2>2. PICK r \in GetState : /\ get' = [get EXCEPT ![g] = r] /\ r.proxy = get[g].proxy
                              /\ r.result = Loc!downcast(cached, g) \/ r.result = get[g].result
    <3>1. CASE cached # {}
      <4> DEFINE r == [get[g] EXCEPT !.pc = "idle", !.result = Loc!downcast(cached, g)]
      <4>1. r \in GetState
        BY Zenon, <1>0, <2>1 DEF GetState
      <4>2. get' = [get EXCEPT ![g] = r] /\ r.proxy = get[g].proxy /\ r.result = Loc!downcast(cached, g)
        BY Zenon, <1>0, <1>3, <2>1, <3>1 DEF Loc!ReadCache, Loc!Return, GetState
      <4> QED
        BY Zenon, <4>1, <4>2
    <3>2. CASE cached = {}
      <4> DEFINE r == [get[g] EXCEPT !.pc = "build"]
      <4>1. r \in GetState
        BY Zenon, <2>1 DEF GetState
      <4>2. get' = [get EXCEPT ![g] = r] /\ r.proxy = get[g].proxy /\ r.result = get[g].result
        BY ZenonT(40), <1>0, <1>3, <2>1, <3>2 DEF Loc!ReadCache, GetState
      <4> QED
        BY Zenon, <4>1, <4>2
    <3> QED
      BY Zenon, <3>1, <3>2
  <2>3. UNCHANGED <<entry, cached, built>>
    BY Zenon, <1>3 DEF Loc!ReadCache
  <2>4. (\A x \in r.proxy : x.type = TypeOf[g]) /\ (\A x \in r.result : x.type = TypeOf[g])
    BY Zenon, <2>2 DEF LocatorInv, Loc!TypeIsRight, Loc!downcast
  <2> QED
    BY ZenonT(40), <1>0, <2>2, <2>3, <2>4, OneGetter
<1>4. ASSUME NEW g \in Getters, Loc!consume_proxy(g) PROVE LocatorInv'
  <2> DEFINE p == [id |-> built + 1, type |-> TypeOf[g]]
             r == [get[g] EXCEPT !.pc = "insert", !.proxy = {p}]
  <2>1. get[g] \in GetState /\ p \in Made /\ built + 1 \in Nat
    BY <1>0 DEF Made
  <2>2. r \in GetState /\ r.result = get[g].result /\ r.proxy = {p} /\ p.type = TypeOf[g]
    BY Zenon, <2>1 DEF GetState
  <2>3. get' = [get EXCEPT ![g] = r] /\ built' = built + 1 /\ UNCHANGED <<entry, cached>>
    BY Zenon, <1>0, <1>4, <2>1 DEF Loc!consume_proxy, Loc!Instance, GetState
  <2> HIDE DEF r, p
  <2>4. (\A x \in r.proxy : x.type = TypeOf[g]) /\ (\A x \in r.result : x.type = TypeOf[g])
    BY Zenon, <2>2 DEF LocatorInv, Loc!TypeIsRight
  <2> QED
    BY ZenonT(40), <1>0, <2>1, <2>2, <2>3, <2>4, OneGetter
<1>5. ASSUME NEW g \in Getters, Loc!Insert(g) PROVE LocatorInv'
  <2> DEFINE r == [get[g] EXCEPT !.pc = "idle", !.result = get[g].proxy]
  <2>1. get[g] \in GetState
    BY <1>0
  <2>2. r \in GetState /\ r.result = get[g].proxy /\ r.proxy = get[g].proxy /\ get[g].proxy \subseteq Made
    BY Zenon, <2>1 DEF GetState
  <2>3. get' = [get EXCEPT ![g] = r] /\ UNCHANGED <<entry, built>>
    BY Zenon, <1>0, <1>5, <2>1 DEF Loc!Insert, Loc!Return, GetState
  <2>4. cached' \subseteq Made
    BY Zenon, <1>0, <1>5, <2>2 DEF Loc!Insert, Loc!OrInsert
  <2> HIDE DEF r
  <2>5. (\A x \in r.proxy : x.type = TypeOf[g]) /\ (\A x \in r.result : x.type = TypeOf[g])
    BY Zenon, <2>2 DEF LocatorInv
  <2> QED
    BY ZenonT(40), <1>0, <2>2, <2>3, <2>4, <2>5, OneGetter
<1>6. CASE UNCHANGED Loc!vars
  BY Zenon, <1>6 DEF LocatorInv, Loc!vars, Loc!TypeIsRight
<1> QED
  BY Zenon, <1>1, <1>2, <1>3, <1>4, <1>5, <1>6 DEF Loc!Next, Loc!get_blocking

(* However many tasks race for a name, and whatever types it is registered *)
(* and asked for under: the cache keeps the first proxy it was given, and  *)
(* a get answers an instance of its own type (ServiceLocator::get).        *)
THEOREM LocatorIsSound == Loc!Spec => Loc!LocatorSound
<1>1. Loc!Init => LocatorInv
  <2> SUFFICES ASSUME Loc!Init PROVE LocatorInv
    BY Zenon
  <2>1. get \in [Getters -> GetState] /\ \A g \in Getters : get[g].proxy = {} /\ get[g].result = {}
    BY DEF Loc!Init, GetState
  <2> QED
    BY <2>1 DEF Loc!Init, LocatorInv, Loc!TypeIsRight
<1>2. LocatorInv => Loc!TypeIsRight
  BY Zenon DEF LocatorInv
<1>3. [Loc!Next]_(Loc!vars) => [Loc!CacheIsStable]_(Loc!vars)
  BY Zenon DEF Loc!Next, Loc!register, Loc!get_blocking, Loc!ReadEntries, Loc!ReadCache, Loc!consume_proxy,
     Loc!Insert, Loc!OrInsert, Loc!CacheIsStable
<1> QED
  BY <1>1, <1>2, <1>3, LocatorNext, PTL DEF Loc!Spec, Loc!LocatorSound

-----------------------------------------------------------------------------
(* The pool of a Node.js addon.                                            *)

Shutdown == Pool!Shutdown
OnCall == {"compute", "opening", "publish", "send", "open"}
TaskState == OnCall \cup {"idle", "queued", "taking", "joining", "settled"}

PoolAssumption == Shutdown \notin Calls /\ IsFiniteSet(Calls) /\ Threads \in Nat \ {0}

PoolTypes ==
    /\ task \in [Pool!Tasks -> TaskState] /\ queue \in Seq(Pool!Tasks)
    /\ dispatch \in Seq({"up", "gone"}) /\ registered \subseteq DOMAIN dispatch /\ joins \subseteq DOMAIN dispatch
    /\ cached \in Nat /\ on \in [Calls -> Nat] /\ out \in [Calls -> {"no", "sent", "late"}]

(* A task is queued once, so that none is run again.                       *)
QueueInv ==
    \A i \in DOMAIN queue : task[queue[i]] = "queued" /\ \A j \in DOMAIN queue : queue[j] = queue[i] => j = i

(* The pool runs no more tasks than it has threads.                        *)
Busy == {t \in Pool!Tasks : task[t] \in Pool!OnThread}
SizeInv == Cardinality(Busy) =< Threads

(* The threads a shutdown waits for, or will.                              *)
Awaited == IF task[Shutdown] \in {"joining", "settled"} THEN joins ELSE registered

(* The thread of a call is registered before the call reads the tokens, so *)
(* that the shutdown, which cancels them first, waits for the thread of    *)
(* every call that goes out.                                               *)
CallInv(c) ==
    /\ task[c] \in {"idle", "queued", "compute", "opening", "publish", "send"} => out[c] = "no"
    /\ task[c] = "opening" => on[c] \in DOMAIN dispatch
    /\ task[c] = "publish" /\ ~cancelled => on[c] \in registered
    /\ task[c] = "send" \/ out[c] # "no" => on[c] \in Awaited

ShutdownInv ==
    /\ task[Shutdown] \notin {"opening", "publish", "send", "open"}
    /\ cancelled <=> task[Shutdown] \in {"taking", "joining", "settled"}
    /\ task[Shutdown] = "settled" => Pool!Joined
    /\ cached # 0 /\ ~cancelled => cached \in registered

WaitInv == ShutdownInv /\ \A c \in Calls : CallInv(c)

(* Once the tokens are cancelled, only the calls that had read them before *)
(* may go out, and they are on threads the shutdown does not hold.         *)
LateSet == {c \in Calls : out[c] = "late" \/ task[c] = "send"}
LateInv ==
    /\ cancelled => Cardinality(LateSet) < Threads
    /\ ~cancelled => \A c \in Calls : out[c] # "late"

PoolInv == PoolTypes /\ QueueInv /\ SizeInv /\ WaitInv /\ LateInv

(* The tasks are the calls and the shutdown, which is none of them.        *)
LEMMA PoolTasks ==
    ASSUME PoolAssumption
    PROVE  /\ IsFiniteSet(Pool!Tasks) /\ Shutdown \in Pool!Tasks
           /\ \A c \in Calls : c \in Pool!Tasks /\ c # Shutdown
<1>1. Pool!Tasks = Calls \cup {Shutdown}
  BY Zenon DEF Pool!Tasks, Shutdown
<1>2. IsFiniteSet(Calls \cup {Shutdown})
  BY Zenon, FS_AddElement DEF PoolAssumption
<1> QED
  BY Zenon, <1>1, <1>2 DEF PoolAssumption

(* The pool counts as this module does.                                    *)
LEMMA SameCount == \A S : Pool!Cardinality(S) = Cardinality(S)
  BY Zenon DEF Pool!Cardinality, Cardinality

(* A set that does not grow keeps its bound.                               *)
LEMMA NotLarger ==
    ASSUME NEW U, IsFiniteSet(U), NEW S \in SUBSET U, NEW R \in SUBSET S
    PROVE  Cardinality(S) \in Nat /\ Cardinality(R) \in Nat /\ Cardinality(R) =< Cardinality(S)
<1>1. IsFiniteSet(S)
  BY Zenon, FS_Subset
<1>2. IsFiniteSet(R) /\ Cardinality(R) =< Cardinality(S)
  BY Zenon, <1>1, FS_Subset
<1> QED
  BY Zenon, <1>1, <1>2, FS_CardinalityType

(* A task that is on a thread moves on, or ends.                           *)
LEMMA TaskMoves ==
    ASSUME PoolAssumption, PoolTypes, QueueInv, SizeInv,
           NEW t \in Pool!Tasks, NEW v \in TaskState, task[t] \in Pool!OnThread,
           task' = [task EXCEPT ![t] = v], queue' = queue
    PROVE  /\ task' \in [Pool!Tasks -> TaskState] /\ QueueInv' /\ SizeInv'
           /\ task'[t] = v /\ \A u \in Pool!Tasks : u # t => task'[u] = task[u]
<1>1. /\ task' \in [Pool!Tasks -> TaskState] /\ task'[t] = v
      /\ \A u \in Pool!Tasks : u # t => task'[u] = task[u]
  BY Zenon DEF PoolTypes
<1>2. \A i \in DOMAIN queue : queue[i] \in Pool!Tasks
  BY DEF PoolTypes
<1>3. task[t] # "queued"
  BY DEF Pool!OnThread
<1>4. QueueInv'
  BY Zenon, <1>1, <1>2, <1>3 DEF QueueInv
<1>5. Busy' \subseteq Busy /\ Busy \subseteq Pool!Tasks
  BY Zenon, <1>1 DEF Busy
<1>6. Cardinality(Busy) \in Nat /\ Cardinality(Busy') \in Nat /\ Cardinality(Busy') =< Cardinality(Busy)
  BY Zenon, <1>5, PoolTasks, NotLarger
<1>7. SizeInv'
  BY <1>6 DEF SizeInv, PoolAssumption
<1> QED
  BY Zenon, <1>1, <1>4, <1>7

(* When no call starts to send, the ones that may go out late stay few.    *)
LEMMA LateKept ==
    ASSUME PoolAssumption, LateInv, cancelled' = cancelled,
           cancelled => \A c \in Calls : c \in LateSet' => c \in LateSet,
           ~cancelled => \A c \in Calls : out'[c] # "late"
    PROVE  LateInv'
<1>1. CASE cancelled
  <2>1. LateSet' \subseteq LateSet /\ LateSet \subseteq Calls
    BY Zenon, <1>1 DEF LateSet
  <2>2. Cardinality(LateSet) \in Nat /\ Cardinality(LateSet') \in Nat /\ Cardinality(LateSet') =< Cardinality(LateSet)
    BY Zenon, <2>1, NotLarger DEF PoolAssumption
  <2> QED
    BY <1>1, <2>2 DEF LateInv, PoolAssumption
<1>2. CASE ~cancelled
  BY Zenon, <1>2 DEF LateInv
<1> QED
  BY Zenon, <1>1, <1>2

(* A task joins the queue of the pool.                                     *)
LEMMA PoolSubmit ==
    ASSUME PoolAssumption, PoolInv, NEW t \in Pool!Tasks, Pool!Submit(t)
    PROVE  PoolInv'
<1>0. /\ task \in [Pool!Tasks -> TaskState] /\ queue \in Seq(Pool!Tasks)
      /\ Shutdown \in Pool!Tasks /\ \A c \in Calls : c \in Pool!Tasks /\ c # Shutdown
  BY Zenon, PoolTasks DEF PoolInv, PoolTypes
<1>1. /\ task[t] = "idle" /\ task' = [task EXCEPT ![t] = "queued"] /\ queue' = Append(queue, t)
      /\ UNCHANGED <<cached, dispatch, registered, joins, cancelled, on, out>>
  BY Zenon DEF Pool!Submit, Pool!Move
<1>2. /\ task' \in [Pool!Tasks -> TaskState] /\ task'[t] = "queued"
      /\ \A u \in Pool!Tasks : u # t => task'[u] = task[u]
  BY ZenonT(40), <1>0, <1>1 DEF TaskState
<1>3. /\ queue' \in Seq(Pool!Tasks) /\ DOMAIN queue' = DOMAIN queue \cup {Len(queue) + 1}
      /\ \A i \in DOMAIN queue : queue[i] \in Pool!Tasks /\ queue'[i] = queue[i]
      /\ queue'[Len(queue) + 1] = t
  BY <1>0, <1>1
<1>4. \A i \in DOMAIN queue : queue[i] # t
  BY Zenon, <1>1 DEF PoolInv, QueueInv
<1>5. QueueInv'
  <2> SUFFICES ASSUME NEW i \in DOMAIN queue'
               PROVE  task'[queue'[i]] = "queued" /\ \A j \in DOMAIN queue' : queue'[j] = queue'[i] => j = i
    BY Zenon DEF QueueInv
  <2>1. CASE i \in DOMAIN queue
    <3>1. queue'[i] = queue[i] /\ queue[i] # t /\ task'[queue[i]] = "queued"
      BY Zenon, <1>2, <1>3, <1>4, <2>1 DEF PoolInv, QueueInv
    <3> QED
      BY Zenon, <1>3, <2>1, <3>1 DEF PoolInv, QueueInv
  <2>2. CASE i = Len(queue) + 1
    BY Zenon, <1>2, <1>3, <1>4, <2>2
  <2> QED
    BY Zenon, <1>3, <2>1, <2>2
<1>6. SizeInv'
  <2>1. Busy' \subseteq Busy /\ Busy \subseteq Pool!Tasks
    BY <1>2 DEF Busy, Pool!OnThread
  <2>2. Cardinality(Busy) \in Nat /\ Cardinality(Busy') \in Nat /\ Cardinality(Busy') =< Cardinality(Busy)
    BY Zenon, <2>1, PoolTasks, NotLarger
  <2> QED
    BY <2>2 DEF PoolInv, SizeInv, PoolAssumption
<1>7. LateInv'
  <2>1. \A c \in Calls : c \in LateSet' => c \in LateSet
    BY <1>0, <1>1, <1>2 DEF LateSet
  <2> QED
    BY Zenon, <1>1, <2>1, LateKept DEF PoolInv, LateInv
<1>8. WaitInv'
  <2>1. ShutdownInv'
    BY <1>0, <1>1, <1>2 DEF PoolInv, WaitInv, ShutdownInv, Pool!Joined
  <2>2. ASSUME NEW c \in Calls PROVE CallInv(c)'
    BY <1>0, <1>1, <1>2 DEF PoolInv, WaitInv, CallInv, Awaited
  <2> QED
    BY Zenon, <2>1, <2>2 DEF WaitInv
<1> QED
  BY ZenonT(40), <1>0, <1>1, <1>2, <1>3, <1>5, <1>6, <1>7, <1>8 DEF PoolInv, PoolTypes

(* A free thread takes the head of the queue.                              *)
LEMMA PoolTake == ASSUME PoolAssumption, PoolInv, Pool!Take PROVE PoolInv'
<1>0. /\ task \in [Pool!Tasks -> TaskState] /\ queue \in Seq(Pool!Tasks)
      /\ Shutdown \in Pool!Tasks /\ \A c \in Calls : c \in Pool!Tasks /\ c # Shutdown
  BY Zenon, PoolTasks DEF PoolInv, PoolTypes
<1>1. /\ queue # <<>> /\ task' = [task EXCEPT ![Head(queue)] = "compute"] /\ queue' = Tail(queue)
      /\ UNCHANGED <<cached, dispatch, registered, joins, cancelled, on, out>>
  BY Zenon DEF Pool!Take, Pool!Move
<1>2. /\ Head(queue) \in Pool!Tasks /\ Tail(queue) \in Seq(Pool!Tasks) /\ 1 \in DOMAIN queue
      /\ Head(queue) = queue[1]
      /\ \A i \in DOMAIN Tail(queue) :
           i \in Nat /\ i + 1 \in DOMAIN queue /\ i + 1 # 1 /\ Tail(queue)[i] = queue[i + 1]
  BY Zenon, <1>0, <1>1, Taken
<1>3. PICK t \in Pool!Tasks : t = Head(queue)
  BY Zenon, <1>2
<1>4. /\ task' \in [Pool!Tasks -> TaskState] /\ task'[t] = "compute" /\ task[t] = "queued"
      /\ \A u \in Pool!Tasks : u # t => task'[u] = task[u]
  <2>1. "compute" \in TaskState /\ task' = [task EXCEPT ![t] = "compute"]
    BY Zenon, <1>1, <1>3 DEF TaskState, OnCall
  <2>2. task[t] = "queued"
    BY Zenon, <1>2, <1>3 DEF PoolInv, QueueInv
  <2> QED
    BY Zenon, <1>0, <2>1, <2>2
<1>5. \A i \in DOMAIN queue : queue[i] \in Pool!Tasks /\ task[queue[i]] = "queued"
  BY <1>0 DEF PoolInv, QueueInv
<1>6. ASSUME NEW i \in DOMAIN Tail(queue) PROVE Tail(queue)[i] # t
  <2>1. i + 1 \in DOMAIN queue /\ i + 1 # 1 /\ Tail(queue)[i] = queue[i + 1] /\ t = queue[1]
    BY Zenon, <1>2, <1>3
  <2> QED
    BY Zenon, <1>2, <2>1 DEF PoolInv, QueueInv
<1>7. \A i, j \in DOMAIN Tail(queue) : Tail(queue)[i] = Tail(queue)[j] => i = j
  <2> SUFFICES ASSUME NEW i \in DOMAIN Tail(queue), NEW j \in DOMAIN Tail(queue),
                      Tail(queue)[i] = Tail(queue)[j]
               PROVE  i = j
    BY Zenon
  <2>1. /\ i \in Nat /\ j \in Nat /\ i + 1 \in DOMAIN queue /\ j + 1 \in DOMAIN queue
        /\ queue[i + 1] = queue[j + 1]
    BY Zenon, <1>2
  <2>2. i + 1 = j + 1
    BY Zenon, <2>1 DEF PoolInv, QueueInv
  <2> QED
    BY <2>1, <2>2
<1>8. QueueInv'
  <2> SUFFICES ASSUME NEW i \in DOMAIN Tail(queue)
               PROVE  /\ task'[Tail(queue)[i]] = "queued"
                      /\ \A j \in DOMAIN Tail(queue) : Tail(queue)[j] = Tail(queue)[i] => j = i
    BY Zenon, <1>1 DEF QueueInv
  <2>1. Tail(queue)[i] # t /\ i + 1 \in DOMAIN queue /\ Tail(queue)[i] = queue[i + 1]
    BY Zenon, <1>2, <1>6
  <2> QED
    BY ZenonT(40), <1>4, <1>5, <1>7, <2>1
<1>9. SizeInv'
  <2>1. /\ IsFiniteSet(Busy) /\ Busy' \subseteq Busy \cup {t}
        /\ IsFiniteSet(Busy \cup {t}) /\ Cardinality(Busy \cup {t}) =< Cardinality(Busy) + 1
    <3>1. Busy \subseteq Pool!Tasks /\ Busy' \subseteq Busy \cup {t}
      BY Zenon, <1>4 DEF Busy
    <3>2. IsFiniteSet(Busy)
      BY Zenon, <3>1, PoolTasks, FS_Subset
    <3> QED
      BY <3>1, <3>2, FS_AddElement, FS_CardinalityType
  <2>2. Cardinality(Busy) \in Nat /\ Cardinality(Busy \cup {t}) \in Nat /\ Cardinality(Busy') \in Nat
        /\ Cardinality(Busy') =< Cardinality(Busy \cup {t})
    <3>1. IsFiniteSet(Busy') /\ Cardinality(Busy') =< Cardinality(Busy \cup {t})
      BY Zenon, <2>1, FS_Subset
    <3> QED
      BY Zenon, <2>1, <3>1, FS_CardinalityType
  <2>3. Cardinality(Busy) < Threads
    BY Zenon, SameCount DEF Pool!Take, Busy
  <2> QED
    BY <2>1, <2>2, <2>3 DEF SizeInv, PoolAssumption
<1>10. LateInv'
  <2>1. \A c \in Calls : c \in LateSet' => c \in LateSet
    BY <1>0, <1>1, <1>4 DEF LateSet
  <2> QED
    BY Zenon, <1>1, <2>1, LateKept DEF PoolInv, LateInv
<1>11. WaitInv'
  <2>1. ShutdownInv'
    BY <1>0, <1>1, <1>4 DEF PoolInv, WaitInv, ShutdownInv, Pool!Joined
  <2>2. ASSUME NEW c \in Calls PROVE CallInv(c)'
    BY <1>0, <1>1, <1>4 DEF PoolInv, WaitInv, CallInv, Awaited, ShutdownInv
  <2> QED
    BY Zenon, <2>1, <2>2 DEF WaitInv
<1> QED
  BY ZenonT(40), <1>0, <1>1, <1>2, <1>4, <1>8, <1>9, <1>10, <1>11 DEF PoolInv, PoolTypes

(* A call moves on from one state of its thread to another.                *)
LEMMA PoolCall ==
    ASSUME PoolAssumption, PoolInv, NEW c \in Calls, Pool!Compute(c) \/ Pool!Respond(c)
    PROVE  PoolInv'
<1>0. /\ task \in [Pool!Tasks -> TaskState] /\ queue \in Seq(Pool!Tasks)
      /\ dispatch \in Seq({"up", "gone"}) /\ registered \subseteq DOMAIN dispatch /\ joins \subseteq DOMAIN dispatch
      /\ cached \in Nat /\ on \in [Calls -> Nat] /\ out \in [Calls -> {"no", "sent", "late"}]
      /\ Shutdown \in Pool!Tasks /\ \A d \in Calls : d \in Pool!Tasks /\ d # Shutdown
  BY Zenon, PoolTasks DEF PoolInv, PoolTypes
<1>1. PICK v \in OnCall \cup {"settled"} : task' = [task EXCEPT ![c] = v] /\ task[c] \in OnCall
  BY DEF Pool!Compute, Pool!consumer_ports, Pool!register_shutdown_handle, Pool!publish_until_delivered,
         Pool!try_publish, Pool!backoff, Pool!Respond, Pool!Move, OnCall
<1>2. queue' = queue /\ joins' = joins /\ cancelled' = cancelled
  BY Zenon DEF Pool!Compute, Pool!consumer_ports, Pool!register_shutdown_handle, Pool!publish_until_delivered,
         Pool!try_publish, Pool!backoff, Pool!Respond
<1>3. /\ task' \in [Pool!Tasks -> TaskState] /\ QueueInv' /\ SizeInv'
      /\ task'[c] = v /\ \A u \in Pool!Tasks : u # c => task'[u] = task[u]
  <2>1. v \in TaskState /\ task[c] \in Pool!OnThread
    BY <1>1 DEF TaskState, OnCall, Pool!OnThread
  <2> QED
    BY Zenon, <1>0, <1>1, <1>2, <2>1, TaskMoves DEF PoolInv
<1>4. task'[Shutdown] = task[Shutdown] /\ \A d \in Calls : d # c => task'[d] = task[d]
  BY Zenon, <1>0, <1>3
<1>5. SUFFICES /\ dispatch' \in Seq({"up", "gone"}) /\ registered' \subseteq DOMAIN dispatch'
               /\ DOMAIN dispatch \subseteq DOMAIN dispatch' /\ \A i \in DOMAIN dispatch : dispatch'[i] = dispatch[i]
               /\ cached' \in Nat /\ on' \in [Calls -> Nat] /\ out' \in [Calls -> {"no", "sent", "late"}]
               /\ registered \subseteq registered' /\ (cached' # 0 /\ ~cancelled => cached' \in registered')
               /\ \A d \in Calls : d # c => on'[d] = on[d] /\ out'[d] = out[d]
               /\ CallInv(c)'
               /\ out'[c] = "late" => out[c] = "late" \/ (cancelled /\ task[c] = "send")
               /\ v = "send" => ~cancelled
  <2>1. PoolTypes'
    BY Zenon, <1>0, <1>2, <1>3, <1>5 DEF PoolTypes
  <2>2. ShutdownInv'
    BY <1>0, <1>2, <1>4, <1>5 DEF PoolInv, WaitInv, ShutdownInv, Pool!Joined
  <2>3. ASSUME NEW d \in Calls, d # c PROVE CallInv(d)'
    BY <1>0, <1>2, <1>4, <1>5, <2>3 DEF PoolInv, WaitInv, CallInv, Awaited
  <2>4. \A d \in Calls : d \in LateSet' /\ cancelled => d \in LateSet
    BY <1>3, <1>4, <1>5 DEF LateSet
  <2>5. LateInv'
    BY ZenonT(40), <1>2, <1>5, <2>4, LateKept DEF PoolInv, LateInv
  <2> QED
    BY ZenonT(40), <1>3, <1>5, <2>1, <2>2, <2>3, <2>5 DEF PoolInv, WaitInv
<1> USE DEF PoolInv, WaitInv, ShutdownInv, CallInv, Awaited
<1>6. CASE Pool!consumer_ports(c)
  <2>1. task[c] = "compute" /\ UNCHANGED <<registered, cached, out>>
    BY Zenon, <1>6 DEF Pool!consumer_ports
  <2>2. CASE v = "publish" /\ on' = [on EXCEPT ![c] = cached] /\ cached # 0 /\ dispatch' = dispatch
    BY <1>0, <1>2, <1>3, <1>4, <2>1, <2>2
  <2>3. CASE v = "opening" /\ on' = [on EXCEPT ![c] = Len(dispatch) + 1] /\ dispatch' = Append(dispatch, "up")
    BY <1>0, <1>2, <1>3, <1>4, <2>1, <2>3
  <2>4. CASE v = "settled" /\ UNCHANGED <<dispatch, on>>
    BY <1>0, <1>2, <1>3, <1>4, <2>1, <2>4
  <2> QED
    BY Zenon, <1>0, <1>1, <1>6, <2>2, <2>3, <2>4 DEF Pool!consumer_ports, Pool!Move, Pool!StartThread
<1>7. CASE Pool!register_shutdown_handle(c)
  <2>1. /\ task[c] = "opening" /\ task'[c] = "publish" /\ UNCHANGED <<dispatch, on, out>>
        /\ registered' = registered \cup {on[c]} /\ cached' = on[c]
    BY <1>0, <1>7 DEF Pool!register_shutdown_handle, Pool!Move
  <2> QED
    BY <1>0, <1>2, <1>3, <1>4, <2>1
<1>8. CASE Pool!publish_until_delivered(c)
  <2>1. /\ task[c] = "publish" /\ task'[c] = (IF cancelled THEN "settled" ELSE "send")
        /\ UNCHANGED <<dispatch, registered, cached, on, out>>
    BY <1>0, <1>8 DEF Pool!publish_until_delivered, Pool!Move, Pool!shutdown_requested
  <2> QED
    BY <1>0, <1>2, <1>3, <1>4, <2>1
<1>9. CASE Pool!try_publish(c)
  <2>1. /\ task[c] = "send" /\ task'[c] \in {"open", "settled"} /\ UNCHANGED <<dispatch, registered, cached, on>>
        /\ out' = out \/ out' = [out EXCEPT ![c] = IF cancelled THEN "late" ELSE "sent"]
    BY <1>0, <1>9 DEF Pool!try_publish, Pool!Move
  <2> QED
    BY Zenon, <1>0, <1>2, <1>3, <1>4, <2>1
<1>10. CASE Pool!backoff(c) \/ Pool!Respond(c)
  <2>1. /\ UNCHANGED <<dispatch, registered, cached, on, out>>
        /\ \/ task[c] = "send" /\ task'[c] = "publish"
           \/ task[c] = "open" /\ task'[c] = "settled"
    BY <1>0, <1>10 DEF Pool!backoff, Pool!Respond, Pool!Move
  <2> QED
    BY <1>0, <1>2, <1>3, <1>4, <2>1
<1> QED
  BY Zenon, <1>6, <1>7, <1>8, <1>9, <1>10 DEF Pool!Compute

(* The shutdown cancels the tokens, takes the handles, and releases.       *)
LEMMA PoolShutdown == ASSUME PoolAssumption, PoolInv, Pool!shutdown_and_release PROVE PoolInv'
<1>0. /\ task \in [Pool!Tasks -> TaskState] /\ queue \in Seq(Pool!Tasks)
      /\ dispatch \in Seq({"up", "gone"}) /\ registered \subseteq DOMAIN dispatch /\ joins \subseteq DOMAIN dispatch
      /\ cached \in Nat /\ on \in [Calls -> Nat] /\ out \in [Calls -> {"no", "sent", "late"}]
      /\ Shutdown \in Pool!Tasks /\ \A d \in Calls : d \in Pool!Tasks /\ d # Shutdown
  BY Zenon, PoolTasks DEF PoolInv, PoolTypes
<1>1. PICK v \in {"taking", "joining", "settled"} :
        task' = [task EXCEPT ![Shutdown] = v] /\ task[Shutdown] \in {"compute", "taking", "joining"}
  BY DEF Pool!shutdown_and_release, Pool!cancel, Pool!join_all, Pool!release, Pool!Move, Shutdown
<1>2. UNCHANGED <<queue, dispatch, on, out>>
  BY Zenon DEF Pool!shutdown_and_release, Pool!cancel, Pool!join_all, Pool!release
<1>3. /\ task' \in [Pool!Tasks -> TaskState] /\ QueueInv' /\ SizeInv'
      /\ task'[Shutdown] = v /\ \A u \in Pool!Tasks : u # Shutdown => task'[u] = task[u]
  <2>1. v \in TaskState /\ task[Shutdown] \in Pool!OnThread
    BY <1>1 DEF TaskState, Pool!OnThread
  <2> QED
    BY Zenon, <1>0, <1>1, <1>2, <2>1, TaskMoves DEF PoolInv
<1>4. \A d \in Calls : task'[d] = task[d]
  BY Zenon, <1>0, <1>3
<1>5. SUFFICES cached' \in Nat /\ registered' \subseteq DOMAIN dispatch /\ joins' \subseteq DOMAIN dispatch /\ WaitInv' /\ LateInv'
  BY ZenonT(40), <1>0, <1>2, <1>3 DEF PoolInv, PoolTypes
<1>6. CASE Pool!cancel
  <2>1. /\ task[Shutdown] = "compute" /\ task'[Shutdown] = "taking" /\ cancelled'
        /\ UNCHANGED <<cached, registered, joins>>
    BY <1>0, <1>6 DEF Pool!cancel, Pool!Move, Shutdown
  <2>2. ~cancelled
    BY <2>1 DEF PoolInv, WaitInv, ShutdownInv
  <2>3. WaitInv'
    BY <1>0, <1>2, <1>4, <2>1, <2>2 DEF PoolInv, WaitInv, ShutdownInv, CallInv, Awaited
  <2>4. LateSet' \subseteq Busy \ {Shutdown} /\ Shutdown \in Busy
    <3>1. \A c \in Calls : out'[c] # "late"
      BY Zenon, <1>2, <2>2 DEF PoolInv, LateInv
    <3>2. \A c \in LateSet' : c \in Calls /\ task[c] = "send"
      BY Zenon, <1>4, <3>1 DEF LateSet
    <3> QED
      BY <1>0, <2>1, <3>2 DEF Busy, Pool!OnThread
  <2>5. Cardinality(LateSet') < Threads
    <3>1. Busy \subseteq Pool!Tasks
      BY Zenon DEF Busy
    <3>2. IsFiniteSet(Busy) /\ IsFiniteSet(Busy \ {Shutdown})
      BY Zenon, <3>1, PoolTasks, FS_Subset, FS_RemoveElement
    <3>3. Cardinality(Busy \ {Shutdown}) = Cardinality(Busy) - 1
      BY <2>4, <3>2, FS_RemoveElement
    <3>4. /\ Cardinality(LateSet') \in Nat /\ Cardinality(Busy \ {Shutdown}) \in Nat
          /\ Cardinality(LateSet') =< Cardinality(Busy \ {Shutdown})
      BY Zenon, <2>4, <3>2, NotLarger
    <3>5. Cardinality(Busy) \in Nat /\ Cardinality(Busy) =< Threads
      BY Zenon, <3>2, FS_CardinalityType DEF PoolInv, SizeInv
    <3> QED
      BY <3>3, <3>4, <3>5 DEF PoolAssumption
  <2> QED
    BY Zenon, <1>0, <2>1, <2>3, <2>5 DEF LateInv
<1>7. CASE Pool!join_all \/ Pool!release
  <2>1. /\ cancelled' = cancelled
        /\ \/ /\ task[Shutdown] = "taking" /\ task'[Shutdown] = "joining" /\ joins' = registered
              /\ registered' = {} /\ cached' = cached
           \/ /\ task[Shutdown] = "joining" /\ task'[Shutdown] = "settled" /\ Pool!Joined
              /\ cached' = 0 /\ UNCHANGED <<registered, joins>>
    BY <1>0, <1>7 DEF Pool!join_all, Pool!release, Pool!Move, Shutdown
  <2>2. cancelled
    BY <2>1 DEF PoolInv, WaitInv, ShutdownInv
  <2>3. WaitInv'
    BY <1>0, <1>2, <1>4, <2>1, <2>2 DEF PoolInv, WaitInv, ShutdownInv, CallInv, Awaited, Pool!Joined
  <2>4. \A c \in Calls : c \in LateSet' => c \in LateSet
    BY Zenon, <1>2, <1>4 DEF LateSet
  <2>5. LateInv'
    BY Zenon, <2>1, <2>2, <2>4, LateKept DEF PoolInv
  <2> QED
    BY <1>0, <2>1, <2>3, <2>5
<1> QED
  BY Zenon, <1>6, <1>7 DEF Pool!shutdown_and_release

(* A thread that stops changes no task, and stays gone.                    *)
LEMMA PoolThread ==
    ASSUME PoolAssumption, PoolInv, NEW i \in DOMAIN dispatch, Pool!ThreadStops(i)
    PROVE  PoolInv'
<1>1. /\ dispatch' = [dispatch EXCEPT ![i] = "gone"]
      /\ UNCHANGED <<task, queue, cached, registered, joins, cancelled, on, out>>
  BY Zenon DEF Pool!ThreadStops
<1>2. /\ dispatch' \in Seq({"up", "gone"}) /\ DOMAIN dispatch' = DOMAIN dispatch
      /\ \A k \in DOMAIN dispatch : dispatch[k] = "gone" => dispatch'[k] = "gone"
  BY <1>1 DEF PoolInv, PoolTypes
<1>3. PoolTypes' /\ QueueInv' /\ SizeInv' /\ LateInv'
  BY Zenon, <1>1, <1>2 DEF PoolInv, PoolTypes, QueueInv, SizeInv, Busy, LateInv, LateSet
<1>4. WaitInv'
  BY Zenon, <1>1, <1>2 DEF PoolInv, PoolTypes, WaitInv, ShutdownInv, CallInv, Awaited, Pool!Joined
<1> QED
  BY Zenon, <1>3, <1>4 DEF PoolInv

(* Every step keeps the invariant.                                         *)
LEMMA PoolNext == ASSUME PoolAssumption, PoolInv, [Pool!Next]_(Pool!vars) PROVE PoolInv'
<1>1. CASE UNCHANGED Pool!vars
  BY ZenonT(40), <1>1 DEF Pool!vars, PoolInv, PoolTypes, QueueInv, SizeInv, Busy, WaitInv, ShutdownInv, CallInv, Awaited,
     Pool!Joined, LateInv, LateSet
<1> QED
  BY Zenon, <1>1, PoolSubmit, PoolTake, PoolCall, PoolShutdown, PoolThread DEF Pool!Next

(* However the calls of an addon and its shutdown share the threads of the *)
(* libuv pool, and however many there are: fewer requests than the pool    *)
(* has threads go out under cancelled tokens, and a shutdown that has      *)
(* settled leaves no thread up that could answer a request that went out   *)
(* (publish_until_delivered, shutdown_and_release).                        *)
THEOREM PoolIsSafe ==
    ASSUME Shutdown \notin Calls, IsFiniteSet(Calls), Threads \in Nat \ {0}
    PROVE  Pool!Spec => [](Pool!LateSendsAreFew /\ Pool!ReleasedAfterThreads)
<1>0. PoolAssumption
  BY Zenon DEF PoolAssumption
<1>1. Pool!Init => PoolInv
  <2> SUFFICES ASSUME Pool!Init PROVE PoolInv
    BY Zenon
  <2>1. /\ queue \in Seq(Pool!Tasks) /\ DOMAIN queue = {} /\ dispatch \in Seq({"up", "gone"})
        /\ joins = {} /\ registered = {} /\ cached = 0 /\ ~cancelled
        /\ cached \in Nat /\ on \in [Calls -> Nat] /\ out \in [Calls -> {"no", "sent", "late"}] /\ \A c \in Calls : out[c] = "no"
    BY DEF Pool!Init
  <2>2. task \in [Pool!Tasks -> TaskState] /\ \A t \in Pool!Tasks : task[t] = "idle"
    BY Zenon DEF Pool!Init, TaskState
  <2>3. Shutdown \in Pool!Tasks /\ \A c \in Calls : c \in Pool!Tasks
    BY Zenon, <1>0, PoolTasks
  <2>4. SizeInv
    <3>1. Busy = {}
      BY <2>2 DEF Busy, Pool!OnThread
    <3> QED
      BY <1>0, <3>1, FS_EmptySet DEF SizeInv, PoolAssumption
  <2>5. WaitInv
    BY <2>1, <2>2, <2>3 DEF WaitInv, ShutdownInv, CallInv
  <2>6. LateInv
    BY <2>1 DEF LateInv
  <2> QED
    BY Zenon, <2>1, <2>2, <2>4, <2>5, <2>6 DEF PoolInv, PoolTypes, QueueInv
<1>2. PoolInv => Pool!LateSendsAreFew
  <2> SUFFICES ASSUME PoolInv PROVE Pool!LateSendsAreFew
    BY Zenon
  <2> DEFINE L == {c \in Calls : out[c] = "late"}
  <2>0. Cardinality(L) < Threads => Pool!LateSendsAreFew
    BY Zenon, SameCount DEF Pool!LateSendsAreFew
  <2>1. CASE cancelled
    <3>1. L \subseteq LateSet /\ LateSet \subseteq Calls
      BY Zenon DEF LateSet
    <3>2. Cardinality(LateSet) \in Nat /\ Cardinality(L) \in Nat /\ Cardinality(L) =< Cardinality(LateSet)
      BY Zenon, <3>1, <1>0, NotLarger DEF PoolAssumption
    <3> HIDE DEF L
    <3>3. Cardinality(L) < Threads
      BY <1>0, <2>1, <3>2 DEF PoolInv, LateInv, PoolAssumption
    <3> QED
      BY Zenon, <2>0, <3>3
  <2>2. CASE ~cancelled
    <3>1. L = {}
      BY Zenon, <2>2 DEF PoolInv, LateInv
    <3> HIDE DEF L
    <3>2. Cardinality(L) < Threads
      BY <1>0, <3>1, FS_EmptySet DEF PoolAssumption
    <3> QED
      BY Zenon, <2>0, <3>2
  <2> QED
    BY Zenon, <2>1, <2>2
<1>3. PoolInv => Pool!ReleasedAfterThreads
  BY Zenon DEF PoolInv, WaitInv, ShutdownInv, CallInv, Awaited, Shutdown, Pool!Joined, Pool!ReleasedAfterThreads
<1> QED
  BY <1>0, <1>1, <1>2, <1>3, PoolNext, PTL DEF Pool!Spec

-----------------------------------------------------------------------------
(* The process of the monitor.                                             *)

(* How many multiples of the rate there are up to a count, as it grows by  *)
(* one.                                                                    *)
LEMMA Counted ==
    ASSUME NEW n \in Nat, NEW r \in Nat \ {0}
    PROVE  (n + 1) \div r = IF (n + 1) % r = 0 THEN (n \div r) + 1 ELSE n \div r
<1> DEFINE q == n \div r
           m == n % r
<1>1. q \in Int /\ m \in 0..(r - 1) /\ n = q * r + m
  OBVIOUS
<1>2. CASE m = r - 1
  OBVIOUS
<1>3. CASE m < r - 1
  OBVIOUS
<1> QED BY <1>1, <1>2, <1>3

(* Sequences with the same elements are equal.                             *)
LEMMA SameElements ==
    ASSUME NEW S, NEW s \in Seq(S), NEW t \in Seq(S), Len(s) = Len(t), \A i \in 1..Len(s) : s[i] = t[i]
    PROVE  s = t
OBVIOUS

(* Where the latest k lines of w start.                                    *)
First(w, k) == 1 + (IF Len(w) > k THEN Len(w) - k ELSE 0)

(* What SubSeq takes from the end of a sequence.                           *)
LEMMA LatestOf ==
    ASSUME NEW w \in Seq(Nat), NEW a \in 1..(Len(w) + 1)
    PROVE  /\ SubSeq(w, a, Len(w)) \in Seq(Nat) /\ Len(SubSeq(w, a, Len(w))) = Len(w) + 1 - a
           /\ \A i \in 1..(Len(w) + 1 - a) : SubSeq(w, a, Len(w))[i] = w[i + (a - 1)]
  OBVIOUS

(* What is left of a sequence of k lines without the oldest.               *)
LEMMA Tailed ==
    ASSUME NEW r \in Seq(Nat), NEW k \in Nat \ {0}, Len(r) = k
    PROVE  Tail(r) \in Seq(Nat) /\ Len(Tail(r)) = k - 1 /\ \A i \in 1..(k - 1) : Tail(r)[i] = r[i + 1]
  OBVIOUS

(* What a line adds to a sequence.                                         *)
LEMMA Grown ==
    ASSUME NEW p \in Seq(Nat), NEW x \in Nat
    PROVE  /\ Append(p, x) \in Seq(Nat) /\ Len(p) \in Nat /\ Len(Append(p, x)) = Len(p) + 1
           /\ Append(p, x)[Len(p) + 1] = x /\ \A i \in 1..Len(p) : Append(p, x)[i] = p[i]
  OBVIOUS

(* r holds the elements of w, a sequence of n, from position a on.         *)
Suffix(w, n, a, r) == r \in Seq(Nat) /\ Len(r) = n + 1 - a /\ \A i \in 1..(n + 1 - a) : r[i] = w[i + (a - 1)]

(* v is w, a sequence of n, and one more line.                             *)
Grows(w, n, x, v) == \A i \in 1..(n + 1) : v[i] = IF i = n + 1 THEN x ELSE w[i]

(* Forgetting the oldest line moves the start of a suffix by one.          *)
LEMMA SuffixTail ==
    ASSUME NEW w, NEW n \in Nat, NEW a \in 1..n, NEW b, b = a + 1, NEW r, Suffix(w, n, a, r)
    PROVE  Suffix(w, n, b, Tail(r))
<1>1. n + 1 - a \in Nat \ {0} /\ n + 1 - b = n + 1 - a - 1
  OBVIOUS
<1>2. r \in Seq(Nat) /\ Len(r) = n + 1 - a
  BY DEF Suffix
<1>3. /\ Tail(r) \in Seq(Nat) /\ Len(Tail(r)) = n + 1 - b
      /\ \A i \in 1..(n + 1 - b) : Tail(r)[i] = r[i + 1]
  BY <1>1, <1>2, Tailed
<1>4. \A i \in 1..(n + 1 - b) : Tail(r)[i] = w[i + (b - 1)]
  <2> SUFFICES ASSUME NEW i \in 1..(n + 1 - b) PROVE Tail(r)[i] = w[i + (b - 1)]
    BY Zenon
  <2>1. i + 1 \in 1..(n + 1 - a) /\ i + 1 + (a - 1) = i + (b - 1)
    OBVIOUS
  <2>2. r[i + 1] = w[i + 1 + (a - 1)]
    BY <2>1, Zenon DEF Suffix
  <2> QED  BY <1>3, <2>1, <2>2, ZenonT(40)
<1> QED  BY <1>3, <1>4, Zenon DEF Suffix

(* A line added to both keeps a suffix one.                                *)
LEMMA SuffixGrows ==
    ASSUME NEW w, NEW n \in Nat, NEW a \in 1..(n + 1), NEW r, Suffix(w, n, a, r), NEW x \in Nat, NEW v, Grows(w, n, x, v)
    PROVE  Suffix(v, n + 1, a, Append(r, x))
<1>1. n + 1 - a \in Nat /\ n + 1 + 1 - a = n + 1 - a + 1
  OBVIOUS
<1>2. r \in Seq(Nat) /\ Len(r) = n + 1 - a
  BY DEF Suffix
<1>3. /\ Append(r, x) \in Seq(Nat) /\ Len(Append(r, x)) = n + 1 - a + 1
      /\ Append(r, x)[n + 1 - a + 1] = x /\ \A i \in 1..(n + 1 - a) : Append(r, x)[i] = r[i]
  BY <1>2, Grown
<1>4. ASSUME NEW i \in 1..(n + 1 + 1 - a) PROVE Append(r, x)[i] = v[i + (a - 1)]
  <2>1. CASE i = n + 1 - a + 1
    <3>1. i + (a - 1) = n + 1 /\ n + 1 \in 1..(n + 1)  BY <2>1
    <3>2. v[n + 1] = x  BY <3>1 DEF Grows
    <3> QED  BY <1>3, <2>1, <3>1, <3>2, Zenon
  <2>2. CASE i # n + 1 - a + 1
    <3>1. i \in 1..(n + 1 - a) /\ i + (a - 1) \in 1..(n + 1) /\ i + (a - 1) # n + 1  BY <2>2
    <3>2. v[i + (a - 1)] = w[i + (a - 1)]  BY <3>1 DEF Grows
    <3>3. r[i] = w[i + (a - 1)]  BY <3>1, Zenon DEF Suffix
    <3> QED  BY <1>3, <3>1, <3>2, <3>3, ZenonT(40)
  <2> QED  BY <2>1, <2>2, Zenon
<1> QED  BY <1>1, <1>3, <1>4, ZenonT(40) DEF Suffix

(* There is one suffix from a given position.                              *)
LEMMA SuffixIs ==
    ASSUME NEW w, NEW n \in Nat, NEW a \in 1..(n + 1), NEW r, NEW q, Suffix(w, n, a, r), Suffix(w, n, a, q)
    PROVE  r = q
<1>1. r \in Seq(Nat) /\ q \in Seq(Nat) /\ Len(r) = Len(q)
  BY DEF Suffix
<1>2. \A i \in 1..Len(r) : r[i] = q[i]
  BY Zenon DEF Suffix
<1> QED  BY <1>1, <1>2, SameElements, ZenonT(40)

(* SubSeq to the end of a sequence is a suffix of it.                      *)
LEMMA SubSeqIs ==
    ASSUME NEW w \in Seq(Nat), NEW n, n = Len(w), NEW a \in 1..(n + 1)
    PROVE  Suffix(w, n, a, SubSeq(w, a, n))
  BY LatestOf DEF Suffix

(* What the buffer of the live view holds after a line (PushRecent).       *)
Keep(r, x, k) == Append(IF Len(r) >= k THEN Tail(r) ELSE r, x)
IsLatest(r, w, k) == r = SubSeq(w, First(w, k), Len(w))

(* A buffer of the latest k lines that drops its oldest one for a new line *)
(* holds the latest k lines again.                                         *)
LEMMA KeepsLatest ==
    ASSUME NEW w \in Seq(Nat), NEW x \in Nat, NEW k \in Nat \ {0}, NEW r, IsLatest(r, w, k)
    PROVE  IsLatest(Keep(r, x, k), Append(w, x), k)
<1> DEFINE v == Append(w, x)
           n == Len(w)
           a == First(w, k)
           b == First(v, k)
           p == IF Len(r) >= k THEN Tail(r) ELSE r
<1>1. n \in Nat /\ v \in Seq(Nat) /\ Len(v) = n + 1 /\ Grows(w, n, x, v)
  BY Grown DEF Grows
<1>2. a = (IF n > k THEN n - k + 1 ELSE 1) /\ b = (IF n >= k THEN n - k + 2 ELSE 1)
  BY <1>1 DEF First
<1>3. r = SubSeq(w, a, n)
  BY Zenon DEF IsLatest
<1> HIDE DEF v, n, a, b, p
<1>4. a \in 1..(n + 1) /\ b \in 1..(n + 1 + 1) /\ b \in 1..(n + 1)
  BY <1>1, <1>2
<1>5. Suffix(w, n, a, r)
  BY <1>3, <1>4, SubSeqIs, Zenon DEF n
<1>6. Suffix(v, n + 1, b, SubSeq(v, b, n + 1))
  BY <1>1, <1>4, SubSeqIs, Zenon
<1>7. Suffix(w, n, b, p)
  <2>0. Len(r) = n + 1 - a
    BY <1>5 DEF Suffix
  <2>1. CASE n >= k
    <3>1. Len(r) >= k /\ a \in 1..n /\ b = a + 1
      BY <1>1, <1>2, <2>0, <2>1
    <3>2. p = Tail(r)
      BY <3>1, Zenon DEF p
    <3> QED  BY <1>1, <1>5, <3>1, <3>2, SuffixTail, ZenonT(40)
  <2>2. CASE n < k
    <3>1. ~(Len(r) >= k) /\ b = a
      BY <1>1, <1>2, <2>0, <2>2
    <3>2. p = r
      BY <3>1, Zenon DEF p
    <3> QED  BY <1>5, <3>1, <3>2, ZenonT(40)
  <2>3. n >= k \/ n < k
    BY <1>1
  <2> QED  BY <2>1, <2>2, <2>3, Zenon
<1>8. Suffix(v, n + 1, b, Append(p, x))
  BY <1>1, <1>4, <1>7, SuffixGrows, ZenonT(40)
<1>9. n + 1 \in Nat
  BY <1>1
<1>10. Append(p, x) = SubSeq(v, b, n + 1)
  BY <1>4, <1>6, <1>8, <1>9, SuffixIs, ZenonT(40)
<1> QED  BY <1>1, <1>10, ZenonT(40) DEF p, b, v, IsLatest, Keep

(* What the configuration gives: the buffer holds a line at least, and a   *)
(* sink samples one call in trace_sample_rate.                             *)
MonitorConfig == RECENT_KEEP \in Nat \ {0} /\ trace_sample_rate \in Nat \ {0}

(* The counters and the lines on their way.                                *)
RecordTypes ==
    /\ traced \in Nat /\ failed \in Nat /\ dropped \in Nat
    /\ queue \in Seq(Nat) /\ hand \in Seq(Nat) /\ written \in Seq(Nat)

(* The writer holds a line exactly while it writes it, and ends only when  *)
(* the sender is closed and the queue empty. Without a sink there is       *)
(* neither.                                                                *)
SinkInv ==
    /\ sink = "none" => ~sender /\ writer \in {"idle", "done"}
    /\ writer = "write" => Len(hand) = 1
    /\ writer # "write" => hand = <<>>
    /\ writer = "done" => queue = <<>> /\ ~sender
    /\ sink = "none" => queue = <<>>

(* Main joins the acquisition thread, which joins the writer; before they  *)
(* start and once the view is left the terminal is in its normal screen.   *)
ThreadInv ==
    /\ obs = "done" => writer = "done"
    /\ main = "exit" => obs = "done"
    /\ main \in {"install", "start"} => writer = "idle" /\ obs = "idle"
    /\ main \in {"install", "start", "join", "exit"} => screen = "normal"

MonitorInv == RecordTypes /\ SinkInv /\ ThreadInv /\ Mon!NoRecordLost /\ Mon!RecentIsLatest

(* Nothing is sampled at the start.                                        *)
LEMMA InitMonitor == ASSUME MonitorConfig PROVE Mon!Init => MonitorInv
<1> SUFFICES ASSUME Mon!Init PROVE MonitorInv
  OBVIOUS
<1>0. RecordTypes
  BY DEF Mon!Init, RecordTypes
<1>1. SinkInv /\ ThreadInv
  BY Zenon DEF Mon!Init, SinkInv, ThreadInv
<1>2. Mon!NoRecordLost
  <2>1. 0 \div trace_sample_rate = 0
    BY DEF MonitorConfig
  <2> QED  BY <2>1 DEF Mon!Init, Mon!NoRecordLost
<1>3. Mon!RecentIsLatest
  BY DEF Mon!Init, Mon!RecentIsLatest, MonitorConfig
<1> QED  BY <1>0, <1>1, <1>2, <1>3, ZenonT(40) DEF MonitorInv

(* A step that touches no record keeps what is said of them.               *)
LEMMA RecordsStay ==
    ASSUME RecordTypes /\ Mon!NoRecordLost /\ Mon!RecentIsLatest, UNCHANGED <<sink, Mon!records>>
    PROVE  RecordTypes' /\ Mon!NoRecordLost' /\ Mon!RecentIsLatest'
  BY Zenon DEF RecordTypes, Mon!NoRecordLost, Mon!RecentIsLatest, Mon!records

(* Main starts the threads, draws, and exits after the join.               *)
LEMMA MainKeeps == ASSUME MonitorInv, Mon!Main PROVE MonitorInv'
<1>1. UNCHANGED <<sink, Mon!records>>
  BY Zenon DEF Mon!Main, Mon!Start, Mon!View, Mon!Draw, Mon!Leave, Mon!Exit, Mon!install
<1>2. RecordTypes' /\ Mon!NoRecordLost' /\ Mon!RecentIsLatest'
  BY <1>1, RecordsStay, ZenonT(40) DEF MonitorInv
<1>3. SinkInv' /\ ThreadInv'
  BY DEF Mon!Main, Mon!Start, Mon!View, Mon!Draw, Mon!Leave, Mon!Restored, Mon!Exit, Mon!Joined, Mon!install, Mon!records,
     MonitorInv, SinkInv, ThreadInv
<1> QED  BY <1>2, <1>3, ZenonT(40) DEF MonitorInv

(* The acquisition thread only closes the sender and joins.                *)
LEMMA ObserveKeeps == ASSUME MonitorInv, Mon!Observe PROVE MonitorInv'
<1>1. UNCHANGED <<sink, traced, queue, hand, written, failed, dropped, recent>>
  BY Zenon DEF Mon!Observe, Mon!Check, Mon!EndPass, Mon!DropSink, Mon!JoinWriter, Mon!records
<1>2. RecordTypes' /\ Mon!NoRecordLost' /\ Mon!RecentIsLatest'
  BY <1>1, ZenonT(40) DEF MonitorInv, RecordTypes, Mon!NoRecordLost, Mon!RecentIsLatest
<1>3. SinkInv' /\ ThreadInv'
  BY DEF Mon!Observe, Mon!Check, Mon!EndPass, Mon!DropSink, Mon!JoinWriter, Mon!CloseSender, Mon!records,
     MonitorInv, SinkInv, ThreadInv
<1> QED  BY <1>2, <1>3, Zenon DEF MonitorInv

(* A signal touches neither records nor threads.                           *)
LEMMA SignalKeeps ==
    ASSUME MonitorInv, Mon!Poll \/ (\E sig \in Mon!Signals : Mon!Signal(sig)) \/ UNCHANGED Mon!vars
    PROVE  MonitorInv'
<1>1. UNCHANGED <<sink, Mon!records>> /\ UNCHANGED Mon!threads /\ UNCHANGED screen
  BY Zenon DEF Mon!Poll, Mon!Signal, Mon!vars
<1>2. RecordTypes' /\ Mon!NoRecordLost' /\ Mon!RecentIsLatest'
  BY <1>1, RecordsStay, Zenon DEF MonitorInv
<1>3. SinkInv' /\ ThreadInv'
  BY <1>1, Zenon DEF Mon!threads, Mon!records, MonitorInv, SinkInv, ThreadInv
<1> QED  BY <1>2, <1>3, Zenon DEF MonitorInv

(* A sampled record is queued or counted as dropped, never both, and no    *)
(* other call adds one.                                                    *)
LEMMA EmitKeeps == ASSUME MonitorConfig, MonitorInv, Mon!EmitTrace PROVE MonitorInv'
<1>1. /\ sink # "none" /\ UNCHANGED <<sink, sender, hand, written, failed, recent, Mon!threads, screen>> /\ writer # "done"
      /\ traced' = traced + 1 /\ IF Mon!Sampled(traced') THEN Mon!emit(traced') ELSE UNCHANGED <<queue, dropped>>
  BY Zenon DEF Mon!EmitTrace, MonitorInv, SinkInv
<1>t. RecordTypes
  BY Zenon DEF MonitorInv
<1>2. RecordTypes' /\ Len(queue') + dropped' = Len(queue) + dropped + (IF Mon!Sampled(traced + 1) THEN 1 ELSE 0)
  <2>1. traced + 1 \in Nat /\ dropped + 1 \in Nat
    BY <1>t DEF RecordTypes
  <2>2. CASE UNCHANGED <<queue, dropped>> /\ ~Mon!Sampled(traced + 1)
    BY <1>1, <1>t, <2>1, <2>2 DEF RecordTypes
  <2>3. CASE queue' = Append(queue, traced + 1) /\ dropped' = dropped /\ Mon!Sampled(traced + 1)
    BY <1>1, <1>t, <2>1, <2>3 DEF RecordTypes
  <2>4. CASE queue' = queue /\ dropped' = dropped + 1 /\ Mon!Sampled(traced + 1)
    BY <1>1, <1>t, <2>1, <2>4 DEF RecordTypes
  <2> QED  BY <1>1, <2>2, <2>3, <2>4, ZenonT(40) DEF Mon!emit
<1>3. SinkInv' /\ ThreadInv'
  BY <1>1, Zenon DEF Mon!threads, MonitorInv, SinkInv, ThreadInv
<1>4. Mon!NoRecordLost'
  <2>1. (traced + 1) \div trace_sample_rate = (traced \div trace_sample_rate) + (IF Mon!Sampled(traced + 1) THEN 1 ELSE 0)
    <3>1. traced \div trace_sample_rate \in Int
      BY <1>t DEF RecordTypes, MonitorConfig
    <3>2. (traced + 1) \div trace_sample_rate
            = IF Mon!Sampled(traced + 1) THEN (traced \div trace_sample_rate) + 1 ELSE traced \div trace_sample_rate
      BY <1>t, Counted, Zenon DEF RecordTypes, MonitorConfig, Mon!Sampled
    <3> HIDE DEF Mon!Sampled
    <3> QED  BY <3>1, <3>2
  <2>2. traced \div trace_sample_rate = Len(written) + failed + Len(hand) + Len(queue) + dropped
    BY <1>1, Zenon DEF MonitorInv, Mon!NoRecordLost
  <2>3. /\ Len(written) \in Nat /\ failed \in Nat /\ Len(hand) \in Nat /\ Len(queue) \in Nat /\ dropped \in Nat
        /\ Len(queue') \in Nat /\ dropped' \in Nat
    BY <1>t, <1>2 DEF RecordTypes
  <2>4. (traced + 1) \div trace_sample_rate = Len(written) + failed + Len(hand) + Len(queue') + dropped'
    <3> DEFINE more == IF Mon!Sampled(traced + 1) THEN 1 ELSE 0
               gone == Len(written) + failed + Len(hand)
               ahead == Len(queue)
               refused == dropped
    <3>1. more \in {0, 1} /\ gone \in Nat
      BY <2>3
    <3>2. (traced + 1) \div trace_sample_rate = gone + ahead + refused + more
      BY <2>1, <2>2, Zenon
    <3>3. ahead' + refused' = ahead + refused + more
      BY <1>2, Zenon
    <3>4. ahead \in Nat /\ refused \in Nat /\ ahead' \in Nat /\ refused' \in Nat
      BY <2>3, Zenon
    <3> HIDE DEF more, gone, ahead, refused
    <3>5. gone + ahead + refused + more = gone + ahead' + refused'
      <4>1. \A q1, d1 \in Nat : q1 + d1 = ahead + refused + more => gone + ahead + refused + more = gone + q1 + d1
        BY <3>1, <3>4
      <4> QED  BY <3>3, <3>4, <4>1, ZenonT(40)
    <3>6. (traced + 1) \div trace_sample_rate = gone + ahead' + refused'
      BY <3>2, <3>5, Zenon
    <3> QED  BY <3>6, Zenon DEF gone, ahead, refused
  <2> QED  BY <1>1, <2>4, ZenonT(40) DEF Mon!NoRecordLost
<1>5. Mon!RecentIsLatest'
  BY <1>1, Zenon DEF MonitorInv, Mon!RecentIsLatest
<1> QED  BY <1>2, <1>3, <1>4, <1>5, ZenonT(40) DEF MonitorInv

(* A line the writer takes leaves the queue for its hand; it ends only on  *)
(* an empty queue nobody can add to.                                       *)
LEMMA RecvKeeps == ASSUME MonitorInv, Mon!Recv \/ Mon!EndWriter PROVE MonitorInv'
<1>t. RecordTypes /\ writer = "recv" /\ hand = <<>>
  BY Zenon DEF MonitorInv, SinkInv, Mon!Recv, Mon!EndWriter
<1>1. CASE Mon!EndWriter
  <2>1. UNCHANGED <<sink, Mon!records>>
    BY <1>1, Zenon DEF Mon!EndWriter
  <2>2. RecordTypes' /\ Mon!NoRecordLost' /\ Mon!RecentIsLatest'
    BY <2>1, RecordsStay, ZenonT(40) DEF MonitorInv
  <2>3. SinkInv' /\ ThreadInv'
    BY <1>1 DEF Mon!EndWriter, Mon!records, MonitorInv, SinkInv, ThreadInv
  <2> QED  BY <2>2, <2>3, Zenon DEF MonitorInv
<1>2. CASE Mon!Recv
  <2>1. /\ UNCHANGED <<sink, main, obs, screen, traced, sender, written, failed, dropped, recent>>
        /\ writer' = "write" /\ queue # <<>> /\ hand' = <<Head(queue)>> /\ queue' = Tail(queue)
    BY <1>2, Zenon DEF Mon!Recv
  <2>2. RecordTypes' /\ Len(hand') = 1 /\ Len(hand) = 0 /\ Len(queue) = Len(queue') + 1 /\ Len(queue') \in Nat
    BY <1>t, <2>1 DEF RecordTypes
  <2>3. SinkInv' /\ ThreadInv'
    BY <1>t, <2>1, <2>2, Zenon DEF MonitorInv, SinkInv, ThreadInv
  <2>4. Mon!NoRecordLost'
    <3>1. Len(written) \in Nat /\ failed \in Nat /\ dropped \in Nat
      BY <1>t DEF RecordTypes
    <3>2. Len(written) + failed + Len(hand) + Len(queue) + dropped
            = Len(written) + failed + Len(hand') + Len(queue') + dropped
      BY <2>2, <3>1
    <3> QED  BY <2>1, <3>2, Zenon DEF MonitorInv, Mon!NoRecordLost
  <2>5. Mon!RecentIsLatest'
    BY <2>1, Zenon DEF MonitorInv, Mon!RecentIsLatest
  <2> QED  BY <2>2, <2>3, <2>4, <2>5, ZenonT(40) DEF MonitorInv
<1> QED  BY <1>1, <1>2

(* What the writer holds while it writes.                                  *)
LEMMA OneLine == ASSUME NEW h \in Seq(Nat), Len(h) = 1 PROVE h[1] \in Nat /\ h = <<h[1]>>
  OBVIOUS

(* The line the writer adds.                                               *)
LEMMA OneMore == ASSUME NEW w \in Seq(Nat), NEW x \in Nat PROVE w \o <<x>> = Append(w, x)
  OBVIOUS

(* A line in hand is written or counted as failed, and the buffer of the   *)
(* live view follows what is written.                                      *)
LEMMA WriteKeeps == ASSUME MonitorConfig, MonitorInv, NEW ok \in BOOLEAN, Mon!Write(ok) PROVE MonitorInv'
<1>1. /\ UNCHANGED <<sink, main, obs, screen, traced, sender, queue, dropped>> /\ writer = "write" /\ writer' = "recv"
      /\ hand' = <<>> /\ (ok \/ sink = "file") /\ written' = (IF ok THEN written \o hand ELSE written)
      /\ failed' = (IF ok THEN failed ELSE failed + 1)
      /\ recent' = IF sink = "memory" THEN Mon!PushRecent(recent, hand[1]) ELSE recent
  BY Zenon DEF Mon!Write
<1>t. RecordTypes /\ Len(hand) = 1
  BY <1>1, Zenon DEF MonitorInv, SinkInv
<1>a. hand[1] \in Nat /\ written \o hand = Append(written, hand[1])
  <2>1. hand[1] \in Nat /\ hand = <<hand[1]>>
    BY <1>t, OneLine, Zenon DEF RecordTypes
  <2>2. written \o <<hand[1]>> = Append(written, hand[1])
    BY <1>t, <2>1, OneMore, ZenonT(40) DEF RecordTypes
  <2> QED  BY <2>1, <2>2, Zenon
<1>2. /\ Append(written, hand[1]) \in Seq(Nat) /\ Len(written) \in Nat
      /\ Len(Append(written, hand[1])) = Len(written) + 1 /\ failed \in Nat /\ failed + 1 \in Nat
  BY <1>t, <1>a DEF RecordTypes
<1>3. /\ RecordTypes' /\ Len(written') + failed' = Len(written) + failed + 1 /\ Len(hand') = 0
  <2>1. written' \in Seq(Nat) /\ failed' \in Nat /\ Len(written') + failed' = Len(written) + failed + 1
    <3>1. CASE ok
      <4>1. written' = Append(written, hand[1]) /\ failed' = failed
        BY <1>1, <1>a, <3>1, ZenonT(40)
      <4> QED  BY <1>2, <4>1
    <3>2. CASE ~ok
      <4>1. written' = written /\ failed' = failed + 1
        BY <1>1, <3>2, ZenonT(40)
      <4>2. written \in Seq(Nat)
        BY <1>t, ZenonT(40) DEF RecordTypes
      <4> QED  BY <1>2, <4>1, <4>2
    <3> QED  BY <3>1, <3>2, ZenonT(40)
  <2>2. hand' \in Seq(Nat) /\ Len(hand') = 0
    BY <1>1
  <2> QED  BY <1>1, <1>t, <2>1, <2>2, ZenonT(40) DEF RecordTypes
<1>4. SinkInv' /\ ThreadInv'
  BY <1>1, Zenon DEF MonitorInv, SinkInv, ThreadInv
<1>5. Mon!NoRecordLost'
  <2>1. /\ Len(queue) \in Nat /\ dropped \in Nat /\ Len(written') \in Nat /\ failed' \in Nat
    BY <1>t, <1>3 DEF RecordTypes
  <2>2. Len(written) + failed + Len(hand) + Len(queue) + dropped
          = Len(written') + failed' + Len(hand') + Len(queue) + dropped
    BY <1>2, <1>3, <1>t, <2>1
  <2> QED  BY <1>1, <2>2, ZenonT(40) DEF MonitorInv, Mon!NoRecordLost
<1>6. Mon!RecentIsLatest'
  <2> SUFFICES ASSUME sink = "memory" PROVE IsLatest(recent', written', RECENT_KEEP)
    BY <1>1, Zenon DEF Mon!RecentIsLatest, IsLatest, First
  <2>1. IsLatest(recent, written, RECENT_KEEP)
    BY Zenon DEF MonitorInv, Mon!RecentIsLatest, IsLatest, First
  <2>2. written' = Append(written, hand[1])
    BY <1>1, <1>a
  <2>3. recent' = Keep(recent, hand[1], RECENT_KEEP)
    BY <1>1, Zenon DEF Mon!PushRecent, Keep
  <2>4. written \in Seq(Nat) /\ RECENT_KEEP \in Nat \ {0}
    BY <1>t, Zenon DEF RecordTypes, MonitorConfig
  <2>5. IsLatest(Keep(recent, hand[1], RECENT_KEEP), Append(written, hand[1]), RECENT_KEEP)
    BY <1>a, <2>1, <2>4, KeepsLatest, ZenonT(40)
  <2> QED  BY <2>2, <2>3, <2>5, ZenonT(40)
<1> QED  BY <1>3, <1>4, <1>5, <1>6, Zenon DEF MonitorInv

(* Whatever the interleaving of the monitor's threads and signals, for any *)
(* size of the queue and of the buffer and any sampling rate: every        *)
(* sampled record is written, refused, on its way or counted as dropped;   *)
(* the process exits with nothing left on its way and the terminal         *)
(* restored; and the live view holds the latest lines (emit_trace,         *)
(* TraceSink, LiveConsole).                                                *)
THEOREM NoTraceIsLost ==
    ASSUME MonitorConfig
    PROVE  Mon!Spec => [](Mon!NoRecordLost /\ Mon!ExitFlushes /\ Mon!TerminalRestored /\ Mon!RecentIsLatest)
<1>1. Mon!Init => MonitorInv
  BY InitMonitor, Zenon
<1>2. MonitorInv /\ [Mon!Next]_(Mon!vars) => MonitorInv'
  BY MainKeeps, ObserveKeeps, SignalKeeps, EmitKeeps, RecvKeeps, WriteKeeps, ZenonT(40) DEF Mon!Next, Mon!WriteTraces
<1>3. MonitorInv => Mon!NoRecordLost /\ Mon!ExitFlushes /\ Mon!TerminalRestored /\ Mon!RecentIsLatest
  BY DEF MonitorInv, SinkInv, ThreadInv, Mon!ExitFlushes, Mon!TerminalRestored
<1> QED  BY <1>1, <1>2, <1>3, PTL DEF Mon!Spec

=============================================================================
