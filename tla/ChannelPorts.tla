----------------------------- MODULE ChannelPorts -----------------------------
(***************************************************************************)
(* Opening the iceoryx2 services of one channel (transport/open.rs and the *)
(* openers of server.rs, client.rs and monitor.rs): who may create a       *)
(* service, what a failure means, when it is retried, what a failed or     *)
(* killed process leaves on the bus, and what the liveness probe answers.  *)
(*                                                                         *)
(* The bus is external: a record per service, the services each process    *)
(* has a tag on, and the publishers of the response service.               *)
(***************************************************************************)
EXTENDS Naturals, Sequences

CONSTANTS
    Providers, Consumers, Readers,  \* processes, by what they open
    ConfigOf,       \* process -> the iceoryx2 configuration it resolves
    Services,       \* the services of a channel, in opening order
    Viewed,         \* the ones a read-only view opens, in order
    Attempts,       \* OPEN_RETRY_ATTEMPTS
    MaxCrashes, MaxProbes

ASSUME PortsAssumption ==
    /\ Services \in Seq(STRING) /\ Viewed \in Seq({Services[i] : i \in DOMAIN Services})
    /\ "resp" \in {Services[i] : i \in DOMAIN Services} /\ Providers \cap Readers = {}
    /\ Attempts \in Nat /\ MaxCrashes \in Nat

VARIABLES
    bus,        \* service -> [state, config, by]
    held,       \* process -> services it has a tag on, also once it was killed
    publishers, \* processes with a publisher on the response service
    proc,       \* process -> [at, next, attempt, error, stop]
    asking,     \* processes with a liveness probe in progress
    answer,     \* the last probe: what it said, and whether a provider served
    crashes, probes
vars == <<bus, held, publishers, proc, asking, answer, crashes, probes>>
probing == <<asking, answer, probes>>

Procs == Providers \cup Consumers \cup Readers
Names == {Services[i] : i \in DOMAIN Services}

Absent == [state |-> "absent", config |-> "none", by |-> "none"]
Fresh == [at |-> "idle", next |-> 1, attempt |-> 0, error |-> "none", stop |-> FALSE]
Alive(p) == proc[p].at # "dead"
Opening(p) == proc[p].at = "opening"

Wanted(p) == IF p \in Readers THEN Viewed ELSE Services

Init ==
    /\ bus = [s \in Names |-> Absent] /\ held = [p \in Procs |-> {}] /\ publishers = {}
    /\ proc = [p \in Procs |-> Fresh]
    /\ asking = {} /\ answer = [said |-> "nothing", served |-> FALSE] /\ probes = 0
    /\ crashes = 0

-----------------------------------------------------------------------------
\* iceoryx2 removes a service with the last tag on it, unless it is beyond repair.
Unlinked(b, h) ==
    [s \in Names |-> IF b[s].state = "ready" /\ \A p \in Procs : s \notin h[p]
                     THEN Absent ELSE b[s]]

\* Reaping removes the tags and the ports of the processes that are gone.
Reap ==
    /\ held' = [q \in Procs |-> IF Alive(q) THEN held[q] ELSE {}]
    /\ bus' = Unlinked(bus, held')
    /\ publishers' = {q \in publishers : Alive(q)}

\* run_provider_inner: a provider tries to reap before it creates anything.
run_provider(p) ==
    /\ p \in Providers /\ proc[p].at = "idle"
    /\ Reap \/ UNCHANGED <<held, bus, publishers>>
    /\ proc' = [proc EXCEPT ![p].at = "opening"]
    /\ UNCHANGED <<probing, crashes>>

\* A consumer opens on its first call, a view when it is asked for; either tries
\* again after a failure, when it is called again.
first_use(p) ==
    /\ p \in Consumers \cup Readers /\ proc[p].at \in {"idle", "failed"} /\ ~proc[p].stop
    /\ proc' = [proc EXCEPT ![p] = [Fresh EXCEPT !.at = "opening"]]
    /\ UNCHANGED <<bus, held, publishers, probing, crashes>>

\* shared_node follows the configuration of the deployment, where iceoryx2's own
\* reaping is on: it happens when a process creates its node or opens a service.
shared_node(p) ==
    /\ Opening(p) \/ p \in asking
    /\ \E q \in Procs : ~Alive(q) /\ held[q] # {}
    /\ Reap
    /\ UNCHANGED <<proc, probing, crashes>>

-----------------------------------------------------------------------------
is_retryable(error) == error = "transport"

\* A disagreement of configurations and the leftovers of a killed process are named
\* apart; everything else, SystemInFlux included, may be retried.
open_error(cause) ==
    CASE cause = "mismatch" -> "config"
      [] cause \in {"corrupted", "hangs"} -> "stale"
      [] OTHER -> "transport"

PartialKept(p, h) == h

\* The handles of an attempt are dropped when it fails.
Dropped(p, h) == [h EXCEPT ![p] = {}]

NextAttempt(n) == n + 1

Budget(n) == n < Attempts

\* retry_open; a view has no such loop.
Fails(p, error) ==
    /\ held' = Dropped(p, held)
    /\ bus' = Unlinked(bus, held')
    /\ LET again == p \notin Readers /\ is_retryable(error)
                    /\ Budget(proc[p].attempt) /\ ~proc[p].stop
       IN  proc' = IF again
                   THEN [proc EXCEPT ![p].next = 1, ![p].attempt = NextAttempt(@)]
                   ELSE [proc EXCEPT ![p].at = "failed", ![p].error = error]

\* What iceoryx2 may answer to a process that opens a service.
Outcomes(p, s) ==
    LET b == bus[s]
    IN  CASE b.state = "absent" -> {IF p \in Readers THEN "missing" ELSE "create"}
          [] b.state = "broken" -> {"corrupted"}
          [] b.state = "creating" /\ b.by = p -> {"created"}
          [] b.state = "creating" /\ b.by # p -> {"flux"} \cup (IF Alive(b.by) THEN {} ELSE {"hangs"})
          [] OTHER -> {IF b.config = ConfigOf[p] THEN "open" ELSE "mismatch"}

open_service(p) ==
    /\ Opening(p) /\ proc[p].next \in DOMAIN Wanted(p)
    /\ LET s == Wanted(p)[proc[p].next]
       IN  \E out \in Outcomes(p, s) :
             \/ /\ out = "create"
                /\ bus' = [bus EXCEPT ![s] = [state |-> "creating", config |-> ConfigOf[p], by |-> p]]
                /\ UNCHANGED <<held, proc>>
             \/ /\ out \in {"created", "open"}
                /\ bus' = [bus EXCEPT ![s].state = "ready"]
                /\ held' = [held EXCEPT ![p] = @ \cup {s}]
                /\ proc' = [proc EXCEPT ![p].next = @ + 1]
             \/ out \notin {"create", "created", "open"} /\ Fails(p, open_error(out))
    /\ UNCHANGED <<publishers, probing, crashes>>

\* The ports come last: among them, on the provider side, the publisher of responses.
open_ports(p) ==
    /\ Opening(p) /\ proc[p].next > Len(Wanted(p))
    /\ \/ /\ proc' = [proc EXCEPT ![p].at = "open"]
          /\ publishers' = publishers \cup ({p} \cap Providers)
          /\ UNCHANGED <<held, bus>>
       \/ Fails(p, "transport") /\ UNCHANGED publishers
    /\ UNCHANGED <<probing, crashes>>

-----------------------------------------------------------------------------
request_shutdown(p) ==
    /\ Alive(p) /\ proc[p].at # "idle" /\ ~proc[p].stop
    /\ proc' = [proc EXCEPT ![p].stop = TRUE]
    /\ UNCHANGED <<bus, held, publishers, probing, crashes>>

\* The receive loop returns and the ports are dropped, also those of an open that
\* succeeded after the stop; then the process may start again.
release_ports(p) ==
    /\ proc[p].stop /\ proc[p].at \in {"open", "failed"} /\ p \notin asking
    /\ held' = Dropped(p, held)
    /\ bus' = Unlinked(bus, held')
    /\ publishers' = publishers \ {p}
    /\ proc' = [proc EXCEPT ![p] = Fresh]
    /\ UNCHANGED <<probing, crashes>>

\* A process is killed: its tags stay, and what it held may be beyond repair.
Crash(p) ==
    /\ crashes < MaxCrashes /\ Alive(p) /\ proc[p].at # "idle"
    /\ crashes' = crashes + 1
    /\ proc' = [proc EXCEPT ![p] = [Fresh EXCEPT !.at = "dead"]]
    /\ asking' = asking \ {p}
    /\ \E broken \in {{}, held[p]} :
         bus' = [s \in Names |-> IF s \in broken THEN [bus[s] EXCEPT !.state = "broken"] ELSE bus[s]]
    /\ UNCHANGED <<held, publishers, answer, probes>>

\* The remedy for leftover state: once no process runs, the root path is removed.
Purge ==
    /\ \A p \in Procs : proc[p].at \in {"idle", "dead"}
    /\ \E p \in Procs : ~Alive(p)
    /\ bus' = [s \in Names |-> Absent] /\ held' = [p \in Procs |-> {}] /\ publishers' = {}
    /\ proc' = [p \in Procs |-> Fresh]
    /\ UNCHANGED <<probing, crashes>>

-----------------------------------------------------------------------------
Served == \E p \in Providers : proc[p].at = "open"

Connected == IF publishers # {} THEN "true" ELSE "false"

\* Ports of a consumed channel answer by themselves; otherwise the service is opened
\* if it exists, and one that cannot be opened is an error.
Probed(p) ==
    IF proc[p].at = "open" \/ Outcomes(p, "resp") = {"open"} THEN Connected
    ELSE IF bus["resp"].state = "absent" THEN "false" ELSE "error"

probe(p) ==
    /\ p \in Consumers \ asking /\ Alive(p) /\ probes < MaxProbes
    /\ probes' = probes + 1 /\ asking' = asking \cup {p}
    /\ UNCHANGED <<bus, held, publishers, proc, answer, crashes>>

\* The probe takes the lock of the port cache, which an opening call holds.
is_provider_connected(p) ==
    /\ p \in asking /\ ~Opening(p)
    /\ answer' = [said |-> Probed(p), served |-> Served]
    /\ asking' = asking \ {p}
    /\ UNCHANGED <<bus, held, publishers, proc, crashes, probes>>

Next ==
    \/ \E p \in Procs :
         \/ run_provider(p) \/ first_use(p) \/ shared_node(p)
         \/ open_service(p) \/ open_ports(p)
         \/ request_shutdown(p) \/ release_ports(p) \/ Crash(p)
         \/ probe(p) \/ is_provider_connected(p)
    \/ Purge

Spec == Init /\ [][Next]_vars

\* A thread that opens keeps running.
LiveSpec == Spec /\ \A p \in Procs : WF_vars(open_service(p)) /\ WF_vars(open_ports(p))

-----------------------------------------------------------------------------
\* The types of the variables; retry_open counts no further than its budget.
TypeOK ==
    /\ held \in [Procs -> SUBSET Names] /\ publishers \subseteq Providers
    /\ asking \subseteq Consumers
    /\ \A p \in Procs : proc[p].attempt \in 0..Attempts /\ proc[p].next \in 1..(Len(Wanted(p)) + 1)

\* A process that gave up on a channel, or sleeps before its next attempt, has no tag
\* and no port left, and no finished service stays on the bus without a holder: what
\* open_channel_ports had opened before the failing step goes with it.
FailedHoldsNothing ==
    /\ \A p \in Procs :
         LET between == proc[p].at = "failed" \/ (Opening(p) /\ proc[p].next = 1)
         IN  between => held[p] = {} /\ p \notin publishers
    /\ \A s \in Names : bus[s].state = "ready" => \E p \in Procs : s \in held[p]

\* The remedy an error names is the one that applies: REMEDY_CONFIG only if some
\* process resolves another configuration, REMEDY_STALE only after a process was killed.
RemedyFits ==
    \A p \in Procs :
        /\ proc[p].error = "config" => \E q \in Procs : ConfigOf[q] # ConfigOf[p]
        /\ proc[p].error = "stale" => crashes > 0

\* A probe that answers `not connected` hides no provider that serves the channel, not
\* even one that resolves another configuration: is_provider_connected reports that.
ProbeHidesNoProvider == answer.said = "false" => ~answer.served

\* An opening that failed holds no service and no port, the error it answers names the
\* remedy that applies to what happened on the bus, and the liveness probe never denies
\* a provider that serves (retry_open, open_error, is_provider_connected).
PortsSound == TypeOK /\ FailedHoldsNothing /\ RemedyFits /\ ProbeHidesNoProvider

=============================================================================
