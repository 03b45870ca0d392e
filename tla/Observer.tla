------------------------------ MODULE Observer ------------------------------
(***************************************************************************)
(* The acquisition loop of ice-rpc-monitor on one channel: the two         *)
(* directions it drains (collector.rs), the table that pairs requests with *)
(* responses (correlate.rs), the responses held for a request not yet seen *)
(* (collector.rs), the loss tracker (loss.rs) and the counters they feed   *)
(* (metrics.rs).                                                           *)
(*                                                                         *)
(* The bus publishes between any two steps of the loop.  The threads that  *)
(* share a port number their samples and publish them later, so that they  *)
(* overtake one another.  The observer cannot hold a publisher back: a     *)
(* sample that finds its buffer full skips it.  Ages stand for Instants;   *)
(* beyond the largest limit they are equal.                                *)
(***************************************************************************)
EXTENDS SequencesExt, FiniteSetsExt, Functions, Integers

CONSTANTS
    Calls,               \* correlation ids
    ReqPubs, RespPubs,   \* publisher ports of the two directions
    BufferSize,          \* samples the observer's subscriber holds
    DRAIN_BUDGET, MAX_DEFERRED, MAX_DEFERRED_SAMPLES, max_inflight,
    ORPHAN_GRACE, call_ttl,  \* in ticks
    Kinds, Stamps,       \* kinds and timestamps of the responses (a request has stamp 1)
    MaxResponses, MaxCancels  \* bounds: responses of one call, cancellations

VARIABLES
    bus,     \* next seq per port, samples on their way, and the calls' progress
    queue,   \* the samples waiting in the observer's subscribers
    views,   \* the attached directions, in the order of attachment
    at,      \* where the loop is
    mon      \* the tables and counters of the Monitor

vars == <<bus, queue, views, at, mon>>

Directions == {"req", "resp"}
Terminal == {"complete", "error"}
Ports == ReqPubs \cup RespPubs
MaxAge == IF ORPHAN_GRACE > call_ttl THEN ORPHAN_GRACE ELSE call_ttl

Metrics == [requests |-> 0, responses |-> 0, latency |-> 0, clock_skew |-> 0, inflight |-> 0,
            unmatched |-> 0, orphan |-> 0, sample_gaps |-> 0, traced |-> 0]

on_sample_gap(m, missed) == [m EXCEPT !.sample_gaps = @ + missed]
on_inflight(m, delta) == [m EXCEPT !.inflight = @ + delta]
on_unmatched_request(m) == [m EXCEPT !.unmatched = @ + 1]
on_orphan_response(m, n) == [m EXCEPT !.orphan = @ + n]

\* entries, deferred and last are the maps of Correlate, Monitor and
\* LossTracker.  seen records the sequence numbers drained, in order, for the
\* properties.
New == [entries |-> <<>>, deferred |-> <<>>, last |-> <<>>, m |-> Metrics,
        seen |-> [p \in Ports |-> <<>>]]

Init ==
    /\ bus = [seq |-> [p \in Ports |-> 0], sending |-> {}, asked |-> {}, open |-> {},
              cancelled |-> {}, ended |-> {}, answers |-> [c \in Calls |-> 0]]
    /\ queue = [d \in Directions |-> <<>>] /\ views = <<>>
    /\ at = [pc |-> "attach", view |-> 0, left |-> 0] /\ mon = New

-----------------------------------------------------------------------------
(* The bus: the consumers' requests and cancellations, the provider's      *)
(* responses.                                                              *)

Deliver(d, s) ==
    queue' = IF Contains(views, d) /\ Len(queue[d]) < BufferSize
             THEN [queue EXCEPT ![d] = Append(@, s)] ELSE queue

\* with_seq: the port hands out its next number.
with_seq(p, c, kind, ts) ==
    [bus EXCEPT !.seq[p] = @ + 1,
                !.sending = @ \cup {[pub |-> p, seq |-> bus.seq[p], cid |-> c, kind |-> kind, ts |-> ts]}]

native_call(p, c) ==
    /\ c \notin bus.asked
    /\ bus' = [with_seq(p, c, "request", 1) EXCEPT !.asked = @ \cup {c}]
    /\ UNCHANGED <<queue, views, at, mon>>

publish_cancel(p, c) ==
    /\ c \in bus.open \ bus.cancelled /\ Cardinality(bus.cancelled) < MaxCancels
    /\ bus' = [with_seq(p, c, "cancel", 1) EXCEPT !.cancelled = @ \cup {c}]
    /\ UNCHANGED <<queue, views, at, mon>>

\* A call emits one response after the other.  ts 0: a clock adjustment made the
\* response look older than its request.
Answering(c) == \E s \in bus.sending : s.cid = c /\ s.pub \in RespPubs
respond(p, c, kind, ts) ==
    /\ c \in bus.open \ bus.ended /\ ~Answering(c)
    /\ bus.answers[c] < MaxResponses - 1 \/ kind \in Terminal
    /\ bus' = [with_seq(p, c, kind, ts) EXCEPT !.answers[c] = @ + 1,
                                               !.ended = IF kind \in Terminal THEN @ \cup {c} ELSE @]
    /\ UNCHANGED <<queue, views, at, mon>>

\* A thread that has its number publishes when it gets there.
Publish(s) ==
    /\ Deliver(IF s.pub \in ReqPubs THEN "req" ELSE "resp", s)
    /\ bus' = [bus EXCEPT !.sending = @ \ {s}, !.open = IF s.kind = "request" THEN @ \cup {s.cid} ELSE @]
    /\ UNCHANGED <<views, at, mon>>

\* The publication fails, and its number is spent: a request has no call then, a
\* response ends the producer, a cancellation is lost.
Abandon(s) ==
    /\ bus' = [bus EXCEPT !.sending = @ \ {s}, !.ended = IF s.pub \in RespPubs THEN @ \cup {s.cid} ELSE @]
    /\ UNCHANGED <<queue, views, at, mon>>

-----------------------------------------------------------------------------
(* The tables.                                                             *)

Without(f, k) == Restrict(f, DOMAIN f \ {k})
With(f, k, v) == (k :> v) @@ f
IsFull(f, max) == Cardinality(DOMAIN f) >= max /\ DOMAIN f # {}
Oldest(f) == {k \in DOMAIN f : \A j \in DOMAIN f : f[j].age =< f[k].age}

\* The entry a full table gives up: the oldest, any of them on a tie.
Victims(f, max) == IF IsFull(f, max) THEN Oldest(f) ELSE {"none"}

\* LossTracker::observe.
Missed(last, s) ==
    IF s.pub \in DOMAIN last /\ s.seq > last[s.pub] + 1 THEN s.seq - last[s.pub] - 1 ELSE 0

observe(st, s) ==
    [st EXCEPT !.m = on_sample_gap(@, Missed(st.last, s)), !.last = With(@, s.pub, s.seq),
               !.seen[s.pub] = Append(@, s.seq)]

\* A call given up: by a full table or by the sweep.
Evict(st, c) ==
    [st EXCEPT !.entries = Without(@, c), !.m = on_inflight(on_unmatched_request(@), -1)]

\* Correlate::insert, called by on_request.
insert(st, s, victim) ==
    LET room == IF victim = "none" THEN st ELSE Evict(st, victim)
    IN  [room EXCEPT !.entries = With(@, s.cid, [ts |-> s.ts, first_response_seen |-> FALSE, age |-> 0])]

\* Only a Request opens a call; a Cancel on the request channel does not.
on_request(st, s, victim) ==
    IF s.kind # "request" THEN st
    ELSE insert([st EXCEPT !.m = on_inflight([@ EXCEPT !.requests = @ + 1], 1)], s, victim)

Unseen(entries, c) == entries
FirstSeen(entries, c) == [entries EXCEPT ![c].first_response_seen = TRUE]

\* Correlate::on_response and complete_response, for a tracked call: the
\* latency is that of the first response, the terminal closes the call.
complete_response(st, s) ==
    LET call == st.entries[s.cid]
        late == s.ts < call.ts
        end == s.kind \in Terminal
    IN  [st EXCEPT !.entries = IF end THEN Without(@, s.cid) ELSE FirstSeen(@, s.cid),
                   !.m.latency = IF call.first_response_seen \/ late THEN @ ELSE @ + 1,
                   !.m.clock_skew = IF ~call.first_response_seen /\ late THEN @ + 1 ELSE @,
                   !.m.inflight = IF end THEN @ - 1 ELSE @,
                   !.m.traced = IF end THEN @ + 1 ELSE @]

\* A held stream given up: each of its samples is an orphan.
Orphan(st, c) ==
    [st EXCEPT !.deferred = Without(@, c), !.m = on_orphan_response(@, Len(st.deferred[c].samples))]

Overflowing(st, c) ==
    c \in DOMAIN st.deferred /\ Len(st.deferred[c].samples) >= MAX_DEFERRED_SAMPLES

Hold(st, s) ==
    LET held == IF s.cid \in DOMAIN st.deferred THEN st.deferred[s.cid]
                ELSE [samples |-> <<>>, age |-> 0]
    IN  [st EXCEPT !.deferred = With(@, s.cid, [held EXCEPT !.samples = Append(@, s)])]

defer_response(st, s, victim) ==
    LET room == IF victim = "none" THEN st ELSE Orphan(st, victim)
    IN  IF Overflowing(room, s.cid) THEN Orphan(room, s.cid) ELSE Hold(room, s)

on_response(st, s, victim) ==
    LET counted == [st EXCEPT !.m.responses = @ + 1]
    IN  IF s.cid \in DOMAIN st.entries THEN complete_response(counted, s)
        ELSE defer_response(counted, s, victim)

\* Monitor::process.
process(st, d, s, victim) ==
    IF d = "req" THEN on_request(observe(st, s), s, victim)
    ELSE on_response(observe(st, s), s, victim)

VictimsOf(st, d, s) ==
    IF d = "req" /\ s.kind = "request" THEN Victims(st.entries, max_inflight)
    ELSE IF d = "resp" /\ s.cid \notin DOMAIN st.entries THEN Victims(st.deferred, MAX_DEFERRED)
    ELSE {"none"}

-----------------------------------------------------------------------------
(* The loop of Monitor::run.                                               *)

Goto(pc, view, left) == at' = [pc |-> pc, view |-> view, left |-> left]
StartDrain(n) == IF n = 0 THEN Goto("resolve", 0, 0) ELSE Goto("drain", 1, DRAIN_BUDGET)

\* attach_known_channels: the request direction, then the response one; a
\* direction whose service does not exist yet is tried again later.
Attach(found) ==
    /\ at.pc = "attach"
    /\ views' = views \o SelectSeq(<<"req", "resp">>, LAMBDA d : d \in found /\ ~Contains(views, d))
    /\ StartDrain(Len(views')) /\ UNCHANGED <<bus, queue, mon>>

Receive ==
    LET d == views[at.view]
        s == Head(queue[d])
    IN  /\ at.pc = "drain" /\ at.left > 0 /\ queue[d] # <<>>
        /\ queue' = [queue EXCEPT ![d] = Tail(@)]
        /\ \E v \in VictimsOf(mon, d, s) : mon' = process(mon, d, s, v)
        /\ Goto("drain", at.view, at.left - 1) /\ UNCHANGED <<bus, views>>

Drained ==
    /\ at.pc = "drain" /\ (at.left = 0 \/ queue[views[at.view]] = <<>>)
    /\ IF at.view < Len(views) THEN Goto("drain", at.view + 1, DRAIN_BUDGET) ELSE Goto("resolve", 0, 0)
    /\ UNCHANGED <<bus, queue, views, mon>>

Replay(st, c) ==
    FoldLeft(LAMBDA acc, s : IF c \in DOMAIN acc.entries THEN complete_response(acc, s) ELSE acc,
             [st EXCEPT !.deferred = Without(@, c)], st.deferred[c].samples)

Ready(st) == DOMAIN st.deferred \cap DOMAIN st.entries
Expired(st) == {c \in DOMAIN st.deferred : st.deferred[c].age >= ORPHAN_GRACE}

resolve_deferred(st) ==
    LET paired == FoldSet(LAMBDA c, acc : Replay(acc, c), st, Ready(st))
    IN  FoldSet(LAMBDA c, acc : Orphan(acc, c), paired, Expired(paired))

Resolve ==
    /\ at.pc = "resolve" /\ mon' = resolve_deferred(mon)
    /\ Goto("sweep", 0, 0) /\ UNCHANGED <<bus, queue, views>>

OldCalls(st) == {c \in DOMAIN st.entries : st.entries[c].age >= call_ttl}

\* The sweep runs on its own interval: a pass may skip it.
Sweep ==
    /\ at.pc = "sweep" /\ mon' = FoldSet(LAMBDA c, acc : Evict(acc, c), mon, OldCalls(mon))
    /\ Goto("attach", 0, 0) /\ UNCHANGED <<bus, queue, views>>
SkipSweep ==
    /\ at.pc = "sweep" /\ Goto("attach", 0, 0) /\ UNCHANGED <<bus, queue, views, mon>>

Older(f) == [k \in DOMAIN f |-> [f[k] EXCEPT !.age = IF @ < MaxAge THEN @ + 1 ELSE @]]
Tick ==
    /\ mon' = [mon EXCEPT !.entries = Older(@), !.deferred = Older(@)] /\ mon' # mon
    /\ UNCHANGED <<bus, queue, views, at>>

Loop == (\E found \in SUBSET Directions : Attach(found)) \/ Receive \/ Drained \/ Resolve \/ Sweep \/ SkipSweep

Traffic ==
    \/ \E p \in ReqPubs, c \in Calls : native_call(p, c) \/ publish_cancel(p, c)
    \/ \E p \in RespPubs, c \in Calls, kind \in Kinds, ts \in Stamps : respond(p, c, kind, ts)
    \/ \E s \in bus.sending : Publish(s) \/ Abandon(s)

Next == Loop \/ Traffic \/ Tick

\* The loop never blocks for longer than its idle wait, time passes, and the
\* sweep interval elapses again and again.
Spec == Init /\ [][Next]_vars /\ WF_vars(Loop) /\ WF_vars(Tick) /\ SF_vars(Sweep)

-----------------------------------------------------------------------------
\* The gauge of calls in flight is the size of the table, and every request
\* seen is in flight, closed by a terminal response, or counted as unmatched:
\* on_request, complete_response, insert and sweep agree (collector.rs).
GaugeIsExact ==
    /\ mon.m.inflight = Cardinality(DOMAIN mon.entries)
    /\ mon.m.requests = mon.m.inflight + mon.m.traced + mon.m.unmatched

\* A call contributes one latency or one clock skew at most, that of its first
\* response (complete_response, PendingCall.first_response_seen).
LatencyOnce ==
    mon.m.latency + mon.m.clock_skew =<
        mon.m.traced + mon.m.unmatched
        + Cardinality({c \in DOMAIN mon.entries : mon.entries[c].first_response_seen})

\* No number missing behind the first one drained of a publisher port goes
\* uncounted, and nothing else is counted as long as the samples of every port
\* arrive in the order of their numbers (LossTracker::observe).  Threads that
\* overtake each other between with_seq and the publication make it count more.
LossesAreCounted ==
    LET drained == {p \in Ports : mon.seen[p] # <<>>}
        Holes(p) == (mon.seen[p][1] .. Max(ToSet(mon.seen[p]))) \ ToSet(mon.seen[p])
        holes == MapThenSumSet(LAMBDA p : Cardinality(Holes(p)), drained)
        inOrder == \A p \in drained : \A i \in 2..Len(mon.seen[p]) : mon.seen[p][i - 1] < mon.seen[p][i]
    IN  mon.m.sample_gaps >= holes /\ (inOrder => mon.m.sample_gaps = holes)

\* For limits of at least one: "Bounded table of in-flight calls", "Maximum number
\* of deferred responses held at once", "Maximum number of deferred samples kept
\* for one correlation id" (insert, defer_response).
TablesBounded ==
    /\ Cardinality(DOMAIN mon.entries) =< max_inflight
    /\ Cardinality(DOMAIN mon.deferred) =< MAX_DEFERRED
    /\ \A c \in DOMAIN mon.deferred : Len(mon.deferred[c].samples) =< MAX_DEFERRED_SAMPLES

=============================================================================
