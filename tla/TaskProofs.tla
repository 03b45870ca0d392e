------------------------------ MODULE TaskProofs ------------------------------
(***************************************************************************)
(* Proofs about what the task of a handler relies on while a thread polls  *)
(* it: the token that cancels it (CancelToken), for any set of tasks, and  *)
(* its ambient context (CallContext, an instance), for any number of       *)
(* threads, requests and nested calls.                                     *)
(***************************************************************************)
EXTENDS CancelToken, Naturals, Sequences, TLAPS

(* A leaf that names no prover is tried with these, one after the other.   *)
USE SMT, ZenonT(30), SMTT(30), Z3

CONSTANTS Threads, Tracing, MaxRequests, MaxDepth, MaxIds
VARIABLES requests, tasks, running, current, token, frames, minted

Ctx == INSTANCE CallContext

-----------------------------------------------------------------------------
(* The token.  While it is not cancelled every cached or just registered   *)
(* waker is in the list; so a poll that saw the flag unset after that      *)
(* leaves its waker where cancel() will find it, or has been found already.*)

(* cancel() runs behind the flag.                                          *)
FlagInv ==
    /\ cancelled <=> firing # "idle"
    /\ firing # "waking" => toWake = {}

(* Before the cancellation no registered waker is missing.                 *)
ListInv ==
    ~cancelled => \A t \in Task :
        /\ cache[t] # None => cache[t] \in wakers
        /\ at[t] = "recheck" => with[t] \in wakers

(* The cancellation of the token reaches a task that returned Pending.     *)
Reached(t) ==
    \/ firing # "waking" /\ t \in wakers
    \/ firing = "waking" /\ t \in toWake

(* A poll that answered Pending with the task's own waker.                 *)
PendingInv ==
    \A t \in Task :
        /\ at[t] = "returning" /\ with[t] # Noop => Reached(t) \/ woken[t]
        /\ at[t] = "parked" => Reached(t)
        /\ with[t] \in {t, Noop}

TokenInv == TokenTypeOK /\ FlagInv /\ ListInv /\ PendingInv

(* The invariant holds before any poll.                                    *)
LEMMA InitToken == Init => TokenInv
  BY TokenAssumption, ZenonT(40) DEF TokenAssumption, Init, TokenInv, TokenTypeOK, FlagInv, ListInv, PendingInv, Place, Waker

(* No step of cancel(), of a poll or of the executor breaks it.            *)
LEMMA StepToken == TokenInv /\ [Next]_vars => TokenInv'
<1> SUFFICES ASSUME TokenInv, [Next]_vars PROVE TokenInv'
  OBVIOUS
<1> USE TokenAssumption DEF TokenAssumption, TokenInv, TokenTypeOK, FlagInv, ListInv, PendingInv, Reached, Waker, Place
<1>1. CASE CancelSwap
  BY <1>1 DEF CancelSwap, taskVars
<1>2. CASE CancelTake
  BY <1>2 DEF CancelTake, taskVars
<1>3. ASSUME NEW w \in Waker, CancelWake(w) PROVE TokenInv'
  BY Zenon, <1>3 DEF CancelWake, Notify, Polling
<1>4. ASSUME NEW t \in Task, PollInline(t) PROVE TokenInv'
  BY <1>4 DEF PollInline, Enter, Goto
<1>5. ASSUME NEW t \in Task, Spawn(t) PROVE TokenInv'
  BY <1>5 DEF Spawn, Goto
<1>6. ASSUME NEW t \in Task, Resume(t) PROVE TokenInv'
  BY <1>6 DEF Resume, Enter, Goto
<1>7. ASSUME NEW t \in Task, OtherWake(t) PROVE TokenInv'
  BY <1>7 DEF OtherWake, Notify, Polling
<1>8. ASSUME NEW t \in Task, PollEntry(t) PROVE TokenInv'
  BY <1>8 DEF PollEntry, Goto
<1>9. ASSUME NEW t \in Task, PollHandler(t) PROVE TokenInv'
  BY <1>9 DEF PollHandler, Goto
<1>10. ASSUME NEW t \in Task, PollCached(t) PROVE TokenInv'
  BY <1>10 DEF PollCached, Goto
<1>11. ASSUME NEW t \in Task, FirstRead(t) PROVE TokenInv'
  BY <1>11 DEF FirstRead, Goto
<1>12. ASSUME NEW t \in Task, RegisterWaker(t) PROVE TokenInv'
  BY <1>12 DEF RegisterWaker, Goto
<1>13. ASSUME NEW t \in Task, SecondRead(t) PROVE TokenInv'
  BY <1>13 DEF SecondRead, Goto
<1>14. ASSUME NEW t \in Task, ReturnPending(t) PROVE TokenInv'
  BY <1>14 DEF ReturnPending, Goto
<1>15. CASE UNCHANGED vars
  BY <1>15 DEF vars
<1> QED
  BY Zenon, <1>1, <1>2, <1>3, <1>4, <1>5, <1>6, <1>7, <1>8, <1>9, <1>10, <1>11, <1>12, <1>13, <1>14, <1>15
    DEF Next, PollStep

(* No task is parked on a wake-up that nobody will send, whatever the      *)
(* interleaving of cancel(), the polls of any number of tasks, their       *)
(* changes of waker and their other wake-ups.                              *)
THEOREM NoWakeupIsLost == Spec => []NoLostWakeup
<1>1. TokenInv => NoLostWakeup
  BY DEF TokenInv, FlagInv, PendingInv, Reached, NoLostWakeup, TokenTypeOK
<1>2. Init => TokenInv
  BY InitToken
<1>3. TokenInv /\ [Next]_vars => TokenInv'
  BY StepToken
<1> QED
  BY <1>1, <1>2, <1>3, PTL DEF Spec

-----------------------------------------------------------------------------
(* What Append does to a sequence.                                         *)
LEMMA Appended ==
    ASSUME NEW S, NEW s \in Seq(S), NEW e \in S
    PROVE  /\ Append(s, e) \in Seq(S) /\ Append(s, e) # <<>>
           /\ Len(s) \in Nat /\ Len(Append(s, e)) = Len(s) + 1
           /\ DOMAIN Append(s, e) = DOMAIN s \cup {Len(s) + 1}
           /\ \A i \in DOMAIN s : Append(s, e)[i] = s[i]
           /\ Append(s, e)[Len(s) + 1] = e
  OBVIOUS

(* A sequence without its last element.                                    *)
LEMMA Shortened ==
    ASSUME NEW S, NEW s \in Seq(S), s # <<>>
    PROVE  SubSeq(s, 1, Len(s) - 1) \in Seq(S)
  OBVIOUS

-----------------------------------------------------------------------------
(* The ambient context.                                                    *)

Slots == 1..MaxRequests
Context == [call : Nat, depth : Nat, trace : Nat, parent : Nat, span : Nat]
Request == [trace : Nat, parent : Nat, span : Nat, oneway : BOOLEAN, by : Nat]
Handler == [pc : {"none", "polled", "parked", "done"}, ctx : Context, locals : Seq(Context), cancelled : BOOLEAN]
Frame == [current : Context, token : Nat]

ContextTypes ==
    /\ requests \in Seq(Request) /\ tasks \in [Slots -> Handler] /\ minted \in Nat
    /\ running \in [Threads -> Nat] /\ current \in [Threads -> Context] /\ token \in [Threads -> Nat]
    /\ frames \in [Threads -> Seq(Frame)]

(* The contexts of a task, from the outermost in.                          *)
Depth(i) == IF Tracing THEN Len(tasks[i].locals) ELSE 0
Scope(i, k) == IF k = 0 THEN tasks[i].ctx ELSE tasks[i].locals[k]
Has(i, c) == tasks[i].pc # "none" /\ \E k \in 0..Depth(i) : c = Scope(i, k)

(* A task that was received has its request, and its contexts know how     *)
(* deep they are.                                                          *)
TaskInv ==
    \A i \in Slots : tasks[i].pc # "none" =>
        i \in DOMAIN requests /\ \A k \in 0..Depth(i) : Scope(i, k).depth = k

(* What a thread polls, and what its open scopes will put back.            *)
Polls(t, i) ==
    /\ i \in Slots /\ tasks[i].pc = "polled"
    /\ Len(frames[t]) = Depth(i) + 1 /\ frames[t][1].current = Ctx!None /\ frames[t][1].token = 0
    /\ \A k \in 1..Depth(i) : frames[t][k + 1].current = Scope(i, k - 1)
    /\ current[t] = Scope(i, Depth(i)) /\ token[t] = IF requests[i].oneway THEN 0 ELSE i
ThreadInv ==
    \A t \in Threads :
        /\ running[t] = 0 => current[t] = Ctx!None /\ token[t] = 0
        /\ \A i \in Nat \ {0} : running[t] = i => Polls(t, i) /\ \A u \in Threads : running[u] = i => u = t

(* A span is minted once: after the request that is served, and after      *)
(* every request that names another.                                       *)
HopInv ==
    /\ \A i \in Slots, c \in Context : Has(i, c) =>
         /\ c.call = i /\ 0 < c.span /\ c.span <= minted
         /\ c.trace = requests[i].trace /\ requests[i].parent < c.span
    /\ \A i, j \in Slots, c, d \in Context : Has(i, c) /\ Has(j, d) /\ c.span = d.span => c = d
RootOrHop(n) ==
    IF requests[n].by = 0
    THEN /\ \A m \in 1..(n - 1) : requests[m].trace # requests[n].trace
         /\ \A i \in Slots, c \in Context : Has(i, c) => c.span # requests[n].span
    ELSE /\ requests[n].by \in DOMAIN requests
         /\ requests[n].trace = requests[requests[n].by].trace
         /\ requests[n].parent # requests[requests[n].by].parent
         /\ \A i \in Slots, c \in Context : Has(i, c) /\ c.span = requests[n].parent => c.call = requests[n].by
RequestInv ==
    \A n \in DOMAIN requests :
        /\ 0 < requests[n].trace /\ requests[n].trace <= minted
        /\ requests[n].parent <= minted /\ requests[n].span <= minted
        /\ RootOrHop(n)

ContextInv == ContextTypes /\ TaskInv /\ ThreadInv /\ HopInv /\ RequestInv

(* A step that starts no hop and emits no request keeps the spans.         *)
LEMMA HopsKept ==
    ASSUME ContextTypes, HopInv, RequestInv, minted' = minted, requests' = requests,
           \A i \in Slots, c \in Context : Has(i, c)' => Has(i, c)
    PROVE  HopInv' /\ RequestInv'
<1>1. HopInv'
  BY DEF HopInv
<1>2. RequestInv'
  BY DEF RequestInv, RootOrHop
<1> QED
  BY <1>1, <1>2

(* A new hop has a span nobody has named yet.                              *)
LEMMA HopStarted ==
    ASSUME ContextTypes, HopInv, RequestInv, requests' = requests, minted' \in Nat, minted < minted',
           NEW h \in Slots, NEW n \in Context, h \in DOMAIN requests, n.call = h, n.span = minted + 1,
           n.trace = requests[h].trace,
           \A i \in Slots, c \in Context : Has(i, c)' => Has(i, c) \/ (i = h /\ c = n)
    PROVE  HopInv' /\ RequestInv'
<1>0. minted \in Nat /\ \A k \in DOMAIN requests : requests[k] \in Request
  BY DEF ContextTypes
<1>1. \A i \in Slots, c \in Context : Has(i, c) => c.span \in Nat /\ c.span <= minted
  BY <1>0 DEF HopInv, Context
<1>2. 0 < n.span /\ n.span <= minted' /\ \A x \in Nat : x <= minted => x <= minted' /\ x # n.span /\ x < n.span
  BY <1>0
<1>3. requests[h].parent < n.span
  BY <1>0, <1>2 DEF RequestInv, Request
<1>4. HopInv'
  <2>1. ASSUME NEW i \in Slots, NEW c \in Context, Has(i, c)'
        PROVE  /\ c.call = i /\ 0 < c.span /\ c.span <= minted'
               /\ c.trace = requests'[i].trace /\ requests'[i].parent < c.span
    BY <1>1, <1>2, <1>3, <2>1 DEF HopInv
  <2>2. ASSUME NEW i \in Slots, NEW j \in Slots, NEW c \in Context, NEW d \in Context,
               Has(i, c)', Has(j, d)', c.span = d.span
        PROVE  c = d
    BY <1>1, <1>2, <2>2 DEF HopInv
  <2> QED
    BY Zenon, <2>1, <2>2 DEF HopInv
<1>5. ASSUME NEW k \in DOMAIN requests
      PROVE  /\ 0 < requests'[k].trace /\ requests'[k].trace <= minted'
             /\ requests'[k].parent <= minted' /\ requests'[k].span <= minted'
             /\ RootOrHop(k)'
  <2>1. /\ requests[k].trace \in Nat /\ requests[k].parent \in Nat /\ requests[k].span \in Nat
        /\ 0 < requests[k].trace /\ requests[k].trace <= minted
        /\ requests[k].parent <= minted /\ requests[k].span <= minted
    BY Zenon, <1>0 DEF RequestInv, Request
  <2>2. n.span # requests[k].span /\ n.span # requests[k].parent
    BY <1>2, <2>1
  <2>3. RootOrHop(k)'
    BY <2>2 DEF RequestInv, RootOrHop
  <2> QED
    BY Zenon, <1>2, <2>1, <2>3
<1> QED
  BY Zenon, <1>4, <1>5 DEF RequestInv

(* A request continues the trace of the call it is emitted by, or starts   *)
(* one with ids of its own.                                                *)
LEMMA HopEmitted ==
    ASSUME ContextTypes, HopInv, RequestInv, minted' \in Nat, minted <= minted', tasks' = tasks,
           NEW r \in Request, requests' = Append(requests, r),
           0 < r.trace, r.trace <= minted', r.parent <= minted', r.span <= minted',
           r.by = 0 => minted < r.trace /\ minted < r.span,
           r.by # 0 => /\ r.by \in DOMAIN requests /\ r.trace = requests[r.by].trace
                       /\ \E i \in Slots, c \in Context : Has(i, c) /\ c.call = r.by /\ c.span = r.parent,
           \A i \in Slots : tasks[i].pc # "none" => i \in DOMAIN requests
    PROVE  HopInv' /\ RequestInv'
<1>0. /\ minted \in Nat /\ \A k \in DOMAIN requests : requests[k] \in Request
      /\ r.trace \in Nat /\ r.parent \in Nat /\ r.span \in Nat
  <2>1. minted \in Nat /\ requests \in Seq(Request)
    BY Zenon DEF ContextTypes
  <2>2. \A k \in DOMAIN requests : requests[k] \in Request
    BY <2>1
  <2>3. r.trace \in Nat /\ r.parent \in Nat /\ r.span \in Nat
    BY Zenon DEF Request
  <2> QED
    BY Zenon, <2>1, <2>2, <2>3
<1>1. PICK n \in Nat :
      /\ DOMAIN requests = 1..(n - 1) /\ DOMAIN requests' = DOMAIN requests \cup {n}
      /\ \A k \in DOMAIN requests : requests'[k] = requests[k]
      /\ requests'[n] = r
  <2>1. requests \in Seq(Request)
    BY Zenon DEF ContextTypes
  <2>2. Len(requests) + 1 \in Nat /\ DOMAIN requests = 1..(Len(requests) + 1 - 1)
    BY <2>1
  <2>3. /\ DOMAIN requests' = DOMAIN requests \cup {Len(requests) + 1}
        /\ \A k \in DOMAIN requests : requests'[k] = requests[k]
        /\ requests'[Len(requests) + 1] = r
    BY <2>1
  <2> QED
    BY <2>2, <2>3
<1>2. \A i, c : Has(i, c)' <=> Has(i, c)
  BY Zenon DEF Has, Depth, Scope
<1>3. \A x \in Nat : x <= minted => x <= minted'
  BY <1>0
<1>4. ASSUME NEW i \in Slots, NEW c \in Context, Has(i, c)
      PROVE  /\ i \in DOMAIN requests /\ c.call = i /\ 0 < c.span /\ c.span <= minted
             /\ c.trace = requests[i].trace /\ requests[i].parent < c.span
             /\ c.span \in Nat
  BY Zenon, <1>4 DEF HopInv, Has, Context
<1>5. HopInv'
  BY <1>1, <1>2, <1>3, <1>4 DEF HopInv
<1>6. ASSUME NEW k \in DOMAIN requests
      PROVE  /\ 0 < requests'[k].trace /\ requests'[k].trace <= minted'
             /\ requests'[k].parent <= minted' /\ requests'[k].span <= minted'
             /\ RootOrHop(k)'
  <2>1. /\ requests'[k] = requests[k] /\ requests[k].trace \in Nat /\ requests[k].parent \in Nat
        /\ requests[k].span \in Nat
    BY <1>0, <1>1 DEF Request
  <2>2. /\ 0 < requests[k].trace /\ requests[k].trace <= minted
        /\ requests[k].parent <= minted /\ requests[k].span <= minted
    BY DEF RequestInv
  <2>3. RootOrHop(k)'
    <3>1. RootOrHop(k)
      BY Zenon DEF RequestInv
    <3>2. \A m \in 1..(k - 1) : requests'[m] = requests[m]
      BY <1>1
    <3> QED
      BY <1>1, <1>2, <2>1, <3>1, <3>2 DEF RootOrHop
  <2> QED
    BY <1>3, <2>1, <2>2, <2>3
<1>7. RootOrHop(n)'
  <2>1. CASE r.by = 0
    <3>1. ASSUME NEW m \in 1..(n - 1) PROVE requests'[m].trace # r.trace
      <4>1. /\ m \in DOMAIN requests /\ requests'[m] = requests[m] /\ requests[m].trace \in Nat
            /\ requests[m].trace <= minted
        BY <1>0, <1>1 DEF RequestInv, Request
      <4> QED
        BY <1>0, <2>1, <4>1
    <3>2. ASSUME NEW i \in Slots, NEW c \in Context, Has(i, c) PROVE c.span # r.span
      <4>1. c.span \in Nat /\ c.span <= minted
        BY <1>4, <3>2
      <4> QED
        BY <1>0, <2>1, <4>1
    <3> QED
      BY <1>1, <1>2, <2>1, <3>1, <3>2 DEF RootOrHop
  <2>2. CASE r.by # 0
    <3>1. PICK i \in Slots, c \in Context : Has(i, c) /\ c.call = r.by /\ c.span = r.parent
      BY Zenon, <2>2
    <3>2. r.by = i /\ requests[r.by].parent < r.parent
      BY <1>4, <3>1
    <3>3. requests[r.by].parent # r.parent
      BY <1>0, <2>2, <3>2 DEF Request
    <3>4. \A j \in Slots, d \in Context : Has(j, d) /\ d.span = r.parent => d.call = r.by
      BY Zenon, <3>1 DEF HopInv
    <3> QED
      BY <1>1, <1>2, <2>2, <3>3, <3>4 DEF RootOrHop
  <2> QED
    BY Zenon, <2>1, <2>2
<1> QED
  <2>1. /\ 0 < requests'[n].trace /\ requests'[n].trace <= minted'
        /\ requests'[n].parent <= minted' /\ requests'[n].span <= minted'
    BY Zenon, <1>1
  <2> QED
    BY Zenon, <1>1, <1>5, <1>6, <1>7, <2>1 DEF RequestInv

-----------------------------------------------------------------------------
(* What a step does to one task and to one thread.                         *)

Kept(i) ==
    /\ tasks'[i].ctx = tasks[i].ctx /\ tasks'[i].locals = tasks[i].locals
    /\ tasks'[i].pc = "none" <=> tasks[i].pc = "none"

(* A task whose contexts a step leaves alone.                              *)
LEMMA TaskKept ==
    ASSUME NEW i, Kept(i)
    PROVE  /\ \A c : Has(i, c)' <=> Has(i, c)
           /\ Depth(i)' = Depth(i) /\ \A k : Scope(i, k)' = Scope(i, k)
<1>1. Depth(i)' = Depth(i) /\ \A k : Scope(i, k)' = Scope(i, k)
  BY Zenon DEF Kept, Depth, Scope
<1> QED
  BY Zenon, <1>1 DEF Kept, Has

(* A request keeps its place once it is emitted.                           *)
Grows ==
    DOMAIN requests \subseteq DOMAIN requests' /\ \A n \in DOMAIN requests : requests'[n] = requests[n]

SameThread(u) ==
    /\ running'[u] = running[u] /\ current'[u] = current[u] /\ token'[u] = token[u] /\ frames'[u] = frames[u]

(* A step of thread t that may begin, go on with or end polling task i.    *)
ThreadStep(t, i) ==
    /\ \A u \in Threads : u # t => SameThread(u) /\ running[u] # i
    /\ \A j \in Slots : j # i => Kept(j) /\ tasks'[j].pc = tasks[j].pc
    /\ running'[t] \in {0, i} /\ running[t] \in {0, i}
    /\ running'[t] = 0 => current'[t] = Ctx!None /\ token'[t] = 0
    /\ running'[t] # 0 => Polls(t, i)'

(* A thread that goes on with the same task.                               *)
LEMMA PollKept ==
    ASSUME TaskInv, Grows, NEW u \in Threads, NEW i, Polls(u, i), SameThread(u), Kept(i), tasks'[i].pc = "polled"
    PROVE  Polls(u, i)'
<1>1. /\ i \in Slots /\ tasks[i].pc = "polled" /\ requests'[i] = requests[i]
  BY Zenon DEF Polls, TaskInv, Grows
<1> QED
  BY Zenon, <1>1, TaskKept DEF Polls, SameThread

(* The tasks a step leaves alone keep their requests and their depths.     *)
LEMMA TasksKept ==
    ASSUME TaskInv, Grows,
           \A i \in Slots : Kept(i) \/ (i \in DOMAIN requests /\ \A k \in 0..Depth(i)' : Scope(i, k)'.depth = k)
    PROVE  TaskInv'
<1> SUFFICES ASSUME NEW i \in Slots, tasks'[i].pc # "none"
             PROVE  i \in DOMAIN requests' /\ \A k \in 0..Depth(i)' : Scope(i, k)'.depth = k
  BY Zenon DEF TaskInv
<1>1. CASE Kept(i)
  <2>1. tasks[i].pc # "none" /\ Depth(i)' = Depth(i) /\ \A k : Scope(i, k)' = Scope(i, k)
    BY Zenon, <1>1, TaskKept DEF Kept
  <2> QED
    BY Zenon, <2>1 DEF Grows, TaskInv
<1> QED
  BY Zenon, <1>1 DEF Grows

(* The threads a step leaves alone, when it changes one thread.            *)
LEMMA ThreadsKept ==
    ASSUME ContextTypes, TaskInv, ThreadInv, Grows, NEW t \in Threads, NEW i \in Nat, ThreadStep(t, i)
    PROVE  ThreadInv'
<1> USE DEF ThreadStep
<1> SUFFICES ASSUME NEW u \in Threads
             PROVE  /\ running'[u] = 0 => current'[u] = Ctx!None /\ token'[u] = 0
                    /\ \A j \in Nat \ {0} : running'[u] = j =>
                         Polls(u, j)' /\ \A v \in Threads : running'[v] = j => v = u
  BY Zenon DEF ThreadInv
<1>1. CASE u = t
  BY Zenon, <1>1 DEF SameThread
<1>2. CASE u # t
  <2>1. SameThread(u) /\ running[u] # i
    BY Zenon, <1>2
  <2>2. running'[u] = 0 => current'[u] = Ctx!None /\ token'[u] = 0
    BY Zenon, <2>1 DEF ThreadInv, SameThread
  <2>3. ASSUME NEW j \in Nat \ {0}, running'[u] = j PROVE Polls(u, j)' /\ \A v \in Threads : running'[v] = j => v = u
    <3>1. running[u] = j /\ j # i /\ Polls(u, j)
      BY Zenon, <2>1, <2>3 DEF SameThread, ThreadInv
    <3>2. Kept(j) /\ tasks'[j].pc = "polled"
      BY Zenon, <3>1 DEF Polls
    <3>3. Polls(u, j)'
      BY Zenon, <2>1, <3>1, <3>2, PollKept
    <3>4. ASSUME NEW v \in Threads, running'[v] = j PROVE v = u
      <4>1. v # t
        BY Zenon, <3>1, <3>4
      <4>2. running[v] = j
        BY Zenon, <3>4, <4>1 DEF SameThread
      <4> QED
        BY Zenon, <3>1, <4>2 DEF ThreadInv
    <3> QED
      BY Zenon, <3>3, <3>4
  <2> QED
    BY Zenon, <2>2, <2>3
<1> QED
  BY Zenon, <1>1, <1>2

(* No thread changes, and no task but one that keeps its contexts.         *)
LEMMA AllThreadsKept ==
    ASSUME TaskInv, ThreadInv, Grows, \A u \in Threads : SameThread(u),
           \A j \in Slots : Kept(j) /\ (tasks[j].pc = "polled" => tasks'[j].pc = "polled")
    PROVE  ThreadInv'
<1> SUFFICES ASSUME NEW u \in Threads
             PROVE  /\ running'[u] = 0 => current'[u] = Ctx!None /\ token'[u] = 0
                    /\ \A j \in Nat \ {0} : running'[u] = j =>
                         Polls(u, j)' /\ \A v \in Threads : running'[v] = j => v = u
  BY Zenon DEF ThreadInv
<1>1. running'[u] = 0 => current'[u] = Ctx!None /\ token'[u] = 0
  BY Zenon DEF ThreadInv, SameThread
<1>2. ASSUME NEW j \in Nat \ {0}, running'[u] = j PROVE Polls(u, j)'
  <2>1. SameThread(u) /\ running[u] = j
    BY Zenon, <1>2 DEF SameThread
  <2>2. Polls(u, j)
    BY Zenon, <2>1 DEF ThreadInv
  <2>3. Kept(j) /\ tasks'[j].pc = "polled"
    BY Zenon, <2>2 DEF Polls
  <2> QED
    BY Zenon, <2>1, <2>2, <2>3, PollKept
<1>3. ASSUME NEW j \in Nat \ {0}, running'[u] = j, NEW v \in Threads, running'[v] = j PROVE v = u
  <2>1. running[u] = j /\ running[v] = j
    BY Zenon, <1>3 DEF SameThread
  <2> QED
    BY Zenon, <2>1 DEF ThreadInv
<1> QED
  BY Zenon, <1>1, <1>2, <1>3

(* The call a thread polls, and its context.                               *)
LEMMA Serving ==
    ASSUME ContextInv, NEW t \in Threads, NEW i \in Nat \ {0}, running[t] = i
    PROVE  /\ i \in Slots /\ i \in DOMAIN requests /\ Polls(t, i) /\ Has(i, current[t])
           /\ current[t] \in Context /\ current[t].call = i /\ current[t] # Ctx!None
           /\ current[t].trace = requests[i].trace /\ 0 < requests[i].trace
           /\ 0 < current[t].span /\ current[t].span <= minted
           /\ \A u \in Threads : u # t => running[u] # i
<1>1. Polls(t, i) /\ \A u \in Threads : u # t => running[u] # i
  BY Zenon DEF ContextInv, ThreadInv
<1>2. i \in Slots /\ tasks[i].pc = "polled" /\ current[t] = Scope(i, Depth(i))
  BY Zenon, <1>1 DEF Polls
<1>3. tasks[i].locals \in Seq(Context)
  BY Zenon, <1>2 DEF ContextInv, ContextTypes, Handler
<1>4. Depth(i) \in 0..Depth(i)
  BY <1>3 DEF Depth
<1>5. Has(i, current[t]) /\ current[t] \in Context /\ i \in DOMAIN requests
  BY Zenon, <1>2, <1>4 DEF Has, ContextInv, ContextTypes, TaskInv
<1>6. /\ current[t].call = i /\ 0 < current[t].span /\ current[t].span <= minted
      /\ current[t].trace = requests[i].trace
  BY Zenon, <1>2, <1>5 DEF ContextInv, HopInv
<1>7. current[t] # Ctx!None
  BY <1>6 DEF Ctx!None
<1>8. 0 < requests[i].trace
  BY Zenon, <1>5 DEF ContextInv, RequestInv
<1> QED
  BY Zenon, <1>1, <1>2, <1>5, <1>6, <1>7, <1>8

-----------------------------------------------------------------------------
(* The steps of the tasks.                                                 *)

(* Emitting a request.                                                     *)
LEMMA EmitContext ==
    ASSUME ContextInv, NEW t \in Threads, NEW oneway \in BOOLEAN, Ctx!Emit(t, oneway)
    PROVE  ContextInv'
<1>0. /\ requests \in Seq(Request) /\ minted \in Nat /\ running[t] \in Nat /\ current[t] \in Context
      /\ UNCHANGED <<tasks, running, current, token, frames>>
  BY Zenon DEF ContextInv, ContextTypes, Ctx!Emit, Ctx!slots
<1>1. PICK r \in Request :
        /\ requests' = Append(requests, r) /\ minted' \in Nat /\ minted <= minted'
        /\ 0 < r.trace /\ r.trace <= minted' /\ r.parent <= minted' /\ r.span <= minted'
        /\ r.by = 0 => minted < r.trace /\ minted < r.span
        /\ r.by # 0 => /\ r.by \in DOMAIN requests /\ r.trace = requests[r.by].trace
                       /\ \E i \in Slots, c \in Context : Has(i, c) /\ c.call = r.by /\ c.span = r.parent
  <2>1. CASE running[t] = 0
    <3> DEFINE r == [trace |-> minted + 1, parent |-> minted + 2, span |-> minted + 2, oneway |-> oneway, by |-> 0]
    <3>1. current[t] = Ctx!None
      BY Zenon, <2>1 DEF ContextInv, ThreadInv
    <3>2. requests' = Append(requests, r) /\ minted' = minted + 2
      BY Zenon, <2>1, <3>1 DEF Ctx!Emit, Ctx!OutgoingTrace, Ctx!Trace
    <3>3. /\ minted + 1 \in Nat /\ minted + 2 \in Nat /\ minted <= minted + 2 /\ 0 < minted + 1
          /\ minted + 1 <= minted + 2 /\ minted + 2 <= minted + 2 /\ minted < minted + 1 /\ minted < minted + 2
      BY <1>0
    <3>4. r \in Request
      BY Zenon, <3>3 DEF Request
    <3>5. /\ r.trace = minted + 1 /\ r.parent = minted + 2 /\ r.span = minted + 2 /\ r.by = 0
      BY Zenon
    <3> HIDE DEF r
    <3> QED
      BY Zenon, <2>1, <3>2, <3>3, <3>4, <3>5
  <2>2. CASE running[t] # 0
    <3>1. PICK i \in Nat \ {0} : running[t] = i
      BY Zenon, <1>0, <2>2
    <3>2. /\ i \in Slots /\ i \in DOMAIN requests /\ Polls(t, i) /\ Has(i, current[t])
          /\ current[t] \in Context /\ current[t].call = i /\ current[t] # Ctx!None
          /\ current[t].trace = requests[i].trace /\ 0 < requests[i].trace
          /\ 0 < current[t].span /\ current[t].span <= minted
      BY Zenon, <3>1, Serving
    <3> DEFINE r == [trace |-> current[t].trace, parent |-> current[t].span, span |-> current[t].span,
                     oneway |-> oneway, by |-> i]
    <3>3. current[t].trace \in Nat /\ current[t].span \in Nat /\ current[t].trace # 0 /\ current[t].trace <= minted
      BY <3>2 DEF Context, ContextInv, RequestInv
    <3>4. requests' = Append(requests, r) /\ minted' = minted
      BY Zenon, <3>1, <3>2, <3>3
         DEF Ctx!Emit, Ctx!OutgoingTrace, Ctx!child_trace, Ctx!continued_or_root, Ctx!is_present, Ctx!child_of, Ctx!Trace
    <3>5. r \in Request
      BY Zenon, <3>3 DEF Request
    <3>6. /\ r.trace = current[t].trace /\ r.parent = current[t].span /\ r.span = current[t].span /\ r.by = i
      BY Zenon
    <3>7. minted <= minted /\ 0 < current[t].trace
      BY <1>0, <3>3
    <3> HIDE DEF r
    <3> QED
      BY Zenon, <1>0, <3>1, <3>2, <3>3, <3>4, <3>5, <3>6, <3>7
  <2> QED
    BY Zenon, <2>1, <2>2
<1>2. requests' \in Seq(Request) /\ Grows
  BY <1>0, <1>1 DEF Grows
<1>3. \A i \in Slots : Kept(i) /\ tasks'[i].pc = tasks[i].pc
  BY Zenon, <1>0 DEF Kept
<1>4. HopInv' /\ RequestInv'
  <2>1. \A i \in Slots : tasks[i].pc # "none" => i \in DOMAIN requests
    BY Zenon DEF ContextInv, TaskInv
  <2> QED
    BY Zenon, <1>0, <1>1, <2>1, HopEmitted DEF ContextInv
<1>5. TaskInv'
  BY Zenon, <1>2, <1>3, TasksKept DEF ContextInv
<1>6. ThreadInv'
  <2>1. \A u \in Threads : SameThread(u)
    BY Zenon, <1>0 DEF SameThread
  <2> QED
    BY Zenon, <1>2, <1>3, <2>1, AllThreadsKept DEF ContextInv
<1> QED
  BY Zenon, <1>0, <1>1, <1>2, <1>4, <1>5, <1>6 DEF ContextInv, ContextTypes

(* Polling a task, for the first time or again: its scopes are entered.    *)
LEMMA BeginContext ==
    ASSUME ContextInv, NEW t \in Threads, NEW i \in Slots, NEW h \in Handler, running[t] = 0, i \in DOMAIN requests,
           tasks[i].pc # "polled", h.pc = "polled", Ctx!BeginPoll(t, i, h), requests' = requests
    PROVE  /\ tasks' = [tasks EXCEPT ![i] = h] /\ ThreadInv'
           /\ tasks' \in [Slots -> Handler] /\ running' \in [Threads -> Nat] /\ current' \in [Threads -> Context]
           /\ token' \in [Threads -> Nat] /\ frames' \in [Threads -> Seq(Frame)]
<1>0. /\ tasks \in [Slots -> Handler] /\ running \in [Threads -> Nat] /\ current \in [Threads -> Context]
      /\ token \in [Threads -> Nat] /\ frames \in [Threads -> Seq(Frame)] /\ requests \in Seq(Request)
      /\ current[t] = Ctx!None /\ token[t] = 0
  BY Zenon DEF ContextInv, ContextTypes, ThreadInv
<1>1. i \in Nat \ {0}
  BY <1>0
<1>2. h.ctx \in Context /\ h.locals \in Seq(Context)
  BY Zenon DEF Handler
<1> DEFINE s == Ctx!Scopes(h)
           d == IF Tracing THEN Len(h.locals) ELSE 0
           ctxAt(k) == IF k = 0 THEN h.ctx ELSE h.locals[k]
           f == [k \in 1..Len(s) |-> [current |-> IF k = 1 THEN current[t] ELSE s[k - 1], token |-> token[t]]]
<1>3. s \in Seq(Context) /\ Len(s) = d + 1 /\ d \in Nat /\ \A k \in 1..(d + 1) : s[k] = ctxAt(k - 1)
  <2>1. CASE Tracing
    BY <1>2, <2>1 DEF Ctx!Scopes
  <2>2. CASE ~Tracing
    BY <1>2, <2>2 DEF Ctx!Scopes
  <2> QED
    BY Zenon, <2>1, <2>2
<1>4. /\ running' = [running EXCEPT ![t] = i] /\ frames' = [frames EXCEPT ![t] = f]
      /\ current' = [current EXCEPT ![t] = s[Len(s)]] /\ tasks' = [tasks EXCEPT ![i] = h]
      /\ token' = [token EXCEPT ![t] = IF requests[i].oneway THEN token[t] ELSE i]
  BY Zenon DEF Ctx!BeginPoll, Ctx!install_call_cancellation
<1> HIDE DEF s
<1>5. /\ f \in Seq(Frame) /\ Len(f) = d + 1 /\ f[1].current = Ctx!None /\ f[1].token = 0
      /\ \A k \in 1..d : f[k + 1].current = ctxAt(k - 1)
  <2>1. \A k \in 1..Len(s) : [current |-> IF k = 1 THEN current[t] ELSE s[k - 1], token |-> token[t]] \in Frame
    BY <1>0, <1>3 DEF Frame
  <2>2. f \in Seq(Frame) /\ Len(f) = d + 1
    BY <1>3, <2>1
  <2> HIDE DEF d, ctxAt
  <2>3. /\ 1 \in 1..Len(s)
        /\ \A k \in 1..d : k + 1 \in 1..Len(s) /\ k + 1 # 1 /\ k + 1 - 1 = k /\ k \in 1..(d + 1)
    BY <1>3
  <2>4. f[1].current = Ctx!None /\ f[1].token = 0
    BY Zenon, <1>0, <2>3
  <2>5. ASSUME NEW k \in 1..d PROVE f[k + 1].current = ctxAt(k - 1)
    <3>1. k + 1 \in 1..Len(s) /\ k + 1 # 1 /\ k + 1 - 1 = k /\ s[k] = ctxAt(k - 1)
      BY Zenon, <1>3, <2>3
    <3>2. f[k + 1] = [current |-> s[k], token |-> token[t]]
      BY <3>1
    <3> QED
      BY Zenon, <3>1, <3>2
  <2> QED
    BY Zenon, <2>2, <2>4, <2>5
<1>6. s[Len(s)] = ctxAt(d) /\ s[Len(s)] \in Context
  <2> HIDE DEF d, ctxAt
  <2>1. d + 1 \in 1..(d + 1) /\ d + 1 - 1 = d /\ s[d + 1] \in Context
    BY <1>3
  <2> QED
    BY <1>3, <2>1
<1> HIDE DEF f
<1>7. /\ running' \in [Threads -> Nat] /\ current' \in [Threads -> Context] /\ tasks' \in [Slots -> Handler]
      /\ token' \in [Threads -> Nat] /\ frames' \in [Threads -> Seq(Frame)]
  BY Zenon, <1>0, <1>1, <1>4, <1>5, <1>6
<1>8. /\ running'[t] = i /\ current'[t] = ctxAt(d) /\ frames'[t] = f /\ tasks'[i] = h
      /\ token'[t] = IF requests[i].oneway THEN 0 ELSE i
      /\ \A u \in Threads : u # t => SameThread(u)
      /\ \A j \in Slots : j # i => Kept(j) /\ tasks'[j].pc = tasks[j].pc
  BY Zenon, <1>0, <1>4, <1>6 DEF SameThread, Kept
<1>9. Depth(i)' = d /\ \A k : Scope(i, k)' = ctxAt(k)
  BY Zenon, <1>8 DEF Depth, Scope
<1> HIDE DEF d, ctxAt
<1>10. Polls(t, i)'
  BY ZenonT(40), <1>5, <1>8, <1>9 DEF Polls
<1>11. ASSUME NEW u \in Threads PROVE running[u] # i
  <2>1. running[u] = i => Polls(u, i)
    BY Zenon, <1>1 DEF ContextInv, ThreadInv
  <2> QED
    BY Zenon, <2>1 DEF Polls
<1>12. ThreadInv'
  <2>1. /\ Grows /\ i \in Nat /\ i # 0 /\ running'[t] \in {0, i} /\ running[t] \in {0, i} /\ running'[t] # 0
        /\ \A u \in Threads : u # t => SameThread(u) /\ running[u] # i
    BY Zenon, <1>1, <1>8, <1>11 DEF Grows
  <2>2. ThreadStep(t, i)
    BY Zenon, <1>8, <1>10, <2>1 DEF ThreadStep
  <2> QED
    BY Zenon, <2>1, <2>2, ThreadsKept DEF ContextInv
<1> QED
  BY Zenon, <1>4, <1>7, <1>12

(* A request is received: its handler is polled, under a span of its own.  *)
LEMMA ReceiveContext ==
    ASSUME ContextInv, NEW t \in Threads, NEW i \in Slots, Ctx!Receive(t, i)
    PROVE  ContextInv'
<1>0. /\ running[t] = 0 /\ i \in DOMAIN requests /\ tasks[i].pc = "none" /\ minted' = minted + 1
      /\ requests' = requests /\ requests \in Seq(Request) /\ minted \in Nat /\ tasks \in [Slots -> Handler]
  BY Zenon DEF Ctx!Receive, ContextInv, ContextTypes
<1>1. PICK n \in Context : n = Ctx!new(i)
  <2>1. i \in Nat /\ requests[i] \in Request /\ minted + 1 \in Nat
    BY <1>0
  <2>2. requests[i].trace \in Nat /\ requests[i].parent \in Nat /\ 0 \in Nat
    BY Zenon, <2>1 DEF Request
  <2> QED
    BY Zenon, <2>1, <2>2 DEF Ctx!new, Ctx!next_span_id, Context
<1>2. n.call = i /\ n.depth = 0 /\ n.trace = requests[i].trace /\ n.span = minted + 1
  BY Zenon, <1>1 DEF Ctx!new, Ctx!next_span_id
<1>3. PICK h \in Handler : h = [Ctx!NoTask EXCEPT !.pc = "polled", !.ctx = n]
  <2>1. Ctx!None \in Context /\ <<>> \in Seq(Context)
    BY DEF Ctx!None, Context
  <2> QED
    BY Zenon, <2>1 DEF Ctx!NoTask, Handler
<1>4. h.pc = "polled" /\ h.ctx = n /\ h.locals = <<>>
  BY Zenon, <1>3 DEF Ctx!NoTask
<1>5. Ctx!BeginPoll(t, i, h)
  BY Zenon, <1>1, <1>3 DEF Ctx!Receive
<1>6. /\ tasks' = [tasks EXCEPT ![i] = h] /\ ThreadInv'
      /\ tasks' \in [Slots -> Handler] /\ running' \in [Threads -> Nat] /\ current' \in [Threads -> Context]
      /\ token' \in [Threads -> Nat] /\ frames' \in [Threads -> Seq(Frame)]
  BY Zenon, <1>0, <1>4, <1>5, BeginContext
<1>7. tasks'[i] = h /\ \A j \in Slots : j # i => Kept(j)
  BY Zenon, <1>0, <1>6 DEF Kept
<1>8. Depth(i)' = 0 /\ Scope(i, 0)' = n
  BY <1>4, <1>7 DEF Depth, Scope
<1>9. 0..0 = {0}
  OBVIOUS
<1>10. TaskInv'
  <2>1. \A k \in 0..Depth(i)' : Scope(i, k)'.depth = k
    BY Zenon, <1>2, <1>8, <1>9
  <2> QED
    BY Zenon, <1>0, <1>7, <2>1, TasksKept DEF ContextInv, Grows
<1>11. HopInv' /\ RequestInv'
  <2>1. ASSUME NEW j \in Slots, NEW c \in Context, Has(j, c)' PROVE Has(j, c) \/ (j = i /\ c = n)
    <3>1. CASE j = i
      BY Zenon, <1>8, <1>9, <2>1, <3>1 DEF Has
    <3>2. CASE j # i
      BY Zenon, <1>7, <2>1, <3>2, TaskKept
    <3> QED
      BY Zenon, <3>1, <3>2
  <2>2. minted' \in Nat /\ minted < minted'
    BY <1>0
  <2> QED
    BY Zenon, <1>0, <1>2, <2>1, <2>2, HopStarted DEF ContextInv
<1>12. minted' \in Nat
  BY <1>0
<1> QED
  BY Zenon, <1>0, <1>6, <1>10, <1>11, <1>12 DEF ContextInv, ContextTypes

(* The place of a task, its token or its in-process calls change.          *)
LEMMA Moved ==
    ASSUME NEW g \in Handler, NEW pc \in {"polled", "parked", "done"}
    PROVE  /\ [g EXCEPT !.pc = pc] \in Handler /\ [g EXCEPT !.pc = pc].pc = pc
           /\ [g EXCEPT !.pc = pc].ctx = g.ctx /\ [g EXCEPT !.pc = pc].locals = g.locals
  BY Zenon DEF Handler
LEMMA TokenFired ==
    ASSUME NEW g \in Handler
    PROVE  /\ [g EXCEPT !.cancelled = TRUE] \in Handler /\ [g EXCEPT !.cancelled = TRUE].pc = g.pc
           /\ [g EXCEPT !.cancelled = TRUE].ctx = g.ctx /\ [g EXCEPT !.cancelled = TRUE].locals = g.locals
  BY Zenon DEF Handler
LEMMA Nested ==
    ASSUME NEW g \in Handler, NEW s \in Seq(Context)
    PROVE  /\ [g EXCEPT !.locals = s] \in Handler /\ [g EXCEPT !.locals = s].pc = g.pc
           /\ [g EXCEPT !.locals = s].ctx = g.ctx /\ [g EXCEPT !.locals = s].locals = s
  BY Zenon DEF Handler

(* A parked task is polled again, cancelled, or dropped.                   *)
LEMMA TaskContext ==
    ASSUME ContextInv, NEW i \in Slots,
           Ctx!Drop(i) \/ Ctx!Cancel(i) \/ (\E t \in Threads : Ctx!Poll(t, i))
    PROVE  ContextInv'
<1>0. /\ tasks \in [Slots -> Handler] /\ requests' = requests /\ minted' = minted /\ tasks[i].pc # "none"
      /\ i \in DOMAIN requests /\ tasks[i] \in Handler
  BY Zenon DEF ContextInv, ContextTypes, TaskInv, Ctx!Drop, Ctx!Cancel, Ctx!Poll
<1>1. PICK h \in Handler : /\ tasks' = [tasks EXCEPT ![i] = h] /\ h.ctx = tasks[i].ctx /\ h.locals = tasks[i].locals
                           /\ h.pc # "none" /\ ((Ctx!Drop(i) \/ Ctx!Cancel(i)) /\ tasks[i].pc = "polled" => h.pc = "polled")
  <2>1. CASE Ctx!Drop(i)
    BY Zenon, <1>0, <2>1, Moved DEF Ctx!Drop
  <2>2. CASE Ctx!Cancel(i)
    BY ZenonT(40), <1>0, <2>2, TokenFired DEF Ctx!Cancel
  <2>3. ASSUME NEW t \in Threads, Ctx!Poll(t, i)
        PROVE  \E h \in Handler : /\ tasks' = [tasks EXCEPT ![i] = h] /\ h.ctx = tasks[i].ctx
                                  /\ h.locals = tasks[i].locals /\ h.pc # "none"
    BY Zenon, <1>0, <2>3, Moved DEF Ctx!Poll, Ctx!BeginPoll
  <2> QED
    BY Zenon, <2>1, <2>2, <2>3
<1>2. tasks' \in [Slots -> Handler] /\ Grows /\ \A j \in Slots : Kept(j)
  BY Zenon, <1>0, <1>1 DEF Kept, Grows
<1>3. TaskInv'
  BY Zenon, <1>2, TasksKept DEF ContextInv
<1>4. HopInv' /\ RequestInv'
  <2>1. \A j \in Slots, c \in Context : Has(j, c)' => Has(j, c)
    BY Zenon, <1>2, TaskKept
  <2> QED
    BY Zenon, <1>0, <2>1, HopsKept DEF ContextInv
<1>5. /\ ThreadInv' /\ running' \in [Threads -> Nat] /\ current' \in [Threads -> Context]
      /\ token' \in [Threads -> Nat] /\ frames' \in [Threads -> Seq(Frame)]
  <2>1. CASE Ctx!Drop(i) \/ Ctx!Cancel(i)
    <3>1. UNCHANGED <<running, current, token, frames>>
      BY Zenon, <2>1 DEF Ctx!Drop, Ctx!Cancel, Ctx!slots
    <3>2. tasks[i].pc = "polled" => tasks'[i].pc = "polled"
      BY Zenon, <1>0, <1>1, <2>1
    <3>3. \A j \in Slots : Kept(j) /\ (tasks[j].pc = "polled" => tasks'[j].pc = "polled")
      BY Zenon, <1>0, <1>1, <1>2, <3>2
    <3>4. \A u \in Threads : SameThread(u)
      BY Zenon, <3>1 DEF SameThread
    <3>5. ThreadInv'
      BY Zenon, <1>2, <3>3, <3>4, AllThreadsKept DEF ContextInv
    <3> QED
      BY Zenon, <3>1, <3>5 DEF ContextInv, ContextTypes
  <2>2. ASSUME NEW t \in Threads, Ctx!Poll(t, i)
        PROVE  /\ ThreadInv' /\ running' \in [Threads -> Nat] /\ current' \in [Threads -> Context]
               /\ token' \in [Threads -> Nat] /\ frames' \in [Threads -> Seq(Frame)]
    <3>1. PICK g \in Handler : g = [tasks[i] EXCEPT !.pc = "polled"] /\ g.pc = "polled"
      BY ZenonT(40), <1>0, Moved
    <3>2. running[t] = 0 /\ tasks[i].pc # "polled" /\ Ctx!BeginPoll(t, i, g)
      BY Zenon, <2>2, <3>1 DEF Ctx!Poll
    <3> QED
      BY Zenon, <1>0, <3>1, <3>2, BeginContext
  <2> QED
    BY Zenon, <2>1, <2>2
<1> QED
  BY Zenon, <1>0, <1>2, <1>3, <1>4, <1>5 DEF ContextInv, ContextTypes

(* An await that is not ready, or the end of the handler: the scopes are   *)
(* left, and the slots are what they were before the poll.                 *)
LEMMA EndContext ==
    ASSUME ContextInv, NEW t \in Threads, running[t] # 0, NEW pc \in {"parked", "done"}, Ctx!EndPoll(t, pc)
    PROVE  ContextInv'
<1>0. /\ tasks \in [Slots -> Handler] /\ running \in [Threads -> Nat] /\ current \in [Threads -> Context]
      /\ token \in [Threads -> Nat] /\ frames \in [Threads -> Seq(Frame)] /\ requests' = requests /\ minted' = minted
  BY Zenon DEF ContextInv, ContextTypes, Ctx!EndPoll
<1>1. PICK i \in Nat \ {0} : running[t] = i
  BY Zenon, <1>0
<1>2. /\ i \in Slots /\ Polls(t, i) /\ \A u \in Threads : u # t => running[u] # i
  BY Zenon, <1>1, Serving
<1>3. frames[t][1].current = Ctx!None /\ frames[t][1].token = 0 /\ tasks[i].pc = "polled" /\ tasks[i] \in Handler
  BY Zenon, <1>0, <1>2 DEF Polls
<1>4. PICK h \in Handler : /\ tasks' = [tasks EXCEPT ![i] = h] /\ h.ctx = tasks[i].ctx /\ h.locals = tasks[i].locals
                           /\ h.pc # "none"
  BY Zenon, <1>0, <1>1, <1>3, Moved DEF Ctx!EndPoll
<1>5. /\ running' = [running EXCEPT ![t] = 0] /\ current' = [current EXCEPT ![t] = Ctx!None]
      /\ token' = [token EXCEPT ![t] = 0] /\ frames' = [frames EXCEPT ![t] = <<>>]
  BY Zenon, <1>3 DEF Ctx!EndPoll, Ctx!EndScopes, Ctx!Restored
<1>6. 0 \in Nat /\ Ctx!None \in Context /\ <<>> \in Seq(Frame)
  BY DEF Ctx!None, Context
<1>7. /\ running' \in [Threads -> Nat] /\ current' \in [Threads -> Context] /\ tasks' \in [Slots -> Handler]
      /\ token' \in [Threads -> Nat] /\ frames' \in [Threads -> Seq(Frame)]
  BY Zenon, <1>0, <1>4, <1>5, <1>6
<1>8. /\ running'[t] = 0 /\ current'[t] = Ctx!None /\ token'[t] = 0
      /\ \A u \in Threads : u # t => SameThread(u) /\ running[u] # i
  BY Zenon, <1>0, <1>2, <1>5 DEF SameThread
<1>9. Grows /\ \A j \in Slots : Kept(j) /\ (j # i => tasks'[j].pc = tasks[j].pc)
  BY Zenon, <1>0, <1>3, <1>4 DEF Kept, Grows
<1>10. ThreadInv'
  <2>1. /\ i \in Nat /\ running'[t] \in {0, i} /\ running[t] \in {0, i}
        /\ running'[t] = 0 => current'[t] = Ctx!None /\ token'[t] = 0
        /\ running'[t] # 0 => Polls(t, i)'
        /\ \A j \in Slots : j # i => Kept(j) /\ tasks'[j].pc = tasks[j].pc
    BY Zenon, <1>1, <1>8, <1>9
  <2>2. ThreadStep(t, i)
    BY Zenon, <1>8, <2>1 DEF ThreadStep
  <2> QED
    BY Zenon, <1>9, <2>1, <2>2, ThreadsKept DEF ContextInv
<1>11. TaskInv'
  BY Zenon, <1>9, TasksKept DEF ContextInv
<1>12. HopInv' /\ RequestInv'
  <2>1. \A j \in Slots, c \in Context : Has(j, c)' => Has(j, c)
    BY Zenon, <1>9, TaskKept
  <2> QED
    BY Zenon, <1>0, <2>1, HopsKept DEF ContextInv
<1> QED
  BY Zenon, <1>0, <1>7, <1>10, <1>11, <1>12 DEF ContextInv, ContextTypes

(* The task i that thread t polls gets the in-process calls l, the thread   *)
(* the context c and the frames f.                                         *)
LocalStep(t, i, l, c, f) ==
    /\ tasks' = [tasks EXCEPT ![i].locals = l] /\ current' = [current EXCEPT ![t] = c]
    /\ frames' = [frames EXCEPT ![t] = f] /\ UNCHANGED <<requests, running, token>>
    /\ running[t] = i

(* The in-process calls of the task a thread polls change, and the other   *)
(* tasks and threads do not.                                               *)
LEMMA LocalContext ==
    ASSUME ContextInv, NEW t \in Threads, NEW i \in Nat \ {0}, NEW l \in Seq(Context),
           NEW c \in Context, NEW f \in Seq(Frame), LocalStep(t, i, l, c, f),
           \A k \in 0..Depth(i)' : Scope(i, k)'.depth = k, c = Scope(i, Depth(i))',
           Len(f) = Depth(i)' + 1, f[1] = frames[t][1],
           \A k \in 1..Depth(i)' : f[k + 1].current = Scope(i, k - 1)'
    PROVE  /\ tasks' \in [Slots -> Handler] /\ current' \in [Threads -> Context] /\ frames' \in [Threads -> Seq(Frame)]
           /\ \A j \in Slots : j # i => Kept(j)
           /\ TaskInv' /\ ThreadInv'
<1>0. /\ tasks \in [Slots -> Handler] /\ running \in [Threads -> Nat] /\ current \in [Threads -> Context]
      /\ token \in [Threads -> Nat] /\ frames \in [Threads -> Seq(Frame)]
      /\ ContextTypes /\ TaskInv /\ ThreadInv
  BY Zenon DEF ContextInv, ContextTypes
<1>1. i \in Slots /\ i \in DOMAIN requests /\ Polls(t, i) /\ \A u \in Threads : u # t => running[u] # i
  BY ZenonT(40), Serving DEF LocalStep
<1>2. PICK h \in Handler : tasks' = [tasks EXCEPT ![i] = h] /\ h.pc = tasks[i].pc
  <2>1. tasks[i] \in Handler
    BY Zenon, <1>0, <1>1
  <2>2. [tasks[i] EXCEPT !.locals = l] \in Handler /\ [tasks[i] EXCEPT !.locals = l].pc = tasks[i].pc
    BY Zenon, <2>1, Nested
  <2> QED
    BY Zenon, <2>2 DEF LocalStep
<1>3. /\ tasks' \in [Slots -> Handler] /\ current' \in [Threads -> Context] /\ frames' \in [Threads -> Seq(Frame)]
  <2>1. tasks' \in [Slots -> Handler]
    BY Zenon, <1>0, <1>2
  <2>2. current' \in [Threads -> Context] /\ frames' \in [Threads -> Seq(Frame)]
    BY Zenon, <1>0 DEF LocalStep
  <2> QED
    BY Zenon, <2>1, <2>2
<1>4. \A j \in Slots : (j # i => Kept(j)) /\ tasks'[j].pc = tasks[j].pc
  BY Zenon, <1>0, <1>2 DEF Kept
<1>5. current'[t] = c /\ frames'[t] = f /\ \A u \in Threads : u # t => SameThread(u)
  BY Zenon, <1>0 DEF SameThread, LocalStep
<1>6. TaskInv'
  BY Zenon, <1>1, <1>4, TasksKept DEF ContextInv, Grows, LocalStep
<1>7. Polls(t, i)'
  BY Zenon, <1>1, <1>4, <1>5 DEF Polls, LocalStep
<1>8. ThreadInv'
  <2>1. Grows /\ running'[t] = i /\ running[t] = i /\ i # 0 /\ i \in Nat
    BY Zenon, <1>1 DEF Grows, LocalStep
  <2>2. ThreadStep(t, i)
    BY Zenon, <1>1, <1>4, <1>5, <1>7, <2>1 DEF ThreadStep
  <2> QED
    BY Zenon, <1>0, <2>1, <2>2, ThreadsKept
<1> QED
  BY Zenon, <1>3, <1>4, <1>6, <1>8

(* An in-process call is entered: a hop of its own when contexts nest.     *)
LEMMA LocalCallContext ==
    ASSUME ContextInv, NEW t \in Threads, Ctx!local_call_scoped(t)
    PROVE  ContextInv'
<1>0. /\ tasks \in [Slots -> Handler] /\ running \in [Threads -> Nat] /\ current \in [Threads -> Context]
      /\ token \in [Threads -> Nat] /\ frames \in [Threads -> Seq(Frame)] /\ requests \in Seq(Request) /\ minted \in Nat
      /\ running[t] # 0 /\ UNCHANGED <<requests, running, token>>
  BY Zenon DEF ContextInv, ContextTypes, Ctx!local_call_scoped
<1>1. PICK i \in Nat \ {0} : running[t] = i
  BY Zenon, <1>0
<1>2. /\ i \in Slots /\ i \in DOMAIN requests /\ Polls(t, i)
      /\ current[t] \in Context /\ current[t].call = i /\ current[t] # Ctx!None
      /\ current[t].trace = requests[i].trace /\ 0 < requests[i].trace
  BY Zenon, <1>1, Serving
<1>3. PICK s \in Seq(Context) : s = tasks[i].locals
  BY Zenon, <1>0, <1>2 DEF Handler
<1>4. /\ tasks[i].pc = "polled" /\ Len(frames[t]) = Depth(i) + 1 /\ current[t] = Scope(i, Depth(i))
      /\ \A k \in 1..Depth(i) : frames[t][k + 1].current = Scope(i, k - 1)
      /\ \A k \in 0..Depth(i) : Scope(i, k).depth = k
  BY Zenon, <1>2 DEF Polls, ContextInv, TaskInv
<1>5. CASE Tracing
  <2>1. PICK n \in Context : n = Ctx!local(i, Len(s) + 1, current[t])
    <3>1. current[t].trace \in Nat /\ current[t].trace # 0 /\ current[t].span \in Nat /\ Len(s) + 1 \in Nat /\ minted + 1 \in Nat
      BY <1>0, <1>2, <1>3 DEF Context
    <3> QED
      BY Zenon, <1>2, <3>1
         DEF Ctx!local, Ctx!child_trace, Ctx!continued_or_root, Ctx!is_present, Ctx!child_of, Ctx!Trace, Context
  <2>2. n.call = i /\ n.depth = Len(s) + 1 /\ n.span = minted + 1 /\ n.trace = requests[i].trace
    <3>1. current[t].trace \in Nat /\ current[t].trace # 0
      BY <1>2 DEF Context
    <3> QED
      BY Zenon, <1>2, <2>1, <3>1
         DEF Ctx!local, Ctx!child_trace, Ctx!continued_or_root, Ctx!is_present, Ctx!child_of, Ctx!Trace
  <2>3. PICK l \in Seq(Context) : l = Append(s, n)
    BY Zenon, <1>3, <2>1, Appended
  <2>4. PICK g \in Frame : g = [current |-> current[t], token |-> token[t]] /\ g.current = current[t]
    <3>1. [current |-> current[t], token |-> token[t]] \in Frame
      BY <1>0 DEF Frame
    <3> QED
      BY Zenon, <3>1
  <2>5. PICK f \in Seq(Frame) : f = Append(frames[t], g)
    BY Zenon, <1>0, <2>4, Appended
  <2>6. /\ tasks' = [tasks EXCEPT ![i].locals = l] /\ current' = [current EXCEPT ![t] = n]
        /\ frames' = [frames EXCEPT ![t] = f] /\ minted' = minted + 2
    BY Zenon, <1>1, <1>3, <1>5, <2>1, <2>3, <2>4, <2>5 DEF Ctx!local_call_scoped, Ctx!enter_ambient
  <2>7. tasks'[i].locals = l /\ tasks'[i].ctx = tasks[i].ctx /\ tasks'[i].pc = tasks[i].pc
    <3>1. tasks[i] \in Handler /\ tasks'[i] = [tasks[i] EXCEPT !.locals = l]
      BY Zenon, <1>0, <1>2, <2>6
    <3> QED
      BY <3>1, Nested
  <2>8. Len(s) \in Nat /\ Len(l) = Len(s) + 1 /\ l[Len(s) + 1] = n /\ \A k \in 1..Len(s) : l[k] = s[k]
    BY <2>3
  <2>9. Depth(i) = Len(s) /\ Depth(i)' = Len(s) + 1
    BY Zenon, <1>3, <1>5, <2>7, <2>8 DEF Depth
  <2>10. /\ Scope(i, Len(s) + 1)' = n /\ \A k \in 0..Len(s) : Scope(i, k)' = Scope(i, k)
    <3>1. Len(s) + 1 # 0 /\ \A k \in 0..Len(s) : k = 0 \/ k \in 1..Len(s)
      BY <2>8
    <3> QED
      BY Zenon, <1>3, <2>7, <2>8, <3>1 DEF Scope
  <2>11. \A k \in 0..(Len(s) + 1) : k \in 0..Len(s) \/ k = Len(s) + 1
    BY <2>8
  <2>12. \A k \in 0..Depth(i)' : Scope(i, k)'.depth = k
    BY Zenon, <1>4, <2>2, <2>9, <2>10, <2>11
  <2>13. /\ Len(f) = Len(s) + 2 /\ f[1] = frames[t][1] /\ f[Len(s) + 2] = g
         /\ \A k \in 1..Len(s) : f[k + 1] = frames[t][k + 1]
    BY <1>0, <1>4, <2>5, <2>8, <2>9
  <2>14. ASSUME NEW k \in 1..(Len(s) + 1) PROVE f[k + 1].current = Scope(i, k - 1)'
    <3>1. CASE k \in 1..Len(s)
      <4>1. k - 1 \in 0..Len(s)
        BY <2>8, <3>1
      <4> QED
        BY Zenon, <1>4, <2>9, <2>10, <2>13, <3>1, <4>1
    <3>2. CASE k = Len(s) + 1
      <4>1. k + 1 = Len(s) + 2 /\ k - 1 = Len(s) /\ Len(s) \in 0..Len(s)
        BY <2>8, <3>2
      <4> QED
        BY Zenon, <1>4, <2>4, <2>9, <2>10, <2>13, <4>1
    <3> QED
      BY <2>8, <3>1, <3>2
  <2>15. /\ n = Scope(i, Depth(i))' /\ Len(f) = Depth(i)' + 1
         /\ \A k \in 1..Depth(i)' : f[k + 1].current = Scope(i, k - 1)'
    <3>1. Len(s) + 2 = Len(s) + 1 + 1
      BY <2>8
    <3> QED
      BY Zenon, <2>9, <2>10, <2>13, <2>14, <3>1
  <2>16. /\ tasks' \in [Slots -> Handler] /\ current' \in [Threads -> Context] /\ frames' \in [Threads -> Seq(Frame)]
         /\ \A j \in Slots : j # i => Kept(j)
         /\ TaskInv' /\ ThreadInv'
    BY Zenon, <1>0, <1>1, <2>6, <2>12, <2>13, <2>15, LocalContext DEF LocalStep
  <2>17. HopInv' /\ RequestInv'
    <3>1. ASSUME NEW j \in Slots, NEW c \in Context, Has(j, c)' PROVE Has(j, c) \/ (j = i /\ c = n)
      <4>1. CASE j = i
        BY Zenon, <1>4, <2>9, <2>10, <2>11, <3>1, <4>1 DEF Has
      <4>2. CASE j # i
        BY Zenon, <2>16, <3>1, <4>2, TaskKept
      <4> QED
        BY Zenon, <4>1, <4>2
    <3>2. minted' \in Nat /\ minted < minted'
      BY <1>0, <2>6
    <3> QED
      BY Zenon, <1>0, <1>2, <2>2, <3>1, <3>2, HopStarted DEF ContextInv
  <2>18. minted' \in Nat
    BY <1>0, <2>6
  <2> QED
    BY Zenon, <1>0, <2>16, <2>17, <2>18 DEF ContextInv, ContextTypes
<1>6. CASE ~Tracing
  <2>1. PICK l \in Seq(Context) : l = Append(s, Ctx!None)
    <3>1. Ctx!None \in Context
      BY DEF Ctx!None, Context
    <3> QED
      BY Zenon, <1>3, <3>1, Appended
  <2>2. tasks' = [tasks EXCEPT ![i].locals = l] /\ UNCHANGED <<current, frames, minted>>
    BY Zenon, <1>1, <1>3, <1>6, <2>1 DEF Ctx!local_call_scoped
  <2>3. tasks'[i].ctx = tasks[i].ctx /\ tasks'[i].pc = tasks[i].pc
    <3>1. tasks[i] \in Handler /\ tasks'[i] = [tasks[i] EXCEPT !.locals = l]
      BY Zenon, <1>0, <1>2, <2>2
    <3> QED
      BY <3>1, Nested
  <2>4. /\ Depth(i) = 0 /\ Depth(i)' = 0 /\ Scope(i, 0)' = Scope(i, 0) /\ 0..0 = {0} /\ 1..0 = {}
    BY <1>6, <2>3 DEF Depth, Scope
  <2>5. /\ current' = [current EXCEPT ![t] = current[t]] /\ frames' = [frames EXCEPT ![t] = frames[t]]
        /\ frames[t] \in Seq(Frame)
    BY Zenon, <1>0, <2>2
  <2>6. /\ \A k \in 0..Depth(i)' : Scope(i, k)'.depth = k
        /\ current[t] = Scope(i, Depth(i))' /\ Len(frames[t]) = Depth(i)' + 1
        /\ \A k \in 1..Depth(i)' : frames[t][k + 1].current = Scope(i, k - 1)'
    BY Zenon, <1>4, <2>4
  <2>7. /\ tasks' \in [Slots -> Handler] /\ current' \in [Threads -> Context] /\ frames' \in [Threads -> Seq(Frame)]
        /\ \A j \in Slots : j # i => Kept(j)
        /\ TaskInv' /\ ThreadInv'
    BY Zenon, <1>0, <1>1, <1>2, <2>2, <2>5, <2>6, LocalContext DEF LocalStep
  <2>8. HopInv' /\ RequestInv'
    <3>1. ASSUME NEW j \in Slots, NEW c \in Context, Has(j, c)' PROVE Has(j, c)
      <4>1. CASE j = i
        BY Zenon, <1>4, <2>4, <3>1, <4>1 DEF Has
      <4>2. CASE j # i
        BY Zenon, <2>7, <3>1, <4>2, TaskKept
      <4> QED
        BY Zenon, <4>1, <4>2
    <3> QED
      BY Zenon, <1>0, <2>2, <3>1, HopsKept DEF ContextInv
  <2> QED
    BY Zenon, <1>0, <2>2, <2>7, <2>8 DEF ContextInv, ContextTypes
<1> QED
  BY Zenon, <1>5, <1>6

(* An in-process call returns: its scope is left.                          *)
LEMMA LocalReturnContext ==
    ASSUME ContextInv, NEW t \in Threads, Ctx!LocalReturn(t)
    PROVE  ContextInv'
<1>0. /\ tasks \in [Slots -> Handler] /\ running \in [Threads -> Nat] /\ current \in [Threads -> Context]
      /\ token \in [Threads -> Nat] /\ frames \in [Threads -> Seq(Frame)]
      /\ running[t] # 0 /\ UNCHANGED <<requests, running, token, minted>>
  BY Zenon DEF ContextInv, ContextTypes, Ctx!LocalReturn
<1>1. PICK i \in Nat \ {0} : running[t] = i
  BY Zenon, <1>0
<1>2. i \in Slots /\ i \in DOMAIN requests /\ Polls(t, i) /\ current[t] \in Context
  BY Zenon, <1>1, Serving
<1>3. PICK s \in Seq(Context) : s = tasks[i].locals /\ s # <<>>
  BY Zenon, <1>0, <1>1, <1>2 DEF Handler, Ctx!LocalReturn
<1>4. /\ tasks[i].pc = "polled" /\ Len(frames[t]) = Depth(i) + 1 /\ current[t] = Scope(i, Depth(i))
      /\ \A k \in 1..Depth(i) : frames[t][k + 1].current = Scope(i, k - 1)
      /\ \A k \in 0..Depth(i) : Scope(i, k).depth = k
  BY Zenon, <1>2 DEF Polls, ContextInv, TaskInv
<1>5. PICK l \in Seq(Context) : l = SubSeq(s, 1, Len(s) - 1)
  BY Zenon, <1>3, Shortened
<1>6. tasks' = [tasks EXCEPT ![i].locals = l]
  BY Zenon, <1>1, <1>3, <1>5 DEF Ctx!LocalReturn
<1>7. tasks'[i].locals = l /\ tasks'[i].ctx = tasks[i].ctx /\ tasks'[i].pc = tasks[i].pc
  <2>1. tasks[i] \in Handler /\ tasks'[i] = [tasks[i] EXCEPT !.locals = l]
    BY Zenon, <1>0, <1>2, <1>6
  <2> QED
    BY <2>1, Nested
<1>8. PICK c \in Context, f \in Seq(Frame) :
        /\ current' = [current EXCEPT ![t] = c] /\ frames' = [frames EXCEPT ![t] = f]
        /\ \A k \in 0..Depth(i)' : k \in 0..Depth(i) /\ Scope(i, k)' = Scope(i, k)
        /\ c = Scope(i, Depth(i))' /\ Len(f) = Depth(i)' + 1 /\ f[1] = frames[t][1]
        /\ \A k \in 1..Depth(i)' : f[k + 1].current = Scope(i, k - 1)'
  <2>1. CASE Tracing
    <3>1. PICK d \in Nat : Len(s) = d + 1
      <4>1. Len(s) - 1 \in Nat /\ Len(s) = Len(s) - 1 + 1
        BY <1>3
      <4> QED
        BY Zenon, <4>1
    <3>2. Len(l) = d /\ \A k \in 1..d : k \in 1..Len(s) /\ l[k] = s[k]
      BY <1>3, <1>5, <3>1
    <3>3. Depth(i) = d + 1 /\ Depth(i)' = d
      BY Zenon, <1>3, <1>7, <2>1, <3>1, <3>2 DEF Depth
    <3>4. \A k \in 0..d : k \in 0..(d + 1) /\ (k = 0 \/ k \in 1..d)
      BY <3>1
    <3>5. \A k \in 0..d : Scope(i, k)' = Scope(i, k)
      BY Zenon, <1>3, <1>7, <3>2, <3>4 DEF Scope
    <3>6. PICK q \in Seq(Frame) : q = frames[t] /\ Len(q) = d + 2
      <4>1. d + 2 = d + 1 + 1
        BY <3>1
      <4> QED
        BY Zenon, <1>0, <1>4, <3>3, <4>1
    <3>7. PICK f \in Seq(Frame) : f = SubSeq(q, 1, Len(q) - 1)
      <4>1. q # <<>>
        BY <3>1, <3>6
      <4> QED
        BY Zenon, <3>6, <4>1, Shortened
    <3>8. Len(f) = d + 1 /\ f[1] = q[1] /\ \A k \in 1..d : f[k + 1] = q[k + 1]
      BY <3>1, <3>6, <3>7
    <3>9. PICK c \in Context : c = q[d + 2].current
      <4>1. q[d + 2] \in Frame
        BY <3>1, <3>6
      <4> QED
        BY Zenon, <4>1 DEF Frame
    <3>10. current' = [current EXCEPT ![t] = c] /\ frames' = [frames EXCEPT ![t] = f]
      BY Zenon, <1>1, <2>1, <3>6, <3>7, <3>9 DEF Ctx!LocalReturn, Ctx!Restored
    <3>11. c = Scope(i, d)
      <4>1. d + 1 \in 1..(d + 1) /\ d + 1 + 1 = d + 2 /\ d + 1 - 1 = d
        BY <3>1
      <4>2. \A k \in 1..(d + 1) : q[k + 1].current = Scope(i, k - 1)
        BY Zenon, <1>4, <3>3, <3>6
      <4>3. PICK e \in 1..(d + 1) : e + 1 = d + 2 /\ e - 1 = d
        BY <4>1
      <4>4. q[e + 1].current = Scope(i, e - 1)
        BY Zenon, <4>2
      <4> QED
        BY Zenon, <3>9, <4>3, <4>4
    <3>12. ASSUME NEW k \in 1..d PROVE f[k + 1].current = Scope(i, k - 1)'
      <4>1. k \in 1..(d + 1) /\ k - 1 \in 0..d
        BY <3>1
      <4> QED
        BY Zenon, <1>4, <3>3, <3>5, <3>6, <3>8, <4>1
    <3>13. d \in 0..d
      BY <3>1
    <3> QED
      BY Zenon, <3>3, <3>4, <3>5, <3>6, <3>8, <3>10, <3>11, <3>12, <3>13
  <2>2. CASE ~Tracing
    <3>1. Depth(i) = 0 /\ Depth(i)' = 0 /\ Scope(i, 0)' = Scope(i, 0) /\ 0..0 = {0} /\ 1..0 = {}
      BY <1>7, <2>2 DEF Depth, Scope
    <3>2. /\ current' = [current EXCEPT ![t] = current[t]] /\ frames' = [frames EXCEPT ![t] = frames[t]]
          /\ frames[t] \in Seq(Frame)
      BY Zenon, <1>0, <2>2 DEF Ctx!LocalReturn
    <3> QED
      BY Zenon, <1>2, <1>4, <3>1, <3>2
  <2> QED
    BY Zenon, <2>1, <2>2
<1>9. \A k \in 0..Depth(i)' : Scope(i, k)'.depth = k
  BY Zenon, <1>4, <1>8
<1>10. /\ tasks' \in [Slots -> Handler] /\ current' \in [Threads -> Context] /\ frames' \in [Threads -> Seq(Frame)]
       /\ \A j \in Slots : j # i => Kept(j)
       /\ TaskInv' /\ ThreadInv'
  BY Zenon, <1>0, <1>1, <1>6, <1>8, <1>9, LocalContext DEF LocalStep
<1>11. HopInv' /\ RequestInv'
  <2>1. ASSUME NEW j \in Slots, NEW c1 \in Context, Has(j, c1)' PROVE Has(j, c1)
    <3>1. CASE j = i
      BY ZenonT(40), <1>4, <1>8, <2>1, <3>1 DEF Has
    <3>2. CASE j # i
      BY Zenon, <1>10, <2>1, <3>2, TaskKept
    <3> QED
      BY Zenon, <3>1, <3>2
  <2> QED
    BY Zenon, <1>0, <2>1, HopsKept DEF ContextInv
<1> QED
  BY Zenon, <1>0, <1>10, <1>11 DEF ContextInv, ContextTypes

LEMMA ContextNext == ContextInv /\ [Ctx!Next]_(Ctx!vars) => ContextInv'
<1> SUFFICES ASSUME ContextInv, [Ctx!Next]_(Ctx!vars) PROVE ContextInv'
  BY Zenon
<1>1. ASSUME NEW t \in Threads, Ctx!native_call(t) \/ Ctx!send_one_way(t) PROVE ContextInv'
  BY Zenon, <1>1, EmitContext DEF Ctx!native_call, Ctx!send_one_way
<1>2. ASSUME NEW t \in Threads, Ctx!Pending(t) \/ Ctx!Ready(t) PROVE ContextInv'
  <2>1. running[t] # 0 /\ (Ctx!EndPoll(t, "parked") \/ Ctx!EndPoll(t, "done"))
    BY Zenon, <1>2 DEF Ctx!Pending, Ctx!Ready
  <2> QED
    BY Zenon, <2>1, EndContext
<1>3. ASSUME NEW t \in Threads, Ctx!local_call_scoped(t) \/ Ctx!LocalReturn(t) PROVE ContextInv'
  BY Zenon, <1>3, LocalCallContext, LocalReturnContext
<1>4. ASSUME NEW t \in Threads, NEW i \in Slots, Ctx!Receive(t, i) \/ Ctx!Poll(t, i) PROVE ContextInv'
  BY Zenon, <1>4, ReceiveContext, TaskContext
<1>5. ASSUME NEW i \in Slots, Ctx!Drop(i) \/ Ctx!Cancel(i) PROVE ContextInv'
  BY Zenon, <1>5, TaskContext
<1>6. CASE UNCHANGED Ctx!vars
  <2>1. UNCHANGED <<requests, tasks, running, current, token, frames, minted>>
    BY Zenon, <1>6 DEF Ctx!vars
  <2>2. /\ Grows /\ (\A u \in Threads : SameThread(u))
        /\ \A j \in Slots : Kept(j) /\ (tasks[j].pc = "polled" => tasks'[j].pc = "polled")
    BY Zenon, <2>1 DEF Grows, SameThread, Kept
  <2>3. TaskInv' /\ ThreadInv'
    BY Zenon, <2>2, TasksKept, AllThreadsKept DEF ContextInv
  <2>4. HopInv' /\ RequestInv'
    BY Zenon, <2>1, <2>2, TaskKept, HopsKept DEF ContextInv
  <2> QED
    BY Zenon, <2>1, <2>3, <2>4 DEF ContextInv, ContextTypes
<1> QED
  BY Zenon, <1>1, <1>2, <1>3, <1>4, <1>5, <1>6 DEF Ctx!Next, Slots

(* For any number of threads, requests and nested in-process calls, and    *)
(* with the `tracing` feature or without: a handler sees the context and   *)
(* the token of its own call whatever its thread polled before, the        *)
(* requests it emits continue its trace under a span of it, and no two     *)
(* hops share a span (CallContext::scope, child_trace).                    *)
THEOREM ContextIsKept == Ctx!Spec => []Ctx!CallsKeepContext
<1>1. Ctx!Init => ContextInv
  <2> SUFFICES ASSUME Ctx!Init PROVE ContextInv
    BY Zenon
  <2>1. 0 \in Nat /\ Ctx!None \in Context /\ <<>> \in Seq(Frame) /\ <<>> \in Seq(Context) /\ <<>> \in Seq(Request)
    BY DEF Ctx!None, Context
  <2>2. Ctx!NoTask \in Handler /\ Ctx!NoTask.pc = "none"
    BY Zenon, <2>1 DEF Ctx!NoTask, Handler
  <2>3. ContextTypes /\ (\A i \in Slots : tasks[i].pc = "none") /\ (\A t \in Threads : running[t] = 0)
    BY Zenon, <2>1, <2>2 DEF Ctx!Init, ContextTypes, Slots
  <2>4. \A t \in Threads : current[t] = Ctx!None /\ token[t] = 0
    BY Zenon DEF Ctx!Init
  <2>5. DOMAIN requests = {}
    BY DEF Ctx!Init
  <2> QED
    BY Zenon, <2>3, <2>4, <2>5 DEF ContextInv, TaskInv, ThreadInv, HopInv, RequestInv, Has
<1>2. ContextInv => Ctx!CallsKeepContext
  <2> SUFFICES ASSUME ContextInv PROVE Ctx!CallsKeepContext
    BY Zenon
  <2>1. ASSUME NEW c \in Ctx!Contexts PROVE c \in Context /\ \E i \in Slots : Has(i, c)
    <3>1. PICK i \in Slots :
            /\ tasks[i].pc # "none"
            /\ c = tasks[i].ctx \/ (Tracing /\ \E k \in DOMAIN tasks[i].locals : c = tasks[i].locals[k])
      BY Zenon DEF Ctx!Contexts, Ctx!Range, Slots
    <3>2. tasks[i].ctx \in Context /\ tasks[i].locals \in Seq(Context)
      BY Zenon DEF ContextInv, ContextTypes, Handler
    <3>3. 0 \in 0..Depth(i) /\ (Tracing => \A k \in DOMAIN tasks[i].locals : k \in 0..Depth(i) /\ k # 0)
      BY <3>2 DEF Depth
    <3>4. c \in Context
      BY <3>1, <3>2
    <3> QED
      BY Zenon, <3>1, <3>3, <3>4 DEF Has, Scope
  <2>2. Ctx!ContextFollowsTask
    <3> SUFFICES ASSUME NEW t \in Threads
                 PROVE  /\ running[t] = 0 => current[t] = Ctx!None /\ token[t] = 0
                        /\ running[t] # 0 =>
                             /\ current[t].call = running[t]
                             /\ current[t].depth = IF Tracing THEN Len(tasks[running[t]].locals) ELSE 0
                             /\ token[t] = IF requests[running[t]].oneway THEN 0 ELSE running[t]
      BY Zenon DEF Ctx!ContextFollowsTask
    <3>1. running[t] = 0 => current[t] = Ctx!None /\ token[t] = 0
      BY Zenon DEF ContextInv, ThreadInv
    <3>2. ASSUME NEW i \in Nat \ {0}, running[t] = i
          PROVE  /\ current[t].call = i /\ current[t].depth = Depth(i)
                 /\ token[t] = IF requests[i].oneway THEN 0 ELSE i
      <4>1. i \in Slots /\ Polls(t, i) /\ current[t].call = i
        BY Zenon, <3>2, Serving
      <4>2. tasks[i].locals \in Seq(Context) /\ tasks[i].pc = "polled"
        BY Zenon, <4>1 DEF ContextInv, ContextTypes, Handler, Polls
      <4>3. Depth(i) \in 0..Depth(i)
        BY <4>2 DEF Depth
      <4> QED
        BY Zenon, <4>1, <4>2, <4>3 DEF Polls, ContextInv, TaskInv
    <3>3. running[t] \in Nat
      BY Zenon DEF ContextInv, ContextTypes
    <3> QED
      BY Zenon, <3>1, <3>2, <3>3 DEF Depth
  <2>3. Ctx!TraceIsTree
    <3> SUFFICES ASSUME NEW n \in DOMAIN requests
                 PROVE  IF requests[n].by = 0
                        THEN \A m \in 1..(n - 1) : requests[m].trace # requests[n].trace
                        ELSE /\ requests[n].trace = requests[requests[n].by].trace
                             /\ requests[n].parent # requests[requests[n].by].parent
                             /\ \A c \in Ctx!Contexts : c.span = requests[n].parent => c.call = requests[n].by
      BY Zenon DEF Ctx!TraceIsTree
    <3>1. RootOrHop(n)
      BY Zenon DEF ContextInv, RequestInv
    <3> QED
      BY Zenon, <2>1, <3>1 DEF RootOrHop
  <2>4. Ctx!SpansAreUnique
    <3> SUFFICES ASSUME NEW c \in Ctx!Contexts, NEW d \in Ctx!Contexts, c.span = d.span
                 PROVE  c = d /\ \A n \in DOMAIN requests : requests[n].by = 0 => requests[n].span # c.span
      BY Zenon DEF Ctx!SpansAreUnique
    <3>1. c = d
      BY Zenon, <2>1 DEF ContextInv, HopInv
    <3>2. ASSUME NEW n \in DOMAIN requests, requests[n].by = 0 PROVE requests[n].span # c.span
      <4>1. RootOrHop(n)
        BY Zenon DEF ContextInv, RequestInv
      <4> QED
        BY Zenon, <2>1, <3>2, <4>1 DEF RootOrHop
    <3> QED
      BY Zenon, <3>1, <3>2
  <2> QED
    BY Zenon, <2>2, <2>3, <2>4 DEF Ctx!CallsKeepContext
<1> QED
  BY <1>1, <1>2, ContextNext, PTL DEF Ctx!Spec
=============================================================================
