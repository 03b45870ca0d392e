----------------------------- MODULE CancelToken -----------------------------
(***************************************************************************)
(* A cancellation token (ice-rpc-rx/src/rt/cancel.rs) and the futures that *)
(* poll it: a CancellableCall around a handler, which caches the waker it  *)
(* registered, and a plain WaitForCancel.  Every atomic access and every   *)
(* critical section of the token is a step of its own.                     *)
(*                                                                         *)
(* The executor is external: a task it is given is polled, a wake-up of a  *)
(* parked task queues it, and one that arrives during a poll queues it     *)
(* again when the poll returns Pending.                                    *)
(***************************************************************************)
CONSTANTS
    Task,       \* the tasks that poll the token; a task stands for its waker
    Cached,     \* those that are a CancellableCall
    Noop,       \* Waker::noop(), of the inline poll on the channel thread
    None        \* an empty cache

ASSUME TokenAssumption ==
    /\ Cached \subseteq Task
    /\ Noop \notin Task
    /\ None \notin Task \cup {Noop}

VARIABLES
    cancelled,  \* the flag
    wakers,     \* the registered wakers
    firing,     \* where the call of cancel() that won the swap stands
    toWake,     \* the wakers it took and has not woken yet
    at,         \* where each task stands
    with,       \* the waker of its current or last poll
    cache,      \* registered_waker of a CancellableCall
    woken       \* a wake-up came during the current poll

vars == <<cancelled, wakers, firing, toWake, at, with, cache, woken>>
taskVars == <<at, with, cache, woken>>

Waker == Task \cup {Noop}

(* new       not polled yet                                                *)
(* queued    in the run queue of the executor                              *)
(* entry     CancellableCall::poll, before its first look at the token     *)
(* handler   polling the wrapped task                                      *)
(* cached    poll_cancelled_cached, before its read                        *)
(* plain     poll_cancelled, before its first read                         *)
(* register  before the critical section on the wakers                     *)
(* recheck   before the second read                                        *)
(* returning the poll is about to return Pending                           *)
(* parked    waiting for a wake-up                                         *)
(* done      returned Ready                                                *)
Place == {"new", "queued", "entry", "handler", "cached", "plain", "register",
          "recheck", "returning", "parked", "done"}

Polling == Place \ {"new", "queued", "parked", "done"}

TokenTypeOK ==
    /\ cancelled \in BOOLEAN
    /\ wakers \subseteq Waker
    /\ firing \in {"idle", "swapped", "waking"}
    /\ toWake \subseteq Waker
    /\ at \in [Task -> Place]
    /\ with \in [Task -> Waker]
    /\ cache \in [Task -> Waker \cup {None}]
    /\ woken \in [Task -> BOOLEAN]

Init ==
    /\ cancelled = FALSE
    /\ wakers = {}
    /\ firing = "idle"
    /\ toWake = {}
    /\ at = [t \in Task |-> "new"]
    /\ with = [t \in Task |-> Noop]
    /\ cache = [t \in Task |-> None]
    /\ woken = [t \in Task |-> FALSE]

-----------------------------------------------------------------------------
(* cancel(): only the call that wins the swap goes on.                     *)

CancelSwap ==
    /\ ~cancelled
    /\ cancelled' = TRUE
    /\ firing' = "swapped"
    /\ UNCHANGED <<wakers, toWake, taskVars>>

CancelTake ==
    /\ firing = "swapped"
    /\ firing' = "waking"
    /\ toWake' = wakers
    /\ wakers' = {}
    /\ UNCHANGED <<cancelled, taskVars>>

(* Waking a waker: what the executor does with the task it belongs to.     *)
Notify(w) ==
    /\ at' = [t \in Task |-> IF t = w /\ at[t] = "parked" THEN "queued" ELSE at[t]]
    /\ woken' = [t \in Task |-> woken[t] \/ (t = w /\ at[t] \in Polling)]

CancelWake(w) ==
    /\ firing = "waking"
    /\ w \in toWake
    /\ toWake' = toWake \ {w}
    /\ Notify(w)
    /\ UNCHANGED <<cancelled, wakers, firing, with, cache>>

-----------------------------------------------------------------------------
(* A task.                                                                 *)

Goto(t, place) == at' = [at EXCEPT ![t] = place]

Enter(t) == Goto(t, IF t \in Cached THEN "entry" ELSE "plain")

(* run_or_spawn: one poll with a waker that wakes nobody, ...              *)
PollInline(t) ==
    /\ at[t] = "new"
    /\ Enter(t)
    /\ UNCHANGED <<cancelled, wakers, firing, toWake, with, cache, woken>>

(* ... or straight to the executor.                                        *)
Spawn(t) ==
    /\ at[t] = "new"
    /\ Goto(t, "queued")
    /\ UNCHANGED <<cancelled, wakers, firing, toWake, with, cache, woken>>

(* The executor polls a queued task.                                       *)
Resume(t) ==
    /\ at[t] = "queued"
    /\ Enter(t)
    /\ with' = [with EXCEPT ![t] = t]
    /\ woken' = [woken EXCEPT ![t] = FALSE]
    /\ UNCHANGED <<cancelled, wakers, firing, toWake, cache>>

(* What the task waits for besides the token wakes it.                     *)
OtherWake(t) ==
    /\ at[t] \in Polling \cup {"parked"}
    /\ with[t] = t
    /\ Notify(t)
    /\ UNCHANGED <<cancelled, wakers, firing, toWake, with, cache>>

(* CancellableCall::poll: a cancelled call does not reach its handler.     *)
PollEntry(t) ==
    /\ at[t] = "entry"
    /\ Goto(t, IF cancelled THEN "done" ELSE "handler")
    /\ UNCHANGED <<cancelled, wakers, firing, toWake, with, cache, woken>>

(* The wrapped task is over or Pending.                                    *)
PollHandler(t) ==
    /\ at[t] = "handler"
    /\ Goto(t, "done") \/ Goto(t, "cached")
    /\ UNCHANGED <<cancelled, wakers, firing, toWake, with, cache, woken>>

(* A regression: the cache remembers that a waker was registered and not   *)
(* which one, as the inline poll registered the no-op one.                 *)
PollCachedBoolean(t) ==
    /\ at[t] = "cached"
    /\ Goto(t, IF cancelled THEN "done"
               ELSE IF cache[t] # None THEN "returning" ELSE "plain")
    /\ UNCHANGED <<cancelled, wakers, firing, toWake, with, cache, woken>>

(* poll_cancelled_cached: its read, and the fast path for the waker this   *)
(* task has registered already.                                            *)
PollCached(t) ==
    /\ at[t] = "cached"
    /\ Goto(t, IF cancelled THEN "done"
               ELSE IF cache[t] = with[t] THEN "returning" ELSE "plain")
    /\ UNCHANGED <<cancelled, wakers, firing, toWake, with, cache, woken>>

(* poll_cancelled: first read, registration under the lock, second read.   *)
FirstRead(t) ==
    /\ at[t] = "plain"
    /\ Goto(t, IF cancelled THEN "done" ELSE "register")
    /\ UNCHANGED <<cancelled, wakers, firing, toWake, with, cache, woken>>

RegisterWaker(t) ==
    /\ at[t] = "register"
    /\ wakers' = wakers \cup {with[t]}
    /\ Goto(t, "recheck")
    /\ UNCHANGED <<cancelled, firing, toWake, with, cache, woken>>

(* A regression: the flag is not read again after the registration.        *)
SecondReadSkipped(t) ==
    /\ at[t] = "recheck"
    /\ Goto(t, "returning")
    /\ cache' = IF t \notin Cached THEN cache ELSE [cache EXCEPT ![t] = with[t]]
    /\ UNCHANGED <<cancelled, wakers, firing, toWake, with, woken>>

(* The waker is cached only when the answer is Pending.                    *)
SecondRead(t) ==
    /\ at[t] = "recheck"
    /\ Goto(t, IF cancelled THEN "done" ELSE "returning")
    /\ cache' = IF cancelled \/ t \notin Cached THEN cache
                ELSE [cache EXCEPT ![t] = with[t]]
    /\ UNCHANGED <<cancelled, wakers, firing, toWake, with, woken>>

(* The poll returns Pending: run_or_spawn hands the task to the executor,  *)
(* the executor parks it or, if it was woken meanwhile, queues it again.   *)
ReturnPending(t) ==
    /\ at[t] = "returning"
    /\ Goto(t, IF with[t] = Noop \/ woken[t] THEN "queued" ELSE "parked")
    /\ UNCHANGED <<cancelled, wakers, firing, toWake, with, cache, woken>>

PollStep(t) ==
    \/ PollEntry(t) \/ PollHandler(t) \/ PollCached(t) \/ FirstRead(t)
    \/ RegisterWaker(t) \/ SecondRead(t) \/ ReturnPending(t)

Next ==
    \/ CancelSwap \/ CancelTake \/ \E w \in Waker : CancelWake(w)
    \/ \E t \in Task : PollInline(t) \/ Spawn(t) \/ Resume(t) \/ OtherWake(t) \/ PollStep(t)

Spec == Init /\ [][Next]_vars

(* A call of cancel() runs to its end, the executor polls what is queued,  *)
(* and a poll returns.                                                     *)
Fairness ==
    /\ WF_vars(CancelTake)
    /\ WF_vars(\E w \in Waker : CancelWake(w))
    /\ \A t \in Task : WF_vars(Resume(t)) /\ WF_vars(PollStep(t))

FairSpec == Spec /\ Fairness

-----------------------------------------------------------------------------
(* A task is never parked on a wake-up nobody will send: once the token is *)
(* cancelled, the waker of a parked task is still to be taken or still to  *)
(* be woken (poll_cancelled: "The other order has a lost-wakeup window").  *)
NoLostWakeup ==
    \A t \in Task : cancelled /\ at[t] = "parked" =>
        \/ firing = "swapped" /\ t \in wakers
        \/ firing = "waking" /\ t \in toWake

(* Cancelling ends every task that waits on the token, whatever the        *)
(* handler waits for ("is woken the instant the token fires").             *)
CancelEndsTasks ==
    \A t \in Task : cancelled /\ at[t] # "new" ~> at[t] = "done"
=============================================================================
