------------------------------ MODULE TimedProofs ------------------------------
(***************************************************************************)
(* Proofs about the operators of a stream whose result depends on time or  *)
(* on a token (RxTimed), for any duration, any read-ahead and any number   *)
(* of events: delay shifts a stream and changes nothing else, timeout      *)
(* fires only after a silence, and a cancelled token ends the stream.      *)
(***************************************************************************)
EXTENDS RxTimed, TLAPS

(* A leaf that names no prover is tried with these, one after the other.   *)
USE SMT, ZenonT(30), SMTT(30), Z3

(* What a source emits, what a consumer receives, and what delay holds     *)
(* back.                                                                   *)
Emitted == {NextEv(n) : n \in Nat} \cup {Complete, ErrorEv(Business("b1"))}
Received == Emitted \cup {None, TimeoutError, CancelledError}
Held == [ev : Emitted, left : Nat]

(* What an event may be, and an age for each of them.                      *)
TimedTypes ==
    /\ sent \in Seq(Emitted) /\ chan \in Seq(Emitted) /\ out \in Seq(Received) /\ queue \in Seq(Held)
    /\ age \in Seq(0..Duration) /\ Len(age) = Len(sent) /\ sleep \in Int /\ sleep >= NoTimer

(* No source emits what an operator says itself.                           *)
LEMMA NoEventOf ==
    /\ None \notin Emitted /\ Pending \notin Emitted
    /\ TimeoutError \notin Emitted /\ CancelledError \notin Emitted
  BY Zenon DEF None, Pending, TimeoutError, CancelledError, Emitted, NextEv, Complete,
     ErrorEv, Business, Technical

(* The ways a poll ends differ.                                            *)
LEMMA EndsDiffer ==
    /\ None # TimeoutError /\ None # CancelledError
    /\ TimeoutError # CancelledError /\ None # Pending
  BY DEF None, Pending, TimeoutError, CancelledError, ErrorEv, Technical

(* The duration of an operator is a number of ticks, zero included.        *)
DurationSet == Duration \in Nat

(* Whether the stream has ended for the consumer.                          *)
Ends(o) == \E i \in 1..Len(o) : o[i] = None

(* How many events the consumer received before the end of the stream.     *)
Got(o) == IF Ends(o) THEN Len(o) - 1 ELSE Len(o)

(* What the source emitted is, in order, what came out of delay, each as   *)
(* old as the duration, what delay holds back until it is, and what no     *)
(* poll has read.                                                          *)
Parted(n, s, o, q, c, a) ==
    /\ n \in Nat /\ Len(s) = n + Len(q) + Len(c)
    /\ \A i \in 1..n : o[i] = s[i] /\ a[i] = Duration
    /\ \A j \in 1..Len(q) : q[j].ev = s[n + j] /\ q[j].left + a[n + j] >= Duration
    /\ \A k \in 1..Len(c) : c[k] = s[n + Len(q) + k]

(* While no timer of timeout runs nothing was delivered; the running one   *)
(* fires no earlier than the duration after each event that was.           *)
Clocked(s, c, a, t) ==
    /\ Len(c) =< Len(s)
    /\ \A i \in 1..(Len(s) - Len(c)) : t # NoTimer /\ a[i] + t >= Duration

(* One more item for a consumer whose stream has not ended.                *)
LEMMA ItemOut ==
    ASSUME NEW o \in Seq(Received), ~Ends(o), NEW x \in Received
    PROVE  /\ Append(o, x) \in Seq(Received) /\ Append(o, x) # o /\ Got(o) = Len(o)
           /\ Len(o) \in Nat /\ Append(o, x)[Len(o) + 1] = x /\ \A i \in 1..Len(o) : Append(o, x)[i] = o[i]
<1>1. /\ Append(o, x) \in Seq(Received) /\ Len(o) \in Nat /\ Len(Append(o, x)) = Len(o) + 1
      /\ Append(o, x)[Len(o) + 1] = x /\ \A i \in 1..Len(o) : Append(o, x)[i] = o[i]
  OBVIOUS
<1>2. Append(o, x) # o
  BY <1>1
<1> QED  BY <1>1, <1>2, Zenon DEF Got

(* An item keeps what was received well formed.                            *)
LEMMA ItemIn == ASSUME NEW o \in Seq(Received), NEW x \in Received PROVE Append(o, x) \in Seq(Received)
  OBVIOUS

(* An item is received.                                                    *)
LEMMA ItemNew == ASSUME NEW o \in Seq(Received), NEW x \in Received PROVE Append(o, x) # o
<1>1. Len(o) \in Nat /\ Len(Append(o, x)) = Len(o) + 1
  OBVIOUS
<1> QED  BY <1>1

(* What was received last is one item.                                     *)
LEMMA ItemLast ==
    ASSUME NEW o \in Seq(Received), NEW x \in Received, NEW y \in Received, Append(o, x) = Append(o, y)
    PROVE  x = y
<1>1. Append(o, x)[Len(o) + 1] = x /\ Append(o, y)[Len(o) + 1] = y
  OBVIOUS
<1> QED  BY <1>1, Zenon

(* The end of a stream is no event of it.                                  *)
LEMMA ItemKept ==
    ASSUME NEW o \in Seq(Received), ~Ends(o), NEW x \in Received
    PROVE  Got(Append(o, x)) = IF x = None THEN Len(o) ELSE Len(o) + 1
<1>1. /\ Append(o, x) \in Seq(Received) /\ Len(o) \in Nat /\ Len(Append(o, x)) = Len(o) + 1
      /\ Append(o, x)[Len(o) + 1] = x /\ \A i \in 1..Len(o) : Append(o, x)[i] = o[i]
  OBVIOUS
<1>2. Ends(Append(o, x)) <=> x = None
  BY <1>1 DEF Ends
<1> QED  BY <1>1, <1>2 DEF Got

(* The elements of a sequence.                                             *)
LEMMA ElementIs == ASSUME NEW S, NEW s \in Seq(S), NEW i \in 1..Len(s) PROVE s[i] \in S
  OBVIOUS

(* The head and the rest of a sequence.                                    *)
LEMMA HeadIs == ASSUME NEW S, NEW s \in Seq(S), s # <<>> PROVE Head(s) \in S /\ Tail(s) \in Seq(S)
  OBVIOUS

(* A new event is unread.                                                  *)
LEMMA PartedEmits ==
    ASSUME NEW n, NEW s \in Seq(Emitted), NEW o, NEW q \in Seq(Held), NEW c \in Seq(Emitted), NEW a \in Seq(0..Duration),
           Len(a) = Len(s), Parted(n, s, o, q, c, a), NEW x \in Emitted, DurationSet
    PROVE  Parted(n, Append(s, x), o, q, Append(c, x), Append(a, 0))
<1> DEFINE s1 == Append(s, x)
           c1 == Append(c, x)
           a1 == Append(a, 0)
<1>1. /\ Len(s) \in Nat /\ Len(q) \in Nat /\ Len(c) \in Nat /\ Len(a) = Len(s) /\ n \in Nat
      /\ Len(s) = n + Len(q) + Len(c)
  BY DEF Parted
<1>2. Len(s1) = Len(s) + 1 /\ s1[Len(s) + 1] = x /\ \A i \in 1..Len(s) : s1[i] = s[i]
  OBVIOUS
<1>3. Len(c1) = Len(c) + 1 /\ c1[Len(c) + 1] = x /\ \A i \in 1..Len(c) : c1[i] = c[i]
  OBVIOUS
<1>4. \A i \in 1..Len(s) : a1[i] = a[i]
  BY DEF DurationSet
<1> HIDE DEF s1, c1, a1
<1>5. ASSUME NEW i \in 1..n PROVE o[i] = s1[i] /\ a1[i] = Duration
  <2>1. i \in 1..Len(s)  BY <1>1
  <2> QED  BY <1>2, <1>4, <2>1, Zenon DEF Parted
<1>6. ASSUME NEW j \in 1..Len(q) PROVE q[j].ev = s1[n + j] /\ q[j].left + a1[n + j] >= Duration
  <2>1. n + j \in 1..Len(s)  BY <1>1
  <2> QED  BY <1>2, <1>4, <2>1, Zenon DEF Parted
<1>7. ASSUME NEW k \in 1..Len(c1) PROVE c1[k] = s1[n + Len(q) + k]
  <2>1. CASE k = Len(c) + 1
    <3>1. n + Len(q) + k = Len(s) + 1  BY <1>1, <2>1
    <3> QED  BY <1>2, <1>3, <2>1, <3>1, Zenon
  <2>2. CASE k # Len(c) + 1
    <3>1. k \in 1..Len(c) /\ n + Len(q) + k \in 1..Len(s)  BY <1>1, <1>3, <2>2
    <3> QED  BY <1>2, <1>3, <3>1, Zenon DEF Parted
  <2> QED  BY <2>1, <2>2, Zenon
<1>8. Len(s1) = n + Len(q) + Len(c1)
  BY <1>1, <1>2, <1>3
<1>9. Parted(n, s1, o, q, c1, a1)
  BY <1>1, <1>5, <1>6, <1>7, <1>8, Zenon DEF Parted
<1> QED  BY <1>9, Zenon DEF s1, c1, a1

(* The head of the queue comes out when it has waited.                     *)
LEMMA PartedReleases ==
    ASSUME NEW n, NEW s \in Seq(Emitted), NEW o, NEW q \in Seq(Held), NEW c \in Seq(Emitted), NEW a \in Seq(0..Duration),
           Len(a) = Len(s), Parted(n, s, o, q, c, a), DurationSet, q # <<>>, Head(q).left = 0,
           NEW o1, o1[n + 1] = Head(q).ev, \A i \in 1..n : o1[i] = o[i]
    PROVE  Parted(n + 1, s, o1, Tail(q), c, a)
<1> DEFINE q1 == Tail(q)
<1>1. /\ Len(s) \in Nat /\ Len(q) \in Nat /\ Len(c) \in Nat /\ Len(a) = Len(s) /\ n \in Nat
      /\ Len(s) = n + Len(q) + Len(c)
  BY DEF Parted
<1>2. /\ Len(q) >= 1 /\ Head(q) = q[1] /\ Len(q1) = Len(q) - 1 /\ \A j \in 1..Len(q1) : q1[j] = q[j + 1]
  OBVIOUS
<1> HIDE DEF q1
<1>3. ASSUME NEW i \in 1..(n + 1) PROVE o1[i] = s[i] /\ a[i] = Duration
  <2>1. CASE i = n + 1
    <3>1. 1 \in 1..Len(q) /\ n + 1 \in 1..Len(a)
      BY <1>1, <1>2
    <3>2. q[1].ev = s[n + 1] /\ q[1].left + a[n + 1] >= Duration
      BY <3>1, Zenon DEF Parted
    <3>3. a[n + 1] \in 0..Duration
      BY <3>1, ElementIs, Zenon
    <3>4. a[n + 1] = Duration
      BY <1>2, <3>2, <3>3 DEF DurationSet
    <3> QED  BY <1>2, <2>1, <3>2, <3>4, Zenon
  <2>2. CASE i # n + 1
    <3>1. i \in 1..n
      BY <1>1, <2>2
    <3> QED  BY <3>1, Zenon DEF Parted
  <2> QED  BY <2>1, <2>2, Zenon
<1>4. ASSUME NEW j \in 1..Len(q1) PROVE q1[j].ev = s[n + 1 + j] /\ q1[j].left + a[n + 1 + j] >= Duration
  <2>1. j + 1 \in 1..Len(q) /\ n + (j + 1) = n + 1 + j
    BY <1>1, <1>2
  <2>2. q[j + 1].ev = s[n + (j + 1)] /\ q[j + 1].left + a[n + (j + 1)] >= Duration
    BY <2>1, Zenon DEF Parted
  <2> QED  BY <1>2, <2>1, <2>2, Zenon
<1>5. n + 1 \in Nat /\ n + 1 + Len(q1) = n + Len(q)
  BY <1>1, <1>2
<1>6. ASSUME NEW k \in 1..Len(c) PROVE c[k] = s[n + 1 + Len(q1) + k]
  BY <1>5, Zenon DEF Parted
<1>7. Len(s) = n + 1 + Len(q1) + Len(c)
  BY <1>1, <1>5, Zenon
<1>8. Parted(n + 1, s, o1, q1, c, a)
  BY <1>3, <1>4, <1>5, <1>6, <1>7, Zenon DEF Parted
<1> QED  BY <1>8, Zenon DEF q1

(* An event that is read ahead waits for the duration.                     *)
LEMMA PartedReads ==
    ASSUME NEW n, NEW s \in Seq(Emitted), NEW o, NEW q \in Seq(Held), NEW c \in Seq(Emitted), NEW a \in Seq(0..Duration),
           Len(a) = Len(s), Parted(n, s, o, q, c, a), DurationSet, c # <<>>
    PROVE  Parted(n, s, o, Append(q, [ev |-> Head(c), left |-> Duration]), Tail(c), a)
<1> DEFINE h == [ev |-> Head(c), left |-> Duration]
           q1 == Append(q, h)
           c1 == Tail(c)
<1>1. /\ Len(s) \in Nat /\ Len(q) \in Nat /\ Len(c) \in Nat /\ Len(a) = Len(s) /\ n \in Nat
      /\ Len(s) = n + Len(q) + Len(c)
  BY DEF Parted
<1>2. /\ Len(c) >= 1 /\ Head(c) = c[1] /\ Len(c1) = Len(c) - 1 /\ \A j \in 1..Len(c1) : c1[j] = c[j + 1] /\ c[1] \in Emitted
  OBVIOUS
<1>3. h.ev = c[1] /\ h.left = Duration /\ h \in Held
  BY <1>2 DEF Held, DurationSet
<1> HIDE DEF h
<1>4. Len(q1) = Len(q) + 1 /\ q1[Len(q) + 1] = h /\ \A j \in 1..Len(q) : q1[j] = q[j]
  BY <1>3
<1> HIDE DEF q1, c1
<1>5. n + Len(q1) + Len(c1) = Len(s)
  BY <1>1, <1>2, <1>4
<1>6. ASSUME NEW j \in 1..Len(q1) PROVE q1[j].ev = s[n + j] /\ q1[j].left + a[n + j] >= Duration
  <2>1. CASE j = Len(q) + 1
    <3>1. 1 \in 1..Len(c) /\ n + Len(q) + 1 = n + j /\ n + j \in 1..Len(a)
      BY <1>1, <1>2, <2>1
    <3>2. c[1] = s[n + j]
      BY <3>1, Zenon DEF Parted
    <3>3. a[n + j] \in 0..Duration
      BY <3>1, ElementIs, Zenon
    <3>4. Duration + a[n + j] >= Duration
      BY <3>3 DEF DurationSet
    <3> QED  BY <1>3, <1>4, <2>1, <3>2, <3>4, Zenon
  <2>2. CASE j # Len(q) + 1
    <3>1. j \in 1..Len(q)
      BY <1>1, <1>4, <2>2
    <3> QED  BY <1>4, <3>1, Zenon DEF Parted
  <2> QED  BY <2>1, <2>2, Zenon
<1>7. ASSUME NEW k \in 1..Len(c1) PROVE c1[k] = s[n + Len(q1) + k]
  <2>1. k + 1 \in 1..Len(c) /\ n + Len(q) + (k + 1) = n + Len(q1) + k
    BY <1>1, <1>2, <1>4
  <2>2. c[k + 1] = s[n + Len(q) + (k + 1)]
    BY <2>1, Zenon DEF Parted
  <2> QED  BY <1>2, <2>1, <2>2, Zenon
<1>8. Parted(n, s, o, q1, c1, a)
  BY <1>1, <1>5, <1>6, <1>7, Zenon DEF Parted
<1> QED  BY <1>8, Zenon DEF q1, c1, h

(* A tick makes an event as much older as it has less to wait.             *)
LEMMA PartedAges ==
    ASSUME NEW n, NEW s \in Seq(Emitted), NEW o, NEW q \in Seq(Held), NEW c \in Seq(Emitted), NEW a \in Seq(0..Duration),
           Len(a) = Len(s), Parted(n, s, o, q, c, a), DurationSet,
           NEW q1, q1 = [i \in 1..Len(q) |-> [q[i] EXCEPT !.left = Less(@)]],
           NEW a1, a1 = [i \in 1..Len(a) |-> IF a[i] < Duration THEN a[i] + 1 ELSE Duration]
    PROVE  Parted(n, s, o, q1, c, a1)
<1>1. /\ Len(s) \in Nat /\ Len(q) \in Nat /\ Len(c) \in Nat /\ Len(a) = Len(s) /\ n \in Nat
      /\ Len(s) = n + Len(q) + Len(c)
  BY DEF Parted
<1>2. Len(q1) = Len(q)
  BY <1>1
<1>3. ASSUME NEW j \in 1..Len(q) PROVE q1[j].ev = q[j].ev /\ q1[j].left = Less(q[j].left) /\ q[j].left \in Nat
  <2>1. q[j] \in Held
    BY ElementIs, Zenon
  <2>2. q1[j] = [q[j] EXCEPT !.left = Less(@)]
    BY Zenon
  <2> QED  BY <2>1, <2>2, Zenon DEF Held
<1>4. ASSUME NEW i \in 1..Len(s)
      PROVE  /\ a[i] \in 0..Duration /\ a1[i] = IF a[i] < Duration THEN a[i] + 1 ELSE Duration
  <2>1. a[i] \in 0..Duration
    BY ElementIs, Zenon
  <2> QED  BY <2>1, Zenon
<1>5. ASSUME NEW i \in 1..n PROVE o[i] = s[i] /\ a1[i] = Duration
  <2>1. i \in 1..Len(s)
    BY <1>1
  <2>2. o[i] = s[i] /\ a[i] = Duration
    BY Zenon DEF Parted
  <2>3. ~(Duration < Duration)
    BY DEF DurationSet
  <2> QED  BY <1>4, <2>1, <2>2, <2>3, Zenon
<1>6. ASSUME NEW j \in 1..Len(q1) PROVE q1[j].ev = s[n + j] /\ q1[j].left + a1[n + j] >= Duration
  <2>1. j \in 1..Len(q) /\ n + j \in 1..Len(s)
    BY <1>1, <1>2
  <2>2. q[j].ev = s[n + j] /\ q[j].left + a[n + j] >= Duration
    BY <2>1, Zenon DEF Parted
  <2>3. /\ q1[j].ev = q[j].ev /\ q1[j].left = Less(q[j].left) /\ q[j].left \in Nat
        /\ a[n + j] \in 0..Duration /\ a1[n + j] = IF a[n + j] < Duration THEN a[n + j] + 1 ELSE Duration
    BY <1>3, <1>4, <2>1, Zenon
  <2> DEFINE l == q[j].left
             l1 == q1[j].left
             g == a[n + j]
             g1 == a1[n + j]
  <2>4. /\ l \in Nat /\ g \in 0..Duration /\ l + g >= Duration /\ l1 = Less(l)
        /\ g1 = IF g < Duration THEN g + 1 ELSE Duration
    BY <2>2, <2>3, Zenon
  <2> HIDE DEF l, l1, g, g1
  <2>5. l1 + g1 >= Duration
    BY <2>4 DEF Less, DurationSet
  <2> QED  BY <2>2, <2>3, <2>5, Zenon DEF l1, g1
<1>7. ASSUME NEW k \in 1..Len(c) PROVE c[k] = s[n + Len(q1) + k]
  BY <1>2, Zenon DEF Parted
<1>8. Len(s) = n + Len(q1) + Len(c)
  BY <1>1, <1>2, Zenon
<1> QED  BY <1>1, <1>5, <1>6, <1>7, <1>8, Zenon DEF Parted

(* A new event is not delivered yet.                                       *)
LEMMA ClockedEmits ==
    ASSUME NEW s \in Seq(Emitted), NEW c \in Seq(Emitted), NEW a \in Seq(0..Duration), Len(a) = Len(s), NEW t,
           Clocked(s, c, a, t), NEW x \in Emitted, DurationSet
    PROVE  Clocked(Append(s, x), Append(c, x), Append(a, 0), t)
<1>1. /\ Len(s) \in Nat /\ Len(c) \in Nat /\ Len(Append(s, x)) = Len(s) + 1 /\ Len(Append(c, x)) = Len(c) + 1
      /\ Len(c) =< Len(s)
  BY DEF Clocked
<1>2. \A i \in 1..Len(s) : Append(a, 0)[i] = a[i]
  BY DEF DurationSet
<1>3. Len(Append(s, x)) - Len(Append(c, x)) = Len(s) - Len(c) /\ Len(Append(c, x)) =< Len(Append(s, x))
  BY <1>1
<1>4. ASSUME NEW i \in 1..(Len(s) - Len(c)) PROVE i \in 1..Len(s)
  BY <1>1
<1> QED  BY <1>2, <1>3, <1>4, Zenon DEF Clocked

(* A tick brings the timer as much closer as it ages the events.           *)
LEMMA ClockedAges ==
    ASSUME NEW s \in Seq(Emitted), NEW c \in Seq(Emitted), NEW a \in Seq(0..Duration), Len(a) = Len(s),
           NEW t \in Int, t >= NoTimer, Clocked(s, c, a, t), DurationSet,
           NEW a1, a1 = [i \in 1..Len(a) |-> IF a[i] < Duration THEN a[i] + 1 ELSE Duration]
    PROVE  Clocked(s, c, a1, Less(t))
<1>1. Len(s) \in Nat /\ Len(c) \in Nat /\ Len(c) =< Len(s)
  BY DEF Clocked
<1>2. ASSUME NEW i \in 1..(Len(s) - Len(c)) PROVE Less(t) # NoTimer /\ a1[i] + Less(t) >= Duration
  <2>1. i \in 1..Len(a)
    BY <1>1
  <2>2. a[i] \in 0..Duration
    BY <2>1, ElementIs, Zenon
  <2>3. a1[i] = (IF a[i] < Duration THEN a[i] + 1 ELSE Duration) /\ t # NoTimer /\ a[i] + t >= Duration
    BY <2>1, Zenon DEF Clocked
  <2> DEFINE g == a[i]
             g1 == a1[i]
  <2>4. g \in 0..Duration /\ g1 = (IF g < Duration THEN g + 1 ELSE Duration) /\ t # NoTimer /\ g + t >= Duration
    BY <2>2, <2>3, Zenon
  <2> HIDE DEF g, g1
  <2>5. Less(t) # NoTimer /\ g1 + Less(t) >= Duration
    BY <2>4 DEF Less, DurationSet, NoTimer
  <2> QED  BY <2>5, Zenon DEF g1
<1> QED  BY <1>1, <1>2, Zenon DEF Clocked

(* Arming the timer waits longer than not having armed it.                 *)
LEMMA ClockedArms ==
    ASSUME NEW s \in Seq(Emitted), NEW c \in Seq(Emitted), NEW a \in Seq(0..Duration), Len(a) = Len(s),
           NEW t \in Int, Clocked(s, c, a, t), DurationSet
    PROVE  Clocked(s, c, a, IF t = NoTimer THEN Duration ELSE t)
<1>1. CASE t = NoTimer
  <2>1. \A i \in 1..(Len(s) - Len(c)) : FALSE
    BY <1>1, Zenon DEF Clocked
  <2> QED  BY <2>1, Zenon DEF Clocked
<1>2. CASE t # NoTimer
  BY <1>2, Zenon
<1> QED  BY <1>1, <1>2, Zenon

(* The timer restarts with every event delivered.                          *)
LEMMA ClockedRestarts ==
    ASSUME NEW s \in Seq(Emitted), NEW c \in Seq(Emitted), NEW a \in Seq(0..Duration), Len(a) = Len(s),
           NEW t, Clocked(s, c, a, t), DurationSet, c # <<>>
    PROVE  Clocked(s, Tail(c), a, Duration)
<1>1. Len(s) \in Nat /\ Len(c) \in Nat /\ Len(c) =< Len(s) /\ Len(Tail(c)) = Len(c) - 1 /\ Len(c) >= 1
  BY DEF Clocked
<1>2. Len(Tail(c)) =< Len(s)
  BY <1>1
<1>3. ASSUME NEW i \in 1..(Len(s) - Len(Tail(c))) PROVE Duration # NoTimer /\ a[i] + Duration >= Duration
  <2>1. i \in 1..Len(a)
    BY <1>1
  <2>2. a[i] \in 0..Duration
    BY <2>1, ElementIs, Zenon
  <2> QED  BY <2>2 DEF DurationSet, NoTimer
<1> QED  BY <1>2, <1>3, Zenon DEF Clocked

(* The invariant of the operators.                                         *)
TimedInv ==
    /\ TimedTypes
    /\ op = "delay" => Parted(Got(out), sent, out, queue, chan, age)
    /\ op = "timeout" => Clocked(sent, chan, age, sleep)

(* Nothing has been emitted.                                               *)
LEMMA InitTimed == ASSUME DurationSet PROVE Init => TimedInv
<1> SUFFICES ASSUME Init PROVE TimedInv
  OBVIOUS
<1>1. TimedTypes
  BY DEF Init, TimedTypes, NoTimer
<1>2. Got(<<>>) = 0
  BY DEF Got, Ends
<1>3. Parted(0, <<>>, <<>>, <<>>, <<>>, <<>>) /\ Clocked(<<>>, <<>>, <<>>, sleep)
  BY DEF Parted, Clocked
<1> QED  BY <1>1, <1>2, <1>3, Zenon DEF Init, TimedInv

(* The source emits.                                                       *)
LEMMA EmitKeepsTimed == ASSUME DurationSet, TimedInv, NEW ev \in Emitted, Emit(ev) PROVE TimedInv'
<1>1. TimedTypes
  BY Zenon DEF TimedInv
<1>2. /\ sent' = Append(sent, ev) /\ chan' = Append(chan, ev) /\ age' = Append(age, 0)
      /\ UNCHANGED <<op, queue, sleep, out>>
  BY Zenon DEF Emit
<1>3. TimedTypes'
  BY <1>1, <1>2 DEF TimedTypes, DurationSet
<1>4. op' = "delay" => Parted(Got(out'), sent', out', queue', chan', age')
  BY <1>1, <1>2, PartedEmits, Zenon DEF TimedInv, TimedTypes
<1>5. op' = "timeout" => Clocked(sent', chan', age', sleep')
  BY <1>1, <1>2, ClockedEmits, Zenon DEF TimedInv, TimedTypes
<1> QED  BY <1>3, <1>4, <1>5, Zenon DEF TimedInv

(* Time passes.                                                            *)
LEMMA TickKeepsTimed == ASSUME DurationSet, TimedInv, Tick PROVE TimedInv'
<1>1. TimedTypes
  BY Zenon DEF TimedInv
<1>2. /\ sleep' = Less(sleep) /\ UNCHANGED <<op, sent, chan, out>>
      /\ queue' = [i \in 1..Len(queue) |-> [queue[i] EXCEPT !.left = Less(@)]]
      /\ age' = [i \in 1..Len(age) |-> IF age[i] < Duration THEN age[i] + 1 ELSE Duration]
  BY Zenon DEF Tick
<1>3. TimedTypes'
  <2>1. sleep' \in Int /\ sleep' >= NoTimer
    BY <1>1, <1>2 DEF TimedTypes, Less, NoTimer
  <2>2. queue' \in Seq(Held)
    <3>1. ASSUME NEW i \in 1..Len(queue) PROVE [queue[i] EXCEPT !.left = Less(@)] \in Held
      <4>1. queue[i] \in Held
        BY <1>1, ElementIs, Zenon DEF TimedTypes
      <4> QED  BY <4>1 DEF Held, Less
    <3>2. Len(queue) \in Nat
      BY <1>1 DEF TimedTypes
    <3> QED  BY <1>2, <3>1, <3>2
  <2>3. age' \in Seq(0..Duration) /\ Len(age') = Len(age)
    <3>1. ASSUME NEW i \in 1..Len(age) PROVE (IF age[i] < Duration THEN age[i] + 1 ELSE Duration) \in 0..Duration
      <4>1. age[i] \in 0..Duration
        BY <1>1, ElementIs, Zenon DEF TimedTypes
      <4> QED  BY <4>1 DEF DurationSet
    <3>2. Len(age) \in Nat
      BY <1>1 DEF TimedTypes
    <3> QED  BY <1>2, <3>1, <3>2
  <2> QED  BY <1>1, <1>2, <2>1, <2>2, <2>3, Zenon DEF TimedTypes
<1>4. op' = "delay" => Parted(Got(out'), sent', out', queue', chan', age')
  BY <1>1, <1>2, PartedAges, Zenon DEF TimedInv, TimedTypes
<1>5. op' = "timeout" => Clocked(sent', chan', age', sleep')
  BY <1>1, <1>2, ClockedAges, Zenon DEF TimedInv, TimedTypes
<1> QED  BY <1>3, <1>4, <1>5, Zenon DEF TimedInv

(* The end of the source, the timer and the token touch no event.          *)
LEMMA OtherKeepsTimed ==
    ASSUME TimedInv, DropSource \/ TimerFires \/ Cancel \/ UNCHANGED vars
    PROVE  TimedInv'
<1>1. UNCHANGED <<op, sent, chan, queue, sleep, out, age>>
  BY Zenon DEF DropSource, TimerFires, Cancel, vars
<1> QED  BY <1>1, Zenon DEF TimedInv, TimedTypes

(* What a poll takes from the channel.                                     *)
LEMMA Pulled ==
    ASSUME TimedTypes, PullSource
    PROVE  /\ chan' \in Seq(Emitted)
           /\ Ev \notin {None, Pending} =>
                  chan # <<>> /\ Ev = Head(chan) /\ Ev \in Emitted /\ chan' = Tail(chan)
           /\ Ev \in {None, Pending} => chan = <<>> /\ chan' = chan
           /\ chan # <<>> => Ev \notin {None, Pending}
<1>1. ASSUME chan # <<>> PROVE Head(chan) \in Emitted /\ Tail(chan) \in Seq(Emitted)
  BY <1>1 DEF TimedTypes
<1>2. chan \in Seq(Emitted)
  BY Zenon DEF TimedTypes
<1> QED  BY <1>1, <1>2, NoEventOf, EndsDiffer, Zenon DEF Ev, PullSource

(* delay lets its head out.                                                *)
LEMMA ReleaseKeepsTimed == ASSUME DurationSet, TimedInv, DelayRelease PROVE TimedInv'
<1>1. TimedTypes /\ Parted(Got(out), sent, out, queue, chan, age)
  BY Zenon DEF TimedInv, DelayRelease, Polling
<1>2. /\ queue # <<>> /\ Head(queue).left = 0 /\ out' = Append(out, Head(queue).ev) /\ queue' = Tail(queue)
      /\ sleep' = NoTimer /\ UNCHANGED <<op, sent, chan, age>> /\ op = "delay" /\ ~Ends(out)
  BY Zenon DEF DelayRelease, Polling, Ready, Over, Ends
<1>3. Head(queue).ev \in Emitted /\ Tail(queue) \in Seq(Held)
  <2>1. Head(queue) \in Held /\ Tail(queue) \in Seq(Held)
    BY <1>1, <1>2, HeadIs, Zenon DEF TimedTypes
  <2> QED  BY <2>1 DEF Held
<1>4. out \in Seq(Received) /\ Head(queue).ev \in Received /\ Head(queue).ev # None
  BY <1>1, <1>3, NoEventOf, Zenon DEF TimedTypes, Received
<1>5. /\ out' \in Seq(Received) /\ Got(out) = Len(out) /\ out'[Len(out) + 1] = Head(queue).ev
      /\ \A i \in 1..Len(out) : out'[i] = out[i]
  BY <1>2, <1>4, ItemOut, ZenonT(30)
<1>6. Got(out') = Len(out) + 1
  BY <1>2, <1>4, ItemKept, Zenon
<1>7. TimedTypes'
  <2>1. NoTimer \in Int /\ NoTimer >= NoTimer
    BY DEF NoTimer
  <2> QED  BY <1>1, <1>2, <1>3, <1>5, <2>1, Zenon DEF TimedTypes
<1>8. Parted(Len(out) + 1, sent, out', Tail(queue), chan, age)
  BY <1>1, <1>2, <1>5, PartedReleases, Zenon DEF TimedTypes
<1> QED  BY <1>2, <1>6, <1>7, <1>8, Zenon DEF TimedInv

(* The end of a stream moves nothing.                                      *)
LEMMA PartedEnds ==
    ASSUME NEW o \in Seq(Received), ~Ends(o), NEW s, NEW q, NEW c, NEW a, Parted(Got(o), s, o, q, c, a)
    PROVE  Parted(Got(Append(o, None)), s, Append(o, None), q, c, a)
<1>1. None \in Received
  BY Zenon DEF Received
<1>2. Got(Append(o, None)) = Len(o) /\ Got(o) = Len(o) /\ \A i \in 1..Len(o) : Append(o, None)[i] = o[i]
  BY <1>1, ItemOut, ItemKept, ZenonT(40)
<1> QED  BY <1>2, ZenonT(40) DEF Parted

(* delay ends.                                                             *)
LEMMA EndKeepsTimed == ASSUME DurationSet, TimedInv, DelayEnd PROVE TimedInv'
<1>1. TimedTypes /\ Parted(Got(out), sent, out, queue, chan, age)
  BY Zenon DEF TimedInv, DelayEnd, Polling
<1>2. /\ out' = Append(out, None) /\ sleep' = NoTimer /\ UNCHANGED <<op, sent, chan, queue, age>> /\ op = "delay"
      /\ ~Ends(out)
  BY Zenon DEF DelayEnd, Polling, Ready, Over, Ends
<1>3. out \in Seq(Received) /\ None \in Received
  BY <1>1, Zenon DEF TimedTypes, Received
<1>4. out' \in Seq(Received)
  BY <1>2, <1>3, ItemIn, Zenon
<1>5. TimedTypes'
  <2>1. NoTimer \in Int /\ NoTimer >= NoTimer
    BY DEF NoTimer
  <2> QED  BY <1>1, <1>2, <1>4, <2>1, Zenon DEF TimedTypes
<1>6. Parted(Got(out'), sent, out', queue, chan, age)
  BY <1>1, <1>2, <1>3, PartedEnds, Zenon
<1> QED  BY <1>2, <1>5, <1>6, Zenon DEF TimedInv

(* The timer of the head of the queue.                                     *)
LEMMA HeadTimerIs == ASSUME TimedTypes PROVE HeadTimer \in Int /\ HeadTimer >= NoTimer
<1>1. ASSUME queue # <<>> PROVE Head(queue).left \in Nat
  <2>1. Head(queue) \in Held
    BY <1>1, HeadIs, Zenon DEF TimedTypes
  <2> QED  BY <2>1 DEF Held
<1> QED  BY <1>1 DEF HeadTimer, TimedTypes, NoTimer

(* delay reads ahead.                                                      *)
LEMMA ReadKeepsTimed == ASSUME DurationSet, TimedInv, DelayReadAhead PROVE TimedInv'
<1>1. TimedTypes /\ Parted(Got(out), sent, out, queue, chan, age)
  BY Zenon DEF TimedInv, DelayReadAhead, Polling
<1>2. /\ PullSource /\ sleep' = HeadTimer /\ UNCHANGED <<op, sent, age, out>>
      /\ op = "delay" /\ Ev # Pending
      /\ IF Ev = None THEN queue' = queue ELSE queue' = Append(queue, [ev |-> Ev, left |-> Duration])
  BY Zenon DEF DelayReadAhead, Polling, Loop, Deadline
<1>3. HeadTimer \in Int /\ HeadTimer >= NoTimer
  BY <1>1, HeadTimerIs, Zenon
<1>4. CASE Ev = None
  <2>1. chan' = chan /\ queue' = queue
    BY <1>1, <1>2, <1>4, Pulled, Zenon
  <2> QED  BY <1>1, <1>2, <1>3, <2>1, Zenon DEF TimedInv, TimedTypes
<1>5. CASE Ev # None
  <2>1. chan # <<>> /\ Ev = Head(chan) /\ Ev \in Emitted /\ chan' = Tail(chan) /\ chan' \in Seq(Emitted)
    BY <1>1, <1>2, <1>5, Pulled, Zenon
  <2>2. queue' = Append(queue, [ev |-> Head(chan), left |-> Duration])
    BY <1>2, <1>5, <2>1, Zenon
  <2>3. [ev |-> Head(chan), left |-> Duration] \in Held
    BY <2>1 DEF Held, DurationSet
  <2>4. queue' \in Seq(Held)
    BY <1>1, <2>2, <2>3 DEF TimedTypes
  <2>5. Parted(Got(out), sent, out, Append(queue, [ev |-> Head(chan), left |-> Duration]), Tail(chan), age)
    BY <1>1, <2>1, PartedReads, Zenon DEF TimedTypes
  <2>6. TimedTypes'
    BY <1>1, <1>2, <1>3, <2>1, <2>4, Zenon DEF TimedTypes
  <2> QED  BY <1>2, <2>1, <2>2, <2>5, <2>6, Zenon DEF TimedInv
<1> QED  BY <1>4, <1>5, Zenon

(* delay waits.                                                            *)
LEMMA WaitKeepsTimed == ASSUME TimedInv, DelayWait PROVE TimedInv'
<1>1. TimedTypes
  BY Zenon DEF TimedInv
<1>2. UNCHANGED <<op, sent, chan, queue, out, age>> /\ op = "delay" /\ sleep' \in {NoTimer, HeadTimer}
  BY Zenon DEF DelayWait, Polling, Loop, Park
<1>3. sleep' \in Int /\ sleep' >= NoTimer
  <2>1. HeadTimer \in Int /\ HeadTimer >= NoTimer
    BY <1>1, HeadTimerIs, Zenon
  <2>2. NoTimer \in Int /\ NoTimer >= NoTimer
    BY DEF NoTimer
  <2> QED  BY <1>2, <2>1, <2>2, Zenon
<1> QED  BY <1>1, <1>2, <1>3, Zenon DEF TimedInv, TimedTypes

(* The timer of timeout.                                                   *)
LEMMA ArmedIs == ASSUME DurationSet, TimedTypes PROVE TimerArmed \in Int /\ TimerArmed >= NoTimer
  BY DEF DurationSet, TimedTypes, TimerArmed, NoTimer

(* timeout polls its source, then its timer.                               *)
LEMMA TimeoutKeepsTimed == ASSUME DurationSet, TimedInv, Timeout PROVE TimedInv'
<1>1. TimedTypes /\ Clocked(sent, chan, age, sleep) /\ out \in Seq(Received)
  BY Zenon DEF TimedInv, Timeout, Polling, TimedTypes
<1>2. UNCHANGED <<op, sent, queue, age>> /\ op = "timeout" /\ ~Ends(out)
  BY Zenon DEF Timeout, Polling, Over, Ends
<1>3. TimerArmed \in Int /\ TimerArmed >= NoTimer /\ Clocked(sent, chan, age, TimerArmed)
  <2>1. Clocked(sent, chan, age, IF sleep = NoTimer THEN Duration ELSE sleep)
    BY <1>1, ClockedArms, Zenon DEF TimedTypes
  <2> QED  BY <1>1, <2>1, ArmedIs, Zenon DEF TimerArmed
<1>4. CASE /\ chan' = chan /\ sleep' \in {sleep, TimerArmed}
           /\ (out' = out \/ \E x \in {None, TimeoutError} : out' = Append(out, x))
  <2>1. out' \in Seq(Received)
    <3>1. None \in Received /\ TimeoutError \in Received
      BY Zenon DEF Received
    <3> QED  BY <1>1, <1>4, <3>1, ItemIn, Zenon
  <2>2. sleep' \in Int /\ sleep' >= NoTimer
    BY <1>1, <1>3, <1>4, Zenon DEF TimedTypes
  <2>3. Clocked(sent, chan, age, sleep')
    BY <1>1, <1>3, <1>4, Zenon
  <2> QED  BY <1>1, <1>2, <1>4, <2>1, <2>2, <2>3, Zenon DEF TimedInv, TimedTypes
<1>5. CASE /\ Ev \notin {Pending, None} /\ sleep' = Duration
           /\ PullSource /\ out' = Append(out, Ev)
  <2>1. chan # <<>> /\ chan' = Tail(chan) /\ chan' \in Seq(Emitted) /\ Ev \in Emitted
    BY <1>1, <1>5, Pulled, Zenon
  <2>2. out' \in Seq(Received)
    <3>1. Ev \in Received
      BY <2>1, Zenon DEF Received
    <3> QED  BY <1>1, <1>5, <3>1, ItemIn, Zenon
  <2>3. Duration \in Int /\ Duration >= NoTimer
    BY DEF DurationSet, NoTimer
  <2>4. Clocked(sent, Tail(chan), age, Duration)
    BY <1>1, <2>1, ClockedRestarts, Zenon DEF TimedTypes
  <2> QED  BY <1>1, <1>2, <1>5, <2>1, <2>2, <2>3, <2>4, Zenon DEF TimedInv, TimedTypes
<1> QED  BY <1>4, <1>5, Zenon DEF Timeout, Ready, Park, AfterEvent

(* take_until_token looks at its token, then polls its source.             *)
LEMMA TokenKeepsTimed == ASSUME TimedInv, TakeUntilToken PROVE TimedInv'
<1>1. TimedTypes /\ out \in Seq(Received)
  BY Zenon DEF TimedInv, TimedTypes
<1>2. UNCHANGED <<op, sent, queue, sleep, age>> /\ op = "token" /\ ~Ends(out)
  BY Zenon DEF TakeUntilToken, Polling, Over, Ends
<1>3. \/ chan' = chan /\ (out' = out \/ \E x \in {None, CancelledError} : out' = Append(out, x))
      \/ Ev # Pending /\ PullSource /\ out' = Append(out, Ev)
  BY Zenon DEF TakeUntilToken, Ready, Park
<1>4. None \in Received /\ CancelledError \in Received /\ Emitted \subseteq Received
  BY Zenon DEF Received
<1>5. chan' \in Seq(Emitted) /\ out' \in Seq(Received)
  <2>1. CASE chan' = chan /\ (out' = out \/ \E x \in {None, CancelledError} : out' = Append(out, x))
    BY <1>1, <1>4, <2>1, ItemIn, Zenon DEF TimedTypes
  <2>2. CASE Ev # Pending /\ PullSource /\ out' = Append(out, Ev)
    <3>1. chan' \in Seq(Emitted) /\ (Ev = None \/ Ev \in Emitted)
      BY <1>1, <2>2, Pulled, Zenon
    <3> QED  BY <1>1, <1>4, <2>2, <3>1, ItemIn, Zenon
  <2> QED  BY <1>3, <2>1, <2>2, Zenon
<1>6. TimedTypes'
  BY <1>1, <1>2, <1>5, Zenon DEF TimedTypes
<1> QED  BY <1>2, <1>6, Zenon DEF TimedInv

(* Every step keeps the invariant.                                         *)
LEMMA NextKeepsTimed == ASSUME DurationSet PROVE TimedInv /\ [Next]_vars => TimedInv'
<1> SUFFICES ASSUME TimedInv, [Next]_vars PROVE TimedInv'
  BY Zenon
<1>1. CASE \E ev \in {NextEv(Len(sent) + 1), Complete, ErrorEv(Business("b1"))} : Emit(ev)
  <2>1. Len(sent) + 1 \in Nat
    BY DEF TimedInv, TimedTypes
  <2>2. {NextEv(Len(sent) + 1), Complete, ErrorEv(Business("b1"))} \subseteq Emitted
    BY <2>1, Zenon DEF Emitted
  <2> QED  BY <1>1, <2>2, EmitKeepsTimed, Zenon
<1> QED
  BY <1>1, TickKeepsTimed, OtherKeepsTimed, ReleaseKeepsTimed, EndKeepsTimed, ReadKeepsTimed, WaitKeepsTimed,
     TimeoutKeepsTimed, TokenKeepsTimed, Zenon DEF Next, Poll

(* What the consumer of delay received is a prefix of what was emitted.    *)
LEMMA DelayIsShift == ASSUME TimedTypes, Parted(Got(out), sent, out, queue, chan, age), op = "delay" PROVE DelayShifts
<1> DEFINE n == Got(out)
           d == Delivered
<1>1. /\ n \in Nat /\ n =< Len(sent) /\ Len(sent) \in Nat /\ Len(out) \in Nat
      /\ \A i \in 1..n : out[i] = sent[i] /\ age[i] = Duration
  <2>1. Len(queue) \in Nat /\ Len(chan) \in Nat /\ Len(sent) \in Nat /\ Len(out) \in Nat
    BY DEF TimedTypes
  <2>2. n \in Nat /\ Len(sent) = n + Len(queue) + Len(chan)
    BY Zenon DEF Parted
  <2>3. \A i \in 1..n : out[i] = sent[i] /\ age[i] = Duration
    BY Zenon DEF Parted
  <2> HIDE DEF n
  <2> QED  BY <2>1, <2>2, <2>3
<1>2. Over <=> Ends(out)
  BY Zenon DEF Over, Ends
<1>3. n = (IF Over THEN Len(out) - 1 ELSE Len(out))
  BY <1>2, Zenon DEF Got
<1> HIDE DEF n
<1>4. d = SubSeq(out, 1, n) /\ Len(d) = n
  <2>1. CASE Over
    <3>1. d = SubSeq(out, 1, n)
      BY <1>3, <2>1, Zenon DEF Delivered
    <3>2. n =< Len(out)
      BY <1>1, <1>3, <2>1
    <3> HIDE DEF d
    <3> QED  BY <1>1, <3>1, <3>2 DEF TimedTypes
  <2>2. CASE ~Over
    <3>1. d = out /\ n = Len(out)
      BY <1>3, <2>2, Zenon DEF Delivered
    <3> HIDE DEF d
    <3> QED  BY <1>1, <3>1 DEF TimedTypes
  <2> QED  BY <2>1, <2>2, Zenon
<1>5. n =< Len(out)
  BY <1>1, <1>3
<1> HIDE DEF d
<1>6. ASSUME NEW i \in 1..n PROVE d[i] = out[i]
  BY <1>1, <1>4, <1>5 DEF TimedTypes
<1> QED  BY <1>1, <1>4, <1>6, Zenon DEF DelayShifts, d

(* Only the poll of an operator tells its consumer anything.               *)
LEMMA PollWrites ==
    ASSUME Next, out' # out
    PROVE  (op = "timeout" => Timeout) /\ (op = "token" => TakeUntilToken)
<1>1. ASSUME NEW ev, Emit(ev) PROVE FALSE
  BY <1>1, Zenon DEF Emit
<1>2. ~DropSource /\ ~Tick /\ ~TimerFires /\ ~Cancel
  BY Zenon DEF DropSource, Tick, TimerFires, Cancel
<1>3. DelayRelease \/ DelayEnd \/ DelayReadAhead \/ DelayWait => op = "delay"
  BY Zenon DEF DelayRelease, DelayEnd, DelayReadAhead, DelayWait, Polling
<1>4. (Timeout => op = "timeout") /\ (TakeUntilToken => op = "token")
  BY Zenon DEF Timeout, TakeUntilToken, Polling
<1>5. Poll
  BY <1>1, <1>2, Zenon DEF Next
<1> QED  BY <1>3, <1>4, <1>5, Zenon DEF Poll

(* An expired timer that finds the channel empty finds every event as old  *)
(* as the duration.                                                        *)
LEMMA TimeoutIsSilence ==
    ASSUME DurationSet, TimedInv, [Next]_vars
    PROVE  [TimeoutOnlyOnSilence /\ TimeoutAfterDuration]_vars
<1> SUFFICES ASSUME op = "timeout", out' = Append(out, TimeoutError), Next
             PROVE  chan = <<>> /\ ~closed /\ \A i \in 1..Len(sent) : age[i] = Duration
  BY Zenon DEF TimeoutOnlyOnSilence, TimeoutAfterDuration, vars
<1>1. TimedTypes /\ Clocked(sent, chan, age, sleep) /\ out \in Seq(Received)
  BY Zenon DEF TimedInv, TimedTypes
<1>0. TimeoutError \in Received /\ out' # out
  <2>1. TimeoutError \in Received
    BY Zenon DEF Received
  <2> QED  BY <1>1, <2>1, ItemNew, Zenon
<1>2. Timeout
  BY <1>0, PollWrites, Zenon
<1>3. ~Ends(out)
  BY <1>2, Zenon DEF Timeout, Polling, Over, Ends
<1>4. \A x \in Received : out' = Append(out, x) => x = TimeoutError
  BY <1>0, <1>1, ItemLast, Zenon
<1>5. None \in Received /\ Emitted \subseteq Received
  BY Zenon DEF Received
<1>6. out' # Append(out, None)
  BY <1>4, <1>5, EndsDiffer, Zenon
<1>7. ~(Ev \notin {Pending, None} /\ PullSource /\ out' = Append(out, Ev))
  BY <1>1, <1>4, <1>5, Pulled, NoEventOf, Zenon
<1>8. TimerExpired
  BY <1>0, <1>2, <1>6, <1>7, Zenon DEF Timeout, Ready, Park
<1>9. chan = <<>> /\ ~closed
  <2>1. ASSUME chan # <<>> PROVE Head(chan) \in Emitted
    BY <1>1, <2>1, HeadIs, Zenon DEF TimedTypes
  <2> QED  BY <1>8, <2>1, NoEventOf, EndsDiffer, Zenon DEF TimerExpired, Ev
<1>10. ASSUME NEW i \in 1..Len(sent) PROVE age[i] = Duration
  <2>1. Len(chan) = 0 /\ Len(sent) \in Nat
    BY <1>1, <1>9 DEF TimedTypes
  <2>2. i \in 1..(Len(sent) - Len(chan)) /\ i \in 1..Len(age)
    BY <1>1, <2>1 DEF TimedTypes
  <2>3. sleep # NoTimer /\ age[i] + sleep >= Duration
    BY <1>1, <2>2, Zenon DEF Clocked
  <2>4. sleep = 0
    BY <1>8, <2>3, Zenon DEF TimerExpired, TimerArmed
  <2>5. age[i] \in 0..Duration
    BY <1>1, <2>2, ElementIs, Zenon DEF TimedTypes
  <2> QED  BY <2>3, <2>4, <2>5 DEF DurationSet
<1> QED  BY <1>9, <1>10, Zenon

(* A poll looks at the token before it reads.                              *)
LEMMA TokenIsSeen == ASSUME [Next]_vars PROVE [TokenStopsReading]_vars
<1> SUFFICES ASSUME op = "token", cancelled, out' # out, Next
             PROVE  out' \in {Append(out, CancelledError), Append(out, None)}
  BY Zenon DEF TokenStopsReading, vars
<1>1. TakeUntilToken
  BY PollWrites, Zenon
<1> QED  BY <1>1, Zenon DEF TakeUntilToken, TokenSeen, Ready, Park

(* For any duration, any read-ahead and any number of events, however late *)
(* the polls: delay delivers a prefix of what the source emitted and each  *)
(* event at least the duration after it was emitted; timeout reports a     *)
(* silence of at least the duration, never while an answer is in the       *)
(* channel; and after the cancellation of its token take_until_token reads *)
(* no further event (transform/utility.rs, transform/conditional.rs).      *)
THEOREM OperatorsKeepTime ==
    ASSUME DurationSet
    PROVE  Spec => /\ []DelayShifts
                         /\ [][TimeoutOnlyOnSilence /\ TimeoutAfterDuration]_vars
                         /\ [][TokenStopsReading]_vars
<1>1. Init => TimedInv
  BY InitTimed, Zenon
<1>2. TimedInv /\ [Next]_vars => TimedInv'
  BY NextKeepsTimed, Zenon
<1>3. TimedInv => DelayShifts
  <2>1. op # "delay" => DelayShifts
    BY Zenon DEF DelayShifts
  <2> QED  BY <2>1, DelayIsShift, Zenon DEF TimedInv
<1>4. TimedInv /\ [Next]_vars => [TimeoutOnlyOnSilence /\ TimeoutAfterDuration]_vars
  BY TimeoutIsSilence, Zenon
<1>5. TimedInv /\ [Next]_vars => [TokenStopsReading]_vars
  BY TokenIsSeen, Zenon
<1> QED  BY <1>1, <1>2, <1>3, <1>4, <1>5, PTL DEF Spec

===============================================================================
