----------------------------- MODULE RateLimiter -----------------------------
(***************************************************************************)
(* `rps: {max, over}`: RateLimiter::try_acquire (src/serve/runtime.rs), a  *)
(* sliding window of request timestamps.  A request reads the clock before *)
(* it takes the mutex, so another one, with a later timestamp, may come in *)
(* between.  `admitted` is a history: the code forgets old timestamps, and *)
(* what it still holds is named by its place in that history.              *)
(***************************************************************************)
EXTENDS Integers, Sequences, FiniteSets

CONSTANTS
  Threads,  \* threads that call try_acquire
  MaxRps,   \* rps.max
  Window,   \* one second, in ticks of the clock
  MaxClock, \* bound on the clock
  MaxCalls   \* bound on the history: no call starts once this many succeeded

ASSUME RateAssumption ==
  /\ IsFiniteSet(Threads) /\ Threads # {}
  /\ MaxRps \in Nat
  /\ Window \in Nat \ {0}
  /\ MaxClock \in Nat
  /\ MaxCalls \in Nat

VARIABLES
  clock,       \* Instant::now()
  timestamps,  \* RateLimiter.timestamps, as places in admitted
  now,         \* what each thread read, or NotCalled
  admitted     \* the timestamps of all admitted requests

vars == <<clock, timestamps, now, admitted>>

NotCalled == -1

TypeOK ==
  /\ clock \in 0 .. MaxClock
  /\ now \in [Threads -> {NotCalled} \cup 0 .. clock]
  /\ admitted \in Seq(0 .. clock)
  /\ timestamps \subseteq DOMAIN admitted /\ Cardinality(timestamps) <= MaxRps

Init ==
  /\ clock = 0
  /\ timestamps = {}
  /\ now = [t \in Threads |-> NotCalled]
  /\ admitted = <<>>

Tick ==
  /\ clock < MaxClock
  /\ clock' = clock + 1
  /\ UNCHANGED <<timestamps, now, admitted>>

\* try_acquire, before the lock.
ReadNow(t) ==
  /\ now[t] = NotCalled
  /\ Len(admitted) < MaxCalls
  /\ now' = [now EXCEPT ![t] = clock]
  /\ UNCHANGED <<clock, timestamps, admitted>>

MutantRetained(t) == {i \in timestamps : admitted[i] > now[t]}

\* The timestamps of the last second before the one the thread read.
Retained(t) == {i \in timestamps : admitted[i] > now[t] - Window}

\* timestamps.push(now).
Admit(t) ==
  /\ timestamps' = Retained(t) \cup {Len(admitted) + 1}
  /\ admitted' = Append(admitted, now[t])

MutantAcquire(t) ==
  /\ now[t] # NotCalled
  /\ IF Cardinality(timestamps) <= MaxRps
     THEN Admit(t)
     ELSE timestamps' = Retained(t) /\ UNCHANGED admitted
  /\ now' = [now EXCEPT ![t] = NotCalled]
  /\ UNCHANGED clock

\* try_acquire, under the lock: true if admitted.
Acquire(t) ==
  /\ now[t] # NotCalled
  /\ IF Cardinality(Retained(t)) < MaxRps
     THEN Admit(t)
     ELSE timestamps' = Retained(t) /\ UNCHANGED admitted
  /\ now' = [now EXCEPT ![t] = NotCalled]
  /\ UNCHANGED clock

Next == Tick \/ \E t \in Threads : ReadNow(t) \/ Acquire(t)

Spec == Init /\ [][Next]_vars

-----------------------------------------------------------------------------
\* The admitted requests whose timestamps fall in the second after tick u.
InSecondAfter(u) == {i \in DOMAIN admitted : admitted[i] \in u + 1 .. u + Window}

WithinLimit(limit) ==
  \A u \in -Window .. clock : Cardinality(InSecondAfter(u)) <= limit

\* "Simple rate limiter: sliding window of request timestamps": no second
\* contains more than rps.max admitted requests, by the timestamps the
\* limiter itself gave them.
SlidingWindow == WithinLimit(MaxRps)

\* It holds as long as requests are admitted in the order of their
\* timestamps, whatever calls were refused in between (a refused one forgets
\* old timestamps too).
InOrder == \A i, j \in DOMAIN admitted : i < j => admitted[i] <= admitted[j]
SlidingWindowInOrder == InOrder => SlidingWindow

\* Overlapping calls exceed the limit by less than their number, for each
\* thread can bring at most one timestamp that is out of date.
OvershootBounded == WithinLimit(MaxRps + Cardinality(Threads) - 1)

=============================================================================
