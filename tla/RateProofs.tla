----------------------------- MODULE RateProofs -----------------------------
(***************************************************************************)
(* Proofs about the rate limit: what the sliding window keeps to when the  *)
(* calls come in the order of their timestamps, and by how much it is      *)
(* exceeded when they do not.                                              *)
(***************************************************************************)
EXTENDS RateLimiter, FiniteSetTheorems, TLAPS

\* The two ends of try_acquire.
Admitted(t) ==
  /\ Cardinality(Retained(t)) < MaxRps
  /\ Admit(t)

Refused(t) ==
  /\ Cardinality(Retained(t)) >= MaxRps
  /\ timestamps' = Retained(t)
  /\ UNCHANGED admitted

-----------------------------------------------------------------------------
(***************************************************************************)
(* Sets of places in the history, and types.                               *)
(***************************************************************************)
\* What appending does to the places and elements of a sequence.
LEMMA AppendFacts ==
  ASSUME NEW S, NEW s \in Seq(S), NEW e \in S
  PROVE  /\ Append(s, e) \in Seq(S)
         /\ Len(s) + 1 \notin DOMAIN s
         /\ DOMAIN Append(s, e) = DOMAIN s \cup {Len(s) + 1}
         /\ Append(s, e)[Len(s) + 1] = e
         /\ \A i \in DOMAIN s : Append(s, e)[i] = s[i]
  OBVIOUS

\* A set of places is finite, and no larger than one that holds it.
LEMMA Places ==
  ASSUME NEW S, NEW s \in Seq(S), NEW A \in SUBSET DOMAIN s
  PROVE  /\ IsFiniteSet(A)
         /\ Cardinality(A) \in Nat
         /\ \A B \in SUBSET A : Cardinality(B) <= Cardinality(A)
<1>1. IsFiniteSet(DOMAIN s)
  BY FS_Interval
<1>2. IsFiniteSet(A)
  BY <1>1, FS_Subset
<1> QED
  BY <1>2, FS_Subset, FS_CardinalityType

\* A finite set with one element more,
LEMMA OneMore ==
  ASSUME NEW S, IsFiniteSet(S), NEW x, x \notin S
  PROVE  /\ Cardinality(S) \in Nat
         /\ Cardinality(S \cup {x}) = Cardinality(S) + 1
  BY FS_AddElement, FS_CardinalityType

\* and with one less.
LEMMA OneLess ==
  ASSUME NEW S, IsFiniteSet(S), NEW x \in S
  PROVE  /\ Cardinality(S) \in Nat
         /\ Cardinality(S \ {x}) \in Nat
         /\ Cardinality(S \ {x}) = Cardinality(S) - 1
  BY FS_RemoveElement, FS_CardinalityType

\* A call is admitted or refused, and forgets what it read of the clock.
LEMMA AcquireCases ==
  ASSUME TypeOK, NEW t \in Threads, Acquire(t)
  PROVE  /\ now[t] \in 0 .. clock
         /\ clock' = clock
         /\ now' = [now EXCEPT ![t] = NotCalled]
         /\ Admitted(t) \/ Refused(t)
<1>1. Retained(t) \in SUBSET DOMAIN admitted
  BY DEF TypeOK, Retained
<1>2. Cardinality(Retained(t)) \in Nat
  BY <1>1, Places DEF TypeOK
<1> QED
  BY <1>2, RateAssumption DEF TypeOK, Acquire, Admitted, Refused

\* try_acquire never keeps more timestamps than rps.max.
LEMMA TypeStep == TypeOK /\ [Next]_vars => TypeOK'
<1> SUFFICES ASSUME TypeOK, [Next]_vars PROVE TypeOK'
  OBVIOUS
<1> USE RateAssumption
<1>1. CASE Tick
  <2>1. clock' \in 0 .. MaxClock /\ 0 .. clock \subseteq 0 .. clock'
    BY <1>1 DEF TypeOK, Tick
  <2>2. admitted \in Seq(0 .. clock')
    BY <2>1 DEF TypeOK
  <2> QED
    BY <1>1, <2>1, <2>2 DEF TypeOK, Tick
<1>2. ASSUME NEW t \in Threads, ReadNow(t) PROVE TypeOK'
  BY <1>2 DEF TypeOK, ReadNow
<1>3. ASSUME NEW t \in Threads, Acquire(t) PROVE TypeOK'
  <2>1. /\ now[t] \in 0 .. clock
        /\ clock' = clock
        /\ now' = [now EXCEPT ![t] = NotCalled]
        /\ Admitted(t) \/ Refused(t)
    BY <1>3, AcquireCases
  <2>2. /\ Retained(t) \subseteq DOMAIN admitted
        /\ IsFiniteSet(Retained(t))
        /\ Cardinality(Retained(t)) <= Cardinality(timestamps)
        /\ Cardinality(Retained(t)) \in Nat
        /\ Cardinality(timestamps) \in Nat
    BY Places DEF TypeOK, Retained
  <2>3. CASE Admitted(t)
    <3>0. /\ Cardinality(Retained(t)) < MaxRps
          /\ timestamps' = Retained(t) \cup {Len(admitted) + 1}
          /\ Len(admitted) + 1 \notin Retained(t)
      BY <2>2, <2>3, AppendFacts DEF TypeOK, Admitted, Admit
    <3>1. Cardinality(timestamps') <= MaxRps
      BY <2>2, <3>0, OneMore
    <3>2. admitted' \in Seq(0 .. clock') /\ timestamps' \subseteq DOMAIN admitted'
      BY <2>1, <2>2, <2>3, AppendFacts DEF TypeOK, Admitted, Admit
    <3> QED
      BY <2>1, <3>1, <3>2 DEF TypeOK
  <2>4. CASE Refused(t)
    BY <2>1, <2>2, <2>4 DEF TypeOK, Refused
  <2> QED
    BY <2>1, <2>3, <2>4
<1>4. CASE UNCHANGED vars
  BY <1>4 DEF TypeOK, vars
<1> QED
  BY <1>1, <1>2, <1>3, <1>4 DEF Next

\* The limiter starts with none.
LEMMA TypeInit == Init => TypeOK
  BY RateAssumption, FS_EmptySet DEF Init, TypeOK

\* The state of the limiter keeps its type, and it never holds more
\* timestamps than rps.max, for any number of threads and calls.
THEOREM TypeCorrect == Spec => []TypeOK
  BY TypeInit, TypeStep, PTL DEF Spec

-----------------------------------------------------------------------------
(***************************************************************************)
(* What a call that is admitted does to the windows.                       *)
(***************************************************************************)
\* An admitted request has the last place, and no place changes.
LEMMA AdmitEffect ==
  ASSUME TypeOK, NEW t \in Threads, Acquire(t), Admitted(t)
  PROVE  LET n == Len(admitted) + 1
         IN  /\ n \notin DOMAIN admitted
             /\ DOMAIN admitted' = DOMAIN admitted \cup {n}
             /\ admitted'[n] = now[t]
             /\ \A i \in DOMAIN admitted : admitted'[i] = admitted[i]
             /\ timestamps' = Retained(t) \cup {n}
  BY AcquireCases, AppendFacts DEF TypeOK, Admitted, Admit

\* A second has one admitted request more if the call's timestamp is in it.
LEMMA WindowGrows ==
  ASSUME TypeOK, NEW t \in Threads, Acquire(t), Admitted(t), NEW u \in Int
  PROVE  InSecondAfter(u)' =
           IF now[t] \in u + 1 .. u + Window
           THEN InSecondAfter(u) \cup {Len(admitted) + 1}
           ELSE InSecondAfter(u)
  BY AdmitEffect DEF InSecondAfter

\* The requests of a second are finitely many,
LEMMA WindowSize ==
  ASSUME TypeOK, NEW u \in Int
  PROVE  /\ InSecondAfter(u) \subseteq DOMAIN admitted
         /\ IsFiniteSet(InSecondAfter(u))
         /\ Cardinality(InSecondAfter(u)) \in Nat
<1>1. InSecondAfter(u) \subseteq DOMAIN admitted
  BY DEF InSecondAfter
<1> QED
  BY <1>1, Places DEF TypeOK

\* While the limiter remembers a whole second, it admits no more than rps.max
\* requests to it.
LEMMA RememberedWindow ==
  ASSUME TypeOK, NEW t \in Threads, Acquire(t), Admitted(t), NEW u \in Int,
         now[t] \in u + 1 .. u + Window, InSecondAfter(u) \subseteq timestamps
  PROVE  /\ InSecondAfter(u)' \subseteq timestamps'
         /\ Cardinality(InSecondAfter(u)') <= MaxRps
<1>1. Retained(t) \in SUBSET DOMAIN admitted
  BY DEF TypeOK, Retained
<1>2. InSecondAfter(u) \subseteq Retained(t)
  BY RateAssumption DEF TypeOK, InSecondAfter, Retained
<1>3. /\ Cardinality(Retained(t)) \in Nat
      /\ Cardinality(InSecondAfter(u)) <= Cardinality(Retained(t))
  BY <1>1, <1>2, Places DEF TypeOK
<1>4. /\ InSecondAfter(u)' = InSecondAfter(u) \cup {Len(admitted) + 1}
      /\ Len(admitted) + 1 \notin InSecondAfter(u)
      /\ timestamps' = Retained(t) \cup {Len(admitted) + 1}
  BY WindowGrows, WindowSize, AdmitEffect
<1>5. Cardinality(InSecondAfter(u)') = Cardinality(InSecondAfter(u)) + 1
  BY <1>4, WindowSize, OneMore
<1>6. InSecondAfter(u)' \subseteq timestamps'
  BY <1>2, <1>4
<1>7. Cardinality(InSecondAfter(u)') <= MaxRps
  BY <1>3, <1>5, WindowSize, RateAssumption DEF Admitted
<1> QED
  BY <1>6, <1>7

-----------------------------------------------------------------------------
(***************************************************************************)
(* Calls in the order of their timestamps.                                 *)
(***************************************************************************)
Newer(i) == {j \in DOMAIN admitted : admitted[j] > admitted[i]}

\* What has been forgotten is a second older than some admitted request, or
\* was forgotten by a call that found rps.max later ones and was refused.
Forgotten ==
  \A i \in DOMAIN admitted \ timestamps :
    \/ \E j \in DOMAIN admitted : admitted[j] >= admitted[i] + Window
    \/ Cardinality(Newer(i)) >= MaxRps

WindowInOrder == \A u \in Int : InOrder => Cardinality(InSecondAfter(u)) <= MaxRps

OrderInv == TypeOK /\ Forgotten /\ WindowInOrder

\* and so are those behind one.
LEMMA NewerSize ==
  ASSUME TypeOK, NEW i \in DOMAIN admitted
  PROVE  /\ Newer(i) \in SUBSET DOMAIN admitted
         /\ IsFiniteSet(Newer(i))
         /\ Cardinality(Newer(i)) \in Nat
<1>1. Newer(i) \in SUBSET DOMAIN admitted
  BY DEF Newer
<1> QED
  BY <1>1, Places DEF TypeOK

\* Calls in the order of their timestamps forget nothing else.
LEMMA ForgottenStep ==
  ASSUME TypeOK, TypeOK', Forgotten, NEW t \in Threads, Acquire(t)
  PROVE  Forgotten'
<1>1. now[t] \in Nat /\ Window \in Nat
  BY AcquireCases, RateAssumption DEF TypeOK
<1>2. CASE Refused(t)
  <2> SUFFICES ASSUME NEW i \in DOMAIN admitted, i \notin Retained(t)
               PROVE  \/ \E j \in DOMAIN admitted : admitted[j] >= admitted[i] + Window
                      \/ Cardinality(Newer(i)) >= MaxRps
    BY <1>2 DEF Refused, Forgotten, Newer
  <2>1. CASE i \notin timestamps
    BY <2>1 DEF Forgotten
  <2>2. CASE i \in timestamps
    <3>1. Retained(t) \subseteq Newer(i)
      BY <1>1, <2>2 DEF TypeOK, Retained, Newer
    <3>2. /\ Cardinality(Newer(i)) \in Nat /\ Cardinality(Retained(t)) \in Nat
          /\ Cardinality(Retained(t)) <= Cardinality(Newer(i))
      BY <3>1, NewerSize, FS_Subset, FS_CardinalityType
    <3> QED
      BY <1>2, <3>2, RateAssumption DEF Refused
  <2> QED
    BY <2>1, <2>2
<1>3. CASE Admitted(t)
  <2> DEFINE n == Len(admitted) + 1
  <2>1. /\ n \notin DOMAIN admitted
        /\ DOMAIN admitted' = DOMAIN admitted \cup {n}
        /\ admitted'[n] = now[t]
        /\ \A i \in DOMAIN admitted : admitted'[i] = admitted[i]
        /\ timestamps' = Retained(t) \cup {n}
    BY <1>3, AdmitEffect
  <2> HIDE DEF n
  <2> SUFFICES ASSUME NEW i \in DOMAIN admitted' \ timestamps'
               PROVE  \/ \E j \in DOMAIN admitted' : admitted'[j] >= admitted'[i] + Window
                      \/ Cardinality(Newer(i)') >= MaxRps
    BY DEF Forgotten
  <2>2. i \in DOMAIN admitted /\ i \notin Retained(t) /\ admitted'[i] = admitted[i]
    BY <2>1
  <2>3. CASE i \in timestamps
    <3>1. now[t] >= admitted[i] + Window
      BY <1>1, <2>2, <2>3 DEF TypeOK, Retained
    <3> QED
      BY <2>1, <2>2, <3>1
  <2>4. CASE \E j \in DOMAIN admitted : admitted[j] >= admitted[i] + Window
    BY <2>1, <2>2, <2>4
  <2>5. CASE Cardinality(Newer(i)) >= MaxRps
    <3>1. Newer(i) \subseteq Newer(i)' /\ Newer(i)' \in SUBSET DOMAIN admitted'
      BY <2>1, <2>2 DEF Newer
    <3>2. /\ IsFiniteSet(Newer(i)') /\ Cardinality(Newer(i)') \in Nat
      BY <3>1, Places DEF TypeOK
    <3>3. Cardinality(Newer(i)) <= Cardinality(Newer(i)')
      BY <3>1, <3>2, FS_Subset
    <3> QED
      BY <2>2, <2>5, <3>2, <3>3, NewerSize, RateAssumption
  <2> QED
    BY <2>2, <2>3, <2>4, <2>5 DEF Forgotten
<1> QED
  BY <1>2, <1>3, AcquireCases

\* In order, a second that was partly forgotten takes no further request:
\* what made it forgotten is in it or behind it.
LEMMA WindowStep ==
  ASSUME OrderInv, NEW t \in Threads, Acquire(t), Admitted(t), InOrder', NEW u \in Int
  PROVE  Cardinality(InSecondAfter(u)') <= MaxRps
<1> DEFINE n == Len(admitted) + 1
<1>0. TypeOK /\ now[t] \in Nat
  BY AcquireCases DEF OrderInv, TypeOK
<1>1. /\ DOMAIN admitted' = DOMAIN admitted \cup {n}
      /\ admitted'[n] = now[t]
      /\ \A i \in DOMAIN admitted : admitted'[i] = admitted[i]
  BY <1>0, AdmitEffect
<1>2. \A i \in DOMAIN admitted : i \in Nat /\ i < n /\ admitted[i] \in Nat
  BY <1>0 DEF TypeOK
<1>3. \A i \in DOMAIN admitted : admitted[i] <= now[t]
  <2>1. n \in Nat
    BY <1>0 DEF TypeOK
  <2> HIDE DEF n
  <2> QED
    BY <1>1, <1>2, <2>1 DEF InOrder
<1>4. InOrder
  <2> HIDE DEF n
  <2> QED
    BY <1>1 DEF InOrder
<1> HIDE DEF n
<1>5. Cardinality(InSecondAfter(u)) <= MaxRps /\ Cardinality(InSecondAfter(u)) \in Nat
  BY <1>0, <1>4, WindowSize DEF OrderInv, WindowInOrder
<1>6. CASE now[t] \notin u + 1 .. u + Window
  BY <1>0, <1>5, <1>6, WindowGrows
<1>7. CASE now[t] \in u + 1 .. u + Window /\ InSecondAfter(u) \subseteq timestamps
  BY <1>0, <1>7, RememberedWindow
<1>8. CASE now[t] \in u + 1 .. u + Window /\ ~(InSecondAfter(u) \subseteq timestamps)
  <2>1. PICK i \in InSecondAfter(u) : i \notin timestamps
    BY <1>8
  <2>2. i \in DOMAIN admitted /\ admitted[i] \in u + 1 .. u + Window
    BY <2>1 DEF InSecondAfter
  <2>3. CASE \E j \in DOMAIN admitted : admitted[j] >= admitted[i] + Window
    <3>1. PICK j \in DOMAIN admitted : admitted[j] >= admitted[i] + Window
      BY <2>3
    <3> QED
      BY <1>0, <1>2, <1>3, <1>8, <2>2, <3>1, RateAssumption
  <2>4. CASE Cardinality(Newer(i)) >= MaxRps
    <3>1. Newer(i) \cup {i} \subseteq InSecondAfter(u) /\ i \notin Newer(i)
      BY <1>0, <1>2, <1>3, <1>8, <2>2, RateAssumption DEF Newer, InSecondAfter
    <3>2. /\ IsFiniteSet(Newer(i)) /\ IsFiniteSet(InSecondAfter(u))
          /\ Cardinality(Newer(i)) \in Nat
      BY <1>0, <2>2, NewerSize, WindowSize
    <3>3. Cardinality(Newer(i) \cup {i}) <= Cardinality(InSecondAfter(u))
      BY <3>1, <3>2, FS_Subset
    <3>4. Cardinality(Newer(i) \cup {i}) = Cardinality(Newer(i)) + 1
      BY <3>1, <3>2, OneMore
    <3> QED
      BY <1>5, <2>4, <3>2, <3>3, <3>4, RateAssumption
  <2> QED
    BY <2>1, <2>2, <2>3, <2>4 DEF OrderInv, Forgotten
<1> QED
  BY <1>6, <1>7, <1>8

\* Calls in the order of their timestamps keep to the limit.
LEMMA OrderStep == OrderInv /\ [Next]_vars => OrderInv'
<1> SUFFICES ASSUME OrderInv, [Next]_vars PROVE OrderInv'
  OBVIOUS
<1>1. TypeOK /\ TypeOK'
  BY TypeStep DEF OrderInv
<1>2. CASE UNCHANGED <<admitted, timestamps>>
  BY <1>1, <1>2 DEF OrderInv, Forgotten, Newer, WindowInOrder, InOrder, InSecondAfter
<1>3. ASSUME NEW t \in Threads, Acquire(t) PROVE OrderInv'
  <2>1. Forgotten'
    BY <1>1, <1>3, ForgottenStep DEF OrderInv
  <2>2. CASE Refused(t)
    BY <1>1, <2>1, <2>2 DEF OrderInv, Refused, WindowInOrder, InOrder, InSecondAfter
  <2>3. CASE Admitted(t)
    BY <1>1, <1>3, <2>1, <2>3, WindowStep DEF OrderInv, WindowInOrder
  <2> QED
    BY <1>1, <1>3, <2>2, <2>3, AcquireCases
<1> QED
  BY <1>2, <1>3 DEF Next, Tick, ReadNow, vars

\* No second has more than rps.max admitted requests, by the limiter's own
\* timestamps, as long as they were admitted in the order of those.
THEOREM WindowHoldsInOrder == Spec => []SlidingWindowInOrder
<1>1. Init => OrderInv
  <2> SUFFICES ASSUME Init PROVE OrderInv
    OBVIOUS
  <2>1. TypeOK
    BY TypeInit
  <2>2. \A u \in Int : InSecondAfter(u) = {}
    BY DEF Init, InSecondAfter
  <2>3. Forgotten
    BY DEF Init, Forgotten
  <2>4. WindowInOrder
    BY <2>2, FS_EmptySet, RateAssumption DEF WindowInOrder
  <2> QED
    BY <2>1, <2>3, <2>4 DEF OrderInv
<1>2. OrderInv => SlidingWindowInOrder
  BY RateAssumption
  DEF OrderInv, TypeOK, WindowInOrder, SlidingWindowInOrder, SlidingWindow, WithinLimit
<1> QED
  BY <1>1, <1>2, OrderStep, PTL DEF Spec

-----------------------------------------------------------------------------
(***************************************************************************)
(* Calls in any order.                                                     *)
(***************************************************************************)
\* The calls that have read a timestamp of the second and wait for the mutex.
Pending(u) == {t \in Threads : now[t] # NotCalled /\ now[t] \in u + 1 .. u + Window}

\* A second is remembered as a whole, and then it is within the limit, or it
\* is over, and only calls that have read the clock already can add to it;
\* one thread cannot, the one whose later call first forgot a part of it.
Remembered(u) ==
  InSecondAfter(u) \subseteq timestamps /\ Cardinality(InSecondAfter(u)) <= MaxRps

Over(u) ==
  /\ clock > u + Window
  /\ Cardinality(InSecondAfter(u)) + Cardinality(Pending(u))
       <= MaxRps + Cardinality(Threads) - 1

OverlapInv == TypeOK /\ \A u \in Int : Remembered(u) \/ Over(u)

\* No more calls are pending than there are threads.
LEMMA PendingSize ==
  ASSUME NEW u \in Int
  PROVE  /\ Pending(u) \subseteq Threads
         /\ IsFiniteSet(Pending(u))
         /\ Cardinality(Pending(u)) \in Nat
         /\ Cardinality(Threads) \in Nat
<1>1. Pending(u) \subseteq Threads
  BY DEF Pending
<1> QED
  BY <1>1, FS_Subset, FS_CardinalityType, RateAssumption

\* A call that ends is no longer pending.
LEMMA PendingShrinks ==
  ASSUME TypeOK, NEW t \in Threads, Acquire(t), NEW u \in Int
  PROVE  Pending(u)' = Pending(u) \ {t}
  BY AcquireCases DEF TypeOK, NotCalled, Pending

\* Once the second is over, each further request to it was pending.
LEMMA OverStep ==
  ASSUME TypeOK, NEW t \in Threads, Acquire(t), NEW u \in Int, Over(u)
  PROVE  Over(u)'
<1>1. /\ clock' = clock
      /\ now[t] \in 0 .. clock
      /\ Pending(u)' = Pending(u) \ {t}
      /\ Admitted(t) \/ Refused(t)
  BY AcquireCases, PendingShrinks
<1>2. /\ Cardinality(Pending(u)) \in Nat
      /\ Cardinality(Pending(u)') \in Nat
      /\ Cardinality(Pending(u)') <= Cardinality(Pending(u))
      /\ Cardinality(Threads) \in Nat
  BY <1>1, PendingSize, FS_Subset, FS_CardinalityType
<1>3. /\ InSecondAfter(u) \subseteq DOMAIN admitted
      /\ IsFiniteSet(InSecondAfter(u))
      /\ Cardinality(InSecondAfter(u)) \in Nat
  BY WindowSize
<1>4. CASE InSecondAfter(u)' = InSecondAfter(u)
  <2>1. Cardinality(InSecondAfter(u)') = Cardinality(InSecondAfter(u))
    BY <1>4
  <2> QED
    BY <1>1, <1>2, <1>3, <2>1, RateAssumption DEF Over, TypeOK
<1>5. CASE Admitted(t) /\ now[t] \in u + 1 .. u + Window
  <2>0. /\ InSecondAfter(u)' = InSecondAfter(u) \cup {Len(admitted) + 1}
        /\ Len(admitted) + 1 \notin InSecondAfter(u)
    BY <1>3, <1>5, AdmitEffect, WindowGrows
  <2>1. Cardinality(InSecondAfter(u)') = Cardinality(InSecondAfter(u)) + 1
    BY <1>3, <2>0, OneMore
  <2>2. t \in Pending(u)
    BY <1>1, <1>5 DEF Pending, NotCalled, TypeOK
  <2>3. Cardinality(Pending(u)') = Cardinality(Pending(u)) - 1
    BY <1>1, <2>2, PendingSize, OneLess
  <2> QED
    BY <1>1, <1>2, <1>3, <2>1, <2>3, RateAssumption DEF Over, TypeOK
<1>6. CASE Refused(t)
  BY <1>4, <1>6 DEF Refused, InSecondAfter
<1> QED
  BY <1>1, <1>4, <1>5, <1>6, WindowGrows

\* A remembered second stays so, until a call behind it has the mutex.
LEMMA RememberedStep ==
  ASSUME TypeOK, NEW t \in Threads, Acquire(t), NEW u \in Int, Remembered(u)
  PROVE  Remembered(u)' \/ Over(u)'
<1>1. /\ clock' = clock
      /\ now[t] \in 0 .. clock
      /\ Pending(u)' = Pending(u) \ {t}
      /\ Admitted(t) \/ Refused(t)
  BY AcquireCases, PendingShrinks
<1>2. CASE now[t] > u + Window
  <2>1. InSecondAfter(u)' = InSecondAfter(u)
    BY <1>1, <1>2, WindowGrows, RateAssumption DEF Refused, InSecondAfter, TypeOK
  <2>2. Pending(u)' \subseteq Threads \ {t}
    BY <1>1, PendingSize
  <2>3. /\ IsFiniteSet(Threads \ {t})
        /\ Cardinality(Threads \ {t}) \in Nat
        /\ Cardinality(Threads \ {t}) = Cardinality(Threads) - 1
    BY OneLess, FS_RemoveElement, RateAssumption
  <2>4. /\ Cardinality(Pending(u)') \in Nat
        /\ Cardinality(Pending(u)') <= Cardinality(Threads) - 1
    BY <2>2, <2>3, FS_Subset, FS_CardinalityType
  <2>5. Cardinality(InSecondAfter(u)') \in Nat /\ Cardinality(InSecondAfter(u)') <= MaxRps
    BY <2>1, WindowSize DEF Remembered
  <2>6. clock' > u + Window
    BY <1>1, <1>2, RateAssumption DEF TypeOK
  <2> QED
    BY <2>4, <2>5, <2>6, PendingSize, RateAssumption DEF Over
<1>3. CASE now[t] \in u + 1 .. u + Window /\ Admitted(t)
  BY <1>3, RememberedWindow DEF Remembered
<1>4. CASE now[t] <= u + Window /\ InSecondAfter(u)' = InSecondAfter(u)
  <2>1. InSecondAfter(u) \subseteq Retained(t)
    BY <1>1, <1>4, RateAssumption DEF TypeOK, Remembered, InSecondAfter, Retained
  <2>2. Retained(t) \subseteq timestamps'
    BY <1>1, AdmitEffect DEF Refused
  <2>3. Cardinality(InSecondAfter(u)') = Cardinality(InSecondAfter(u))
    BY <1>4
  <2> QED
    BY <1>4, <2>1, <2>2, <2>3 DEF Remembered
<1>5. CASE Refused(t)
  BY <1>1, <1>2, <1>4, <1>5, RateAssumption DEF Refused, InSecondAfter, TypeOK
<1> QED
  BY <1>1, <1>2, <1>3, <1>4, <1>5, WindowGrows, RateAssumption DEF TypeOK

\* Every second is remembered, or over, after every step.
LEMMA OverlapStep == OverlapInv /\ [Next]_vars => OverlapInv'
<1> SUFFICES ASSUME OverlapInv, [Next]_vars PROVE OverlapInv'
  OBVIOUS
<1>1. TypeOK /\ TypeOK'
  BY TypeStep DEF OverlapInv
<1> SUFFICES ASSUME NEW u \in Int PROVE Remembered(u)' \/ Over(u)'
  BY <1>1 DEF OverlapInv
<1>2. Remembered(u) \/ Over(u)
  BY DEF OverlapInv
<1>3. ASSUME NEW t \in Threads, Acquire(t) PROVE Remembered(u)' \/ Over(u)'
  BY <1>1, <1>2, <1>3, OverStep, RememberedStep
<1>4. CASE Remembered(u) /\ UNCHANGED <<admitted, timestamps>>
  BY <1>4 DEF Remembered, InSecondAfter
<1>5. CASE Tick /\ Over(u)
  <2>1. UNCHANGED <<admitted, now>> /\ clock' > clock
    BY <1>1, <1>5 DEF Tick, TypeOK
  <2>2. clock' > u + Window
    BY <1>1, <1>5, <2>1, RateAssumption DEF Over, TypeOK
  <2> QED
    BY <1>5, <2>1, <2>2 DEF Over, InSecondAfter, Pending
<1>6. ASSUME NEW t \in Threads, ReadNow(t), Over(u) PROVE Over(u)'
  <2>1. Pending(u)' = Pending(u)
    BY <1>1, <1>6, RateAssumption DEF TypeOK, Over, ReadNow, Pending, NotCalled
  <2>2. Cardinality(Pending(u)') = Cardinality(Pending(u))
    BY <2>1
  <2> QED
    BY <1>6, <2>2 DEF ReadNow, Over, InSecondAfter
<1>7. CASE UNCHANGED vars
  BY <1>2, <1>7 DEF vars, Remembered, Over, InSecondAfter, Pending
<1> QED
  BY <1>2, <1>3, <1>4, <1>5, <1>6, <1>7 DEF Next, Tick, ReadNow

\* However the calls overlap, no second has more than rps.max admitted
\* requests and one for each other thread.
THEOREM OvershootIsBounded == Spec => []OvershootBounded
<1>1. Init => OverlapInv
  <2> SUFFICES ASSUME Init PROVE OverlapInv
    OBVIOUS
  <2>1. TypeOK
    BY TypeInit
  <2>2. \A u \in Int : InSecondAfter(u) = {}
    BY DEF Init, InSecondAfter
  <2> QED
    BY <2>1, <2>2, FS_EmptySet, RateAssumption DEF OverlapInv, Remembered
<1>2. OverlapInv => OvershootBounded
  <2> SUFFICES ASSUME OverlapInv, NEW u \in -Window .. clock
               PROVE  Cardinality(InSecondAfter(u)) <= MaxRps + Cardinality(Threads) - 1
    BY DEF OvershootBounded, WithinLimit
  <2>1. u \in Int /\ TypeOK
    BY RateAssumption DEF OverlapInv, TypeOK
  <2>2. Cardinality(Threads) \in Nat /\ Cardinality(Threads) # 0
    BY FS_EmptySet, FS_CardinalityType, RateAssumption
  <2>3. Cardinality(InSecondAfter(u)) \in Nat /\ Cardinality(Pending(u)) \in Nat
    BY <2>1, WindowSize, PendingSize
  <2>4. CASE Remembered(u)
    BY <2>2, <2>3, <2>4, RateAssumption DEF Remembered
  <2>5. CASE Over(u)
    BY <2>2, <2>3, <2>5, RateAssumption DEF Over
  <2> QED
    BY <2>1, <2>4, <2>5 DEF OverlapInv
<1> QED
  BY <1>1, <1>2, OverlapStep, PTL DEF Spec
=============================================================================
