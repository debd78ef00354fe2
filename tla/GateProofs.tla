----------------------------- MODULE GateProofs -----------------------------
(***************************************************************************)
(* Theorems about Gate for any set of clients and any conn.max: permits    *)
(* are conserved, the queue is exact, and the gate implements ConnLimit.   *)
(***************************************************************************)
EXTENDS Gate, FiniteSetTheorems, SequenceTheorems, TLAPS

LOCAL INSTANCE SequencesExt

\* A future that was given a permit has not been polled since.
AssignedWait == \A c \in assigned : st[c] \in {"waiting", "timedOut"}

Queued(c) == \E i \in DOMAIN waiters : waiters[i] = c

Inv == TypeOK /\ AssignedWait /\ QueueExact /\ PermitsConserved

\* Finitely many requests own permits.
LEMMA OwnersFinite ==
  ASSUME assigned \subseteq Clients
  PROVE  IsFiniteSet(Owners)
<1>1. Owners \subseteq Clients
  BY DEF Owners, Served
<1>2. QED
  BY <1>1, GateAssumption, FS_Subset

\* One more in a finite set, and one less.
LEMMA NewOwner ==
  ASSUME NEW S, IsFiniteSet(S), NEW c, c \notin S
  PROVE  /\ Cardinality(S) \in Nat
         /\ Cardinality(S \cup {c}) = Cardinality(S) + 1
  BY FS_AddElement, FS_CardinalityType

\* A set without one of its elements.
LEMMA OldOwner ==
  ASSUME NEW S, IsFiniteSet(S), NEW c \in S
  PROVE  /\ IsFiniteSet(S \ {c})
         /\ Cardinality(S) \in Nat /\ Cardinality(S \ {c}) \in Nat
         /\ Cardinality(S \ {c}) = Cardinality(S) - 1
  BY FS_RemoveElement, FS_CardinalityType

\* Removing one of the waiters keeps the others, in order and once each.
LEMMA Unlinked ==
  ASSUME waiters \in Seq(Clients), NEW c, Queued(c),
         \A i, j \in DOMAIN waiters : waiters[i] = waiters[j] => i = j,
         NEW q, q = RemoveAt(waiters, Position(c))
  PROVE  /\ q \in Seq(Clients)
         /\ \A i, j \in DOMAIN q : q[i] = q[j] => i = j
         /\ \A d : (\E i \in DOMAIN q : q[i] = d) <=> Queued(d) /\ d # c
<1> DEFINE k == Position(c)
           n == Len(waiters)
<1>1. k \in 1 .. n /\ waiters[k] = c
  BY DEF Queued, Position
<1> HIDE DEF k
<1>2. q = SubSeq(waiters, 1, k - 1) \o SubSeq(waiters, k + 1, n)
  BY DEF RemoveAt, k
<1>3. /\ q \in Seq(Clients) /\ n \in Nat /\ Len(q) = n - 1
      /\ \A i \in 1 .. n - 1 : q[i] = IF i < k THEN waiters[i] ELSE waiters[i + 1]
  <2> DEFINE front == SubSeq(waiters, 1, k - 1)
             back == SubSeq(waiters, k + 1, n)
  <2>1. n \in Nat /\ k \in Nat
    BY <1>1
  <2>2. /\ front \in Seq(Clients) /\ Len(front) = k - 1
        /\ \A i \in 1 .. k - 1 : front[i] = waiters[i]
    BY <1>1, <2>1
  <2>3. /\ back \in Seq(Clients) /\ Len(back) = n - k
        /\ \A i \in 1 .. n - k : back[i] = waiters[k + i]
    BY <1>1, <2>1
  <2> HIDE DEF front, back
  <2>4. /\ front \o back \in Seq(Clients)
        /\ Len(front \o back) = n - 1
        /\ \A i \in 1 .. n - 1 : (front \o back)[i] = IF i < k THEN front[i] ELSE back[i - (k - 1)]
    <3>1. /\ front \o back \in Seq(Clients)
          /\ Len(front \o back) = Len(front) + Len(back)
          /\ \A i \in 1 .. Len(front) + Len(back) :
               (front \o back)[i] = IF i <= Len(front) THEN front[i] ELSE back[i - Len(front)]
      <4>1. front \in Seq(Clients) /\ back \in Seq(Clients)
        BY <2>2, <2>3
      <4>2. QED
        BY <4>1, ConcatProperties, Zenon
    <3>2. QED
      BY <2>1, <2>2, <2>3, <3>1
  <2>5. q = front \o back
    BY <1>2 DEF front, back
  <2>6. ASSUME NEW i \in 1 .. n - 1
        PROVE  q[i] = IF i < k THEN waiters[i] ELSE waiters[i + 1]
    <3>1. CASE i < k
      BY <1>1, <2>1, <2>2, <2>4, <2>5, <3>1
    <3>2. CASE i >= k
      <4>1. i - (k - 1) \in 1 .. n - k /\ k + (i - (k - 1)) = i + 1
        BY <1>1, <2>1, <3>2
      <4>2. QED
        BY <1>1, <2>1, <2>3, <2>4, <2>5, <3>2, <4>1
    <3>3. QED
      BY <1>1, <2>1, <3>1, <3>2
  <2>7. QED
    BY <2>1, <2>4, <2>5, <2>6
<1> DEFINE old(i) == IF i < k THEN i ELSE i + 1
<1>4. /\ DOMAIN q = 1 .. n - 1 /\ DOMAIN waiters = 1 .. n
      /\ \A i \in 1 .. n - 1 : old(i) \in 1 .. n /\ old(i) # k /\ q[i] = waiters[old(i)]
      /\ \A i, j \in 1 .. n - 1 : old(i) = old(j) => i = j
      /\ \A j \in 1 .. n : j # k => \E i \in 1 .. n - 1 : old(i) = j
  <2>1. DOMAIN q = 1 .. n - 1 /\ DOMAIN waiters = 1 .. n /\ n \in Nat /\ k \in 1 .. n
    BY <1>1, <1>3
  <2>2. \A i \in 1 .. n - 1 : old(i) \in 1 .. n /\ old(i) # k /\ q[i] = waiters[old(i)]
    BY <1>3, <2>1
  <2>3. \A i, j \in 1 .. n - 1 : old(i) = old(j) => i = j
    BY <2>1
  <2>4. ASSUME NEW j \in 1 .. n, j # k
        PROVE  \E i \in 1 .. n - 1 : old(i) = j
    <3>1. CASE j < k
      BY <2>1, <3>1
    <3>2. CASE j > k
      <4>1. j - 1 \in 1 .. n - 1 /\ old(j - 1) = j
        BY <2>1, <3>2
      <4>2. QED
        BY <4>1
    <3>3. QED
      BY <2>1, <2>4, <3>1, <3>2
  <2>5. QED
    BY <2>1, <2>2, <2>3, <2>4
<1> HIDE DEF old
<1>5. \A i, j \in DOMAIN q : q[i] = q[j] => i = j
  BY <1>4
<1>6. ASSUME NEW d
      PROVE  (\E i \in DOMAIN q : q[i] = d) <=> Queued(d) /\ d # c
  <2>1. ASSUME NEW i \in DOMAIN q, q[i] = d
        PROVE  Queued(d) /\ d # c
    <3>1. old(i) \in DOMAIN waiters /\ waiters[old(i)] = d /\ old(i) # k
      BY <1>4, <2>1
    <3>2. QED
      BY <1>1, <3>1 DEF Queued
  <2>2. ASSUME NEW j \in DOMAIN waiters, waiters[j] = d, d # c
        PROVE  \E i \in DOMAIN q : q[i] = d
    <3>1. j # k
      BY <1>1, <2>2
    <3>2. PICK i \in 1 .. n - 1 : old(i) = j
      BY <1>4, <3>1
    <3>3. QED
      BY <1>4, <2>2, <3>2
  <2>3. QED
    BY <2>1, <2>2 DEF Queued
<1>7. QED
  BY <1>3, <1>5, <1>6

-----------------------------------------------------------------------------
(***************************************************************************)
(* Steps that several actions share.                                       *)
(***************************************************************************)
\* Giving back the permit of c: either it becomes free, or the first waiter
\* owns it in place of c.
LEMMA Released ==
  ASSUME Inv, NEW c \in Owners, GiveBack(c),
         NEW place \in Places \ {"waiting", "timedOut", "holding", "streaming", "hung"},
         Goto(c, place), UNCHANGED over
  PROVE  Inv'
<1> USE DEF Inv
<1>1. c \in Clients
  BY DEF Owners, Served, TypeOK
<1>2. c \in assigned \/ st[c] \in {"holding", "streaming", "hung"}
  BY DEF Owners, Served
<1>3. /\ st' = [st EXCEPT ![c] = place] /\ st \in [Clients -> Places]
      /\ place \in Places /\ place \notin {"waiting", "timedOut", "holding", "streaming", "hung"}
  BY DEF TypeOK, Goto
<1>4. Served' = Served \ {c}
  BY <1>1, <1>3 DEF Served
<1>5. IsFiniteSet(Owners) /\ IsFiniteSet(Owners \ {c})
      /\ Cardinality(Owners) \in Nat /\ Cardinality(Owners \ {c}) = Cardinality(Owners) - 1
  BY OwnersFinite, OldOwner DEF TypeOK
<1>6. permits \in Nat /\ permits + Cardinality(Owners) = ConnMax
  BY DEF PermitsConserved, TypeOK
<1>7. ~Queued(c)
  BY <1>1, <1>2 DEF QueueExact, Queued
<1>8. CASE waiters = <<>>
  <2>1. permits' = permits + 1 /\ assigned' = assigned \ {c} /\ waiters' = <<>>
    BY <1>8 DEF GiveBack
  <2>2. Owners' = Owners \ {c}
    BY <1>4, <2>1 DEF Owners
  <2>3. PermitsConserved'
    BY <1>5, <1>6, <2>1, <2>2 DEF PermitsConserved
  <2>4. \A d \in Clients : ~Queued(d)
    BY <1>8 DEF Queued
  <2>5. \A d \in Clients : ~(st[d] \in {"waiting", "timedOut"} /\ d \notin assigned)
    BY <2>4 DEF QueueExact, Queued
  <2>6. \A d \in Clients : ~(st'[d] \in {"waiting", "timedOut"} /\ d \notin assigned')
    BY <1>1, <1>3, <2>1, <2>5
  <2>7. QueueExact'
    BY <2>1, <2>6 DEF QueueExact
  <2>8. AssignedWait'
    BY <1>3, <2>1 DEF AssignedWait, TypeOK
  <2>9. TypeOK'
    <3>1. permits' \in Nat
      BY <1>6, <2>1
    <3>2. waiters' \in Seq(Clients)
      BY <2>1
    <3>3. st' \in [Clients -> Places]
      BY <1>3
    <3>4. QED
      BY <2>1, <3>1, <3>2, <3>3 DEF TypeOK
  <2>10. QED
    BY <2>3, <2>7, <2>8, <2>9
<1>9. CASE waiters # <<>>
  <2> DEFINE h == Head(waiters)
  <2>1. /\ waiters \in Seq(Clients) /\ 1 \in DOMAIN waiters /\ h = waiters[1]
        /\ h \in Clients /\ waiters' = Tail(waiters)
        /\ assigned' = (assigned \ {c}) \cup {h} /\ permits' = permits
    BY <1>9 DEF GiveBack, TypeOK
  <2> HIDE DEF h
  <2>2. /\ waiters' \in Seq(Clients) /\ Len(waiters') = Len(waiters) - 1
        /\ \A i \in DOMAIN waiters' : waiters'[i] = waiters[i + 1] /\ i + 1 \in DOMAIN waiters
        /\ \A j \in DOMAIN waiters : j # 1 => j - 1 \in DOMAIN waiters' /\ waiters'[j - 1] = waiters[j]
    <3>1. /\ waiters' \in Seq(Clients) /\ Len(waiters') = Len(waiters) - 1
          /\ \A i \in 1 .. Len(waiters') : waiters'[i] = waiters[i + 1]
      BY <1>9, <2>1, HeadTailProperties
    <3>2. DOMAIN waiters = 1 .. Len(waiters) /\ DOMAIN waiters' = 1 .. Len(waiters')
          /\ Len(waiters) \in Nat
      BY <2>1, <3>1
    <3>3. QED
      BY <3>1, <3>2
  <2>3. Queued(h) /\ h # c /\ h \notin assigned /\ st[h] \in {"waiting", "timedOut"}
    BY <1>7, <2>1 DEF QueueExact, Queued
  <2>4. \A d : (\E i \in DOMAIN waiters' : waiters'[i] = d) <=> Queued(d) /\ d # h
    <3>1. ASSUME NEW d, NEW i \in DOMAIN waiters', waiters'[i] = d
          PROVE  Queued(d) /\ d # h
      <4>1. i + 1 \in DOMAIN waiters /\ waiters[i + 1] = d /\ i + 1 # 1
        BY <2>2, <3>1
      <4>2. QED
        BY <2>1, <4>1 DEF Queued, QueueExact
    <3>2. ASSUME NEW d, NEW j \in DOMAIN waiters, waiters[j] = d, d # h
          PROVE  \E i \in DOMAIN waiters' : waiters'[i] = d
      <4>1. j # 1
        BY <2>1, <3>2
      <4>2. QED
        BY <2>2, <3>2, <4>1
    <3>3. QED
      BY <3>1, <3>2 DEF Queued
  <2>5. h \notin Served /\ h \notin Owners \ {c}
    BY <2>3 DEF Served, Owners
  <2>6. Owners' = (Owners \ {c}) \cup {h}
    BY <1>4, <2>1, <2>3 DEF Owners
  <2>7. Cardinality(Owners') = Cardinality(Owners)
    BY <1>5, <2>5, <2>6, NewOwner
  <2>8. PermitsConserved'
    BY <1>6, <2>1, <2>7 DEF PermitsConserved
  <2>9. \A d \in Clients : Queued(d) /\ d # h
            <=> st'[d] \in {"waiting", "timedOut"} /\ d \notin assigned'
    BY <1>1, <1>2, <1>3, <1>7, <2>1, <2>3 DEF QueueExact, Queued
  <2>10. \A i, j \in DOMAIN waiters' : waiters'[i] = waiters'[j] => i = j
    BY <2>2 DEF QueueExact
  <2>11. QueueExact'
    <3>1. permits' = 0
      BY <1>9, <2>1 DEF QueueExact
    <3>2. QED
      BY <2>4, <2>9, <2>10, <3>1 DEF QueueExact
  <2>12. AssignedWait'
    BY <1>3, <2>1, <2>3 DEF AssignedWait, TypeOK
  <2>13. TypeOK'
    BY <1>3, <2>1, <2>2 DEF TypeOK
  <2>14. QED
    BY <2>8, <2>11, <2>12, <2>13
<1>10. QED
  BY <1>8, <1>9

\* A step that moves no permit and leaves the queue alone.
LEMMA Moved ==
  ASSUME Inv, NEW c \in Clients, NEW place \in Places, Goto(c, place),
         UNCHANGED <<over, permits, waiters, assigned>>,
         c \notin assigned,
         st[c] \in {"holding", "streaming", "hung"} <=> place \in {"holding", "streaming", "hung"},
         st[c] \in {"waiting", "timedOut"} <=> place \in {"waiting", "timedOut"}
  PROVE  Inv'
<1> USE DEF Inv
<1>1. st' = [st EXCEPT ![c] = place] /\ st \in [Clients -> Places]
  BY DEF TypeOK, Goto
<1>2. Served' = Served
  BY <1>1 DEF Served
<1>3. PermitsConserved'
  BY <1>2 DEF PermitsConserved, Owners
<1>4. QueueExact'
  BY <1>1 DEF QueueExact
<1>5. AssignedWait'
  BY <1>1 DEF AssignedWait, TypeOK
<1>6. QED
  BY <1>1, <1>3, <1>4, <1>5 DEF TypeOK

\* Taking a free permit.
LEMMA Took ==
  ASSUME Inv, NEW c \in Clients, st[c] = "idle", Acquired, Goto(c, "holding"),
         UNCHANGED <<over, waiters, assigned>>
  PROVE  Inv'
<1> USE DEF Inv
<1>1. st' = [st EXCEPT ![c] = "holding"] /\ st \in [Clients -> Places]
  BY DEF TypeOK, Goto
<1>2. Served' = Served \cup {c} /\ c \notin Owners
  BY <1>1 DEF Served, Owners, AssignedWait
<1>3. Owners' = Owners \cup {c}
  BY <1>2 DEF Owners
<1>4. PermitsConserved'
  BY <1>2, <1>3, OwnersFinite, NewOwner DEF PermitsConserved, Acquired, TypeOK
<1>5. waiters = <<>>
  BY DEF QueueExact, Acquired
<1>6. QueueExact'
  BY <1>1, <1>5 DEF QueueExact
<1>7. AssignedWait'
  BY <1>1 DEF AssignedWait, TypeOK
<1>8. TypeOK'
  BY <1>1 DEF TypeOK, Acquired, Places
<1>9. QED
  BY <1>4, <1>6, <1>7, <1>8

\* Dropping the acquire future of a request that then leaves or is rejected.
LEMMA Dropped ==
  ASSUME Inv, NEW c \in Clients, st[c] \in {"waiting", "timedOut"}, DropAcquire(c),
         NEW place \in {"idle", "rejected"}, Goto(c, place), UNCHANGED over
  PROVE  Inv'
<1> USE DEF Inv
<1>1. CASE c \in assigned
  BY <1>1, Released DEF DropAcquire, Owners, Places
<1>2. CASE c \notin assigned
  <2>1. /\ waiters' = RemoveAt(waiters, Position(c)) /\ UNCHANGED <<permits, assigned>>
        /\ st' = [st EXCEPT ![c] = place] /\ st \in [Clients -> Places]
    BY <1>2 DEF DropAcquire, Goto, TypeOK
  <2>2. Queued(c)
    BY <1>2 DEF QueueExact, Queued
  <2>3. /\ waiters' \in Seq(Clients)
        /\ \A i, j \in DOMAIN waiters' : waiters'[i] = waiters'[j] => i = j
        /\ \A d : (\E i \in DOMAIN waiters' : waiters'[i] = d) <=> Queued(d) /\ d # c
    BY <2>1, <2>2, Unlinked DEF QueueExact, TypeOK
  <2>4. Served' = Served
    BY <2>1 DEF Served
  <2>5. PermitsConserved'
    BY <2>1, <2>4 DEF PermitsConserved, Owners
  <2>6. QueueExact'
    <3>1. permits' = 0
      BY <2>1, <2>2 DEF QueueExact, Queued
    <3>2. \A d \in Clients : Queued(d) /\ d # c
              <=> st'[d] \in {"waiting", "timedOut"} /\ d \notin assigned'
      BY <1>2, <2>1 DEF QueueExact, Queued
    <3>3. QED
      BY <2>3, <3>1, <3>2 DEF QueueExact
  <2>7. AssignedWait'
    BY <1>2, <2>1 DEF AssignedWait, TypeOK
  <2>8. TypeOK'
    BY <2>1, <2>3 DEF TypeOK, Places
  <2>9. QED
    BY <2>5, <2>6, <2>7, <2>8
<1>3. QED
  BY <1>1, <1>2

-----------------------------------------------------------------------------
(***************************************************************************)
(* The theorems.                                                           *)
(***************************************************************************)
\* The invariant: permits are conserved, and the queue holds exactly the
\* requests without a permit that wait for one.
THEOREM GateInvariant == Spec => []Inv
<1>1. Init => Inv
  <2> SUFFICES ASSUME Init PROVE Inv
    OBVIOUS
  <2>1. TypeOK
    BY GateAssumption DEF Init, TypeOK, Places
  <2>2. AssignedWait /\ QueueExact
    BY DEF Init, AssignedWait, QueueExact
  <2>3. Owners = {}
    BY DEF Init, Owners, Served
  <2>4. PermitsConserved
    BY <2>3, FS_EmptySet, GateAssumption DEF PermitsConserved, Init
  <2>5. QED
    BY <2>1, <2>2, <2>4 DEF Inv
<1>2. Inv /\ [Next]_vars => Inv'
  <2> SUFFICES ASSUME Inv, [Next]_vars PROVE Inv'
    OBVIOUS
  <2>1. ASSUME NEW c \in Clients, TryAcquire(c) PROVE Inv'
    <3>1. CASE Acquired /\ Goto(c, "holding")
      BY <2>1, <3>1, Took DEF TryAcquire
    <3>2. CASE permits = 0 /\ UNCHANGED permits /\ Goto(c, "rejected")
      <4>1. c \notin assigned
        BY <2>1 DEF TryAcquire, Inv, AssignedWait
      <4>2. QED
        BY <2>1, <3>2, <4>1, Moved DEF TryAcquire, Places
    <3>3. QED
      BY <2>1, <3>1, <3>2 DEF TryAcquire
  <2>2. ASSUME NEW c \in Clients, Acquire(c) PROVE Inv'
    <3>1. CASE Acquired /\ Goto(c, "holding") /\ UNCHANGED waiters
      BY <2>2, <3>1, Took DEF Acquire
    <3>2. CASE /\ permits = 0 /\ UNCHANGED permits
               /\ waiters' = Append(waiters, c) /\ Goto(c, "waiting")
      <4>1. /\ c \notin assigned /\ ~Queued(c) /\ st[c] = "idle"
            /\ waiters \in Seq(Clients) /\ UNCHANGED <<over, permits, assigned>>
            /\ st' = [st EXCEPT ![c] = "waiting"] /\ st \in [Clients -> Places]
        BY <2>2, <3>2 DEF Acquire, Inv, AssignedWait, QueueExact, Queued, TypeOK, Goto
      <4>2. /\ waiters' \in Seq(Clients)
            /\ Len(waiters') = Len(waiters) + 1 /\ Len(waiters) \in Nat
            /\ \A i \in 1 .. Len(waiters) : waiters'[i] = waiters[i]
            /\ waiters'[Len(waiters) + 1] = c
            /\ DOMAIN waiters = 1 .. Len(waiters) /\ DOMAIN waiters' = 1 .. Len(waiters')
        BY <3>2, <4>1, AppendProperties
      <4>3. \A i, j \in DOMAIN waiters' : waiters'[i] = waiters'[j] => i = j
        BY <4>1, <4>2 DEF Inv, QueueExact, Queued
      <4>4. \A d : (\E i \in DOMAIN waiters' : waiters'[i] = d) <=> Queued(d) \/ d = c
        <5>1. \A i \in DOMAIN waiters' :
                \/ i \in DOMAIN waiters /\ waiters'[i] = waiters[i]
                \/ waiters'[i] = c
          BY <4>2
        <5>2. \A i \in DOMAIN waiters : i \in DOMAIN waiters' /\ waiters'[i] = waiters[i]
          BY <4>2
        <5>3. Len(waiters) + 1 \in DOMAIN waiters' /\ waiters'[Len(waiters) + 1] = c
          BY <4>2
        <5>4. QED
          BY <5>1, <5>2, <5>3 DEF Queued
      <4>5. \A d \in Clients : Queued(d) \/ d = c
                <=> st'[d] \in {"waiting", "timedOut"} /\ d \notin assigned'
        BY <4>1 DEF Inv, QueueExact, Queued
      <4>6. QueueExact'
        BY <3>2, <4>3, <4>4, <4>5 DEF QueueExact
      <4>7. AssignedWait' /\ TypeOK'
        BY <4>1, <4>2 DEF Inv, AssignedWait, TypeOK, Places
      <4>8. Served' = Served
        BY <4>1 DEF Served
      <4>9. PermitsConserved'
        BY <4>1, <4>8 DEF Inv, PermitsConserved, Owners
      <4>10. QED
        BY <4>6, <4>7, <4>9 DEF Inv
    <3>3. QED
      BY <2>2, <3>1, <3>2 DEF Acquire
  <2>3. ASSUME NEW c \in Clients, Proceed(c) PROVE Inv'
    <3>1. /\ st' = [st EXCEPT ![c] = "holding"] /\ st \in [Clients -> Places]
          /\ c \in assigned /\ assigned' = assigned \ {c}
          /\ UNCHANGED <<over, permits, waiters>>
      BY <2>3 DEF Proceed, Goto, Inv, TypeOK
    <3>2. Owners' = Owners
      BY <3>1 DEF Owners, Served
    <3>3. PermitsConserved'
      BY <3>1, <3>2 DEF Inv, PermitsConserved
    <3>4. QueueExact'
      BY <3>1 DEF Inv, QueueExact
    <3>5. AssignedWait' /\ TypeOK'
      BY <3>1 DEF Inv, AssignedWait, TypeOK, Places
    <3>6. QED
      BY <3>3, <3>4, <3>5 DEF Inv
  <2>4. ASSUME NEW c \in Clients, TimeOut(c) PROVE Inv'
    BY <2>4, Moved DEF TimeOut, Places
  <2>5. ASSUME NEW c \in Clients, Reject(c) PROVE Inv'
    BY <2>5, Dropped DEF Reject
  <2>6. ASSUME NEW c \in Clients, Deliver(c) PROVE Inv'
    <3>1. c \in Owners /\ c \notin assigned /\ st[c] = "holding" /\ UNCHANGED over
      BY <2>6 DEF Deliver, Inv, AssignedWait, Owners, Served
    <3>2. CASE GiveBack(c) /\ Goto(c, "sending")
      BY <3>1, <3>2, Released DEF Places
    <3>3. CASE /\ Goto(c, "streaming") \/ Goto(c, "hung")
               /\ UNCHANGED <<permits, waiters, assigned>>
      BY <3>1, <3>3, Moved DEF Places
    <3>4. QED
      BY <2>6, <3>2, <3>3 DEF Deliver
  <2>7. ASSUME NEW c \in Clients, StreamEnds(c) PROVE Inv'
    BY <2>7, Released DEF StreamEnds, Owners, Served, Places
  <2>8. ASSUME NEW c \in Clients, Sent(c) PROVE Inv'
    <3>1. c \notin assigned
      BY <2>8 DEF Sent, Inv, AssignedWait
    <3>2. QED
      BY <2>8, <3>1, Moved DEF Sent, Places
  <2>9. ASSUME NEW c \in Clients, Disconnect(c) PROVE Inv'
    <3>1. Goto(c, "idle") /\ UNCHANGED over
      BY <2>9 DEF Disconnect
    <3>2. CASE st[c] = "waiting" /\ DropAcquire(c)
      BY <3>1, <3>2, Dropped
    <3>3. CASE st[c] \in {"streaming", "hung"} /\ GiveBack(c)
      BY <3>1, <3>3, Released DEF Owners, Served, Places
    <3>4. CASE st[c] \in {"sending", "rejected"} /\ UNCHANGED <<permits, waiters, assigned>>
      <4>1. c \notin assigned
        BY <3>4 DEF Inv, AssignedWait
      <4>2. QED
        BY <3>1, <3>4, <4>1, Moved DEF Places
    <3>5. QED
      BY <2>9, <3>2, <3>3, <3>4 DEF Disconnect
  <2>10. CASE UNCHANGED vars
    <3>1. Owners' = Owners
      BY <2>10 DEF vars, Owners, Served
    <3>2. QED
      BY <2>10, <3>1 DEF vars, Inv, TypeOK, AssignedWait, QueueExact, PermitsConserved
  <2>11. QED
    BY <2>1, <2>2, <2>3, <2>4, <2>5, <2>6, <2>7, <2>8, <2>9, <2>10 DEF Next
<1>3. QED
  BY <1>1, <1>2, PTL DEF Spec

\* The variables keep their types.
THEOREM GateTypeCorrect == Spec => []TypeOK
<1>1. Inv => TypeOK
  BY DEF Inv
<1>2. QED
  BY <1>1, GateInvariant, PTL

\* Free permits and owned permits always add up to conn.max.
THEOREM PermitsAreConserved == Spec => []PermitsConserved
<1>1. Inv => PermitsConserved
  BY DEF Inv
<1>2. QED
  BY <1>1, GateInvariant, PTL

\* The queue is exact, and empty while a permit is free.
THEOREM QueueIsExact == Spec => []QueueExact
<1>1. Inv => QueueExact
  BY DEF Inv
<1>2. QED
  BY <1>1, GateInvariant, PTL

-----------------------------------------------------------------------------
\* A request enters only while fewer than conn.max are served.
LEMMA RoomToEnter ==
  ASSUME Inv, NEW c \in Clients, c \notin Served, c \in assigned \/ permits > 0
  PROVE  Cardinality(Served) < ConnMax
<1>1. /\ IsFiniteSet(Owners) /\ Served \subseteq Owners
      /\ permits \in Nat /\ permits + Cardinality(Owners) = ConnMax
  BY OwnersFinite DEF Owners, Inv, TypeOK, PermitsConserved
<1>2. /\ IsFiniteSet(Served) /\ Cardinality(Served) \in Nat
      /\ Cardinality(Owners) \in Nat /\ Cardinality(Served) <= Cardinality(Owners)
  BY <1>1, FS_Subset, FS_CardinalityType
<1>3. CASE permits > 0
  BY <1>1, <1>2, <1>3
<1>4. CASE c \in assigned
  <2>1. Served \cup {c} \subseteq Owners
    BY <1>4 DEF Owners
  <2>2. Cardinality(Served \cup {c}) <= Cardinality(Owners)
    BY <1>1, <2>1, FS_Subset
  <2>3. Cardinality(Served \cup {c}) = Cardinality(Served) + 1
    BY <1>2, NewOwner
  <2>4. QED
    BY <1>1, <1>2, <2>2, <2>3
<1>5. QED
  BY <1>3, <1>4

\* A request is refused at once only when conn.max others own permits.
THEOREM RefusalsAreDue == Spec => RefusedOnlyWhenFull
<1> DEFINE Due == \A c \in Clients :
                    st[c] = "idle" /\ st'[c] = "rejected" => Cardinality(Owners) = ConnMax
<1>1. Inv /\ [Next]_vars => [Due]_vars
  <2> SUFFICES ASSUME Inv, Next, NEW d \in Clients, st[d] = "idle", st'[d] = "rejected"
               PROVE  Cardinality(Owners) = ConnMax
    OBVIOUS
  <2>1. st \in [Clients -> Places]
    BY DEF Inv, TypeOK
  <2>2. TryAcquire(d) /\ permits = 0
    BY <2>1 DEF Next, TryAcquire, Acquire, Proceed, TimeOut, Reject, Deliver, StreamEnds,
       Sent, Disconnect, Goto
  <2>3. IsFiniteSet(Owners) /\ Cardinality(Owners) \in Nat
    BY OwnersFinite, FS_CardinalityType DEF Inv, TypeOK
  <2>4. QED
    BY <2>2, <2>3 DEF Inv, PermitsConserved
<1>2. QED
  BY <1>1, GateInvariant, PTL DEF Spec, RefusedOnlyWhenFull

\* The gate implements ConnLimit: at most conn.max requests are served at
\* once, and each step of the gate lets one in, lets one out, or neither.
THEOREM GateImplementsConnLimit == Spec => ImplementsConnLimit
<1>1. Init => Limit!Init
  BY DEF Init, Limit!Init, Served
<1>2. Inv /\ [Next]_vars => [Limit!Next]_Served
  <2> SUFFICES ASSUME Inv, [Next]_vars PROVE [Limit!Next]_Served
    OBVIOUS
  <2> USE DEF Served, Goto
  <2>0. st \in [Clients -> Places]
    BY DEF Inv, TypeOK
  <2>1. ASSUME NEW c \in Clients, st[c] \in {"idle", "waiting"},
               c \in assigned \/ permits > 0, Goto(c, "holding")
        PROVE  [Limit!Next]_Served
    <3>1. c \notin Served /\ Served' = Served \cup {c}
      BY <2>0, <2>1
    <3>2. Cardinality(Served) < ConnMax
      BY <2>1, <3>1, RoomToEnter
    <3>3. Limit!Cardinality(Served) = Cardinality(Served)
      BY DEF Limit!Cardinality, Cardinality
    <3>4. Limit!Enter(c)
      BY <3>1, <3>2, <3>3 DEF Limit!Enter
    <3>5. QED
      BY <3>4 DEF Limit!Next
  <2>2. ASSUME NEW c \in Clients, st[c] \in {"holding", "streaming", "hung"},
               NEW place \in {"idle", "sending"}, Goto(c, place)
        PROVE  [Limit!Next]_Served
    <3>1. c \in Served /\ Served' = Served \ {c}
      BY <2>0, <2>2
    <3> HIDE DEF Served
    <3>2. Limit!Leave(c)
      BY <3>1 DEF Limit!Leave
    <3>3. QED
      BY <3>2 DEF Limit!Next
  <2>3. ASSUME NEW c \in Clients, NEW place, Goto(c, place),
               st[c] \in {"holding", "streaming", "hung"} <=> place \in {"holding", "streaming", "hung"}
        PROVE  UNCHANGED Served
    BY <2>0, <2>3
  <2>4. ASSUME NEW c \in Clients, TryAcquire(c) PROVE [Limit!Next]_Served
    <3>1. CASE Acquired /\ Goto(c, "holding")
      BY <2>1, <2>4, <3>1 DEF TryAcquire, Acquired
    <3>2. CASE Goto(c, "rejected")
      BY <2>3, <2>4, <3>2 DEF TryAcquire
    <3>3. QED
      BY <2>4, <3>1, <3>2 DEF TryAcquire
  <2>5. ASSUME NEW c \in Clients, Acquire(c) PROVE [Limit!Next]_Served
    <3>1. CASE Acquired /\ Goto(c, "holding")
      BY <2>1, <2>5, <3>1 DEF Acquire, Acquired
    <3>2. CASE Goto(c, "waiting")
      BY <2>3, <2>5, <3>2 DEF Acquire
    <3>3. QED
      BY <2>5, <3>1, <3>2 DEF Acquire
  <2>6. ASSUME NEW c \in Clients, Proceed(c) PROVE [Limit!Next]_Served
    BY <2>1, <2>6 DEF Proceed
  <2>7. ASSUME NEW c \in Clients, TimeOut(c) PROVE [Limit!Next]_Served
    BY <2>3, <2>7 DEF TimeOut
  <2>8. ASSUME NEW c \in Clients, Reject(c) PROVE [Limit!Next]_Served
    BY <2>3, <2>8 DEF Reject
  <2>9. ASSUME NEW c \in Clients, Deliver(c) PROVE [Limit!Next]_Served
    <3>1. CASE Goto(c, "sending")
      BY <2>2, <2>9, <3>1 DEF Deliver
    <3>2. CASE Goto(c, "streaming") \/ Goto(c, "hung")
      BY <2>3, <2>9, <3>2 DEF Deliver
    <3>3. QED
      BY <2>9, <3>1, <3>2 DEF Deliver
  <2>10. ASSUME NEW c \in Clients, StreamEnds(c) PROVE [Limit!Next]_Served
    BY <2>2, <2>10 DEF StreamEnds
  <2>11. ASSUME NEW c \in Clients, Sent(c) PROVE [Limit!Next]_Served
    BY <2>3, <2>11 DEF Sent
  <2>12. ASSUME NEW c \in Clients, Disconnect(c) PROVE [Limit!Next]_Served
    <3>1. Goto(c, "idle") /\ st[c] \in {"streaming", "hung", "waiting", "sending", "rejected"}
      BY <2>12 DEF Disconnect
    <3>2. CASE st[c] \in {"streaming", "hung"}
      BY <2>2, <3>1, <3>2
    <3>3. CASE st[c] \in {"waiting", "sending", "rejected"}
      BY <2>3, <3>1, <3>3
    <3>4. QED
      BY <3>1, <3>2, <3>3
  <2>13. CASE UNCHANGED vars
    BY <2>13 DEF vars
  <2>14. QED
    BY <2>4, <2>5, <2>6, <2>7, <2>8, <2>9, <2>10, <2>11, <2>12, <2>13 DEF Next
<1>3. QED
  BY <1>1, <1>2, GateInvariant, PTL DEF Spec, ImplementsConnLimit, Limit!Spec

=============================================================================
