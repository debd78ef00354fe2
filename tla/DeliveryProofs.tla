--------------------------- MODULE DeliveryProofs ---------------------------
(***************************************************************************)
(* Proofs about the delivery of a shaped body, for any body, any sampled   *)
(* spec and any lateness of the polls.                                     *)
(***************************************************************************)
EXTENDS DeliveryStream, TLAPS

-----------------------------------------------------------------------------
(***************************************************************************)
(* deliver: the sizes and delays it computes.                              *)
(***************************************************************************)
\* max and min.
LEMMA AtLeastAtMost ==
  ASSUME NEW a \in Int, NEW b \in Int
  PROVE  /\ AtLeast(a, b) \in Int /\ AtLeast(a, b) >= a /\ AtLeast(a, b) >= b
         /\ AtLeast(a, b) \in {a, b}
         /\ AtMost(a, b) \in Int /\ AtMost(a, b) <= a /\ AtMost(a, b) <= b
         /\ AtMost(a, b) \in {a, b}
  BY DEF AtLeast, AtMost

\* A quotient of sizes is not negative.
LEMMA DivNat ==
  ASSUME NEW a \in Nat, NEW b \in Nat, b > 0
  PROVE  a \div b \in Nat
  OBVIOUS

\* No chunk is empty: a size of no bytes is made one.
LEMMA SizePositive ==
  ASSUME NEW len \in Nat, NEW pace \in Pace
  PROVE  ChunkSize(len, pace) \in Nat /\ ChunkSize(len, pace) >= 1
<1>1. len \div MinPaceChunks \in Nat
  BY DivNat DEF MinPaceChunks
<1>2. DurationChunk(len) \in Nat /\ DurationChunk(len) >= 1
  BY <1>1 DEF DurationChunk, DefaultChunkSize, AtLeast, AtMost
<1>3. CASE pace.kind = "chunk"
  <2>1. pace.size \in Nat
    BY <1>3 DEF Pace
  <2> QED
    BY <1>3, <2>1 DEF ChunkSize, AtLeast
<1>4. CASE pace.kind = "duration"
  BY <1>2, <1>4 DEF ChunkSize
<1>5. CASE pace.kind = "speed" /\ pace.bps > 0
  <2>1. pace.bps \div 10 \in Nat
    BY <1>5, DivNat DEF Pace
  <2> QED
    BY <1>5, <2>1 DEF ChunkSize, AtLeast
<1>6. CASE pace.kind \notin {"chunk", "duration"} /\ ~(pace.kind = "speed" /\ pace.bps > 0)
  BY <1>6 DEF ChunkSize, AtLeast
<1> QED
  BY <1>3, <1>4, <1>5, <1>6

\* Every pace has a delay, or none.
LEMMA DelayType ==
  ASSUME NEW len \in Nat, NEW pace \in Pace
  PROVE  ChunkDelay(len, pace) \in Nat \cup {None}
<1> USE DeliveryAssumption
<1>1. CASE pace.kind = "chunk"
  BY <1>1 DEF Pace, ChunkDelay
<1>2. CASE pace.kind = "duration"
  <2> DEFINE n == AtLeast(Chunks(len, DurationChunk(len)) - 1, 1)
  <2>1. DurationChunk(len) = ChunkSize(len, pace)
    BY <1>2 DEF ChunkSize
  <2>2. Chunks(len, DurationChunk(len)) \in Nat
    BY <2>1, SizePositive, DivNat DEF Chunks
  <2>3. n \in Nat /\ n > 0
    BY <2>2 DEF AtLeast
  <2>4. pace.time \in Nat
    BY <1>2 DEF Pace
  <2>5. ChunkDelay(len, pace) = pace.time \div n
    BY <1>2 DEF ChunkDelay
  <2> QED
    BY <2>3, <2>4, <2>5, DivNat
<1>3. CASE pace.kind = "speed" /\ pace.bps > 0
  <2>1. pace.bps \in Nat
    BY <1>3 DEF Pace
  <2>2. ChunkSize(len, pace) * Second \in Nat
    BY SizePositive
  <2>3. ChunkDelay(len, pace) = (ChunkSize(len, pace) * Second) \div pace.bps
    BY <1>3 DEF ChunkDelay
  <2> QED
    BY <1>3, <2>1, <2>2, <2>3, DivNat
<1>4. CASE pace.kind \notin {"chunk", "duration"} /\ ~(pace.kind = "speed" /\ pace.bps > 0)
  BY <1>4 DEF ChunkDelay
<1> QED
  BY <1>1, <1>2, <1>3, <1>4

\* What the stream works with.
LEMMA Settings ==
  ASSUME d \in Deliveries
  PROVE  /\ d.len \in Nat /\ d.pace \in Pace /\ d.first \in Nat \cup {None}
         /\ size \in Nat /\ size >= 1
         /\ delay \in Nat \cup {None}
         /\ BytesOf(d.drop) \in Nat \cup {None} /\ TimeOf(d.drop) \in Nat \cup {None}
         /\ BytesOf(d.hang) \in Nat \cup {None} /\ TimeOf(d.hang) \in Nat \cup {None}
         /\ effectiveLen \in Nat /\ effectiveLen <= d.len
<1>1. d \in Delivery
  BY DeliveryAssumption
<1>2. d.len \in Nat /\ d.pace \in Pace /\ d.first \in Nat \cup {None}
      /\ d.drop \in Limit /\ d.hang \in Limit
  BY <1>1 DEF Delivery
<1>3. \A x \in Limit : BytesOf(x) \in Nat \cup {None} /\ TimeOf(x) \in Nat \cup {None}
  BY DEF Limit, BytesOf, TimeOf
<1>4. effectiveLen \in Nat /\ effectiveLen <= d.len
  BY <1>2, <1>3 DEF effectiveLen, AtMost, None
<1>5. size \in Nat /\ size >= 1 /\ delay \in Nat \cup {None}
  BY <1>2, SizePositive, DelayType DEF size, delay
<1> QED
  BY <1>2, <1>3, <1>4, <1>5

-----------------------------------------------------------------------------
(***************************************************************************)
(* Types.                                                                  *)
(***************************************************************************)
\* The delivery is settled when the stream is made.
LEMMA Settled ==
  ASSUME [Next]_vars
  PROVE  /\ d' = d /\ late' = late
         /\ size' = size /\ delay' = delay /\ effectiveLen' = effectiveLen
<1>1. d' = d /\ late' = late
  BY DEF Next, Poll, PollDropped, PollSleeps, PollHangs, PollEnds, PollChunk, Disconnect,
     Tick, vars
<1> QED
  BY <1>1 DEF size, delay, effectiveLen

\* The deadline a poll waits for is a time.
LEMMA WakeAtType ==
  ASSUME TypeOK
  PROVE  WakeAt \in Nat
<1>1. /\ d.first \in Nat \cup {None} /\ delay \in Nat \cup {None}
      /\ sleep \in Nat \cup {None} /\ clock \in Nat
  BY Settings DEF TypeOK
<1>2. \A a, b \in Nat : a + b \in Nat
  OBVIOUS
<1> QED
  BY <1>1, <1>2 DEF WakeAt

\* deliver gives the stream its types.
LEMMA TypeInit == Init => TypeOK
<1> SUFFICES ASSUME Init PROVE TypeOK
  OBVIOUS
<1>1. effectiveLen \in Nat
  BY Settings DEF Init
<1>2. offset \in 0 .. effectiveLen /\ clock \in 0 .. MaxClock /\ due \in Nat
  BY <1>1, DeliveryAssumption DEF Init
<1> QED
  BY <1>2 DEF Init, TypeOK

\* poll_next keeps them.
LEMMA TypeStep == TypeOK /\ [Next]_vars => TypeOK'
<1> SUFFICES ASSUME TypeOK, [Next]_vars PROVE TypeOK'
  OBVIOUS
<1>1. /\ d' \in Deliveries /\ late' \in Lateness
      /\ d' = d /\ size' = size /\ delay' = delay /\ effectiveLen' = effectiveLen
      /\ effectiveLen \in Nat /\ size \in Nat /\ size >= 1
      /\ WakeAt \in Nat /\ MaxClock \in Nat
  BY Settled, Settings, WakeAtType, DeliveryAssumption DEF TypeOK
<1>2. CASE PollDropped \/ Disconnect
  BY <1>1, <1>2 DEF TypeOK, PollDropped, Disconnect
<1>3. CASE PollSleeps
  BY <1>1, <1>3 DEF TypeOK, PollSleeps
<1>4. CASE PollHangs
  BY <1>1, <1>4 DEF TypeOK, PollHangs, Awake, Never
<1>5. CASE PollEnds
  BY <1>1, <1>5 DEF TypeOK, PollEnds, Awake
<1>6. CASE PollChunk
  <2>1. offset' \in 0 .. effectiveLen
    BY <1>1, <1>6 DEF TypeOK, PollChunk, AtMost
  <2>2. /\ clock' = clock /\ clock \in Nat /\ due' = clock /\ sleep' = None
        /\ firstAt' = IF started THEN firstAt ELSE clock
        /\ lastAt' = clock /\ started' = TRUE /\ firstByteDone' = TRUE /\ status' = status
    BY <1>6 DEF TypeOK, PollChunk, Awake
  <2> QED
    BY <1>1, <2>1, <2>2 DEF TypeOK, None
<1>7. CASE Tick
  BY <1>1, <1>7 DEF TypeOK, Tick
<1>8. CASE UNCHANGED vars
  BY <1>1, <1>8 DEF TypeOK, vars
<1> QED
  BY <1>2, <1>3, <1>4, <1>5, <1>6, <1>7, <1>8 DEF Next, Poll

\* The stream's state keeps its type; above all, it never sends a byte past
\* the body or past the limit of a drop.
THEOREM TypeCorrect == Spec => []TypeOK
  BY TypeInit, TypeStep, PTL DEF Spec

-----------------------------------------------------------------------------
(***************************************************************************)
(* What a chunk may follow.                                                *)
(***************************************************************************)
\* The first-byte delay is over once any poll got past it, and a timer that
\* runs before is the one that ends it.
FirstByte ==
  /\ started => firstByteDone
  /\ d.first # None =>
       /\ firstByteDone => clock >= d.first
       /\ ~firstByteDone /\ sleep # None => sleep >= d.first

TimeInv == TypeOK /\ FirstByte /\ SentInTime

\* A poll that gets past the timers comes after the first-byte delay.
LEMMA AwakeInTime ==
  ASSUME TimeInv, Awake, d.first # None
  PROVE  clock >= d.first
<1>1. d.first \in Nat /\ clock \in Nat /\ (sleep # None => sleep \in Nat)
  BY Settings DEF TimeInv, TypeOK
<1> QED
  BY <1>1 DEF TimeInv, TypeOK, FirstByte, Awake, WakeAt

\* A chunk is sent only when all timers are over.
LEMMA TimeStep == TimeInv /\ [Next]_vars => TimeInv'
<1> SUFFICES ASSUME TimeInv, [Next]_vars PROVE TimeInv'
  OBVIOUS
<1>1. /\ TypeOK /\ TypeOK' /\ d' = d
      /\ d.first \in Nat \cup {None} /\ clock \in Nat
      /\ TimeOf(d.drop) \in Nat \cup {None} /\ TimeOf(d.hang) \in Nat \cup {None}
  BY TypeStep, Settled, Settings DEF TimeInv, TypeOK
<1>2. CASE PollDropped \/ Disconnect \/ UNCHANGED vars
  BY <1>1, <1>2 DEF TimeInv, FirstByte, SentInTime, PollDropped, Disconnect, vars
<1>3. CASE PollSleeps
  BY <1>1, <1>3 DEF TimeInv, FirstByte, SentInTime, PollSleeps, WakeAt, None
<1>4. CASE PollHangs \/ PollEnds
  <2>1. /\ Awake /\ UNCHANGED <<d, clock, started, firstAt, lastAt>>
        /\ firstByteDone'
    BY <1>4 DEF PollHangs, PollEnds, Awake
  <2> QED
    BY <1>1, <2>1, AwakeInTime DEF TimeInv, FirstByte, SentInTime
<1>5. CASE PollChunk
  <2>1. /\ Awake /\ ~DropPassed /\ ~HangPassed /\ started' /\ firstByteDone'
        /\ clock' = clock /\ lastAt' = clock
        /\ firstAt' = IF started THEN firstAt ELSE clock
    BY <1>5 DEF PollChunk, Awake
  <2>2. FirstByte'
    BY <1>1, <2>1, AwakeInTime DEF FirstByte
  <2>3. /\ TimeOf(d.drop) # None => clock < TimeOf(d.drop)
        /\ TimeOf(d.hang) # None => clock < TimeOf(d.hang)
    BY <1>1, <2>1 DEF DropPassed, HangPassed, Passed
  <2>4. SentInTime'
    BY <1>1, <2>1, <2>3, AwakeInTime DEF TimeInv, SentInTime
  <2> QED
    BY <1>1, <2>2, <2>4 DEF TimeInv
<1>6. CASE Tick
  BY <1>1, <1>6 DEF TimeInv, FirstByte, SentInTime, Tick
<1> QED
  BY <1>2, <1>3, <1>4, <1>5, <1>6 DEF Next, Poll

\* It holds at all times.
LEMMA TimeInvariant == Spec => []TimeInv
<1>1. Init => TimeInv
  BY TypeInit DEF Init, TimeInv, FirstByte, SentInTime
<1> QED
  BY <1>1, TimeStep, PTL DEF Spec

\* No byte is sent before the first-byte delay is over, and none at or after
\* the deadline of a drop or of a hang.
THEOREM BytesSentInTime == Spec => []SentInTime
<1>1. TimeInv => SentInTime
  BY DEF TimeInv
<1> QED
  BY <1>1, TimeInvariant, PTL

\* The response ends with all the bytes it was to send, or at the deadline of
\* a drop.
THEOREM EndsAreComplete == Spec => []EndsComplete
<1>1. Init => EndsComplete
  BY DEF Init, EndsComplete
<1>2. TypeOK /\ EndsComplete /\ [Next]_vars => EndsComplete'
  <2> SUFFICES ASSUME TypeOK, EndsComplete, [Next]_vars PROVE EndsComplete'
    OBVIOUS
  <2>1. /\ d' = d /\ effectiveLen' = effectiveLen
        /\ effectiveLen \in Nat /\ offset \in 0 .. effectiveLen
    BY Settled, Settings DEF TypeOK
  <2>2. CASE PollDropped
    BY <2>1, <2>2 DEF PollDropped, EndsComplete, DropPassed, Passed
  <2>3. CASE PollEnds
    BY <2>1, <2>3 DEF PollEnds, EndsComplete
  <2>4. CASE UNCHANGED vars
    BY <2>1, <2>4 DEF vars, EndsComplete, DropPassed, Passed
  <2>5. CASE status' # "ended"
    BY <2>5 DEF EndsComplete
  <2> QED
    BY <2>2, <2>3, <2>4, <2>5
    DEF Next, Poll, PollSleeps, PollHangs, PollChunk, Disconnect, Tick, Awake
<1> QED
  BY <1>1, <1>2, TypeCorrect, PTL DEF Spec

\* Once the limit of a hang is reached, the stream does not end of its own.
THEOREM HangsHold == Spec => HangHolds
<1>1. [Next]_vars => [HangPassed /\ ~DropPassed => status' # "ended"]_vars
  BY DEF Next, Poll, PollDropped, PollSleeps, PollHangs, PollEnds, PollChunk, Disconnect,
     Tick, Awake
<1> QED
  BY <1>1, PTL DEF Spec, HangHolds

-----------------------------------------------------------------------------
(***************************************************************************)
(* Arithmetic.                                                             *)
(***************************************************************************)
\* Whole quotients keep an order, and a divisor more is one more.
LEMMA DivMonotone ==
  ASSUME NEW a \in Nat, NEW b \in Nat, NEW n \in Nat \ {0}
  PROVE  /\ a <= b => a \div n <= b \div n
         /\ a + n <= b => 1 + a \div n <= b \div n
  OBVIOUS

\* Division with remainder.
LEMMA DivUnique ==
  ASSUME NEW q \in Nat, NEW n \in Nat \ {0}, NEW r \in Nat, r < n
  PROVE  (q * n + r) \div n = q
  OBVIOUS

\* Quotients are rounded down.
LEMMA DivBounds ==
  ASSUME NEW a \in Nat, NEW n \in Nat \ {0}
  PROVE  n * (a \div n) <= a /\ a < n * (a \div n) + n
  OBVIOUS

\* Products keep an order.
LEMMA TimesMonotone ==
  ASSUME NEW s \in Nat, NEW p \in Nat, NEW q \in Nat
  PROVE  /\ s * p \in Nat
         /\ p <= q => s * p <= s * q
         /\ s * (p + 1) = s * p + s
  OBVIOUS

-----------------------------------------------------------------------------
(***************************************************************************)
(* The pace, however the polls fall.                                       *)
(***************************************************************************)
\* Between the first and the latest chunk lie as many delays as there were
\* chunks after the first, and a timer that runs adds another.
Paced ==
  started =>
    /\ firstAt \in Nat /\ lastAt \in firstAt .. clock
    /\ delay # None /\ delay > 0 =>
         /\ sleep # None => sleep >= lastAt + delay
         /\ offset <= size * (1 + (lastAt - firstAt) \div delay)

PaceInv == TimeInv /\ Paced /\ (~started => offset = 0)

\* A poll that gets past the timers comes a delay after the latest chunk.
LEMMA AwakeAfterDelay ==
  ASSUME PaceInv, Awake, started, delay # None, delay > 0
  PROVE  clock >= lastAt + delay
<1>1. /\ delay \in Nat /\ clock \in Nat /\ (sleep # None => sleep \in Nat)
      /\ firstByteDone /\ lastAt \in Nat /\ lastAt <= clock
  BY Settings DEF PaceInv, TimeInv, TypeOK, FirstByte, Paced
<1>2. CASE sleep = None
  BY <1>1, <1>2 DEF Awake, WakeAt
<1>3. CASE sleep # None
  BY <1>1, <1>3 DEF Awake, WakeAt, PaceInv, Paced
<1> QED
  BY <1>2, <1>3

\* One more chunk is one more full delay.
LEMMA PacedChunk ==
  ASSUME PaceInv, PollChunk
  PROVE  Paced'
<1>1. /\ TypeOK /\ TypeOK' /\ size' = size /\ delay' = delay
      /\ clock' = clock /\ clock \in Nat /\ lastAt' = clock /\ sleep' = None
      /\ firstAt' = (IF started THEN firstAt ELSE clock)
      /\ size \in Nat /\ delay \in Nat \cup {None}
      /\ offset \in Nat /\ offset' \in Nat
  BY TypeStep, Settled, Settings
  DEF PaceInv, TimeInv, TypeOK, Next, Poll, PollChunk, Awake
<1>2. offset' <= offset + size
  <2>1. effectiveLen \in Nat
    BY Settings DEF PaceInv, TimeInv, TypeOK
  <2> QED
    BY <1>1, <2>1 DEF PollChunk, AtMost
<1>3. firstAt' \in Nat /\ lastAt' \in firstAt' .. clock'
  BY <1>1 DEF PaceInv, Paced
<1>4. ASSUME delay # None, delay > 0
      PROVE  offset' <= size * (1 + (lastAt' - firstAt') \div delay)
  <2>1. delay \in Nat \ {0}
    BY <1>1, <1>4
  <2>2. CASE ~started
    <3>1. lastAt' - firstAt' = 0 /\ offset = 0
      BY <1>1, <2>2 DEF PaceInv
    <3>2. (lastAt' - firstAt') \div delay = 0
      BY <2>1, <3>1
    <3> QED
      BY <1>1, <1>2, <3>1, <3>2
  <2>3. CASE started
    <3> DEFINE p == (lastAt - firstAt) \div delay
               q == (clock - firstAt) \div delay
    <3>1. /\ firstAt \in Nat /\ lastAt \in Nat /\ firstAt <= lastAt
          /\ offset <= size * (1 + p)
      BY <1>1, <1>4, <2>3 DEF PaceInv, Paced
    <3>2. clock >= lastAt + delay
      BY <1>4, <2>3, AwakeAfterDelay DEF PollChunk
    <3>3. p \in Nat /\ q \in Nat /\ 1 + p <= q
      <4>1. /\ lastAt - firstAt \in Nat /\ clock - firstAt \in Nat
            /\ (lastAt - firstAt) + delay <= clock - firstAt
        BY <1>1, <2>1, <3>1, <3>2
      <4> QED
        BY <2>1, <4>1, DivMonotone, DivNat
    <3> HIDE DEF p, q
    <3>4. size * (1 + p) + size <= size * (1 + q)
      BY <1>1, <3>3, TimesMonotone
    <3>5. size * (1 + p) \in Nat /\ size * (1 + q) \in Nat
      BY <1>1, <3>3, TimesMonotone
    <3>6. offset' <= size * (1 + q)
      BY <1>1, <1>2, <3>1, <3>4, <3>5
    <3> QED
      BY <1>1, <2>3, <3>6 DEF q
  <2> QED
    BY <2>2, <2>3
<1> QED
  BY <1>1, <1>3, <1>4 DEF Paced

\* The pace is kept by every step,
LEMMA PaceStep == PaceInv /\ [Next]_vars => PaceInv'
<1> SUFFICES ASSUME PaceInv, [Next]_vars PROVE PaceInv'
  OBVIOUS
<1>1. /\ TimeInv' /\ TypeOK /\ TypeOK' /\ d' = d /\ size' = size /\ delay' = delay
      /\ clock \in Nat /\ delay \in Nat \cup {None}
  BY TimeStep, Settled, Settings DEF PaceInv, TimeInv, TypeOK
<1>2. CASE PollDropped \/ Disconnect \/ UNCHANGED vars
  BY <1>1, <1>2 DEF PaceInv, Paced, PollDropped, Disconnect, vars
<1>3. CASE PollSleeps
  <2>1. ASSUME started, delay # None, delay > 0 PROVE WakeAt >= lastAt + delay
    <3>1. lastAt \in Nat /\ lastAt <= clock /\ firstByteDone
      BY <1>1, <2>1 DEF PaceInv, Paced, TimeInv, FirstByte
    <3> QED
      BY <1>1, <2>1, <3>1 DEF WakeAt, PaceInv, Paced
  <2> QED
    BY <1>1, <1>3, <2>1 DEF PaceInv, Paced, PollSleeps
<1>4. CASE PollHangs \/ PollEnds
  BY <1>1, <1>4 DEF PaceInv, Paced, PollHangs, PollEnds, Awake
<1>5. CASE PollChunk
  BY <1>1, <1>5, PacedChunk DEF PaceInv, PollChunk
<1>6. CASE Tick
  BY <1>1, <1>6 DEF PaceInv, Paced, Tick
<1> QED
  BY <1>2, <1>3, <1>4, <1>5, <1>6 DEF Next, Poll

\* from the first poll on.
LEMMA PaceInit == Init => PaceInv
  BY TypeInit DEF Init, PaceInv, Paced, TimeInv, FirstByte, SentInTime

\* It holds at all times.
LEMMA PaceInvariant == Spec => []PaceInv
  BY PaceInit, PaceStep, PTL DEF Spec

\* The pace is never exceeded, however often and however late the stream is
\* polled: a chunk at first, and one for each full delay since.
THEOREM PaceIsKept == Spec => []PaceKept
<1>1. PaceInv => PaceKept
  <2> SUFFICES ASSUME PaceInv, started, delay # None, delay > 0
               PROVE  offset <= size * (1 + (clock - firstAt) \div delay)
    BY DEF PaceKept
  <2> DEFINE p == (lastAt - firstAt) \div delay
             q == (clock - firstAt) \div delay
  <2>1. /\ size \in Nat /\ delay \in Nat \ {0} /\ clock \in Nat /\ offset \in Nat
        /\ firstAt \in Nat /\ lastAt \in firstAt .. clock
        /\ offset <= size * (1 + p)
    BY Settings DEF PaceInv, TimeInv, TypeOK, Paced
  <2>2. /\ lastAt - firstAt \in Nat /\ clock - firstAt \in Nat
        /\ lastAt - firstAt <= clock - firstAt
    BY <2>1
  <2>3. p \in Nat /\ q \in Nat /\ p <= q
    BY <2>1, <2>2, DivMonotone, DivNat
  <2> HIDE DEF p, q
  <2>4. /\ size * (1 + p) \in Nat /\ size * (1 + q) \in Nat
        /\ size * (1 + p) <= size * (1 + q)
    BY <2>1, <2>3, TimesMonotone
  <2>5. offset <= size * (1 + q)
    BY <2>1, <2>4
  <2> QED
    BY <2>5 DEF q
<1> QED
  BY <1>1, PaceInvariant, PTL

-----------------------------------------------------------------------------
(***************************************************************************)
(* Prompt polls.                                                           *)
(***************************************************************************)
\* The longest timer of a stream.
Longest == AtLeast(AtLeast(d.first, delay), 0)

\* Time does not pass a wake-up, and before a drop deadline no timer is
\* started that ends later than the longest one after it.
Prompt ==
  late = 0 /\ status = "open" =>
    /\ clock <= due
    /\ TimeOf(d.drop) # None =>
         /\ sleep # None => sleep <= TimeOf(d.drop) + Longest
         /\ due # Never => due <= TimeOf(d.drop) + Longest

PromptInv == TypeOK /\ Prompt

\* The longest timer is at least as long as each.
LEMMA LongestType ==
  ASSUME TypeOK
  PROVE  /\ Longest \in Nat
         /\ d.first # None => d.first <= Longest
         /\ delay # None => delay <= Longest
<1>1. d.first \in Nat \cup {None} /\ delay \in Nat \cup {None}
  BY Settings DEF TypeOK
<1> QED
  BY <1>1 DEF Longest, AtLeast, None

\* Every step keeps this,
LEMMA PromptStep == PromptInv /\ [Next]_vars => PromptInv'
<1> SUFFICES ASSUME PromptInv, [Next]_vars, late = 0, status' = "open"
             PROVE  Prompt'
  BY TypeStep, Settled DEF PromptInv, Prompt
<1>1. /\ TypeOK /\ TypeOK' /\ d' = d /\ late' = late /\ Longest' = Longest
      /\ clock \in Nat /\ due \in Nat /\ Longest \in Nat
      /\ TimeOf(d.drop) \in Nat \cup {None}
      /\ delay \in Nat \cup {None} /\ d.first \in Nat \cup {None}
  BY TypeStep, Settled, Settings, LongestType DEF PromptInv, TypeOK, Longest
<1>2. CASE PollSleeps
  <2>1. /\ status = "open" /\ clock < WakeAt /\ due' = WakeAt /\ sleep' = WakeAt
        /\ clock' = clock /\ (TimeOf(d.drop) # None => clock < TimeOf(d.drop))
    BY <1>1, <1>2 DEF PollSleeps, DropPassed, Passed
  <2>2. WakeAt \in Nat
    BY <1>1, WakeAtType
  <2>3. ASSUME TimeOf(d.drop) # None PROVE WakeAt <= TimeOf(d.drop) + Longest
    <3>1. CASE sleep # None
      BY <1>1, <2>1, <2>3, <3>1 DEF PromptInv, Prompt, WakeAt
    <3>2. CASE sleep = None
      BY <1>1, <2>1, <2>3, <3>2, LongestType DEF WakeAt
    <3> QED
      BY <3>1, <3>2
  <2> QED
    BY <1>1, <2>1, <2>2, <2>3 DEF Prompt
<1>3. CASE PollHangs
  <2>1. due' = Never /\ clock' = clock /\ sleep' = None /\ clock <= Never
    BY <1>1, <1>3, DeliveryAssumption DEF PollHangs, Awake, Never, TypeOK
  <2> QED
    BY <1>1, <2>1 DEF Prompt
<1>4. CASE PollChunk
  <2>1. /\ due' = clock /\ clock' = clock /\ sleep' = None
        /\ (TimeOf(d.drop) # None => clock < TimeOf(d.drop))
    BY <1>1, <1>4 DEF PollChunk, Awake, DropPassed, Passed
  <2> QED
    BY <1>1, <2>1 DEF Prompt
<1>5. CASE Tick
  BY <1>1, <1>5 DEF PromptInv, Prompt, Tick
<1>6. CASE UNCHANGED vars
  BY <1>1, <1>6 DEF PromptInv, Prompt, vars
<1> QED
  BY <1>2, <1>3, <1>4, <1>5, <1>6 DEF Next, Poll, PollDropped, PollEnds, Disconnect

\* and it holds when the stream is made.
LEMMA PromptInit == Init => PromptInv
<1> SUFFICES ASSUME Init PROVE PromptInv
  OBVIOUS
<1>1. TypeOK /\ Longest \in Nat /\ TimeOf(d.drop) \in Nat \cup {None}
  BY TypeInit, LongestType, Settings DEF Init
<1> QED
  BY <1>1 DEF Init, PromptInv, Prompt

\* It holds at all times.
LEMMA PromptInvariant == Spec => []PromptInv
  BY PromptInit, PromptStep, PTL DEF Spec

\* If the stream is polled as soon as it is woken, a drop is carried out at
\* the latest when the timer that runs at its deadline fires.
THEOREM DropsAtNextWake == Spec => []DroppedAtNextWake
<1>1. PromptInv => DroppedAtNextWake
  <2> SUFFICES ASSUME PromptInv, late = 0, status = "open", TimeOf(d.drop) # None,
                      due # Never
               PROVE  clock <= TimeOf(d.drop) + Longest
    BY DEF DroppedAtNextWake, Longest
  <2> QED
    BY LongestType, Settings DEF PromptInv, Prompt, TypeOK
<1> QED
  BY <1>1, PromptInvariant, PTL

\* A stream that is not hung is at a chunk or waits for the delay after it to
\* pass, and the k-th chunk came k - 1 delays after the first.
Waiting ==
  \/ sleep = None /\ due = lastAt /\ clock = lastAt
  \/ sleep = lastAt + delay /\ due = sleep

Sent(k) ==
  /\ lastAt = firstAt + delay * (k - 1)
  /\ size * (k - 1) < offset /\ offset <= size * k
  /\ offset = size * k \/ offset = effectiveLen

OnTime ==
  late = 0 /\ started /\ delay # None =>
    /\ firstAt \in Nat /\ lastAt \in Nat
    /\ status = "open" /\ ~HangPassed => Waiting
    /\ \E k \in Nat \ {0} : Sent(k)

OnTimeInv == PaceInv /\ Prompt /\ OnTime

\* A hang, once reached, is never left.
LEMMA HangStays ==
  ASSUME TypeOK, TypeOK', [Next]_vars, HangPassed, ~PollChunk
  PROVE  HangPassed'
<1>1. d' = d /\ clock' \in Nat /\ clock \in Nat /\ clock <= clock' /\ offset' = offset
  BY Settled DEF TypeOK, Next, Poll, PollDropped, PollSleeps, PollHangs, PollEnds, Disconnect,
     Tick, vars
<1> QED
  BY <1>1, Settings DEF HangPassed, Passed, TypeOK

\* With prompt polls, a poll that gets past the timers comes just in time.
LEMMA AwakeOnTime ==
  ASSUME OnTimeInv, Awake, ~HangPassed, late = 0, started, delay # None
  PROVE  clock = lastAt + delay
<1>1. /\ TypeOK /\ delay \in Nat /\ clock \in Nat /\ due \in Nat /\ lastAt \in Nat
      /\ firstByteDone /\ Waiting /\ clock <= due
  BY Settings
  DEF OnTimeInv, PaceInv, TimeInv, TypeOK, FirstByte, Prompt, OnTime, Awake
<1>2. clock >= WakeAt
  BY DEF Awake
<1>3. CASE sleep = None /\ due = lastAt /\ clock = lastAt
  BY <1>1, <1>2, <1>3 DEF WakeAt
<1>4. CASE sleep = lastAt + delay /\ due = sleep
  BY <1>1, <1>2, <1>4 DEF WakeAt, None
<1> QED
  BY <1>1, <1>3, <1>4 DEF Waiting

\* With prompt polls chunk k + 1 follows chunk k by the delay.
LEMMA NextSent ==
  ASSUME OnTimeInv, PollChunk, late = 0, delay # None
  PROVE  \E k \in Nat \ {0} : Sent(k)'
<1>1. /\ size' = size /\ delay' = delay /\ effectiveLen' = effectiveLen
      /\ clock \in Nat /\ lastAt' = clock /\ ~HangPassed /\ Awake
      /\ firstAt' = (IF started THEN firstAt ELSE clock)
      /\ size \in Nat /\ size >= 1 /\ delay \in Nat /\ effectiveLen \in Nat
      /\ offset \in Nat /\ offset < effectiveLen
      /\ offset' = offset + AtMost(effectiveLen - offset, size)
  BY Settled, Settings
  DEF OnTimeInv, PaceInv, TimeInv, TypeOK, Next, Poll, PollChunk
<1>2. /\ offset < offset' /\ offset' <= offset + size /\ offset' \in Nat
      /\ offset' = offset + size \/ offset' = effectiveLen
  BY <1>1 DEF AtMost
<1>3. CASE ~started
  <2>1. offset = 0
    BY <1>3 DEF OnTimeInv, PaceInv
  <2>2. size * (1 - 1) = 0 /\ size * 1 = size /\ delay * (1 - 1) = 0
    BY <1>1
  <2>3. Sent(1)'
    BY <1>1, <1>2, <1>3, <2>1, <2>2 DEF Sent
  <2> QED
    BY <2>3
<1>4. CASE started
  <2>1. PICK k \in Nat \ {0} : Sent(k)
    BY <1>1, <1>4 DEF OnTimeInv, OnTime
  <2>2. firstAt \in Nat /\ lastAt \in Nat
    BY <1>1, <1>4 DEF OnTimeInv, OnTime
  <2>3. clock = lastAt + delay
    BY <1>1, <1>4, AwakeOnTime
  <2>4. k - 1 \in Nat /\ (k - 1) + 1 = k /\ (k + 1) - 1 = k
    OBVIOUS
  <2>5. delay * k = delay * (k - 1) + delay /\ delay * (k - 1) \in Nat
    BY <1>1, <2>4, TimesMonotone
  <2>6. size * (k + 1) = size * k + size /\ size * k \in Nat
    BY <1>1, TimesMonotone
  <2>7. offset = size * k
    BY <1>1, <2>1 DEF Sent
  <2>8. lastAt' = firstAt' + delay * k
    BY <1>1, <1>4, <2>1, <2>2, <2>3, <2>5 DEF Sent
  <2>9. Sent(k + 1)'
    BY <1>1, <1>2, <2>4, <2>6, <2>7, <2>8 DEF Sent
  <2>10. k + 1 \in Nat \ {0}
    OBVIOUS
  <2> QED
    BY <2>9, <2>10
<1> QED
  BY <1>3, <1>4

\* So each chunk comes when it is due,
LEMMA OnTimeStep == OnTimeInv /\ [Next]_vars => OnTimeInv'
<1> SUFFICES ASSUME OnTimeInv, [Next]_vars PROVE OnTimeInv'
  OBVIOUS
<1>1. /\ PaceInv' /\ Prompt' /\ TypeOK /\ TypeOK'
  BY PaceStep, PromptStep DEF OnTimeInv, PaceInv, TimeInv, PromptInv
<1> SUFFICES ASSUME late = 0, started', delay # None
             PROVE  OnTime'
  BY <1>1, Settled DEF OnTimeInv, OnTime
<1>2. /\ size' = size /\ delay' = delay /\ effectiveLen' = effectiveLen /\ d' = d
      /\ delay \in Nat /\ clock \in Nat
  BY <1>1, Settled, Settings DEF TypeOK
<1>3. CASE PollChunk
  <2>1. /\ sleep' = None /\ due' = clock /\ clock' = clock /\ lastAt' = clock
    BY <1>3 DEF PollChunk, Awake
  <2>2. firstAt' \in Nat /\ lastAt' \in Nat
    BY <1>1, <1>2, <2>1 DEF PaceInv, Paced
  <2>3. Waiting'
    BY <2>1 DEF Waiting
  <2> QED
    BY <1>3, <2>2, <2>3, NextSent DEF OnTime
<1>4. CASE ~PollChunk
  <2>1. UNCHANGED <<started, firstAt, lastAt, offset>>
    BY <1>4 DEF Next, Poll, PollDropped, PollSleeps, PollHangs, PollEnds, Disconnect, Tick,
       vars
  <2>2. firstAt \in Nat /\ lastAt \in Nat /\ lastAt <= clock /\ firstByteDone
    BY <1>1, <1>2, <2>1 DEF OnTimeInv, PaceInv, Paced, TimeInv, FirstByte
  <2>3. \E k \in Nat \ {0} : Sent(k)'
    BY <1>2, <2>1 DEF OnTimeInv, OnTime, Sent
  <2>4. ASSUME status' = "open", ~HangPassed' PROVE Waiting'
    <3>1. ~HangPassed
      BY <1>1, <1>4, <2>4, HangStays
    <3>2. CASE PollSleeps
      <4>1. Waiting
        BY <2>1, <3>1, <3>2 DEF OnTimeInv, OnTime, PollSleeps
      <4>2. WakeAt = lastAt + delay
        BY <1>2, <2>1, <2>2, <4>1 DEF Waiting, WakeAt, None
      <4> QED
        BY <1>2, <2>1, <3>2, <4>2 DEF PollSleeps, Waiting
    <3>3. CASE Tick
      <4>1. Waiting /\ clock < due + late
        BY <2>1, <3>1, <3>3 DEF OnTimeInv, OnTime, Tick
      <4>2. sleep = lastAt + delay /\ due = sleep
        BY <1>2, <4>1 DEF Waiting
      <4> QED
        BY <1>2, <2>1, <3>3, <4>2 DEF Tick, Waiting
    <3>4. CASE UNCHANGED vars
      BY <1>2, <2>4, <3>1, <3>4 DEF vars, OnTimeInv, OnTime, Waiting
    <3> QED
      BY <1>4, <2>4, <3>1, <3>2, <3>3, <3>4
      DEF Next, Poll, PollDropped, PollHangs, PollEnds, Disconnect
  <2> QED
    BY <2>1, <2>2, <2>3, <2>4 DEF OnTime
<1> QED
  BY <1>3, <1>4

\* at all times.
LEMMA OnTimeInvariant == Spec => []OnTimeInv
<1>1. Init => OnTime
  BY DEF Init, OnTime
<1>2. Init => OnTimeInv
  BY <1>1, PaceInit, PromptInit DEF OnTimeInv, PromptInv
<1> QED
  BY <1>2, OnTimeStep, PTL DEF Spec

\* The number of chunks is what deliver divided the duration by.
LEMMA LastChunk ==
  ASSUME NEW len \in Nat, NEW s \in Nat \ {0}, NEW k \in Nat \ {0},
         s * (k - 1) < len, len <= s * k
  PROVE  Chunks(len, s) = k
<1> DEFINE r == len - s * (k - 1) - 1
<1>1. s * (k - 1) \in Nat /\ s * k = s * (k - 1) + s /\ s * k = k * s
  OBVIOUS
<1>2. r \in Nat /\ r < s /\ len + s - 1 = k * s + r
  BY <1>1
<1> HIDE DEF r
<1>3. (len + s - 1) \div s = k
  BY <1>2, DivUnique
<1> QED
  BY <1>3 DEF Chunks

\* `pace: 5s` spreads the body over that time: with prompt polls the last
\* chunk comes then, or earlier by the rounding of the delay between two.
THEOREM SpreadIsExact == Spec => []SpreadOverDuration
<1>1. OnTimeInv => SpreadOverDuration
  <2> DEFINE n == Chunks(d.len, size)
             m == n - 1
  <2> SUFFICES ASSUME OnTimeInv, late = 0, d.pace.kind = "duration", n > 1, offset = d.len
               PROVE  lastAt - firstAt \in d.pace.time - n + 2 .. d.pace.time
    BY DEF SpreadOverDuration
  <2>1. /\ d.len \in Nat /\ d.pace \in Pace /\ size \in Nat /\ size >= 1
        /\ delay \in Nat \cup {None}
    BY Settings DEF OnTimeInv, PaceInv, TimeInv, TypeOK
  <2>2. d.pace.time \in Nat
    BY <2>1 DEF Pace
  <2>3. size = DurationChunk(d.len)
    BY DEF size, ChunkSize
  <2>4. n \in Nat
    BY <2>1, DivNat DEF Chunks
  <2>5. m \in Nat \ {0} /\ AtLeast(m, 1) = m
    BY <2>4 DEF AtLeast
  <2>6. delay = d.pace.time \div m
    BY <2>3, <2>5 DEF delay, ChunkDelay
  <2>7. delay # None /\ delay \in Nat
    <3> HIDE DEF m
    <3>1. delay \in Nat
      BY <2>2, <2>5, <2>6, DivNat
    <3> QED
      BY <3>1 DEF None
  <2>8. started
    <3>1. CASE d.len = 0
      <4>1. d.len + size - 1 = 0 * size + (size - 1)
        BY <2>1, <3>1
      <4>2. n = 0
        BY <2>1, <4>1, DivUnique DEF Chunks
      <4> QED
        BY <4>2
    <3> QED
      BY <3>1 DEF OnTimeInv, PaceInv
  <2>9. firstAt \in Nat /\ lastAt \in Nat
    BY <2>7, <2>8 DEF OnTimeInv, OnTime
  <2>10. PICK k \in Nat \ {0} : Sent(k)
    BY <2>7, <2>8 DEF OnTimeInv, OnTime
  <2>11. n = k
    BY <2>1, <2>10, LastChunk DEF Sent
  <2>12. lastAt - firstAt = m * delay
    BY <2>5, <2>7, <2>9, <2>10, <2>11 DEF Sent
  <2>13. m * delay <= d.pace.time /\ d.pace.time < m * delay + m
    BY <2>2, <2>5, <2>6, DivBounds
  <2>14. m * delay \in Nat
    BY <2>5, <2>7
  <2> HIDE DEF n
  <2> QED
    BY <2>2, <2>4, <2>12, <2>13, <2>14
<1> QED
  BY <1>1, OnTimeInvariant, PTL
=============================================================================
