--------------------------- MODULE DeliveryStream ---------------------------
(***************************************************************************)
(* How a shaped body is sent: deliver and DeliveryStream::poll_next        *)
(* (src/serve/engine.rs).  hyper polls the stream when the task is woken,  *)
(* and may poll it at other times too; a slow client delays the polls.     *)
(* Time is counted in ticks, sizes in bytes.                               *)
(***************************************************************************)
EXTENDS Integers

CONSTANTS
  Deliveries,  \* the bodies, each with its spec as it was sampled
  Lateness,    \* delays of a poll after its wake-up; 0 is a prompt poll
  Second,      \* ticks in a second
  MaxClock     \* bound on the clock

None == -1            \* an Option that is None
Never == MaxClock + 1 \* no wake-up is scheduled

\* PaceSpec; a drop or hang after so many bytes or so much time.
Pace ==
  [kind : {"none"}] \cup [kind : {"chunk"}, size : Nat, interval : Nat]
    \cup [kind : {"duration"}, time : Nat] \cup [kind : {"speed"}, bps : Nat]

Limit == [kind : {"none"}] \cup [kind : {"bytes", "time"}, n : Nat]

Delivery == [len : Nat, pace : Pace, first : Nat \cup {None}, drop : Limit, hang : Limit]

ASSUME DeliveryAssumption ==
  /\ Deliveries \subseteq Delivery
  /\ Lateness \subseteq Nat
  /\ Second \in Nat \ {0}
  /\ MaxClock \in Nat

DefaultChunkSize == 8192
MinPaceChunks == 10

AtLeast(a, b) == IF a < b THEN b ELSE a
AtMost(a, b) == IF a < b THEN a ELSE b

-----------------------------------------------------------------------------
(***************************************************************************)
(* deliver: the chunk size and the delay between chunks.                   *)
(***************************************************************************)
DurationChunk(len) == AtMost(AtLeast(len \div MinPaceChunks, 1), DefaultChunkSize)

Chunks(len, size) == (len + size - 1) \div size

MutantChunkSize(len, pace) ==
  CASE pace.kind = "chunk"    -> pace.size
    [] pace.kind = "duration" -> DurationChunk(len)
    [] pace.kind = "speed" /\ pace.bps > 0 -> AtLeast(pace.bps \div 10, 1)
    [] OTHER -> AtLeast(len, 1)

ChunkSize(len, pace) ==
  CASE pace.kind = "chunk"    -> AtLeast(pace.size, 1)
    [] pace.kind = "duration" -> DurationChunk(len)
    [] pace.kind = "speed" /\ pace.bps > 0 -> AtLeast(pace.bps \div 10, 1)
    [] OTHER -> AtLeast(len, 1)

MutantChunkDelay(len, pace) ==
  CASE pace.kind = "chunk"    -> pace.interval
    [] pace.kind = "duration" -> pace.time \div AtLeast(Chunks(len, DurationChunk(len)), 1)
    [] pace.kind = "speed" /\ pace.bps > 0 -> (ChunkSize(len, pace) * Second) \div pace.bps
    [] OTHER -> None

ChunkDelay(len, pace) ==
  CASE pace.kind = "chunk"    -> pace.interval
    [] pace.kind = "duration" ->
         pace.time \div AtLeast(Chunks(len, DurationChunk(len)) - 1, 1)
    [] pace.kind = "speed" /\ pace.bps > 0 -> (ChunkSize(len, pace) * Second) \div pace.bps
    [] OTHER -> None

\* The limits of a drop or hang spec: AfterBytes(n), or AfterTime(n) from the
\* moment the stream is made, which is tick 0.
BytesOf(limit) == IF limit.kind = "bytes" THEN limit.n ELSE None
TimeOf(limit) == IF limit.kind = "time" THEN limit.n ELSE None

-----------------------------------------------------------------------------
VARIABLES
  d,              \* the delivery
  late,           \* how long a woken task may have to wait for its poll
  clock,          \* Instant::now()
  due,            \* when the task is next woken
  offset,         \* bytes sent
  firstByteDone,
  sleep,          \* deadline of the pending timer, or None
  started,        \* a chunk has been sent
  status,         \* open; ended: poll_next returned None; gone: the client left
  firstAt,        \* history: when the first chunk was sent, or None
  lastAt          \* history: when the latest chunk was sent, or None

vars == <<d, late, clock, due, offset, firstByteDone, sleep, started, status, firstAt, lastAt>>

size == ChunkSize(d.len, d.pace)
delay == ChunkDelay(d.len, d.pace)

\* drop_after_bytes shortens the body.
effectiveLen ==
  IF BytesOf(d.drop) # None THEN AtMost(d.len, BytesOf(d.drop)) ELSE d.len

TypeOK ==
  /\ d \in Deliveries
  /\ late \in Lateness
  /\ clock \in 0 .. MaxClock
  /\ due \in Nat
  /\ offset \in 0 .. effectiveLen
  /\ firstByteDone \in BOOLEAN
  /\ sleep \in Nat \cup {None}
  /\ started \in BOOLEAN
  /\ status \in {"open", "ended", "gone"}
  /\ firstAt \in {None} \cup 0 .. clock
  /\ lastAt \in {None} \cup 0 .. clock
  /\ started <=> firstAt # None

Init ==
  /\ d \in Deliveries
  /\ late \in Lateness
  /\ clock = 0
  /\ due = 0
  /\ offset = 0
  /\ firstByteDone = FALSE
  /\ sleep = None
  /\ started = FALSE
  /\ status = "open"
  /\ firstAt = None
  /\ lastAt = None

-----------------------------------------------------------------------------
(***************************************************************************)
(* poll_next.  Each action is one of its ways through.  A poll takes no    *)
(* time, so that its two looks at the drop deadline are one.               *)
(***************************************************************************)
Passed(deadline) == deadline # None /\ clock >= deadline

MutantWakeAt ==
  IF sleep # None THEN sleep
  ELSE IF started /\ delay # None THEN clock + delay
  ELSE clock

MutantWakeAtOnce ==
  IF sleep # None THEN sleep
  ELSE IF ~firstByteDone /\ d.first # None THEN clock + d.first
  ELSE clock

\* When the timer the poll waits for fires: a pending one, or the first-byte
\* delay, or the delay after a chunk; the present if it waits for none.
WakeAt ==
  IF sleep # None THEN sleep
  ELSE IF ~firstByteDone /\ d.first # None THEN clock + d.first
  ELSE IF started /\ delay # None THEN clock + delay
  ELSE clock

MutantDropPassed == FALSE

\* The deadline check at the top, and again before a chunk is sent.
DropPassed == Passed(TimeOf(d.drop))

HangPassed ==
  \/ Passed(TimeOf(d.hang))
  \/ BytesOf(d.hang) # None /\ offset >= BytesOf(d.hang)

\* Poll::Ready(None), by the deadline.
PollDropped ==
  /\ status = "open"
  /\ DropPassed
  /\ status' = "ended"
  /\ UNCHANGED <<d, late, clock, due, offset, firstByteDone, sleep, started, firstAt, lastAt>>

\* Poll::Pending, woken by the timer.
PollSleeps ==
  /\ status = "open"
  /\ ~DropPassed
  /\ clock < WakeAt
  /\ sleep' = WakeAt
  /\ due' = WakeAt
  /\ UNCHANGED <<d, late, clock, offset, firstByteDone, started, status, firstAt, lastAt>>

\* What every poll that gets past the timers has done.
Awake ==
  /\ status = "open"
  /\ ~DropPassed
  /\ clock >= WakeAt
  /\ firstByteDone' = TRUE
  /\ sleep' = None

\* Poll::Pending, and nothing will wake the task.
PollHangs ==
  /\ Awake
  /\ HangPassed
  /\ due' = Never
  /\ UNCHANGED <<d, late, clock, offset, started, status, firstAt, lastAt>>

MutantPollEnds ==
  /\ Awake
  /\ offset >= effectiveLen
  /\ status' = "ended"
  /\ UNCHANGED <<d, late, clock, due, offset, started, firstAt, lastAt>>

MutantPollEndsEarly ==
  /\ Awake
  /\ ~HangPassed
  /\ offset + size > effectiveLen
  /\ status' = "ended"
  /\ UNCHANGED <<d, late, clock, due, offset, started, firstAt, lastAt>>

\* Poll::Ready(None): the body is sent, or as much of it as drop allows.
PollEnds ==
  /\ Awake
  /\ ~HangPassed
  /\ offset >= effectiveLen
  /\ status' = "ended"
  /\ UNCHANGED <<d, late, clock, due, offset, started, firstAt, lastAt>>

MutantPollChunk ==
  /\ Awake
  /\ ~HangPassed
  /\ offset < effectiveLen
  /\ offset' = offset + size
  /\ started' = TRUE
  /\ due' = clock
  /\ firstAt' = IF started THEN firstAt ELSE clock
  /\ lastAt' = clock
  /\ UNCHANGED <<d, late, clock, status>>

\* Poll::Ready(chunk): hyper polls again as soon as the client takes it.
PollChunk ==
  /\ Awake
  /\ ~HangPassed
  /\ offset < effectiveLen
  /\ offset' = offset + AtMost(effectiveLen - offset, size)
  /\ started' = TRUE
  /\ due' = clock
  /\ firstAt' = IF started THEN firstAt ELSE clock
  /\ lastAt' = clock
  /\ UNCHANGED <<d, late, clock, status>>

Poll == PollDropped \/ PollSleeps \/ PollHangs \/ PollEnds \/ PollChunk

\* The client closes the connection: hyper drops the stream.
Disconnect ==
  /\ status = "open"
  /\ status' = "gone"
  /\ UNCHANGED <<d, late, clock, due, offset, firstByteDone, sleep, started, firstAt, lastAt>>

\* Time passes, but not past the poll a wake-up leads to.
Tick ==
  /\ status = "open"
  /\ clock < MaxClock
  /\ clock < due + late
  /\ clock' = clock + 1
  /\ UNCHANGED <<d, late, due, offset, firstByteDone, sleep, started, status, firstAt, lastAt>>

Next == Poll \/ Disconnect \/ Tick

\* The task is polled when it is woken, and time passes.
Fairness == WF_vars(Poll /\ clock >= due) /\ WF_vars(Tick)

Spec == Init /\ [][Next]_vars
FairSpec == Spec /\ Fairness

-----------------------------------------------------------------------------
(***************************************************************************)
(* Properties.  The first group holds however late the polls are.          *)
(***************************************************************************)

\* The pace is never exceeded, wherever the polls fall: after the first
\* chunk, one more for each full delay.
PaceKept ==
  started /\ delay # None /\ delay > 0 =>
    offset <= size * (1 + (clock - firstAt) \div delay)

\* No byte before the first-byte delay is over, and none at or after a drop
\* or hang deadline, although the deadlines are only looked at in a poll.
SentInTime ==
  started =>
    /\ d.first # None => firstAt >= d.first
    /\ TimeOf(d.drop) # None => lastAt < TimeOf(d.drop)
    /\ TimeOf(d.hang) # None => lastAt < TimeOf(d.hang)

\* A hang wins over the end of the body: once its limit is reached only the
\* drop deadline or the client ends the response.
HangHolds ==
  [][HangPassed /\ ~DropPassed => status' # "ended"]_vars

\* The stream ends with the bytes it was to send, unless it was dropped.
EndsComplete ==
  status = "ended" => (offset = effectiveLen \/ DropPassed)

(***************************************************************************)
(* The second group is about prompt polls; the last two properties are     *)
(* what the README says.                                                   *)
(***************************************************************************)
\* A drop deadline takes effect at the latest when the timer running then
\* fires, unless a hang has stopped all timers.
DroppedAtNextWake ==
  late = 0 /\ status = "open" /\ TimeOf(d.drop) # None /\ due # Never =>
    clock <= TimeOf(d.drop) + AtLeast(AtLeast(d.first, delay), 0)

\* "Spread body over a target duration": the last chunk comes a duration
\* after the first, or less by the rounding of the delay.
SpreadOverDuration ==
  late = 0 /\ status = "ended" /\ d.pace.kind = "duration" /\ Chunks(d.len, size) > 1
    /\ offset = d.len =>
      lastAt - firstAt \in d.pace.time - Chunks(d.len, size) + 2 .. d.pace.time

\* Every response without a hang ends: each timer is followed by a chunk, and
\* no chunk is empty.
StreamEnds ==
  late = 0 /\ d.hang.kind = "none" ~> status # "open"

\* "drop: 1s  # kill connection after N time".
DropsInTime ==
  late = 0 /\ status = "open" /\ TimeOf(d.drop) # None => clock <= TimeOf(d.drop)

\* "hang: 10kb  # stop sending after N bytes".
HangsAfterBytes == BytesOf(d.hang) # None => offset <= BytesOf(d.hang)

=============================================================================
