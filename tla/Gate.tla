-------------------------------- MODULE Gate --------------------------------
(***************************************************************************)
(* The connection limit of one rule, `conn: {max, over}`:                  *)
(* BehaviorRuntime::check (src/serve/runtime.rs) on a tokio semaphore, the *)
(* permit it hands the request (src/server.rs), and PermitStream, which    *)
(* keeps the permit while a shaped body is streamed.  Each request is a    *)
(* task of its own; the client may go away at any await, which drops the   *)
(* handler or the body stream and whatever they own.                       *)
(***************************************************************************)
EXTENDS Naturals, Sequences, FiniteSets

LOCAL INSTANCE SequencesExt

CONSTANTS
  Clients,  \* connections, each with one request at a time
  ConnMax,  \* conn.max: the permits of the semaphore
  Overs,    \* which of the three overflow actions the rule may have
  Shapes    \* how responses may be delivered: "default", "stream", "hang"

ASSUME GateAssumption ==
  /\ IsFiniteSet(Clients)
  /\ ConnMax \in Nat
  /\ Overs \subseteq {"reply", "block", "blockWithTimeout"}
  /\ Shapes \subseteq {"default", "stream", "hang"}

VARIABLES
  over,      \* the rule's OverflowAction
  permits,   \* free permits of the semaphore
  waiters,   \* acquire futures in its queue, first in first out
  assigned,  \* acquire futures that were given a permit and not polled since
  st         \* where each client's request stands

vars == <<over, permits, waiters, assigned, st>>

\* idle: no request; waiting: at acquire_owned().await; timedOut: its timeout
\* fired and the acquire future is being dropped; holding: check returned a
\* permit; streaming, hung: a PermitStream sends, or never sends again;
\* sending: an unshaped response is sent; rejected: the overflow reply is.
Places == {"idle", "waiting", "timedOut", "holding", "streaming", "hung",
           "sending", "rejected"}

TypeOK ==
  /\ over \in Overs
  /\ permits \in Nat
  /\ waiters \in Seq(Clients)
  /\ assigned \subseteq Clients
  /\ st \in [Clients -> Places]

Init ==
  /\ over \in Overs
  /\ permits = ConnMax
  /\ waiters = <<>>
  /\ assigned = {}
  /\ st = [c \in Clients |-> "idle"]

Goto(c, place) == st' = [st EXCEPT ![c] = place]

\* The requests that are being served under a permit of their own.
Served == {c \in Clients : st[c] \in {"holding", "streaming", "hung"}}

\* Who owns a permit: also the futures that have one and do not know yet.
Owners == Served \cup assigned

-----------------------------------------------------------------------------
(***************************************************************************)
(* The semaphore (tokio::sync::Semaphore, external).                       *)
(***************************************************************************)
MutantAcquiredUnchecked == permits' = permits - 1

Acquired == permits > 0 /\ permits' = permits - 1

\* The permit of c goes to the first waiter; it is free only if none waits.
GiveBack(c) ==
  IF waiters = <<>>
  THEN permits' = permits + 1 /\ assigned' = assigned \ {c} /\ UNCHANGED waiters
  ELSE /\ assigned' = (assigned \ {c}) \cup {Head(waiters)}
       /\ waiters' = Tail(waiters)
       /\ UNCHANGED permits

Position(c) == CHOOSE i \in DOMAIN waiters : waiters[i] = c

MutantDropLosesPermit(c) ==
  /\ waiters' = IF c \in assigned THEN waiters ELSE RemoveAt(waiters, Position(c))
  /\ assigned' = assigned \ {c}
  /\ UNCHANGED permits

MutantDropStaysQueued(c) ==
  IF c \in assigned THEN GiveBack(c) ELSE UNCHANGED <<permits, waiters, assigned>>

\* Dropping an acquire future: it leaves the queue, or gives back the permit
\* that reached it between its last poll and the drop.
DropAcquire(c) ==
  IF c \in assigned
  THEN GiveBack(c)
  ELSE waiters' = RemoveAt(waiters, Position(c)) /\ UNCHANGED <<permits, assigned>>

-----------------------------------------------------------------------------
(***************************************************************************)
(* BehaviorRuntime::check, its concurrency half.                           *)
(***************************************************************************)
MutantTryAcquireRefusesLast(c) ==
  /\ st[c] = "idle"
  /\ over = "reply"
  /\ \/ permits > 1 /\ permits' = permits - 1 /\ Goto(c, "holding")
     \/ permits <= 1 /\ UNCHANGED permits /\ Goto(c, "rejected")
  /\ UNCHANGED <<over, waiters, assigned>>

\* OverflowAction::Reply: try_acquire_owned.
TryAcquire(c) ==
  /\ st[c] = "idle"
  /\ over = "reply"
  /\ \/ Acquired /\ Goto(c, "holding")
     \/ permits = 0 /\ UNCHANGED permits /\ Goto(c, "rejected")
  /\ UNCHANGED <<over, waiters, assigned>>

\* OverflowAction::Block and BlockWithTimeout: the first poll of
\* acquire_owned() takes a free permit or queues the request.
Acquire(c) ==
  /\ st[c] = "idle"
  /\ over \in {"block", "blockWithTimeout"}
  /\ \/ Acquired /\ Goto(c, "holding") /\ UNCHANGED waiters
     \/ permits = 0 /\ waiters' = Append(waiters, c) /\ Goto(c, "waiting") /\ UNCHANGED permits
  /\ UNCHANGED <<over, assigned>>

MutantProceedUnassigned(c) ==
  /\ st[c] = "waiting"
  /\ Goto(c, "holding")
  /\ assigned' = assigned \ {c}
  /\ waiters' = IF c \in assigned THEN waiters ELSE RemoveAt(waiters, Position(c))
  /\ UNCHANGED <<over, permits>>

\* The waiting request is polled after a permit reached it.
Proceed(c) ==
  /\ st[c] = "waiting"
  /\ c \in assigned
  /\ Goto(c, "holding")
  /\ assigned' = assigned \ {c}
  /\ UNCHANGED <<over, permits, waiters>>

MutantTimeOutOtherArm(c) ==
  /\ st[c] = "waiting"
  /\ over = "block"
  /\ c \notin assigned
  /\ Goto(c, "timedOut")
  /\ UNCHANGED <<over, permits, waiters, assigned>>

\* tokio::time::timeout polls acquire_owned() first and its timer second:
\* a request that was given a permit before this poll does not time out ...
TimeOut(c) ==
  /\ st[c] = "waiting"
  /\ over = "blockWithTimeout"
  /\ c \notin assigned
  /\ Goto(c, "timedOut")
  /\ UNCHANGED <<over, permits, waiters, assigned>>

\* ... but one can reach it before the future is dropped.  The client gets
\* the `then` reply either way.
Reject(c) ==
  /\ st[c] = "timedOut"
  /\ DropAcquire(c)
  /\ Goto(c, "rejected")
  /\ UNCHANGED over

-----------------------------------------------------------------------------
(***************************************************************************)
(* resolve_and_deliver, build_delivery_response and PermitStream.          *)
(***************************************************************************)
\* An unshaped response gives the permit back before it is sent (as do the
\* early returns); a shaped one takes the permit into the body stream.
Deliver(c) ==
  /\ st[c] = "holding"
  /\ \/ /\ "default" \in Shapes
        /\ GiveBack(c)
        /\ Goto(c, "sending")
     \/ /\ "stream" \in Shapes
        /\ Goto(c, "streaming")
        /\ UNCHANGED <<permits, waiters, assigned>>
     \/ /\ "hang" \in Shapes
        /\ Goto(c, "hung")
        /\ UNCHANGED <<permits, waiters, assigned>>
  /\ UNCHANGED over

MutantStreamEndKeepsPermit(c) ==
  /\ st[c] = "streaming"
  /\ Goto(c, "idle")
  /\ UNCHANGED <<over, permits, waiters, assigned>>

\* The body is sent or dropped short: the stream ends and is dropped.  hyper
\* polls it only while the client reads, so this step may never come.
StreamEnds(c) ==
  /\ st[c] = "streaming"
  /\ GiveBack(c)
  /\ Goto(c, "idle")
  /\ UNCHANGED over

\* A response that owns no permit is sent.
Sent(c) ==
  /\ st[c] \in {"sending", "rejected"}
  /\ Goto(c, "idle")
  /\ UNCHANGED <<over, permits, waiters, assigned>>

\* The client goes away: hyper drops the handler or the body stream.
Disconnect(c) ==
  /\ \/ st[c] = "waiting" /\ DropAcquire(c)
     \/ st[c] \in {"streaming", "hung"} /\ GiveBack(c)
     \/ st[c] \in {"sending", "rejected"} /\ UNCHANGED <<permits, waiters, assigned>>
  /\ Goto(c, "idle")
  /\ UNCHANGED over

Next ==
  \E c \in Clients :
    \/ TryAcquire(c) \/ Acquire(c) \/ Proceed(c) \/ TimeOut(c) \/ Reject(c)
    \/ Deliver(c) \/ StreamEnds(c) \/ Sent(c) \/ Disconnect(c)

\* The runtime polls every task that is woken.  Nothing is said of clients: one
\* that stops reading is never sent the rest, and its stream is not polled.
ServerFairness ==
  \A c \in Clients : WF_vars(Proceed(c)) /\ WF_vars(Reject(c)) /\ WF_vars(Deliver(c))

\* Timers fire.
TimerFairness == \A c \in Clients : WF_vars(TimeOut(c))

Spec == Init /\ [][Next]_vars
FairSpec == Spec /\ ServerFairness /\ TimerFairness

-----------------------------------------------------------------------------
(***************************************************************************)
(* Properties.                                                             *)
(***************************************************************************)
\* No permit is lost or made up, whatever order a release, a grant, a
\* timeout and a disconnect come in (runtime.rs:86-106, PermitStream).
PermitsConserved == permits + Cardinality(Owners) = ConnMax

\* Nobody waits while a permit is free, and nobody who has one is queued:
\* the queue holds exactly the requests still without a permit, once each.
QueueExact ==
  /\ waiters # <<>> => permits = 0
  /\ \A c \in Clients :
       (\E i \in DOMAIN waiters : waiters[i] = c)
         <=> st[c] \in {"waiting", "timedOut"} /\ c \notin assigned
  /\ \A i, j \in DOMAIN waiters : waiters[i] = waiters[j] => i = j

\* A request is refused at once only when conn.max others own permits.
RefusedOnlyWhenFull ==
  [][\A c \in Clients :
       st[c] = "idle" /\ st'[c] = "rejected" => Cardinality(Owners) = ConnMax]_vars

\* With `block: <timeout>` every wait ends, even if all the permits are held
\* by responses that hang, or that nobody reads, for ever.
TimedWaitsEnd ==
  \A c \in Clients :
    st[c] = "waiting" /\ over = "blockWithTimeout" ~> st[c] # "waiting"

\* With `over: block` every request that waits is served in the end, however
\* many others keep arriving, if no client keeps a response open for ever: each
\* reads its body to the end, or goes away.
WaitersServed ==
  (\A h \in Clients : []<>(st[h] \notin {"streaming", "hung"})) =>
    \A c \in Clients :
      st[c] = "waiting" /\ over = "block" ~> st[c] \in {"holding", "idle"}

\* The limit as its users see it: ConnLimit, with the requests being served.
Limit == INSTANCE ConnLimit WITH holders <- Served

\* At most conn.max requests are served at once, and they come and go singly.
ImplementsConnLimit == Limit!Spec

=============================================================================
