------------------------------ MODULE Registry ------------------------------
(***************************************************************************)
(* The shared application state of mockinx (src/server.rs, src/store.rs):  *)
(* the rule list, the behaviour runtimes and CRUD stores that belong to    *)
(* the rules, the counter that numbers them, and the two locks             *)
(* register_rules holds.  Admin handlers (POST and PUT /_mx) and request   *)
(* handlers run concurrently on the tokio thread pool; a step of this      *)
(* module is what one of them does between two points at which another can *)
(* observe or change the shared state.                                     *)
(*                                                                         *)
(* A runtime and a CRUD store are named by the rule entry they were        *)
(* created for, so "the runtime of this rule" is an equality.  The names   *)
(* MutantXxx are faulty variants of the definition that follows them; no   *)
(* specification uses them.                                                *)
(***************************************************************************)
EXTENDS Naturals, Sequences

CONSTANTS
  Admins,    \* threads that serve POST and PUT /_mx
  Requests,  \* threads that serve the other requests
  Rules,     \* what a posted rule says: its matcher, reply, serve and chaos
  Crud,      \* the rules whose reply is crud!
  Batches,   \* the rule lists clients send, as sequences of rules
  Targets,   \* what a request asks for, as the set of rules it satisfies
  MaxOps,    \* bound on the number of admin requests
  Methods,   \* the admin requests clients send, of "POST" and "PUT"
  Nil        \* no rule entry, no store; no runtime, or the one without limits
             \* that pads the runtime table: a request is not held up by either

(***************************************************************************)
(* RuleEntry: the rule, its index in the runtime and CRUD tables, and the  *)
(* admin request that created it (which is what tells two Arcs apart).     *)
(***************************************************************************)
Entry == [rule : Rules, index : Nat, batch : Nat]

ASSUME ConstantsAssumption ==
  /\ Crud \subseteq Rules
  /\ Batches \subseteq Seq(Rules)
  /\ MaxOps \in Nat
  /\ Methods \subseteq {"POST", "PUT"}

ASSUME NilAssumption ==
  /\ Nil \notin Entry
  /\ Nil \notin Admins

VARIABLES
  entries,       \* RuleStore.entries, oldest first
  runtimes,      \* AppState.runtimes: index -> runtime, a prefix 0 .. len-1
  crudStores,    \* AppState.crud_stores: index -> store
  stubCounter,   \* AppState.stub_counter
  torn,          \* history: a PUT cleared across a registration (below)
  runtimesLock,  \* the admin that holds runtimes.write(), or Nil
  crudLock,      \* the admin that holds crud_stores.write(), or Nil
  pc,            \* where each admin handler stands
  todo,          \* the rules its loop has still to register
  next,          \* the index its next rule gets
  serial,        \* the number of the admin request it serves
  nextSerial,    \* the number of the next admin request
  req            \* the request handlers: place, matched entry, what it got

tables == <<entries, runtimes, crudStores, stubCounter, torn>>
locks == <<runtimesLock, crudLock>>
admins == <<pc, todo, next, serial, nextSerial>>
vars == <<tables, locks, admins, req>>

\* The points of clear_all a PUT passes through before it registers.
Cleared == {"clearRuntimes", "clearCrud", "resetCounter"}
Clearing == {"clearEntries"} \cup Cleared

\* The points at which register_rules holds the runtimes lock, or both.
HoldsRuntimes == {"lockCrud", "reserve", "add"}
HoldsCrud == {"reserve", "add"}

AdminPlaces == {"idle", "lockRuntimes"} \cup Clearing \cup HoldsRuntimes

RequestPlaces == {"idle", "matched", "gated", "resolved"}

TypeOK ==
  /\ entries \in Seq(Entry)
  /\ DOMAIN runtimes \subseteq Nat
  /\ \A i \in DOMAIN runtimes : runtimes[i] \in Entry \cup {Nil}
  /\ DOMAIN crudStores \subseteq Nat
  /\ \A i \in DOMAIN crudStores : crudStores[i] \in Entry /\ crudStores[i].rule \in Crud
  /\ stubCounter \in Nat
  /\ torn \in BOOLEAN
  /\ runtimesLock \in Admins \cup {Nil}
  /\ crudLock \in Admins \cup {Nil}
  /\ pc \in [Admins -> AdminPlaces]
  /\ todo \in [Admins -> Seq(Rules)]
  /\ next \in [Admins -> Nat]
  /\ serial \in [Admins -> Nat]
  /\ nextSerial \in Nat
  /\ req \in [Requests -> [at : RequestPlaces, entry : Entry \cup {Nil},
                           runtime : Entry \cup {Nil}, store : Entry \cup {Nil}]]

\* AppState::new, before main loads the configuration file.  Loading it is
\* one more POST that no request overlaps.
Init ==
  /\ entries = <<>>
  /\ runtimes = [i \in {} |-> Nil]
  /\ crudStores = [i \in {} |-> Nil]
  /\ stubCounter = 0
  /\ torn = FALSE
  /\ runtimesLock = Nil
  /\ crudLock = Nil
  /\ pc = [a \in Admins |-> "idle"]
  /\ todo = [a \in Admins |-> <<>>]
  /\ next = [a \in Admins |-> 0]
  /\ serial = [a \in Admins |-> 0]
  /\ nextSerial = 1
  /\ req = [r \in Requests |->
              [at |-> "idle", entry |-> Nil, runtime |-> Nil, store |-> Nil]]

-----------------------------------------------------------------------------
(***************************************************************************)
(* The admin handlers.  A body that does not parse is answered 400 before  *)
(* anything shared is touched: no step.  Validation only reads the rules.  *)
(***************************************************************************)
Goto(a, place) == pc' = [pc EXCEPT ![a] = place]

Receive(a, b, place) ==
  /\ pc[a] = "idle"
  /\ nextSerial <= MaxOps
  /\ todo' = [todo EXCEPT ![a] = b]
  /\ serial' = [serial EXCEPT ![a] = nextSerial]
  /\ nextSerial' = nextSerial + 1
  /\ Goto(a, place)
  /\ UNCHANGED <<tables, locks, next, req>>

\* handle_append_rules: register_rules.
Post(a, b) ==
  /\ "POST" \in Methods
  /\ Receive(a, b, "lockRuntimes")

\* handle_replace_rules: clear_all, then register_rules.
Put(a, b) ==
  /\ "PUT" \in Methods
  /\ Receive(a, b, "clearEntries")

(***************************************************************************)
(* clear_all, one statement at a time: nothing is held from one to the     *)
(* next, and RuleStore::clear takes none of the locks register_rules       *)
(* holds.  A registration that overlaps it can number its rules from a     *)
(* counter that belongs to the list just cleared, or lose the rules it has *)
(* listed: from then on the list is torn, until a PUT resets the counter   *)
(* of an empty list with no registration half done.                        *)
(***************************************************************************)
ClearEntries(a) ==
  /\ pc[a] = "clearEntries"
  /\ entries' = <<>>
  /\ torn' = (torn \/ \E o \in Admins : pc[o] = "add")
  /\ Goto(a, "clearRuntimes")
  /\ UNCHANGED <<runtimes, crudStores, stubCounter, locks, todo, next, serial, nextSerial, req>>

ClearRuntimes(a) ==
  /\ pc[a] = "clearRuntimes"
  /\ runtimesLock = Nil
  /\ runtimes' = [i \in {} |-> Nil]
  /\ Goto(a, "clearCrud")
  /\ UNCHANGED <<entries, crudStores, stubCounter, torn, locks, todo, next, serial, nextSerial, req>>

ClearCrud(a) ==
  /\ pc[a] = "clearCrud"
  /\ crudLock = Nil
  /\ crudStores' = [i \in {} |-> Nil]
  /\ Goto(a, "resetCounter")
  /\ UNCHANGED <<entries, runtimes, stubCounter, torn, locks, todo, next, serial, nextSerial, req>>

MutantResetForgotten(a) ==
  /\ pc[a] = "resetCounter"
  /\ Goto(a, "lockRuntimes")
  /\ UNCHANGED <<tables, locks, todo, next, serial, nextSerial, req>>

\* The counter is an atomic: no lock is needed to store it.
ResetCounter(a) ==
  /\ pc[a] = "resetCounter"
  /\ stubCounter' = 0
  /\ torn' = (torn /\ (entries # <<>> \/ \E o \in Admins : pc[o] = "add"))
  /\ Goto(a, "lockRuntimes")
  /\ UNCHANGED <<entries, runtimes, crudStores, locks, todo, next, serial, nextSerial, req>>

\* register_rules takes both write locks, always in this order, and keeps
\* them until it returns.
LockRuntimes(a) ==
  /\ pc[a] = "lockRuntimes"
  /\ runtimesLock = Nil
  /\ runtimesLock' = a
  /\ Goto(a, "lockCrud")
  /\ UNCHANGED <<tables, crudLock, todo, next, serial, nextSerial, req>>

MutantLocksNotKept(a) ==
  /\ pc[a] = "lockCrud"
  /\ crudLock = Nil
  /\ runtimesLock' = Nil
  /\ Goto(a, "reserve")
  /\ UNCHANGED <<tables, crudLock, todo, next, serial, nextSerial, req>>

LockCrud(a) ==
  /\ pc[a] = "lockCrud"
  /\ crudLock = Nil
  /\ crudLock' = a
  /\ Goto(a, "reserve")
  /\ UNCHANGED <<tables, runtimesLock, todo, next, serial, nextSerial, req>>

MutantReserveNothing(a) ==
  /\ pc[a] = "reserve"
  /\ next' = [next EXCEPT ![a] = stubCounter]
  /\ Goto(a, "add")
  /\ UNCHANGED <<tables, locks, todo, serial, nextSerial, req>>

\* stub_counter.fetch_add(rules.len()).
Reserve(a) ==
  /\ pc[a] = "reserve"
  /\ next' = [next EXCEPT ![a] = stubCounter]
  /\ stubCounter' = stubCounter + Len(todo[a])
  /\ torn' = (torn \/ \E o \in Admins : pc[o] \in Cleared)
  /\ Goto(a, "add")
  /\ UNCHANGED <<entries, runtimes, crudStores, locks, todo, serial, nextSerial, req>>

\* The runtime table with e's runtime in its place, padded up to it.
WithRuntime(e) ==
  [i \in DOMAIN runtimes \cup 0 .. e.index |->
     IF i = e.index THEN e ELSE IF i \in DOMAIN runtimes THEN runtimes[i] ELSE Nil]

MutantCrudForEvery(e) ==
  [i \in DOMAIN crudStores \cup {e.index} |->
     IF i = e.index THEN e ELSE crudStores[i]]

\* The store table, with one for e if its reply is crud!.
WithStore(e) ==
  IF e.rule \in Crud
  THEN [i \in DOMAIN crudStores \cup {e.index} |->
          IF i = e.index THEN e ELSE crudStores[i]]
  ELSE crudStores

\* One turn of the loop of register_rules.  The two tables are locked, so
\* only the push of the entry, its last statement, can be observed.
AddRule(a) ==
  LET e == [rule |-> Head(todo[a]), index |-> next[a], batch |-> serial[a]] IN
  /\ pc[a] = "add"
  /\ todo[a] # <<>>
  /\ runtimes' = WithRuntime(e)
  /\ crudStores' = WithStore(e)
  /\ entries' = Append(entries, e)
  /\ todo' = [todo EXCEPT ![a] = Tail(@)]
  /\ next' = [next EXCEPT ![a] = @ + 1]
  /\ UNCHANGED <<stubCounter, torn, locks, pc, serial, nextSerial, req>>

MutantKeepCrudLock(a) ==
  /\ pc[a] = "add"
  /\ todo[a] = <<>>
  /\ runtimesLock' = Nil
  /\ Goto(a, "idle")
  /\ UNCHANGED <<tables, crudLock, todo, next, serial, nextSerial, req>>

\* register_rules returns: both guards are dropped, the client is answered.
Return(a) ==
  /\ pc[a] = "add"
  /\ todo[a] = <<>>
  /\ runtimesLock' = Nil
  /\ crudLock' = Nil
  /\ Goto(a, "idle")
  /\ UNCHANGED <<tables, todo, next, serial, nextSerial, req>>

AdminStep(a) ==
  \/ ClearEntries(a) \/ ClearRuntimes(a) \/ ClearCrud(a) \/ ResetCounter(a)
  \/ LockRuntimes(a) \/ LockCrud(a) \/ Reserve(a) \/ AddRule(a) \/ Return(a)

-----------------------------------------------------------------------------
(***************************************************************************)
(* The request handlers, as far as they read the shared state.  A request  *)
(* keeps the matched entry alive by its Arc and looks its index up later,  *)
(* when the entry may have been replaced.                                  *)
(***************************************************************************)
\* RuleStore::match_request: the newest entry the request satisfies.  With
\* none, the answer is 404 and the handler is idle again.
MatchRequest(r, target) ==
  /\ req[r].at = "idle"
  /\ \E i \in DOMAIN entries :
       /\ entries[i].rule \in target
       /\ \A j \in DOMAIN entries : entries[j].rule \in target => j <= i
       /\ req' = [req EXCEPT ![r] = [at |-> "matched", entry |-> entries[i],
                                     runtime |-> Nil, store |-> Nil]]
  /\ UNCHANGED <<tables, locks, admins>>

\* get_runtime(stub_idx): waits for register_rules to let the table go.
GetRuntime(r) ==
  LET e == req[r].entry
      found == IF e.index \in DOMAIN runtimes THEN runtimes[e.index] ELSE Nil
  IN /\ req[r].at = "matched"
     /\ runtimesLock = Nil
     /\ req' = [req EXCEPT ![r] = [at |-> "gated", entry |-> e,
                                   runtime |-> found, store |-> Nil]]
     /\ UNCHANGED <<tables, locks, admins>>

\* BehaviorRuntime::check, which may take any time, and resolve_and_deliver
\* up to the reply: a CRUD rule reads get_crud_store(stub_idx) and answers
\* 500 if there is none.
Resolve(r) ==
  LET e == req[r].entry
      found == IF e.rule \in Crud /\ e.index \in DOMAIN crudStores
               THEN crudStores[e.index] ELSE Nil
  IN /\ req[r].at = "gated"
     /\ e.rule \in Crud => crudLock = Nil
     /\ req' = [req EXCEPT ![r] = [at |-> "resolved", entry |-> e,
                                   runtime |-> req[r].runtime, store |-> found]]
     /\ UNCHANGED <<tables, locks, admins>>

\* The response is delivered, or check rejected the request: either way the
\* handler drops its entry.
Finish(r) ==
  /\ req[r].at \in {"gated", "resolved"}
  /\ req' = [req EXCEPT ![r] = [at |-> "idle", entry |-> Nil,
                                runtime |-> Nil, store |-> Nil]]
  /\ UNCHANGED <<tables, locks, admins>>

RequestStep(r) == GetRuntime(r) \/ Resolve(r) \/ Finish(r)

Next ==
  \/ \E a \in Admins : \/ \E b \in Batches : Post(a, b) \/ Put(a, b)
                       \/ AdminStep(a)
  \/ \E r \in Requests : \/ \E target \in Targets : MatchRequest(r, target)
                         \/ RequestStep(r)

\* Handlers run to completion; clients need not send anything.
Fairness ==
  /\ \A a \in Admins : WF_vars(AdminStep(a))
  /\ \A r \in Requests : WF_vars(RequestStep(r))

Spec == Init /\ [][Next]_vars
FairSpec == Spec /\ Fairness

-----------------------------------------------------------------------------
(***************************************************************************)
(* Properties.                                                             *)
(***************************************************************************)

\* An entry's index is its position in the rule list, unless the list is
\* torn: admin requests that overlap share the counter, the list and the
\* tables, and no index is skipped, repeated or handed out of order
\* (register_rules holds both locks across its whole loop; clear_all resets
\* the counter last).
IndexIsPosition ==
  ~torn => \A i \in DOMAIN entries : entries[i].index = i - 1

\* The rule has its own runtime and, if its reply is crud!, its own store.
HasOwnState(e) ==
  /\ e.index \in DOMAIN runtimes /\ runtimes[e.index] = e
  /\ e.rule \in Crud => e.index \in DOMAIN crudStores /\ crudStores[e.index] = e

\* Every listed rule has its own runtime and store under its index, unless
\* the list is torn: a request that can match a rule never finds the tables
\* behind the rule list, whatever POSTs overlap and also while a PUT that no
\* registration overlaps clears list and tables one after the other.
OwnState ==
  ~torn => \A i \in DOMAIN entries : HasOwnState(entries[i])

\* What a request found for a rule: its own runtime and its own store.
UsesOwnState(r) ==
  LET q == req[r] IN
  /\ q.at \in {"gated", "resolved"} => q.runtime = q.entry
  /\ q.at = "resolved" /\ q.entry.rule \in Crud => q.store = q.entry

\* A request whose rule is still listed is limited by that rule's runtime
\* and answered from that rule's store, although it reads the rule, the
\* runtime and the store in three steps with registrations between them (so
\* every request is, while no client sends a PUT), unless the list is torn.
LiveRuleUsesOwnState ==
  ~torn => \A r \in Requests :
    (\E i \in DOMAIN entries : entries[i] = req[r].entry) => UsesOwnState(r)

\* "Per-rule behavior runtimes, keyed by rule index" and "Per-rule CRUD
\* stores": a request never uses the runtime or the store of another rule,
\* even if its own rule was replaced while it was served.
NeverForeignState ==
  \A r \in Requests : /\ req[r].runtime \in {Nil, req[r].entry}
                       /\ req[r].store \in {Nil, req[r].entry}

\* "PUT - replace all rules (atomic reset + load)", where every list sent
\* has a rule: once some list is loaded, the list is never empty.
RulesNeverVanish ==
  (\E n \in 1 .. nextSerial - 1 : \A a \in Admins : serial[a] = n => pc[a] = "idle")
    => entries # <<>>

\* Every request ends: an admin request is answered and a matched one gets
\* past the tables, although registrations hold two locks and take a third;
\* the locks are taken in one order and given back, whatever the
\* interleaving of the handlers.
RequestsEnd ==
  /\ \A a \in Admins : pc[a] # "idle" ~> pc[a] = "idle"
  /\ \A r \in Requests : req[r].at = "matched" ~> req[r].at = "idle"

-----------------------------------------------------------------------------
(***************************************************************************)
(* Why they hold: the strengthening the proofs use.                        *)
(***************************************************************************)
\* A lock is held exactly by the handler that stands between its two ends.
LocksHeld ==
  \A a \in Admins : /\ pc[a] \in HoldsRuntimes <=> runtimesLock = a
                    /\ pc[a] \in HoldsCrud <=> crudLock = a

\* What overlaps tear the list: none is under way while it is not torn.
NoOverlap ==
  \A a, o \in Admins : pc[a] = "add" => pc[o] \notin Cleared

\* The handlers between which the counter and the list disagree.
Unsettled == {a \in Admins : pc[a] \in Cleared \cup {"add"}}

\* The counter is ahead of the list by the rules a handler has reserved
\* indexes for, and stale only until clear_all resets it.
CounterAgrees ==
  /\ \A a \in Admins : pc[a] = "add" =>
       /\ next[a] = Len(entries)
       /\ stubCounter = Len(entries) + Len(todo[a])
  /\ \A a \in Admins : pc[a] \in Cleared => entries = <<>>
  /\ Unsettled = {} => stubCounter = Len(entries)

CounterIntact == ~torn => NoOverlap /\ CounterAgrees

\* No two admin requests have the same number, and an entry with the number
\* of one under way was added by it, at an index it has gone past.
NumbersFresh ==
  /\ \A a \in Admins : serial[a] < nextSerial
  /\ \A a, o \in Admins : pc[a] # "idle" /\ o # a => serial[o] # serial[a]
  /\ \A r \in Requests :
       req[r].entry # Nil =>
         /\ req[r].entry.batch < nextSerial
         /\ \A a \in Admins :
              pc[a] # "idle" /\ req[r].entry.batch = serial[a] =>
                pc[a] = "add" /\ req[r].entry.index < next[a]
  /\ \A i \in DOMAIN entries :
       /\ entries[i].batch < nextSerial
       /\ \A a \in Admins :
            pc[a] # "idle" /\ entries[i].batch = serial[a] =>
              pc[a] = "add" /\ entries[i].index < next[a]

\* What a registration has added is the end of the list, and with what it has
\* still to add it is the batch the client sent.
PartlyAdded(a) ==
  \E b \in Batches, s \in 0 .. Len(entries) :
    /\ \A i \in DOMAIN entries : entries[i].batch = serial[a] <=> i > s
    /\ s + Len(b) = Len(entries) + Len(todo[a])
    /\ \A i \in DOMAIN b :
         b[i] = IF s + i <= Len(entries) THEN entries[s + i].rule
                ELSE todo[a][s + i - Len(entries)]

BatchWhole(a) ==
  /\ pc[a] \notin {"idle", "add"} => todo[a] \in Batches
  /\ pc[a] = "add" /\ ~torn => PartlyAdded(a)

BatchesWhole == \A a \in Admins : BatchWhole(a)

-----------------------------------------------------------------------------
(***************************************************************************)
(* What the rule list promises its clients: RuleLog, whose list grows by   *)
(* whole batches.  The rules of a registration under way do not count yet, *)
(* nor does what comes after them; a torn list promises nothing, as if it  *)
(* were reset.                                                             *)
(***************************************************************************)
UnderWay == {serial[a] : a \in {o \in Admins : pc[o] # "idle"}}

Settled == {i \in DOMAIN entries : \A j \in 1 .. i : entries[j].batch \notin UnderWay}

RulesOf(S) == [i \in S |-> entries[i].rule]

Committed == RulesOf(IF torn THEN {} ELSE Settled)

Log == INSTANCE RuleLog WITH log <- Committed

\* The rule list is a sequence of whole batches: overlapping POSTs never mix
\* their rules, and a PUT resets the list and then loads one batch.  A list
\* that is torn is as good as empty until a PUT resets it.
ImplementsRuleLog == Log!Spec

=============================================================================
