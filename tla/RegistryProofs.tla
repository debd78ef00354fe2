--------------------------- MODULE RegistryProofs ---------------------------
(***************************************************************************)
(* Theorems about Registry, for any number of admin and request handlers,  *)
(* any rules and any batches, whatever admin requests overlap: the type    *)
(* invariant, the locks, and, while the list is not torn, that the rule    *)
(* list, its indexes and the tables agree and batches stay whole.          *)
(***************************************************************************)
EXTENDS Registry, SequenceTheorems, TLAPS

\* The actions, for the proofs that treat each on its own.
LEMMA NextCases ==
  ASSUME NEW P,
         \A a \in Admins, b \in Batches : Post(a, b) => P,
         \A a \in Admins, b \in Batches : Put(a, b) => P,
         \A a \in Admins : ClearEntries(a) => P,
         \A a \in Admins : ClearRuntimes(a) => P,
         \A a \in Admins : ClearCrud(a) => P,
         \A a \in Admins : ResetCounter(a) => P,
         \A a \in Admins : LockRuntimes(a) => P,
         \A a \in Admins : LockCrud(a) => P,
         \A a \in Admins : Reserve(a) => P,
         \A a \in Admins : AddRule(a) => P,
         \A a \in Admins : Return(a) => P,
         \A r \in Requests, t \in Targets : MatchRequest(r, t) => P,
         \A r \in Requests : GetRuntime(r) => P,
         \A r \in Requests : Resolve(r) => P,
         \A r \in Requests : Finish(r) => P,
         UNCHANGED vars => P
  PROVE  [Next]_vars => P
  BY DEF Next, AdminStep, RequestStep

\* Every place a handler can stand at.
LEMMA Places == /\ "lockRuntimes" \in AdminPlaces
                /\ "clearEntries" \in AdminPlaces
                /\ "idle" \in AdminPlaces
                /\ "lockCrud" \in AdminPlaces
                /\ "clearRuntimes" \in AdminPlaces
                /\ "clearCrud" \in AdminPlaces
                /\ "resetCounter" \in AdminPlaces
                /\ "reserve" \in AdminPlaces
                /\ "add" \in AdminPlaces
  BY DEF AdminPlaces, Clearing, Cleared, HoldsRuntimes

\* The request records, by field.
LEMMA RequestType ==
  ASSUME NEW s \in [at : RequestPlaces, entry : Entry \cup {Nil},
                    runtime : Entry \cup {Nil}, store : Entry \cup {Nil}]
  PROVE /\ s.at \in RequestPlaces
        /\ s.entry \in Entry \cup {Nil}
        /\ s.runtime \in Entry \cup {Nil}
        /\ s.store \in Entry \cup {Nil}
  OBVIOUS

\* Receiving an admin request keeps the types.
LEMMA ReceiveTyped ==
  ASSUME TypeOK, NEW a \in Admins, NEW b \in Batches, NEW place \in AdminPlaces,
         Receive(a, b, place)
  PROVE  TypeOK'
<1>1. todo' \in [Admins -> Seq(Rules)]
  BY ConstantsAssumption DEF Receive, TypeOK
<1>2. serial' \in [Admins -> Nat] /\ nextSerial' \in Nat
  BY DEF Receive, TypeOK
<1>3. pc' \in [Admins -> AdminPlaces]
  BY DEF Receive, Goto, TypeOK
<1> QED BY <1>1, <1>2, <1>3 DEF Receive, TypeOK, tables, locks

\* Types: the variables keep their types, the runtime table has no key but
\* numbers, and only rules with a crud! reply own a store.
THEOREM TypeCorrect == Spec => []TypeOK
<1>1. Init => TypeOK
  <2> SUFFICES ASSUME Init PROVE TypeOK
    OBVIOUS
  <2>1. torn \in BOOLEAN
    BY DEF Init
  <2> QED BY <2>1, ConstantsAssumption DEF Init, TypeOK, AdminPlaces, RequestPlaces
<1>2. TypeOK /\ [Next]_vars => TypeOK'
  <2> SUFFICES ASSUME TypeOK PROVE [Next]_vars => TypeOK'
    OBVIOUS
  <2>1. \A a \in Admins, b \in Batches : Post(a, b) => TypeOK'
    BY Places, ReceiveTyped DEF Post
  <2>2. \A a \in Admins, b \in Batches : Put(a, b) => TypeOK'
    BY Places, ReceiveTyped DEF Put
  <2>3. \A a \in Admins : ClearEntries(a) => TypeOK'
    BY Places DEF ClearEntries, Goto, TypeOK, locks
  <2>4. \A a \in Admins : ClearRuntimes(a) => TypeOK'
    BY Places DEF ClearRuntimes, Goto, TypeOK, locks
  <2>5. \A a \in Admins : ClearCrud(a) => TypeOK'
    BY Places DEF ClearCrud, Goto, TypeOK, locks
  <2>6. \A a \in Admins : ResetCounter(a) => TypeOK'
    BY Places DEF ResetCounter, Goto, TypeOK, locks
  <2>7. \A a \in Admins : LockRuntimes(a) => TypeOK'
    BY Places DEF LockRuntimes, Goto, TypeOK, tables
  <2>8. \A a \in Admins : LockCrud(a) => TypeOK'
    BY Places DEF LockCrud, Goto, TypeOK, tables
  <2>9. \A a \in Admins : Reserve(a) => TypeOK'
    <3> SUFFICES ASSUME NEW a \in Admins, Reserve(a) PROVE TypeOK'
      OBVIOUS
    <3>1. torn' \in BOOLEAN
      BY DEF Reserve
    <3> QED BY <3>1, Places, SMTT(30) DEF Reserve, Goto, TypeOK, locks
  <2>10. \A a \in Admins : AddRule(a) => TypeOK'
    <3> SUFFICES ASSUME NEW a \in Admins, AddRule(a) PROVE TypeOK'
      OBVIOUS
    <3> DEFINE e == [rule |-> Head(todo[a]), index |-> next[a], batch |-> serial[a]]
    <3>1. todo[a] \in Seq(Rules) /\ todo[a] # <<>>
      BY DEF AddRule, TypeOK
    <3>2. Head(todo[a]) \in Rules /\ Tail(todo[a]) \in Seq(Rules)
      BY <3>1
    <3>3. e \in Entry /\ e.index \in Nat
      BY <3>2 DEF Entry, TypeOK
    <3> HIDE DEF e
    <3>4. runtimes' = WithRuntime(e) /\ crudStores' = WithStore(e) /\ entries' = Append(entries, e)
      BY DEF AddRule, e
    <3>5. DOMAIN runtimes' \subseteq Nat /\ \A i \in DOMAIN runtimes' : runtimes'[i] \in Entry \cup {Nil}
      BY <3>3, <3>4 DEF WithRuntime, TypeOK
    <3>6. /\ DOMAIN crudStores' \subseteq Nat
          /\ \A i \in DOMAIN crudStores' : crudStores'[i] \in Entry /\ crudStores'[i].rule \in Crud
      BY <3>3, <3>4 DEF WithStore, TypeOK
    <3>7. entries' \in Seq(Entry)
      BY <3>3, <3>4 DEF TypeOK
    <3>8. todo' \in [Admins -> Seq(Rules)] /\ next' \in [Admins -> Nat]
      BY <3>2 DEF AddRule, TypeOK
    <3>9. QED
      BY <3>5, <3>6, <3>7, <3>8 DEF AddRule, TypeOK, locks
  <2>11. \A a \in Admins : Return(a) => TypeOK'
    BY Places DEF Return, Goto, TypeOK, tables
  <2>12. \A r \in Requests, t \in Targets : MatchRequest(r, t) => TypeOK'
    <3> SUFFICES ASSUME NEW r \in Requests, NEW t \in Targets, MatchRequest(r, t)
                 PROVE TypeOK'
      OBVIOUS
    <3>1. PICK i \in DOMAIN entries :
            req' = [req EXCEPT ![r] = [at |-> "matched", entry |-> entries[i],
                                       runtime |-> Nil, store |-> Nil]]
      BY DEF MatchRequest
    <3>2. entries[i] \in Entry
      BY DEF TypeOK
    <3>3. req' \in [Requests -> [at : RequestPlaces, entry : Entry \cup {Nil},
                                runtime : Entry \cup {Nil}, store : Entry \cup {Nil}]]
      BY <3>1, <3>2 DEF TypeOK, RequestPlaces
    <3>4. QED
      BY <3>3 DEF MatchRequest, TypeOK, tables, locks, admins
  <2>13. \A r \in Requests : GetRuntime(r) => TypeOK'
    <3> SUFFICES ASSUME NEW r \in Requests, GetRuntime(r) PROVE TypeOK'
      OBVIOUS
    <3>1. req[r].entry \in Entry \cup {Nil} /\ req[r].runtime \in Entry \cup {Nil}
      BY DEF TypeOK
    <3>2. req' \in [Requests -> [at : RequestPlaces, entry : Entry \cup {Nil},
                                runtime : Entry \cup {Nil}, store : Entry \cup {Nil}]]
      BY <3>1 DEF GetRuntime, TypeOK, RequestPlaces
    <3>3. QED
      BY <3>2 DEF GetRuntime, TypeOK, tables, locks, admins
  <2>14. \A r \in Requests : Resolve(r) => TypeOK'
    <3> SUFFICES ASSUME NEW r \in Requests, Resolve(r) PROVE TypeOK'
      OBVIOUS
    <3>1. req[r].entry \in Entry \cup {Nil} /\ req[r].runtime \in Entry \cup {Nil}
      BY DEF TypeOK
    <3>2. req' \in [Requests -> [at : RequestPlaces, entry : Entry \cup {Nil},
                                runtime : Entry \cup {Nil}, store : Entry \cup {Nil}]]
      BY <3>1 DEF Resolve, TypeOK, RequestPlaces
    <3>3. QED
      BY <3>2 DEF Resolve, TypeOK, tables, locks, admins
  <2>15. \A r \in Requests : Finish(r) => TypeOK'
    BY DEF Finish, TypeOK, tables, locks, admins, RequestPlaces
  <2>16. UNCHANGED vars => TypeOK'
    BY DEF TypeOK, vars, tables, locks, admins
  <2>17. QED
    BY <2>1, <2>2, <2>3, <2>4, <2>5, <2>6, <2>7, <2>8, <2>9, <2>10,
       <2>11, <2>12, <2>13, <2>14, <2>15, <2>16, NextCases
<1>3. QED
  BY <1>1, <1>2, PTL DEF Spec

-----------------------------------------------------------------------------
(***************************************************************************)
(* Locks.  No hypothesis on the clients is needed.                         *)
(***************************************************************************)
\* The two write locks are held exactly between the points at which
\* register_rules takes and drops them, so at most one handler is inside.
THEOREM LocksCorrect == Spec => []LocksHeld
<1>1. Init => LocksHeld
  <2> SUFFICES ASSUME Init, NEW a \in Admins
               PROVE  /\ pc[a] \in HoldsRuntimes <=> runtimesLock = a
                      /\ pc[a] \in HoldsCrud <=> crudLock = a
    BY DEF LocksHeld
  <2>1. pc[a] = "idle" /\ runtimesLock = Nil /\ crudLock = Nil
    BY DEF Init
  <2>2. a # Nil
    BY NilAssumption
  <2>3. QED
    BY <2>1, <2>2 DEF HoldsRuntimes, HoldsCrud
<1>2. TypeOK /\ LocksHeld /\ [Next]_vars => LocksHeld'
  <2> SUFFICES ASSUME TypeOK, LocksHeld PROVE [Next]_vars => LocksHeld'
    OBVIOUS
  <2> USE NilAssumption DEF LocksHeld, HoldsRuntimes, HoldsCrud, Goto, TypeOK
  <2>1. \A a \in Admins, b \in Batches : Post(a, b) => LocksHeld'
    BY DEF Post, Receive, locks
  <2>2. \A a \in Admins, b \in Batches : Put(a, b) => LocksHeld'
    BY DEF Put, Receive, locks
  <2>3. \A a \in Admins : ClearEntries(a) => LocksHeld'
    BY DEF ClearEntries, locks
  <2>4. \A a \in Admins : ClearRuntimes(a) => LocksHeld'
    BY DEF ClearRuntimes, locks
  <2>5. \A a \in Admins : ClearCrud(a) => LocksHeld'
    BY DEF ClearCrud, locks
  <2>6. \A a \in Admins : ResetCounter(a) => LocksHeld'
    BY DEF ResetCounter, locks
  <2>7. \A a \in Admins : LockRuntimes(a) => LocksHeld'
    BY DEF LockRuntimes
  <2>8. \A a \in Admins : LockCrud(a) => LocksHeld'
    BY DEF LockCrud
  <2>9. \A a \in Admins : Reserve(a) => LocksHeld'
    BY DEF Reserve, locks
  <2>10. \A a \in Admins : AddRule(a) => LocksHeld'
    BY DEF AddRule, locks
  <2>11. \A a \in Admins : Return(a) => LocksHeld'
    BY DEF Return
  <2>12. \A r \in Requests, t \in Targets : MatchRequest(r, t) => LocksHeld'
    BY DEF MatchRequest, locks, admins
  <2>13. \A r \in Requests : GetRuntime(r) => LocksHeld'
    BY DEF GetRuntime, locks, admins
  <2>14. \A r \in Requests : Resolve(r) => LocksHeld'
    BY DEF Resolve, locks, admins
  <2>15. \A r \in Requests : Finish(r) => LocksHeld'
    BY DEF Finish, locks, admins
  <2>16. UNCHANGED vars => LocksHeld'
    BY DEF vars, locks, admins
  <2>17. QED
    BY <2>1, <2>2, <2>3, <2>4, <2>5, <2>6, <2>7, <2>8, <2>9, <2>10,
       <2>11, <2>12, <2>13, <2>14, <2>15, <2>16, NextCases
<1>3. QED
  BY <1>1, <1>2, TypeCorrect, PTL DEF Spec

-----------------------------------------------------------------------------
(***************************************************************************)
(* The counter and the indexes.                                            *)
(***************************************************************************)
\* The handler that is inside register_rules is the only one there.
LEMMA InsideAlone ==
  ASSUME TypeOK, LocksHeld, NEW a \in Admins, pc[a] \in HoldsCrud
  PROVE  \A o \in Admins : o # a => pc[o] \notin HoldsCrud
  BY DEF LocksHeld, HoldsCrud

Positions == \A i \in DOMAIN entries : entries[i].index = i - 1

Intact == NoOverlap /\ CounterAgrees /\ Positions

Index == ~torn => Intact

\* Indexes are handed out in list order, without gap or repeat, and the
\* counter equals the length of the list whenever nobody is clearing or adding,
\* unless a PUT and a registration tore the list (register_rules and
\* clear_all, src/server.rs).
THEOREM IndexCorrect == Spec => []IndexIsPosition /\ []CounterIntact
<1>1. Init => Index
  BY DEF Init, Index, Intact, NoOverlap, CounterAgrees, Positions, Cleared, Unsettled
<1>2. TypeOK /\ LocksHeld /\ Index /\ [Next]_vars => Index'
  <2> SUFFICES ASSUME TypeOK, LocksHeld, Index
               PROVE  [Next]_vars => Index'
    OBVIOUS
  <2> USE DEF NoOverlap, CounterAgrees, Positions, Unsettled, Cleared, Clearing, Goto, TypeOK
  <2>0. ASSUME UNCHANGED torn, Intact => Intact' PROVE Index'
    BY ONLY <2>0, Index DEF Index
  <2>1. ASSUME NEW a \in Admins, NEW b \in Batches, NEW place \in {"lockRuntimes", "clearEntries"},
               Receive(a, b, place)
        PROVE  Index'
    <3>1. pc[a] = "idle" /\ pc' = [pc EXCEPT ![a] = place]
      BY <2>1 DEF Receive
    <3>2. /\ UNCHANGED <<entries, stubCounter, next, torn>>
          /\ \A o \in Admins : o # a => todo'[o] = todo[o]
      BY <2>1 DEF Receive, tables
    <3>3. Unsettled' = Unsettled
      BY <3>1
    <3>4. Intact => Intact'
      BY <3>1, <3>2, <3>3 DEF Intact
    <3> QED BY <2>0, <3>2, <3>4
  <2>2. \A a \in Admins, b \in Batches : Post(a, b) => Index'
    BY <2>1 DEF Post
  <2>3. \A a \in Admins, b \in Batches : Put(a, b) => Index'
    BY <2>1 DEF Put
  <2>4. \A a \in Admins : ClearEntries(a) => Index'
    <3> SUFFICES ASSUME NEW a \in Admins, ClearEntries(a), ~torn' PROVE Intact'
      BY DEF Index
    <3>1. /\ pc' = [pc EXCEPT ![a] = "clearRuntimes"] /\ entries' = <<>>
          /\ \A o \in Admins : pc[o] # "add"
      BY DEF ClearEntries
    <3>2. a \in Unsettled' /\ \A o \in Admins : pc'[o] # "add"
      BY <3>1
    <3> QED BY <3>1, <3>2 DEF Intact
  <2>5. \A a \in Admins : ClearRuntimes(a) => Index'
    <3> SUFFICES ASSUME NEW a \in Admins, ClearRuntimes(a) PROVE Index'
      OBVIOUS
    <3>1. Unsettled' = Unsettled
      BY DEF ClearRuntimes
    <3>2. Intact => Intact'
      BY <3>1 DEF ClearRuntimes, Intact
    <3> QED BY <2>0, <3>2 DEF ClearRuntimes
  <2>6. \A a \in Admins : ClearCrud(a) => Index'
    <3> SUFFICES ASSUME NEW a \in Admins, ClearCrud(a) PROVE Index'
      OBVIOUS
    <3>1. Unsettled' = Unsettled
      BY DEF ClearCrud
    <3>2. Intact => Intact'
      BY <3>1 DEF ClearCrud, Intact
    <3> QED BY <2>0, <3>2 DEF ClearCrud
  <2>7. \A a \in Admins : ResetCounter(a) => Index'
    <3> SUFFICES ASSUME NEW a \in Admins, ResetCounter(a), ~torn' PROVE Intact'
      BY DEF Index
    <3>1. /\ pc[a] = "resetCounter" /\ pc' = [pc EXCEPT ![a] = "lockRuntimes"]
          /\ stubCounter' = 0 /\ entries' = entries
      BY DEF ResetCounter
    <3>2. entries = <<>> /\ \A o \in Admins : pc[o] # "add"
      <4>1. CASE torn
        BY <4>1 DEF ResetCounter
      <4>2. CASE ~torn
        BY <3>1, <4>2 DEF Index, Intact
      <4> QED BY <4>1, <4>2
    <3> QED BY <3>1, <3>2 DEF Intact
  <2>8. \A a \in Admins : LockRuntimes(a) => Index'
    <3> SUFFICES ASSUME NEW a \in Admins, LockRuntimes(a) PROVE Index'
      OBVIOUS
    <3>1. Unsettled' = Unsettled
      BY DEF LockRuntimes
    <3>2. Intact => Intact'
      BY <3>1 DEF LockRuntimes, tables, Intact
    <3> QED BY <2>0, <3>2 DEF LockRuntimes, tables
  <2>9. \A a \in Admins : LockCrud(a) => Index'
    <3> SUFFICES ASSUME NEW a \in Admins, LockCrud(a) PROVE Index'
      OBVIOUS
    <3>1. Unsettled' = Unsettled
      BY DEF LockCrud
    <3>2. Intact => Intact'
      BY <3>1 DEF LockCrud, tables, Intact
    <3> QED BY <2>0, <3>2 DEF LockCrud, tables
  <2>10. \A a \in Admins : Reserve(a) => Index'
    <3> SUFFICES ASSUME NEW a \in Admins, Reserve(a), ~torn' PROVE Intact'
      BY DEF Index
    <3>1. \A o \in Admins : o # a => pc[o] \notin HoldsCrud
      BY InsideAlone DEF Reserve, HoldsCrud
    <3>2. /\ pc[a] = "reserve" /\ pc' = [pc EXCEPT ![a] = "add"]
          /\ next' = [next EXCEPT ![a] = stubCounter]
          /\ stubCounter' = stubCounter + Len(todo[a])
          /\ UNCHANGED <<entries, todo>>
          /\ ~torn /\ \A o \in Admins : pc[o] \notin Cleared
      BY DEF Reserve
    <3>3. Unsettled = {}
      BY <3>1, <3>2 DEF HoldsCrud
    <3>4. Positions /\ stubCounter = Len(entries)
      BY <3>2, <3>3 DEF Index, Intact
    <3>5. /\ \A o \in Admins : pc'[o] = "add" => o = a
          /\ \A o \in Admins : pc'[o] \notin Cleared
          /\ a \in Unsettled'
      BY <3>1, <3>2 DEF HoldsCrud
    <3> QED BY <3>2, <3>4, <3>5 DEF Intact
  <2>11. \A a \in Admins : AddRule(a) => Index'
    <3> SUFFICES ASSUME NEW a \in Admins, AddRule(a), Intact PROVE Intact'
      BY <2>0 DEF AddRule
    <3> DEFINE e == [rule |-> Head(todo[a]), index |-> next[a], batch |-> serial[a]]
    <3>0. NoOverlap /\ CounterAgrees /\ Positions
      BY DEF Intact
    <3>1. \A o \in Admins : o # a => pc[o] \notin Cleared \cup HoldsCrud
      BY <3>0, InsideAlone DEF AddRule, HoldsCrud
    <3>2. /\ pc[a] = "add" /\ pc' = pc
          /\ stubCounter' = stubCounter
          /\ todo[a] # <<>> /\ todo' = [todo EXCEPT ![a] = Tail(@)]
          /\ next' = [next EXCEPT ![a] = @ + 1]
          /\ entries' = Append(entries, e)
          /\ e.index = Len(entries)
      BY <3>0 DEF AddRule
    <3> HIDE DEF e
    <3>3. Len(todo'[a]) = Len(todo[a]) - 1 /\ next'[a] = Len(entries')
      <4>1. todo[a] \in Seq(Rules) /\ todo \in [Admins -> Seq(Rules)]
        OBVIOUS
      <4>2. todo'[a] = Tail(todo[a]) /\ Len(Tail(todo[a])) = Len(todo[a]) - 1
        BY <4>1, <3>2
      <4>3. next'[a] = next[a] + 1
        BY <3>2
      <4>4. next[a] = Len(entries)
        BY ONLY <3>0, <3>2, a \in Admins DEF CounterAgrees
      <4>5. Len(entries') = Len(entries) + 1
        <5>1. entries \in Seq(Entry)
          OBVIOUS
        <5>2. entries' = Append(entries, e)
          BY <3>2
        <5>3. QED
          BY ONLY <5>1, <5>2
      <4>6. QED
        BY ONLY <4>2, <4>3, <4>4, <4>5
    <3>4. Positions'
      BY <3>0, <3>2, SMTT(30)
    <3>5. a \in Unsettled'
      BY <3>2
    <3>6. CounterAgrees'
      <4>1. \A o \in Admins : pc'[o] = "add" => o = a
        BY <3>1, <3>2 DEF HoldsCrud
      <4>2. \A o \in Admins : pc'[o] \notin Cleared
        BY <3>1, <3>2
      <4>3. stubCounter' = Len(entries') + Len(todo'[a])
        <5>1. stubCounter = Len(entries) + Len(todo[a])
          BY <3>0, <3>2
        <5>2. Len(entries) \in Nat /\ Len(entries') = Len(entries) + 1 /\ Len(todo[a]) \in Nat
          <6>1. todo[a] \in Seq(Rules)
            OBVIOUS
          <6>2. QED
            BY <3>2, <6>1
        <5>3. QED
          BY <5>1, <5>2, <3>2, <3>3
      <4>4. QED
        BY <3>3, <3>5, <4>1, <4>2, <4>3
    <3>7. NoOverlap'
      BY <3>0, <3>2
    <3> QED BY <3>4, <3>6, <3>7 DEF Intact
  <2>12. \A a \in Admins : Return(a) => Index'
    <3> SUFFICES ASSUME NEW a \in Admins, Return(a), Intact PROVE Intact'
      BY <2>0 DEF Return, tables
    <3>1. \A o \in Admins : o # a => pc[o] \notin Cleared \cup HoldsCrud
      BY InsideAlone DEF Return, HoldsCrud, Intact
    <3>2. QED
      BY <3>1 DEF Return, HoldsCrud, tables, Intact
  <2>13. ASSUME UNCHANGED <<tables, admins>> PROVE Index'
    <3>1. Intact => Intact'
      BY <2>13 DEF tables, admins, Intact
    <3> QED BY <2>0, <2>13, <3>1 DEF tables
  <2>14. \A r \in Requests, t \in Targets : MatchRequest(r, t) => Index'
    BY <2>13 DEF MatchRequest
  <2>15. \A r \in Requests : GetRuntime(r) => Index'
    BY <2>13 DEF GetRuntime
  <2>16. \A r \in Requests : Resolve(r) => Index'
    BY <2>13 DEF Resolve
  <2>17. \A r \in Requests : Finish(r) => Index'
    BY <2>13 DEF Finish
  <2>18. UNCHANGED vars => Index'
    BY <2>13 DEF vars
  <2> QED
    BY <2>2, <2>3, <2>4, <2>5, <2>6, <2>7, <2>8, <2>9, <2>10,
       <2>11, <2>12, <2>14, <2>15, <2>16, <2>17, <2>18, NextCases
<1>3. Index => CounterIntact /\ IndexIsPosition
  BY DEF Index, Intact, CounterIntact, IndexIsPosition, Positions
<1>4. QED
  BY <1>1, <1>2, <1>3, TypeCorrect, LocksCorrect, PTL DEF Spec

-----------------------------------------------------------------------------
(***************************************************************************)
(* The numbers that tell entries apart.                                    *)
(***************************************************************************)
\* The number an admin request is given when it is received is new.
LEMMA NewNumberFresh ==
  ASSUME TypeOK, NumbersFresh, NEW a \in Admins, NEW b, NEW place, Receive(a, b, place)
  PROVE  NumbersFresh'
<1>1. /\ serial \in [Admins -> Nat] /\ serial' = [serial EXCEPT ![a] = nextSerial]
      /\ nextSerial \in Nat /\ nextSerial' = nextSerial + 1
      /\ pc \in [Admins -> AdminPlaces] /\ pc' = [pc EXCEPT ![a] = place]
      /\ UNCHANGED <<entries, next, req>>
  BY DEF TypeOK, Receive, Goto, tables
<1>2. \A o \in Admins : serial[o] < nextSerial
  BY DEF NumbersFresh
<1>3. \A o \in Admins : serial'[o] < nextSerial'
  BY <1>1, <1>2
<1>4. \A o, p \in Admins : pc'[o] # "idle" /\ p # o => serial'[p] # serial'[o]
  BY <1>1, <1>2 DEF NumbersFresh
<1>5. \A o \in Admins, n \in Nat :
        n < nextSerial /\ pc'[o] # "idle" /\ n = serial'[o] => o # a /\ pc[o] # "idle" /\ n = serial[o]
  BY <1>1
<1>6. \A r \in Requests : req[r].entry # Nil => req[r].entry.batch \in Nat
  BY DEF TypeOK, Entry
<1>7. \A i \in DOMAIN entries : entries[i].batch \in Nat
  <2>1. \A i \in DOMAIN entries : entries[i] \in Entry
    BY DEF TypeOK
  <2>2. QED
    BY <2>1 DEF Entry
<1>8. ASSUME NEW r \in Requests, req'[r].entry # Nil
      PROVE  /\ req'[r].entry.batch < nextSerial'
             /\ \A o \in Admins :
                  pc'[o] # "idle" /\ req'[r].entry.batch = serial'[o] =>
                    pc'[o] = "add" /\ req'[r].entry.index < next'[o]
  <2>1. req[r].entry.batch < nextSerial /\ req[r].entry.batch \in Nat
    BY <1>1, <1>6, <1>8 DEF NumbersFresh
  <2>2. QED
    BY <1>1, <1>5, <1>8, <2>1 DEF NumbersFresh
<1>9. ASSUME NEW i \in DOMAIN entries'
      PROVE  /\ entries'[i].batch < nextSerial'
             /\ \A o \in Admins :
                  pc'[o] # "idle" /\ entries'[i].batch = serial'[o] =>
                    pc'[o] = "add" /\ entries'[i].index < next'[o]
  <2>1. entries[i].batch < nextSerial /\ entries[i].batch \in Nat
    BY <1>1, <1>7, <1>9 DEF NumbersFresh
  <2>2. QED
    BY <1>1, <1>5, <1>9, <2>1 DEF NumbersFresh
<1>10. QED
  BY <1>3, <1>4, <1>8, <1>9 DEF NumbersFresh

\* An entry is not listed before its request adds it, nor matched: what an
\* admin request adds is new to every request handler.
LEMMA NumbersCorrect == Spec => []NumbersFresh
<1>1. Init => NumbersFresh
  BY DEF Init, NumbersFresh
<1>2. TypeOK /\ NumbersFresh /\ [Next]_vars => NumbersFresh'
  <2> SUFFICES ASSUME TypeOK, NumbersFresh
               PROVE  [Next]_vars => NumbersFresh'
    OBVIOUS
  <2> USE DEF NumbersFresh, Goto, TypeOK
  <2>0. \A r \in Requests : req[r].entry # Nil =>
          req[r].entry \in Entry /\ req[r].entry.batch \in Nat /\ req[r].entry.index \in Nat
    BY DEF Entry
  <2>1. \A a \in Admins, b \in Batches : Post(a, b) => NumbersFresh'
    <3> SUFFICES ASSUME NEW a \in Admins, NEW b \in Batches, Post(a, b) PROVE NumbersFresh'
      OBVIOUS
    <3>1. Receive(a, b, "lockRuntimes")
      BY DEF Post
    <3>2. QED
      BY <3>1, NewNumberFresh
  <2>2. \A a \in Admins, b \in Batches : Put(a, b) => NumbersFresh'
    <3> SUFFICES ASSUME NEW a \in Admins, NEW b \in Batches, Put(a, b) PROVE NumbersFresh'
      OBVIOUS
    <3>1. Receive(a, b, "clearEntries")
      BY DEF Put
    <3>2. QED
      BY <3>1, NewNumberFresh
  <2>3. \A a \in Admins : ClearEntries(a) => NumbersFresh'
    BY DEF ClearEntries
  <2>4. \A a \in Admins : ClearRuntimes(a) => NumbersFresh'
    BY DEF ClearRuntimes
  <2>5. \A a \in Admins : ClearCrud(a) => NumbersFresh'
    BY DEF ClearCrud
  <2>6. \A a \in Admins : ResetCounter(a) => NumbersFresh'
    BY DEF ResetCounter
  <2>7. \A a \in Admins : LockRuntimes(a) => NumbersFresh'
    BY DEF LockRuntimes, tables
  <2>8. \A a \in Admins : LockCrud(a) => NumbersFresh'
    BY DEF LockCrud, tables
  <2>9. \A a \in Admins : Reserve(a) => NumbersFresh'
    BY DEF Reserve
  <2>10. \A a \in Admins : AddRule(a) => NumbersFresh'
    <3> SUFFICES ASSUME NEW a \in Admins, AddRule(a) PROVE NumbersFresh'
      OBVIOUS
    <3> DEFINE e == [rule |-> Head(todo[a]), index |-> next[a], batch |-> serial[a]]
    <3>1. /\ pc[a] = "add" /\ UNCHANGED <<pc, serial, nextSerial, req>>
          /\ next' = [next EXCEPT ![a] = @ + 1]
          /\ entries' = Append(entries, e) /\ e.batch = serial[a] /\ e.index = next[a]
      BY DEF AddRule
    <3> HIDE DEF e
    <3>2. \A i \in DOMAIN entries' :
            \/ i \in DOMAIN entries /\ entries'[i] = entries[i]
            \/ entries'[i] = e
      BY <3>1
    <3>3. /\ e.batch < nextSerial
          /\ \A o \in Admins : pc[o] # "idle" /\ e.batch = serial[o] =>
               pc[o] = "add" /\ e.index < next'[o]
      BY <3>1
    <3>4. \A i \in DOMAIN entries' :
            /\ entries'[i].batch < nextSerial'
            /\ \A o \in Admins : pc'[o] # "idle" /\ entries'[i].batch = serial'[o] =>
                 pc'[o] = "add" /\ entries'[i].index < next'[o]
      <4>1. \A i \in DOMAIN entries : entries[i].index \in Nat
        <5>1. \A i \in DOMAIN entries : entries[i] \in Entry
          OBVIOUS
        <5> QED BY <5>1 DEF Entry
      <4>2. \A o \in Admins : next[o] \in Nat /\ next'[o] \in Nat /\ next[o] <= next'[o]
        BY <3>1
      <4>3. \A i \in DOMAIN entries, o \in Admins :
              pc[o] # "idle" /\ entries[i].batch = serial[o] =>
                pc[o] = "add" /\ entries[i].index < next'[o]
        BY <4>1, <4>2, SMTT(30)
      <4> QED BY <3>1, <3>2, <3>3, <4>3
    <3>5. \A o \in Admins : next'[o] \in Nat /\ next[o] \in Nat /\ next[o] <= next'[o]
      BY <3>1
    <3>6. \A r \in Requests :
            req'[r].entry # Nil =>
              /\ req'[r].entry.batch < nextSerial'
              /\ \A o \in Admins :
                   pc'[o] # "idle" /\ req'[r].entry.batch = serial'[o] =>
                     pc'[o] = "add" /\ req'[r].entry.index < next'[o]
      BY <2>0, <3>1, <3>5
    <3>7. QED
      BY <3>1, <3>4, <3>6
  <2>11. \A a \in Admins : Return(a) => NumbersFresh'
    BY DEF Return, tables
  <2>12. \A r \in Requests, t \in Targets : MatchRequest(r, t) => NumbersFresh'
    <3> SUFFICES ASSUME NEW r \in Requests, NEW t \in Targets, MatchRequest(r, t)
                 PROVE  NumbersFresh'
      OBVIOUS
    <3>1. PICK i \in DOMAIN entries :
            req' = [req EXCEPT ![r] = [at |-> "matched", entry |-> entries[i],
                                       runtime |-> Nil, store |-> Nil]]
      BY DEF MatchRequest
    <3>2. UNCHANGED <<entries, pc, next, serial, nextSerial>>
      BY DEF MatchRequest, tables, admins
    <3>3. \A a \in Admins : pc[a] # "idle" /\ entries[i].batch = serial[a] =>
            pc[a] = "add" /\ entries[i].index < next[a]
      OBVIOUS
    <3>4. QED
      BY <3>1, <3>2, <3>3
  <2>13. \A r \in Requests : GetRuntime(r) => NumbersFresh'
    BY DEF GetRuntime, tables, admins
  <2>14. \A r \in Requests : Resolve(r) => NumbersFresh'
    BY DEF Resolve, tables, admins
  <2>15. \A r \in Requests : Finish(r) => NumbersFresh'
    BY DEF Finish, tables, admins
  <2>16. UNCHANGED vars => NumbersFresh'
    BY DEF vars, tables, admins
  <2>17. QED
    BY <2>1, <2>2, <2>3, <2>4, <2>5, <2>6, <2>7, <2>8, <2>9, <2>10,
       <2>11, <2>12, <2>13, <2>14, <2>15, <2>16, NextCases
<1>3. QED
  BY <1>1, <1>2, TypeCorrect, PTL DEF Spec

-----------------------------------------------------------------------------
(***************************************************************************)
(* The tables.                                                             *)
(***************************************************************************)
AllHaveState == \A i \in DOMAIN entries : HasOwnState(entries[i])

\* Registering e keeps the tables of the rules already listed.
LEMMA RegistrationKeepsTables ==
  ASSUME AllHaveState, Positions, TypeOK, NEW e \in Entry, e.index = Len(entries),
         runtimes' = WithRuntime(e), crudStores' = WithStore(e),
         entries' = Append(entries, e)
  PROVE  AllHaveState'
<1>1. \A i \in DOMAIN entries : entries[i].index = i - 1 /\ i - 1 < e.index
  <2>1. entries \in Seq(Entry) /\ e.index = Len(entries)
    BY DEF TypeOK
  <2>2. QED
    BY <2>1 DEF Positions
<1>2. \A i \in DOMAIN entries' :
        \/ i \in DOMAIN entries /\ entries'[i] = entries[i]
        \/ entries'[i] = e
  <2>1. entries \in Seq(Entry) /\ entries' = Append(entries, e)
    BY DEF TypeOK
  <2>2. QED
    BY <2>1
<1>3. e.index \in Nat
  BY DEF Entry
<1>4. e.index \in DOMAIN runtimes' /\ runtimes'[e.index] = e
  BY <1>3 DEF WithRuntime
<1>5. e.rule \in Crud => e.index \in DOMAIN crudStores' /\ crudStores'[e.index] = e
  BY DEF WithStore
<1>6. ASSUME NEW i \in DOMAIN entries
      PROVE  LET f == entries[i] IN
             /\ f.index \in DOMAIN runtimes' /\ runtimes'[f.index] = f
             /\ f.rule \in Crud => f.index \in DOMAIN crudStores' /\ crudStores'[f.index] = f
  <2>1. entries[i].index # e.index
    BY <1>1, <1>3 DEF TypeOK
  <2>2. QED
    BY <2>1 DEF AllHaveState, HasOwnState, WithRuntime, WithStore
<1>7. QED
  BY <1>2, <1>4, <1>5, <1>6 DEF AllHaveState, HasOwnState

\* Every listed rule has its own runtime, and its own store if it is CRUD,
\* unless the list is torn (register_rules, src/server.rs).
THEOREM TablesCorrect == Spec => []OwnState
<1>1. Init => OwnState
  BY DEF Init, OwnState
<1>2. TypeOK /\ CounterIntact /\ IndexIsPosition /\ OwnState /\ [Next]_vars => OwnState'
  <2> SUFFICES ASSUME TypeOK, CounterIntact, IndexIsPosition, OwnState
               PROVE  [Next]_vars => OwnState'
    OBVIOUS
  <2>1. ASSUME UNCHANGED <<entries, runtimes, crudStores>>, torn => torn' PROVE OwnState'
    BY <2>1 DEF OwnState, HasOwnState
  <2>2. ASSUME entries' = <<>> PROVE OwnState'
    BY <2>2 DEF OwnState
  <2>3. \A a \in Admins, b \in Batches : Post(a, b) => OwnState'
    BY <2>1 DEF Post, Receive, tables
  <2>4. \A a \in Admins, b \in Batches : Put(a, b) => OwnState'
    BY <2>1 DEF Put, Receive, tables
  <2>5. \A a \in Admins : ClearEntries(a) => OwnState'
    BY <2>2 DEF ClearEntries
  <2>6. \A a \in Admins : ClearRuntimes(a) => OwnState'
    <3> SUFFICES ASSUME NEW a \in Admins, ClearRuntimes(a), ~torn' PROVE entries' = <<>>
      BY <2>2 DEF OwnState
    <3> QED BY DEF ClearRuntimes, CounterIntact, CounterAgrees, Cleared
  <2>7. \A a \in Admins : ClearCrud(a) => OwnState'
    <3> SUFFICES ASSUME NEW a \in Admins, ClearCrud(a), ~torn' PROVE entries' = <<>>
      BY <2>2 DEF OwnState
    <3> QED BY DEF ClearCrud, CounterIntact, CounterAgrees, Cleared
  <2>8. \A a \in Admins : ResetCounter(a) => OwnState'
    BY <2>1, <2>2 DEF ResetCounter
  <2>9. \A a \in Admins : LockRuntimes(a) => OwnState'
    BY <2>1 DEF LockRuntimes, tables
  <2>10. \A a \in Admins : LockCrud(a) => OwnState'
    BY <2>1 DEF LockCrud, tables
  <2>11. \A a \in Admins : Reserve(a) => OwnState'
    BY <2>1 DEF Reserve
  <2>12. \A a \in Admins : AddRule(a) => OwnState'
    <3> SUFFICES ASSUME NEW a \in Admins, AddRule(a), ~torn PROVE AllHaveState'
      <4>1. OwnState' <=> (~torn' => AllHaveState')
        BY DEF OwnState, AllHaveState
      <4>2. \A a \in Admins : AddRule(a) => torn' = torn
        BY DEF AddRule
      <4> QED BY <4>1, <4>2
    <3> DEFINE e == [rule |-> Head(todo[a]), index |-> next[a], batch |-> serial[a]]
    <3>1. e \in Entry
      <4>1. todo[a] \in Seq(Rules) /\ todo[a] # <<>>
        BY DEF AddRule, TypeOK
      <4>2. Head(todo[a]) \in Rules
        BY <4>1
      <4>3. QED
        BY <4>2 DEF Entry, TypeOK
    <3>2. e.index = Len(entries)
      BY DEF AddRule, CounterIntact, CounterAgrees
    <3>3. runtimes' = WithRuntime(e) /\ crudStores' = WithStore(e) /\ entries' = Append(entries, e)
      BY DEF AddRule
    <3> HIDE DEF e
    <3>4. AllHaveState /\ Positions
      BY DEF OwnState, AllHaveState, IndexIsPosition, Positions
    <3>5. QED
      BY <3>1, <3>2, <3>3, <3>4, RegistrationKeepsTables
  <2>13. \A a \in Admins : Return(a) => OwnState'
    BY <2>1 DEF Return, tables
  <2>14. \A r \in Requests, t \in Targets : MatchRequest(r, t) => OwnState'
    BY <2>1 DEF MatchRequest, tables
  <2>15. \A r \in Requests : GetRuntime(r) => OwnState'
    BY <2>1 DEF GetRuntime, tables
  <2>16. \A r \in Requests : Resolve(r) => OwnState'
    BY <2>1 DEF Resolve, tables
  <2>17. \A r \in Requests : Finish(r) => OwnState'
    BY <2>1 DEF Finish, tables
  <2>18. UNCHANGED vars => OwnState'
    BY <2>1 DEF vars, tables
  <2>19. QED
    BY <2>3, <2>4, <2>5, <2>6, <2>7, <2>8, <2>9, <2>10,
       <2>11, <2>12, <2>13, <2>14, <2>15, <2>16, <2>17, <2>18, NextCases
<1>3. QED
  BY <1>1, <1>2, TypeCorrect, IndexCorrect, PTL DEF Spec

-----------------------------------------------------------------------------
(***************************************************************************)
(* The requests.                                                           *)
(***************************************************************************)
Live(x, s) == \E i \in DOMAIN s : s[i] = x

\* Looking a live rule up in tables that agree with the list finds its own.
LEMMA LookupFindsOwn ==
  ASSUME OwnState, ~torn, NEW e, Live(e, entries)
  PROVE  /\ e.index \in DOMAIN runtimes /\ runtimes[e.index] = e
         /\ e.rule \in Crud => e.index \in DOMAIN crudStores /\ crudStores[e.index] = e
  BY DEF OwnState, HasOwnState, Live

\* A request whose rule is still listed uses that rule's own runtime and
\* store, however many registrations happen between its three lookups, unless
\* the list is torn (handle_request, src/server.rs).
THEOREM LiveRulesUseOwnState == Spec => []LiveRuleUsesOwnState
<1>1. Init => LiveRuleUsesOwnState
  BY DEF Init, LiveRuleUsesOwnState
<1>2. /\ TypeOK /\ NumbersFresh /\ OwnState
      /\ LiveRuleUsesOwnState /\ [Next]_vars
      => LiveRuleUsesOwnState'
  <2> SUFFICES ASSUME TypeOK, NumbersFresh, OwnState, LiveRuleUsesOwnState
               PROVE  [Next]_vars => LiveRuleUsesOwnState'
    OBVIOUS
  <2>1. ASSUME UNCHANGED <<entries, req>>, torn => torn' PROVE LiveRuleUsesOwnState'
    BY <2>1 DEF LiveRuleUsesOwnState, UsesOwnState
  <2>2. ASSUME entries' = <<>> PROVE LiveRuleUsesOwnState'
    BY <2>2 DEF LiveRuleUsesOwnState
  <2>3. ASSUME NEW r \in Requests, UNCHANGED <<entries, torn>>,
               \A p \in Requests : p # r => req'[p] = req[p],
               ~torn /\ Live(req'[r].entry, entries) => UsesOwnState(r)'
        PROVE  LiveRuleUsesOwnState'
    BY <2>3 DEF LiveRuleUsesOwnState, UsesOwnState, Live
  <2>4. \A a \in Admins, b \in Batches : Post(a, b) => LiveRuleUsesOwnState'
    BY <2>1 DEF Post, Receive, tables
  <2>5. \A a \in Admins, b \in Batches : Put(a, b) => LiveRuleUsesOwnState'
    BY <2>1 DEF Put, Receive, tables
  <2>6. \A a \in Admins : ClearEntries(a) => LiveRuleUsesOwnState'
    BY <2>2 DEF ClearEntries
  <2>7. \A a \in Admins : ClearRuntimes(a) => LiveRuleUsesOwnState'
    BY <2>1 DEF ClearRuntimes
  <2>8. \A a \in Admins : ClearCrud(a) => LiveRuleUsesOwnState'
    BY <2>1 DEF ClearCrud
  <2>9. \A a \in Admins : ResetCounter(a) => LiveRuleUsesOwnState'
    BY <2>1, <2>2 DEF ResetCounter
  <2>10. \A a \in Admins : LockRuntimes(a) => LiveRuleUsesOwnState'
    BY <2>1 DEF LockRuntimes, tables
  <2>11. \A a \in Admins : LockCrud(a) => LiveRuleUsesOwnState'
    BY <2>1 DEF LockCrud, tables
  <2>12. \A a \in Admins : Reserve(a) => LiveRuleUsesOwnState'
    BY <2>1 DEF Reserve
  <2>13. \A a \in Admins : AddRule(a) => LiveRuleUsesOwnState'
    <3> SUFFICES ASSUME NEW a \in Admins, AddRule(a), NEW r \in Requests, ~torn,
                        Live(req[r].entry, entries')
                 PROVE  UsesOwnState(r)'
      <4>1. \A a \in Admins : AddRule(a) => torn' = torn /\ req' = req
        BY DEF AddRule
      <4> QED BY <4>1 DEF LiveRuleUsesOwnState, Live
    <3> DEFINE e == [rule |-> Head(todo[a]), index |-> next[a], batch |-> serial[a]]
    <3>1. /\ pc[a] = "add" /\ UNCHANGED req /\ entries' = Append(entries, e)
          /\ e.batch = serial[a] /\ e.index = next[a] /\ next[a] \in Nat
      BY DEF AddRule, TypeOK
    <3>2. e # Nil
      <4>1. todo[a] \in Seq(Rules) /\ todo[a] # <<>>
        BY DEF AddRule, TypeOK
      <4>2. Head(todo[a]) \in Rules
        BY <4>1
      <4>3. e \in Entry
        BY <4>2 DEF Entry, TypeOK
      <4>4. QED
        BY <4>3, NilAssumption
    <3> HIDE DEF e
    <3>3. req[r].entry # e
      BY <3>1, <3>2 DEF NumbersFresh
    <3>4. Live(req[r].entry, entries)
      <4>1. \A i \in DOMAIN entries' :
              \/ i \in DOMAIN entries /\ entries'[i] = entries[i]
              \/ entries'[i] = e
        BY <3>1 DEF TypeOK
      <4>2. QED
        BY <4>1, <3>3 DEF Live
    <3>5. QED
      BY <3>1, <3>4 DEF LiveRuleUsesOwnState, UsesOwnState, Live
  <2>14. \A a \in Admins : Return(a) => LiveRuleUsesOwnState'
    BY <2>1 DEF Return, tables
  <2>15. \A r \in Requests, t \in Targets : MatchRequest(r, t) => LiveRuleUsesOwnState'
    BY <2>3 DEF MatchRequest, tables, UsesOwnState, TypeOK
  <2>16. \A r \in Requests : GetRuntime(r) => LiveRuleUsesOwnState'
    <3> SUFFICES ASSUME NEW r \in Requests, GetRuntime(r) PROVE LiveRuleUsesOwnState'
      OBVIOUS
    <3>1. /\ req'[r].entry = req[r].entry /\ req'[r].at = "gated"
          /\ req'[r].runtime = IF req[r].entry.index \in DOMAIN runtimes
                               THEN runtimes[req[r].entry.index] ELSE Nil
          /\ UNCHANGED <<entries, torn>> /\ \A p \in Requests : p # r => req'[p] = req[p]
      BY DEF GetRuntime, tables, TypeOK
    <3>2. ~torn /\ Live(req'[r].entry, entries) => UsesOwnState(r)'
      BY <3>1, LookupFindsOwn DEF UsesOwnState
    <3>3. QED
      BY <3>1, <3>2, <2>3
  <2>17. \A r \in Requests : Resolve(r) => LiveRuleUsesOwnState'
    <3> SUFFICES ASSUME NEW r \in Requests, Resolve(r) PROVE LiveRuleUsesOwnState'
      OBVIOUS
    <3> DEFINE e == req[r].entry
    <3>1. /\ req'[r].entry = e /\ req'[r].at = "resolved" /\ req[r].at = "gated"
          /\ req'[r].runtime = req[r].runtime
          /\ req'[r].store = IF e.rule \in Crud /\ e.index \in DOMAIN crudStores
                             THEN crudStores[e.index] ELSE Nil
          /\ UNCHANGED <<entries, torn>> /\ \A p \in Requests : p # r => req'[p] = req[p]
      BY DEF Resolve, tables, TypeOK
    <3>2. ~torn /\ Live(e, entries) => req[r].runtime = e
      BY <3>1 DEF LiveRuleUsesOwnState, UsesOwnState, Live
    <3> HIDE DEF e
    <3>3. ~torn /\ Live(req'[r].entry, entries) => UsesOwnState(r)'
      BY <3>1, <3>2, LookupFindsOwn DEF UsesOwnState
    <3>4. QED
      BY <3>1, <3>3, <2>3
  <2>18. \A r \in Requests : Finish(r) => LiveRuleUsesOwnState'
    BY <2>3 DEF Finish, tables, UsesOwnState, TypeOK
  <2>19. UNCHANGED vars => LiveRuleUsesOwnState'
    BY <2>1 DEF vars, tables
  <2>20. QED
    BY <2>4, <2>5, <2>6, <2>7, <2>8, <2>9, <2>10, <2>11, <2>12, <2>13,
       <2>14, <2>15, <2>16, <2>17, <2>18, <2>19, NextCases
<1>3. QED
  BY <1>1, <1>2, TypeCorrect, NumbersCorrect, TablesCorrect, PTL DEF Spec

-----------------------------------------------------------------------------
(***************************************************************************)
(* The rule list is a sequence of whole batches.                           *)
(***************************************************************************)
\* A registration whose list and numbers stay as they are keeps its promise.
LEMMA KeepsPromise ==
  ASSUME NEW a \in Admins, BatchWhole(a),
         UNCHANGED <<entries, todo[a], serial[a]>>, pc'[a] = pc[a],
         torn => torn' \/ pc[a] # "add"
  PROVE  BatchWhole(a)'
BY DEF BatchWhole, PartlyAdded

\* Registering one more rule.
LEMMA AddKeepsPromise ==
  ASSUME TypeOK, NEW a \in Admins, AddRule(a), PartlyAdded(a)
  PROVE  PartlyAdded(a)'
<1> DEFINE e == [rule |-> Head(todo[a]), index |-> next[a], batch |-> serial[a]]
           n == Len(entries)
           t == todo[a]
<1>1. PICK b \in Batches, s \in 0 .. n :
        /\ \A i \in DOMAIN entries : entries[i].batch = serial[a] <=> i > s
        /\ s + Len(b) = n + Len(t)
        /\ \A i \in DOMAIN b :
             b[i] = IF s + i <= n THEN entries[s + i].rule ELSE t[s + i - n]
  BY DEF PartlyAdded
<1>2. /\ entries \in Seq(Entry) /\ t \in Seq(Rules) /\ t # <<>>
      /\ entries' = Append(entries, e) /\ todo'[a] = Tail(t) /\ serial' = serial
  BY DEF AddRule, TypeOK
<1>3. e.rule = t[1] /\ e.batch = serial[a]
  BY <1>2
<1> HIDE DEF e, t
<1>4. /\ n \in Nat /\ DOMAIN entries = 1 .. n /\ Len(entries') = n + 1
      /\ DOMAIN entries' = 1 .. n + 1
      /\ \A i \in 1 .. n : entries'[i] = entries[i]
      /\ entries'[n + 1] = e
  BY <1>2
<1>5. /\ Len(t) \in Nat \ {0} /\ Len(todo'[a]) = Len(t) - 1
      /\ \A i \in 1 .. Len(t) - 1 : todo'[a][i] = t[i + 1]
  BY <1>2
<1>6. b \in Seq(Rules) /\ Len(b) \in Nat /\ DOMAIN b = 1 .. Len(b)
  BY ConstantsAssumption
<1> HIDE DEF n
<1>7. s \in 0 .. Len(entries') /\ s + Len(b) = Len(entries') + Len(todo'[a])
  BY <1>1, <1>4, <1>5, <1>6
<1>8. \A i \in DOMAIN entries' : entries'[i].batch = serial'[a] <=> i > s
  BY <1>1, <1>2, <1>3, <1>4
<1>9. ASSUME NEW i \in DOMAIN b
      PROVE  b[i] = IF s + i <= Len(entries') THEN entries'[s + i].rule
                    ELSE todo'[a][s + i - Len(entries')]
  <2>1. i \in 1 .. Len(b) /\ s + i \in Nat /\ s + i > 0
    BY <1>6
  <2>2. CASE s + i <= n
    BY <1>1, <1>4, <2>1, <2>2
  <2>3. CASE s + i = n + 1
    <3>1. b[i] = t[1]
      BY <1>1, <1>4, <2>1, <2>3
    <3>2. entries'[s + i].rule = t[1]
      BY <1>3, <1>4, <2>3
    <3> QED BY <1>4, <2>3, <3>1, <3>2
  <2>4. CASE s + i > n + 1
    <3>0. n \in Int /\ s \in Int /\ i \in Int /\ Len(t) \in Int /\ i <= Len(b)
      BY <1>1, <1>4, <1>5, <1>6, <2>1
    <3>1. s + i - (n + 1) \in 1 .. Len(t) - 1
      <4>1. s + i <= n + Len(t)
        BY <1>1, <1>6, <3>0
      <4> QED BY ONLY <2>4, <3>0, <4>1
    <3>2. b[i] = t[s + i - n]
      BY <1>1, <1>4, <2>1, <2>4
    <3>3. todo'[a][s + i - (n + 1)] = t[s + i - n]
      <4>1. (s + i - (n + 1)) + 1 = s + i - n
        BY ONLY <3>0
      <4> QED BY <1>5, <3>1, <4>1
    <3> QED BY <1>4, <2>1, <2>4, <3>2, <3>3
  <2> QED BY <1>4, <2>1, <2>2, <2>3, <2>4
<1> QED BY <1>7, <1>8, <1>9 DEF PartlyAdded

\* Reserving the indexes of a batch: nothing of it is listed yet.
LEMMA ReserveStartsBatch ==
  ASSUME TypeOK, NumbersFresh, NEW a \in Admins, Reserve(a), todo[a] \in Batches
  PROVE  PartlyAdded(a)'
<1>1. pc[a] = "reserve" /\ UNCHANGED <<entries, todo, serial>>
  BY DEF Reserve
<1>2. \A i \in DOMAIN entries : entries[i].batch # serial[a]
  BY <1>1 DEF NumbersFresh
<1>3. entries \in Seq(Entry) /\ todo[a] \in Seq(Rules)
  BY DEF TypeOK
<1>4. /\ Len(entries) \in Nat /\ DOMAIN entries = 1 .. Len(entries)
      /\ Len(todo[a]) \in Nat /\ DOMAIN todo[a] = 1 .. Len(todo[a])
  BY <1>3
<1> DEFINE s == Len(entries)
           b == todo[a]
<1>5. \A i \in DOMAIN entries : entries[i].batch = serial[a] <=> i > s
  BY <1>2, <1>4
<1>6. \A i \in DOMAIN b :
        b[i] = IF s + i <= Len(entries) THEN entries[s + i].rule
               ELSE todo[a][s + i - Len(entries)]
  BY <1>4
<1>7. s \in 0 .. Len(entries) /\ s + Len(b) = Len(entries) + Len(todo[a])
  BY <1>4
<1> HIDE DEF s, b
<1>8. \E c \in Batches, n \in 0 .. Len(entries) :
        /\ \A i \in DOMAIN entries : entries[i].batch = serial[a] <=> i > n
        /\ n + Len(c) = Len(entries) + Len(todo[a])
        /\ \A i \in DOMAIN c :
             c[i] = IF n + i <= Len(entries) THEN entries[n + i].rule
                    ELSE todo[a][n + i - Len(entries)]
  <2>1. b \in Batches
    BY DEF b
  <2> QED BY <1>5, <1>6, <1>7, <2>1
<1> QED BY <1>1, <1>8 DEF PartlyAdded

\* A registration keeps what is sent together, in the order it was sent.
LEMMA BatchesStayWhole == Spec => []BatchesWhole
<1>1. Init => BatchesWhole
  BY DEF Init, BatchesWhole, BatchWhole
<1>2. TypeOK /\ LocksHeld /\ NumbersFresh /\ BatchesWhole /\ [Next]_vars => BatchesWhole'
  <2> SUFFICES ASSUME TypeOK, LocksHeld, NumbersFresh,
                      \A a \in Admins : BatchWhole(a)
               PROVE  [Next]_vars => \A a \in Admins : BatchWhole(a)'
    BY DEF BatchesWhole
  <2> DEFINE Goal == \A a \in Admins : BatchWhole(a)'
  <2>1. ASSUME NEW a \in Admins, BatchWhole(a)',
               UNCHANGED entries,
               \A o \in Admins : o # a => /\ pc'[o] = pc[o]
                                          /\ UNCHANGED <<todo[o], serial[o]>>
                                          /\ torn => torn' \/ pc[o] # "add"
        PROVE  Goal
    BY <2>1, KeepsPromise
  <2>2. ASSUME UNCHANGED <<entries, pc, todo, serial, torn>> PROVE Goal
    BY <2>2, KeepsPromise
  <2>3. ASSUME NEW a \in Admins, NEW place \in AdminPlaces, place # "add",
               pc' = [pc EXCEPT ![a] = place], UNCHANGED <<entries, todo, serial>>,
               pc[a] \notin {"idle", "add"} \/ place = "idle",
               torn => torn' \/ \A o \in Admins : pc[o] # "add"
        PROVE  Goal
    <3>1. BatchWhole(a)'
      BY <2>3 DEF BatchWhole, TypeOK
    <3> QED BY <2>1, <2>3, <3>1 DEF TypeOK
  <2>3a. ASSUME NEW a \in Admins, NEW place \in AdminPlaces, place # "add",
                pc' = [pc EXCEPT ![a] = place], UNCHANGED <<entries, todo, serial, torn>>,
                pc[a] \notin {"idle", "add"} \/ place = "idle"
         PROVE  Goal
    <3> HIDE DEF Goal
    <3>1. torn => torn'
      BY <2>3a
    <3> QED BY <2>3, <2>3a, <3>1
  <2>4. ASSUME NEW a \in Admins, NEW b \in Batches, NEW place \in AdminPlaces,
               place # "add", Receive(a, b, place)
        PROVE  Goal
    <3>1. /\ pc' = [pc EXCEPT ![a] = place] /\ todo' = [todo EXCEPT ![a] = b]
          /\ serial' = [serial EXCEPT ![a] = nextSerial] /\ UNCHANGED <<entries, torn>>
      BY <2>4 DEF Receive, Goto, tables
    <3>2. BatchWhole(a)'
      BY <2>4, <3>1 DEF BatchWhole, TypeOK
    <3> QED BY <2>1, <3>1, <3>2 DEF TypeOK
  <2>5. \A a \in Admins, b \in Batches : Post(a, b) => Goal
    BY <2>4, Places DEF Post
  <2>6. \A a \in Admins, b \in Batches : Put(a, b) => Goal
    BY <2>4, Places DEF Put
  <2>7. \A a \in Admins : ClearEntries(a) => Goal
    <3> SUFFICES ASSUME NEW a \in Admins, ClearEntries(a), NEW o \in Admins
                 PROVE  BatchWhole(o)'
      OBVIOUS
    <3>1. /\ pc[a] = "clearEntries" /\ pc' = [pc EXCEPT ![a] = "clearRuntimes"]
          /\ UNCHANGED <<todo, serial>>
      BY DEF ClearEntries, Goto
    <3>2. pc[o] = "add" => torn'
      BY DEF ClearEntries
    <3> QED BY <3>1, <3>2 DEF BatchWhole, TypeOK
  <2>8. \A a \in Admins : ClearRuntimes(a) => Goal
    BY <2>3a, Places DEF ClearRuntimes, Goto
  <2>9. \A a \in Admins : ClearCrud(a) => Goal
    BY <2>3a, Places DEF ClearCrud, Goto
  <2>10. \A a \in Admins : ResetCounter(a) => Goal
    BY <2>3, Places DEF ResetCounter, Goto
  <2>11. \A a \in Admins : LockRuntimes(a) => Goal
    BY <2>3a, Places DEF LockRuntimes, Goto, tables
  <2>12. \A a \in Admins : LockCrud(a) => Goal
    BY <2>3a, Places DEF LockCrud, Goto, tables
  <2>13. \A a \in Admins : Reserve(a) => Goal
    <3> SUFFICES ASSUME NEW a \in Admins, Reserve(a) PROVE Goal
      OBVIOUS
    <3>1. /\ pc[a] = "reserve" /\ pc' = [pc EXCEPT ![a] = "add"]
          /\ UNCHANGED <<entries, todo, serial>> /\ (torn => torn')
      BY DEF Reserve, Goto
    <3>2. todo[a] \in Batches
      BY <3>1 DEF BatchWhole
    <3>3. PartlyAdded(a)'
      BY <3>2, ReserveStartsBatch
    <3>4. BatchWhole(a)'
      BY <3>1, <3>3 DEF BatchWhole, TypeOK
    <3>5. /\ \A o \in Admins : o # a => pc'[o] = pc[o]
          /\ torn => torn'
      BY <3>1 DEF TypeOK
    <3> HIDE DEF Goal
    <3> QED BY <2>1, <3>1, <3>4, <3>5
  <2>14. \A a \in Admins : AddRule(a) => Goal
    <3> SUFFICES ASSUME NEW a \in Admins, AddRule(a), NEW o \in Admins
                 PROVE  BatchWhole(o)'
      OBVIOUS
    <3>1. /\ pc[a] = "add" /\ UNCHANGED <<pc, serial, torn>>
          /\ \A p \in Admins : p # a => todo'[p] = todo[p]
      BY DEF AddRule, TypeOK
    <3>2. CASE o = a
      BY <3>1, <3>2, AddKeepsPromise DEF BatchWhole
    <3>3. CASE o # a
      <4>1. pc[o] # "add"
        BY <3>1, <3>3, InsideAlone DEF HoldsCrud
      <4> QED BY <3>1, <3>3, <4>1 DEF BatchWhole
    <3> QED BY <3>2, <3>3
  <2>15. \A a \in Admins : Return(a) => Goal
    BY <2>3a, Places DEF Return, Goto, tables
  <2>16. \A r \in Requests, t \in Targets : MatchRequest(r, t) => Goal
    BY <2>2 DEF MatchRequest, tables, admins
  <2>17. \A r \in Requests : GetRuntime(r) => Goal
    BY <2>2 DEF GetRuntime, tables, admins
  <2>18. \A r \in Requests : Resolve(r) => Goal
    BY <2>2 DEF Resolve, tables, admins
  <2>19. \A r \in Requests : Finish(r) => Goal
    BY <2>2 DEF Finish, tables, admins
  <2>20. UNCHANGED vars => Goal
    BY <2>2 DEF vars, tables, admins
  <2> HIDE DEF Goal
  <2>21. [Next]_vars => Goal
    BY <2>5, <2>6, <2>7, <2>8, <2>9, <2>10, <2>11, <2>12, <2>13,
       <2>14, <2>15, <2>16, <2>17, <2>18, <2>19, <2>20, NextCases
  <2> QED BY <2>21 DEF Goal
<1> QED
  BY <1>1, <1>2, TypeCorrect, LocksCorrect, NumbersCorrect, PTL DEF Spec

\* The rules that count, while the list stays or grows and the numbers of the
\* listed rules stay under way or not.
LEMMA CommittedStays ==
  ASSUME DOMAIN entries = 1 .. Len(entries), Len(entries) \in Nat,
         UNCHANGED <<entries, torn>>,
         \A i \in DOMAIN entries :
           (entries[i].batch \in UnderWay') <=> (entries[i].batch \in UnderWay)
  PROVE  Committed' = Committed
<1>1. \A i \in DOMAIN entries : \A j \in 1 .. i : j \in DOMAIN entries
  OBVIOUS
<1>2. Settled' = Settled
  BY <1>1 DEF Settled
<1> QED BY <1>2 DEF Committed, RulesOf

\* A rule that is added does not count: its registration is under way.
LEMMA AddDoesNotCount ==
  ASSUME TypeOK, NEW a \in Admins, AddRule(a)
  PROVE  Committed' = Committed
<1> DEFINE e == [rule |-> Head(todo[a]), index |-> next[a], batch |-> serial[a]]
           n == Len(entries)
<1>1. /\ entries \in Seq(Entry) /\ entries' = Append(entries, e) /\ e.batch = serial[a]
      /\ pc[a] = "add" /\ UNCHANGED <<pc, serial>>
  BY DEF AddRule, TypeOK
<1>2. UnderWay' = UnderWay /\ serial[a] \in UnderWay
  BY <1>1 DEF UnderWay
<1> HIDE DEF e
<1>3. /\ n \in Nat /\ DOMAIN entries = 1 .. n /\ DOMAIN entries' = 1 .. n + 1
      /\ \A i \in 1 .. n : entries'[i] = entries[i]
      /\ entries'[n + 1] = e
  BY <1>1
<1> HIDE DEF n
<1>4. Settled' = Settled
  <2>1. \A i \in 1 .. n + 1 : i \in Settled' => i # n + 1
    BY <1>1, <1>2, <1>3 DEF Settled
  <2>2. \A i \in 1 .. n : i \in Settled' <=> i \in Settled
    BY <1>2, <1>3 DEF Settled
  <2>3. Settled \subseteq 1 .. n /\ Settled' \subseteq 1 .. n + 1
    BY <1>3 DEF Settled
  <2>4. \A i \in 1 .. n + 1 : i # n + 1 => i \in 1 .. n
    BY <1>3
  <2> QED BY <2>1, <2>2, <2>3, <2>4
<1>5. Settled \subseteq 1 .. n
  BY <1>3 DEF Settled
<1>6. torn' = torn
  BY DEF AddRule
<1> QED BY <1>3, <1>4, <1>5, <1>6 DEF Committed, RulesOf

\* When a registration returns, its batch counts, whole.
LEMMA ReturnLoadsBatch ==
  ASSUME TypeOK, LocksHeld, NumbersFresh, ~torn,
         NEW a \in Admins, Return(a), PartlyAdded(a)
  PROVE  \E b \in Batches : Committed' = Committed \o b
<1> DEFINE n == Len(entries)
<1>1. /\ pc[a] = "add" /\ pc' = [pc EXCEPT ![a] = "idle"] /\ todo[a] = <<>>
      /\ UNCHANGED <<entries, serial, torn>>
  BY DEF Return, Goto, tables
<1>2. PICK b \in Batches, s \in 0 .. n :
        /\ \A i \in DOMAIN entries : entries[i].batch = serial[a] <=> i > s
        /\ s + Len(b) = n
        /\ \A i \in DOMAIN b : b[i] = entries[s + i].rule
  <2>1. Len(todo[a]) = 0
    BY <1>1
  <2>2. PICK b \in Batches, s \in 0 .. n :
          /\ \A i \in DOMAIN entries : entries[i].batch = serial[a] <=> i > s
          /\ s + Len(b) = n + Len(todo[a])
          /\ \A i \in DOMAIN b :
               b[i] = IF s + i <= n THEN entries[s + i].rule ELSE todo[a][s + i - n]
    BY DEF PartlyAdded
  <2>3. b \in Seq(Rules) /\ n \in Nat
    BY ConstantsAssumption DEF TypeOK
  <2>4. \A i \in DOMAIN b : s + i <= n
    BY <2>1, <2>2, <2>3
  <2>5. s + Len(b) = n
    BY <2>1, <2>2, <2>3
  <2> QED BY <2>2, <2>4, <2>5
<1>3. entries \in Seq(Entry) /\ n \in Nat /\ DOMAIN entries = 1 .. n
  BY DEF TypeOK
<1>4. b \in Seq(Rules) /\ Len(b) \in Nat /\ DOMAIN b = 1 .. Len(b)
  BY ConstantsAssumption
<1>5. \A o \in Admins : pc[o] = "add" => o = a
  BY <1>1, InsideAlone DEF HoldsCrud
<1>6. \A i \in 1 .. n : entries[i].batch \in UnderWay <=> i > s
  <2>1. serial[a] \in UnderWay
    BY <1>1 DEF UnderWay
  <2>2. \A i \in 1 .. n : entries[i].batch \in UnderWay => entries[i].batch = serial[a]
    BY <1>3, <1>5 DEF UnderWay, NumbersFresh
  <2> QED BY <1>2, <1>3, <2>1, <2>2
<1>7. \A i \in 1 .. n : entries[i].batch \notin UnderWay'
  <2>1. \A o \in Admins : pc'[o] # "idle" => o # a /\ pc[o] # "idle"
    BY <1>1 DEF TypeOK
  <2>2. \A i \in 1 .. n, o \in Admins : pc'[o] # "idle" => entries[i].batch # serial[o]
    BY <1>3, <1>5, <2>1 DEF NumbersFresh
  <2> QED BY <1>1, <2>2 DEF UnderWay
<1>8. Settled = 1 .. s
  BY <1>3, <1>6 DEF Settled
<1>9. Settled' = 1 .. n
  BY <1>1, <1>3, <1>7 DEF Settled
<1>10. \A i \in 1 .. n : entries[i].rule \in Rules
  <2>1. \A i \in 1 .. n : entries[i] \in Entry
    BY <1>3
  <2> QED BY <2>1 DEF Entry
<1> HIDE DEF n
<1>11. Committed = [i \in 1 .. s |-> entries[i].rule]
  BY <1>8 DEF Committed, RulesOf
<1>12. Committed' = [i \in 1 .. n |-> entries[i].rule]
  BY <1>1, <1>9 DEF Committed, RulesOf
<1>13. Committed \in Seq(Rules) /\ Len(Committed) = s
  BY <1>3, <1>10, <1>11
<1>14. Committed' \in Seq(Rules) /\ Len(Committed') = n
  BY <1>3, <1>10, <1>12
<1>15. /\ Committed \o b \in Seq(Rules) /\ Len(Committed \o b) = n
       /\ \A i \in 1 .. n : (Committed \o b)[i] = IF i <= s THEN Committed[i] ELSE b[i - s]
  <2>1. /\ Committed \o b \in Seq(Rules) /\ Len(Committed \o b) = Len(Committed) + Len(b)
        /\ \A i \in 1 .. Len(Committed) + Len(b) :
             (Committed \o b)[i] =
               IF i <= Len(Committed) THEN Committed[i] ELSE b[i - Len(Committed)]
    BY <1>4, <1>13, ConcatProperties
  <2> QED BY <1>2, <1>13, <2>1
<1>16. ASSUME NEW i \in 1 .. n
       PROVE  Committed'[i] = (Committed \o b)[i]
  <2>1. CASE i <= s
    <3>1. i \in 1 .. s /\ (Committed \o b)[i] = Committed[i]
      BY <1>3, <1>15, <2>1
    <3> QED BY <1>11, <1>12, <3>1
  <2>2. CASE i > s
    <3>1. i - s \in 1 .. Len(b) /\ s + (i - s) = i
      BY <1>2, <1>3, <1>4, <2>2
    <3>2. (Committed \o b)[i] = b[i - s]
      BY <1>3, <1>15, <2>2
    <3>3. b[i - s] = entries[i].rule
      BY <1>2, <1>4, <3>1
    <3>4. Committed'[i] = entries[i].rule
      BY <1>12
    <3> QED BY <3>2, <3>3, <3>4
  <2>3. i <= s \/ i > s
    BY <1>2, <1>3
  <2> QED BY <2>1, <2>2, <2>3
<1>17. Committed' = Committed \o b
  <2>1. ASSUME NEW c \in Seq(Rules), NEW e \in Seq(Rules), Len(c) = n, Len(e) = n,
               \A i \in 1 .. n : c[i] = e[i]
        PROVE  c = e
    BY <2>1, SeqEqual
  <2> QED BY <1>14, <1>15, <1>16, <2>1
<1> QED BY <1>17

\* Each step is one of RuleLog, or changes no rule that counts.
LEMMA StepIsLogStep ==
  ASSUME TypeOK, LocksHeld, NumbersFresh, BatchesWhole, [Next]_vars
  PROVE  [Log!Next]_Committed
<1> DEFINE Goal == [Log!Next]_Committed
<1>1. /\ Len(entries) \in Nat /\ DOMAIN entries = 1 .. Len(entries)
      /\ \A i \in DOMAIN entries : entries[i].batch < nextSerial
  BY DEF TypeOK, NumbersFresh
<1>2. ASSUME UNCHANGED <<entries, torn>>, UnderWay' = UnderWay PROVE Goal
  BY <1>1, <1>2, CommittedStays
<1>3. ASSUME UNCHANGED <<entries, serial, torn>>,
             \A o \in Admins : pc'[o] = "idle" <=> pc[o] = "idle"
      PROVE  Goal
  <2>1. UnderWay' = UnderWay
    BY <1>3 DEF UnderWay
  <2> QED BY <1>2, <1>3, <2>1
<1>4. ASSUME NEW a \in Admins, NEW place \in AdminPlaces, place # "idle",
             pc' = [pc EXCEPT ![a] = place], UNCHANGED <<entries, serial, torn>>,
             pc[a] # "idle"
      PROVE  Goal
  BY <1>3, <1>4 DEF TypeOK
<1>5. ASSUME NEW a \in Admins, NEW b \in Batches, NEW place \in AdminPlaces,
             place # "idle", Receive(a, b, place)
      PROVE  Goal
  <2>1. /\ pc[a] = "idle" /\ pc' = [pc EXCEPT ![a] = place]
        /\ serial' = [serial EXCEPT ![a] = nextSerial] /\ UNCHANGED <<entries, torn>>
    BY <1>5 DEF Receive, Goto, tables
  <2>2. UnderWay' = UnderWay \cup {nextSerial}
    <3>1. \A o \in Admins : pc'[o] # "idle" <=> o = a \/ pc[o] # "idle"
      BY <1>5, <2>1 DEF TypeOK
    <3>2. serial'[a] = nextSerial /\ \A o \in Admins : o # a => serial'[o] = serial[o]
      BY <2>1 DEF TypeOK
    <3> QED BY <2>1, <3>1, <3>2 DEF UnderWay
  <2>3. \A i \in DOMAIN entries : entries[i].batch # nextSerial
    <3>1. \A i \in DOMAIN entries : entries[i].batch \in Nat
      <4>1. \A i \in DOMAIN entries : entries[i] \in Entry
        BY DEF TypeOK
      <4> QED BY <4>1 DEF Entry
    <3>2. nextSerial \in Nat
      BY DEF TypeOK
    <3> QED BY <1>1, <3>1, <3>2
  <2> QED BY <1>1, <2>1, <2>2, <2>3, CommittedStays
<1>6. \A a \in Admins, b \in Batches : Post(a, b) => Goal
  BY <1>5, Places DEF Post
<1>7. \A a \in Admins, b \in Batches : Put(a, b) => Goal
  BY <1>5, Places DEF Put
<1>8. \A a \in Admins : ClearEntries(a) => Goal
  <2> SUFFICES ASSUME entries' = <<>> PROVE Committed' = <<>>
    BY DEF ClearEntries, Log!Next, Log!Reset
  <2>1. Settled' = {}
    BY DEF Settled
  <2> QED BY <2>1 DEF Committed, RulesOf
<1>9. \A a \in Admins : ClearRuntimes(a) => Goal
  BY <1>4, Places DEF ClearRuntimes, Goto
<1>10. \A a \in Admins : ClearCrud(a) => Goal
  BY <1>4, Places DEF ClearCrud, Goto
<1>11. \A a \in Admins : ResetCounter(a) => Goal
  <2> SUFFICES ASSUME NEW a \in Admins, ResetCounter(a) PROVE Goal
    OBVIOUS
  <2>1. CASE torn /\ ~torn'
    <3>1. entries' = <<>>
      BY <2>1 DEF ResetCounter
    <3>2. Settled' = {}
      BY <3>1 DEF Settled
    <3>3. Committed' = <<>>
      BY <3>2 DEF Committed, RulesOf
    <3> QED BY <3>3 DEF Log!Next, Log!Reset
  <2>2. CASE torn' = torn
    BY <1>4, <2>2, Places DEF ResetCounter, Goto
  <2>3. torn' => torn
    BY DEF ResetCounter
  <2> QED BY <2>1, <2>2, <2>3 DEF TypeOK, ResetCounter
<1>12. \A a \in Admins : LockRuntimes(a) => Goal
  BY <1>4, Places DEF LockRuntimes, Goto, tables
<1>13. \A a \in Admins : LockCrud(a) => Goal
  BY <1>4, Places DEF LockCrud, Goto, tables
<1>14. \A a \in Admins : Reserve(a) => Goal
  <2> SUFFICES ASSUME NEW a \in Admins, Reserve(a) PROVE Goal
    OBVIOUS
  <2>1. CASE torn'
    <3>1. Committed' = <<>>
      BY <2>1 DEF Committed, RulesOf
    <3> QED BY <3>1 DEF Log!Next, Log!Reset
  <2>2. CASE ~torn'
    <3>1. torn' = torn
      BY <2>2 DEF Reserve, TypeOK
    <3> QED BY <1>4, <3>1, Places DEF Reserve, Goto
  <2> QED BY <2>1, <2>2
<1>15. \A a \in Admins : AddRule(a) => Goal
  BY AddDoesNotCount
<1>16. \A a \in Admins : Return(a) => Goal
  <2> SUFFICES ASSUME NEW a \in Admins, Return(a) PROVE Goal
    OBVIOUS
  <2>1. CASE torn
    <3>1. torn'
      BY <2>1 DEF Return, tables
    <3>2. Committed' = <<>>
      BY <3>1 DEF Committed, RulesOf
    <3> QED BY <3>2 DEF Log!Next, Log!Reset
  <2>2. CASE ~torn
    <3>1. PartlyAdded(a)
      BY <2>2 DEF Return, BatchesWhole, BatchWhole
    <3> QED BY <2>2, <3>1, ReturnLoadsBatch DEF Log!Next, Log!Load
  <2> QED BY <2>1, <2>2
<1>17. \A r \in Requests, t \in Targets : MatchRequest(r, t) => Goal
  BY <1>3 DEF MatchRequest, tables, admins
<1>18. \A r \in Requests : GetRuntime(r) => Goal
  BY <1>3 DEF GetRuntime, tables, admins
<1>19. \A r \in Requests : Resolve(r) => Goal
  BY <1>3 DEF Resolve, tables, admins
<1>20. \A r \in Requests : Finish(r) => Goal
  BY <1>3 DEF Finish, tables, admins
<1>21. UNCHANGED vars => Goal
  BY <1>3 DEF vars, tables, admins
<1> HIDE DEF Goal
<1>22. [Next]_vars => Goal
  BY <1>6, <1>7, <1>8, <1>9, <1>10, <1>11, <1>12, <1>13, <1>14, <1>15,
     <1>16, <1>17, <1>18, <1>19, <1>20, <1>21, NextCases
<1> QED BY <1>22 DEF Goal

\* The rule list implements RuleLog: batches are listed whole and in the order
\* they were sent, for any number of overlapping POSTs and PUTs, except that a
\* list a PUT and a registration tore counts as reset until a PUT resets it
\* (register_rules and clear_all, src/server.rs).
THEOREM RegistryImplementsRuleLog == Spec => ImplementsRuleLog
<1>1. Init => Log!Init
  <2> SUFFICES ASSUME Init PROVE Committed = <<>>
    BY DEF Log!Init
  <2>1. DOMAIN entries = {}
    BY DEF Init
  <2>2. Settled = {}
    BY <2>1 DEF Settled
  <2> QED BY <2>2 DEF Committed, RulesOf
<1>2. TypeOK /\ LocksHeld /\ NumbersFresh /\ BatchesWhole /\ [Next]_vars
      => [Log!Next]_Committed
  BY StepIsLogStep
<1> QED
  BY <1>1, <1>2, TypeCorrect, LocksCorrect, NumbersCorrect, BatchesStayWhole, PTL DEF Spec, ImplementsRuleLog, Log!Spec

=============================================================================
