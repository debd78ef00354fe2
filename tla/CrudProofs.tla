----------------------------- MODULE CrudProofs -----------------------------
(***************************************************************************)
(* Proofs about CrudStore, for any seeds, bodies and widths: its types,    *)
(* the order of the list, ids that are used once, and items that are found *)
(* under the ids they show.                                                *)
(***************************************************************************)
EXTENDS CrudStore, FiniteSetTheorems, SequenceTheorems, TLAPS

\* What a step can do to the items, for the proofs that do not depend on
\* which request it was.
Stays == UNCHANGED store

Counts(b) ==
  /\ id_strategy = "inc"
  /\ checked => next_id < Width - 1
  /\ next_id' = IdAfter(next_id)
  /\ Insert(Dec(next_id), WithId(b, Number(next_id)))
  /\ reusable' = IF next_id' = 0 THEN Numerals ELSE reusable
  /\ strayed' = strayed \ {Dec(next_id)}
  /\ UNCHANGED <<id_strategy, checked>>

Draws(b) ==
  /\ id_strategy = "uuid"
  /\ \E u \in Uuids \ named : Insert(u, WithId(b, Text(u)))
  /\ UNCHANGED <<next_id, id_strategy, checked, reusable, strayed>>

Puts(k, b) ==
  /\ Insert(k, WithId(b, IdOfKey(k)))
  /\ strayed' = IF k.form = "pad" THEN strayed \cup {k} ELSE strayed \ {k}
  /\ UNCHANGED <<next_id, id_strategy, checked, reusable>>

Patches(k, b) ==
  /\ Insert(k, Merge(item[k], b))
  /\ strayed' = IF b.object /\ b.id = NoId THEN strayed ELSE strayed \cup {k}
  /\ UNCHANGED <<next_id, id_strategy, checked, reusable>>

Deletes(k) ==
  /\ item' = [i \in DOMAIN item \ {k} |-> item[i]]
  /\ order' = OrderWithout(k)
  /\ strayed' = strayed \ {k}
  /\ UNCHANGED <<next_id, id_strategy, checked, named, reusable>>

\* Every step of the store does one of these.
LEMMA Effects ==
  ASSUME [Next]_vars
  PROVE  \/ Stays
         \/ \E b \in Bodies : Counts(b) \/ Draws(b)
         \/ \E k \in DOMAIN item : \/ \E b \in Bodies : Puts(k, b)
                                   \/ \E b \in PatchBodies : Patches(k, b)
                                   \/ Deletes(k)
<1>1. CASE UNCHANGED vars
  BY <1>1 DEF vars, Stays
<1>2. CASE Next
  <2>1. PICK p \in Paths :
          \/ List(p) \/ Get(p) \/ Delete(p) \/ CreatePanics(p)
          \/ \E m \in Methods : NotFound(m, p) \/ NotAllowed(m, p) \/ Poisoned(m, p)
          \/ \E b \in Bodies : Create(p, b) \/ Replace(p, b)
          \/ \E b \in PatchBodies : Patch(p, b)
    BY <1>2 DEF Next
  <2>2. CASE List(p) \/ Get(p) \/ CreatePanics(p)
    BY <2>2 DEF List, Get, CreatePanics, Stays
  <2>3. CASE \E m \in Methods : NotFound(m, p) \/ NotAllowed(m, p) \/ Poisoned(m, p)
    BY <2>3 DEF NotFound, NotAllowed, Poisoned, Stays, store
  <2>4. CASE Delete(p)
    BY <2>4 DEF Delete, OnItem, Deletes
  <2>5. CASE \E b \in Bodies : Create(p, b)
    BY <2>5 DEF Create, Counts, Draws, NextId
  <2>6. CASE \E b \in Bodies : Replace(p, b)
    BY <2>6 DEF Replace, OnItem, Puts
  <2>7. CASE \E b \in PatchBodies : Patch(p, b)
    BY <2>7 DEF Patch, OnItem, Patches
  <2> QED BY <2>1, <2>2, <2>3, <2>4, <2>5, <2>6, <2>7
<1> QED BY <1>1, <1>2

-----------------------------------------------------------------------------
(***************************************************************************)
(* Types, and the order of the list.                                       *)
(***************************************************************************)
\* A value of a data list that has an id has it among the ids.
LEMMA SeedIds ==
  ASSUME NEW data \in Seeds, NEW i \in DOMAIN data, HasId(data[i])
  PROVE  /\ data[i] \in JsonValues
         /\ data[i].id.key \in Keys
<1>1. data \in Seq(JsonValues)
  BY CrudAssumption
<1>2. data[i] \in JsonValues
  BY <1>1
<1>3. data[i].id \in Ids /\ data[i].id # NoId
  BY <1>2 DEF JsonValues, HasId
<1>4. \A k \in Keys : k.form = "dec" => Dec(k.n) \in Keys
  BY CrudAssumption
<1> QED BY <1>2, <1>3, <1>4 DEF Ids, Text, Number

\* The order of the data list is a list of its ids, each once.
LEMMA SeedOrdered ==
  ASSUME NEW data \in Seeds, NEW keys \in SeedOrder(data)
  PROVE  /\ keys \in Seq(Keys)
         /\ {keys[i] : i \in DOMAIN keys} = SeedKeys(data)
         /\ \A i, j \in DOMAIN keys : keys[i] = keys[j] => i = j
<1> DEFINE K == SeedKeys(data)
           n == Cardinality(K)
           With == {i \in DOMAIN data : HasId(data[i])}
<1>1. DOMAIN data = 1 .. Len(data) /\ Len(data) \in Nat
  BY CrudAssumption
<1>2. IsFiniteSet(With)
  <2>1. IsFiniteSet(1 .. Len(data))
    BY <1>1, FS_Interval
  <2> QED BY <1>1, <2>1, FS_Subset
<1>3. IsFiniteSet(K) /\ n \in Nat
  <2>1. [i \in With |-> data[i].id.key] \in Surjection(With, K)
    BY DEF Surjection, SeedKeys
  <2> QED BY <1>2, <2>1, FS_Surjection, FS_CardinalityType
<1>4. K \subseteq Keys
  BY SeedIds DEF SeedKeys
<1>5. keys \in [1 .. n -> K]
  BY DEF SeedOrder
<1>6. \A k \in K : ~Precedes(data, k, k)
  <2> SUFFICES ASSUME NEW k \in K, NEW i \in At(data, k), \A j \in At(data, k) : i < j
               PROVE  FALSE
    BY DEF Precedes
  <2>1. i \in Nat
    BY <1>1 DEF At
  <2> QED BY <2>1
<1>7. \A i, j \in 1 .. n : keys[i] = keys[j] => i = j
  <2> SUFFICES ASSUME NEW i \in 1 .. n, NEW j \in 1 .. n, keys[i] = keys[j], i < j
               PROVE  FALSE
    BY <1>3
  <2> QED BY <1>5, <1>6 DEF SeedOrder
<1>8. keys \in Surjection(1 .. n, K)
  <2>1. keys \in Injection(1 .. n, K)
    BY <1>5, <1>7 DEF Injection, IsInjective
  <2>2. Cardinality(1 .. n) = n
    BY <1>3, FS_Interval
  <2> QED BY <1>3, <2>1, <2>2, FS_Injection
<1> QED BY <1>3, <1>4, <1>5, <1>7, <1>8 DEF Surjection

\* A sequence without its element at p.
LEMMA RemovedAt ==
  ASSUME NEW S, NEW s \in Seq(S), NEW p \in 1 .. Len(s)
  PROVE  /\ SE!RemoveAt(s, p) \in Seq(S)
         /\ Len(SE!RemoveAt(s, p)) = Len(s) - 1
         /\ \A i \in 1 .. Len(s) - 1 :
              SE!RemoveAt(s, p)[i] = IF i < p THEN s[i] ELSE s[i + 1]
<1> DEFINE n == Len(s)
           front == SubSeq(s, 1, p - 1)
           back == SubSeq(s, p + 1, n)
<1>1. n \in Nat /\ p \in Nat
  OBVIOUS
<1>2. /\ front \in Seq(S) /\ Len(front) = p - 1
      /\ \A i \in 1 .. p - 1 : front[i] = s[i]
  BY <1>1
<1>3. /\ back \in Seq(S) /\ Len(back) = n - p
      /\ \A i \in 1 .. n - p : back[i] = s[p + i]
  BY <1>1
<1> HIDE DEF front, back
<1>4. front \o back \in Seq(S) /\ Len(front \o back) = n - 1
  <2>1. front \o back \in Seq(S) /\ Len(front \o back) = Len(front) + Len(back)
    BY <1>2, <1>3, ConcatProperties
  <2> QED BY <1>1, <1>2, <1>3, <2>1
<1>5. \A i \in 1 .. Len(front) + Len(back) :
        (front \o back)[i] = IF i <= Len(front) THEN front[i] ELSE back[i - Len(front)]
  BY <1>2, <1>3
<1>6. ASSUME NEW i \in 1 .. n - 1
      PROVE  (front \o back)[i] = IF i < p THEN s[i] ELSE s[i + 1]
  <2>1. i \in 1 .. Len(front) + Len(back)
    BY <1>1, <1>2, <1>3
  <2>2. CASE i < p
    <3>1. i \in 1 .. p - 1
      BY <1>1, <2>2
    <3> QED BY <1>1, <1>2, <1>5, <2>1, <3>1
  <2>3. CASE ~(i < p)
    <3>1. /\ i - (p - 1) \in 1 .. n - p /\ ~(i <= Len(front))
          /\ p + (i - (p - 1)) = i + 1
      BY <1>1, <1>2, <2>3
    <3>2. (front \o back)[i] = back[i - (p - 1)]
      BY <1>2, <1>5, <2>1, <3>1
    <3> QED BY <1>3, <2>3, <3>1, <3>2
  <2> QED BY <2>2, <2>3
<1>7. SE!RemoveAt(s, p) = front \o back
  BY DEF SE!RemoveAt, front, back
<1> QED BY <1>1, <1>4, <1>6, <1>7

\* What is left of the list when an item is taken out of it.
LEMMA Removed ==
  ASSUME order \in Seq(Keys), \A i, j \in DOMAIN order : order[i] = order[j] => i = j,
         NEW k \in {order[i] : i \in DOMAIN order},
         order' = OrderWithout(k)
  PROVE  /\ order' \in Seq(Keys)
         /\ Place(k) \in 1 .. Len(order) /\ order[Place(k)] = k
         /\ DOMAIN order' = 1 .. Len(order) - 1
         /\ \A i \in DOMAIN order' :
              order'[i] = IF i < Place(k) THEN order[i] ELSE order[i + 1]
         /\ \A i, j \in DOMAIN order' : order'[i] = order'[j] => i = j
         /\ {order'[i] : i \in DOMAIN order'} = {order[i] : i \in DOMAIN order} \ {k}
<1> DEFINE p == Place(k)
           n == Len(order)
           Old(i) == IF i < p THEN i ELSE i + 1
<1>1. p \in 1 .. n /\ order[p] = k
  BY DEF Place
<1> HIDE DEF p
<1>2. order' = SE!RemoveAt(order, p)
  BY DEF OrderWithout, p
<1>3. /\ order' \in Seq(Keys) /\ Len(order') = n - 1
      /\ \A i \in 1 .. n - 1 : order'[i] = IF i < p THEN order[i] ELSE order[i + 1]
  <2>1. /\ SE!RemoveAt(order, p) \in Seq(Keys)
        /\ Len(SE!RemoveAt(order, p)) = n - 1
        /\ \A i \in 1 .. n - 1 :
             SE!RemoveAt(order, p)[i] = IF i < p THEN order[i] ELSE order[i + 1]
    BY <1>1, RemovedAt
  <2> QED BY <1>2, <2>1
<1>4. n \in Nat /\ p \in Nat /\ DOMAIN order = 1 .. n /\ DOMAIN order' = 1 .. n - 1
  BY <1>1, <1>3
<1> HIDE DEF n
<1>5. \A i \in 1 .. n - 1 : Old(i) \in 1 .. n /\ Old(i) # p /\ order'[i] = order[Old(i)]
  BY <1>1, <1>3, <1>4
<1>6. \A i, j \in 1 .. n - 1 : Old(i) = Old(j) => i = j
  BY <1>1, <1>4
<1>7. \A j \in 1 .. n : j # p => \E i \in 1 .. n - 1 : Old(i) = j
  <2> SUFFICES ASSUME NEW j \in 1 .. n, j # p
               PROVE  \E i \in 1 .. n - 1 : Old(i) = j
    OBVIOUS
  <2>1. CASE j < p
    <3>1. j \in 1 .. n - 1 /\ Old(j) = j
      BY <1>1, <1>4, <2>1
    <3> QED BY <3>1
  <2>2. CASE p < j
    <3>1. j - 1 \in 1 .. n - 1 /\ Old(j - 1) = j
      BY <1>1, <1>4, <2>2
    <3> QED BY <3>1
  <2> QED BY <1>4, <2>1, <2>2
<1> HIDE DEF Old
<1>8. \A i, j \in DOMAIN order' : order'[i] = order'[j] => i = j
  BY <1>4, <1>5, <1>6
<1>9. {order'[i] : i \in DOMAIN order'} = {order[i] : i \in DOMAIN order} \ {k}
  <2>1. \A i \in 1 .. n - 1 : order'[i] # k /\ \E j \in 1 .. n : order'[i] = order[j]
    BY <1>1, <1>4, <1>5
  <2>2. \A j \in 1 .. n : order[j] # k => \E i \in 1 .. n - 1 : order'[i] = order[j]
    BY <1>1, <1>5, <1>7
  <2>3. {order'[i] : i \in 1 .. n - 1} = {order[i] : i \in 1 .. n} \ {k}
    BY <2>1, <2>2
  <2> QED BY <1>4, <2>3
<1> QED BY <1>1, <1>3, <1>4, <1>8, <1>9 DEF p, n

\* The part of TypeOK the store itself keeps, and the part a request leaves.
StoreTyped ==
  /\ DOMAIN item \subseteq Keys
  /\ \A k \in DOMAIN item : item[k] \in JsonValues
  /\ order \in Seq(Keys)
  /\ {order[i] : i \in DOMAIN order} = DOMAIN item
  /\ \A i, j \in DOMAIN order : order[i] = order[j] => i = j
  /\ next_id \in 0 .. Width - 1
  /\ id_strategy \in Strategies
  /\ checked \in Builds
  /\ DOMAIN item \subseteq named /\ named \subseteq Keys
  /\ reusable \subseteq Keys /\ strayed \subseteq Keys

AnswerTyped ==
  /\ poisoned \in BOOLEAN
  /\ answer \in [method : Methods, below : {0} \cup Below, status : Statuses]

\* Seeding the store (CrudStore::new) gives it its types.
LEMMA InitTyped == Init => StoreTyped /\ AnswerTyped
<1> SUFFICES ASSUME Init PROVE StoreTyped /\ AnswerTyped
  OBVIOUS
<1>1. PICK data \in Seeds, max_id \in 0 .. Width - 1 :
        /\ \E last \in LastOf(data) : item = [k \in SeedKeys(data) |-> data[last[k]]]
        /\ order \in SeedOrder(data)
        /\ next_id = IdAfter(max_id)
        /\ named = SeedKeys(data)
        /\ reusable = IF next_id = 0 THEN Numerals ELSE TextNumerals(data)
        /\ strayed = {} /\ checked \in Builds
  BY DEF Init
<1>2. PICK last \in LastOf(data) : item = [k \in SeedKeys(data) |-> data[last[k]]]
  BY <1>1
<1>3. SeedKeys(data) \subseteq Keys
  BY SeedIds DEF SeedKeys
<1>4. ASSUME NEW k \in SeedKeys(data)
      PROVE  data[last[k]] \in JsonValues
  <2>1. last[k] \in DOMAIN data /\ HasId(data[last[k]])
    BY DEF LastOf, At
  <2> QED BY <2>1, SeedIds
<1>5. next_id \in 0 .. Width - 1
  BY <1>1, CrudAssumption DEF IdAfter
<1>6. StoreTyped
  <2>1. reusable \subseteq Keys /\ strayed \subseteq Keys
    BY <1>1 DEF Numerals, TextNumerals
  <2> QED BY <1>1, <1>2, <1>3, <1>4, <1>5, <2>1, SeedOrdered DEF StoreTyped, Init
<1>7. AnswerTyped
  <2>1. poisoned = FALSE /\ answer = [method |-> "HEAD", below |-> 0, status |-> 405]
    BY DEF Init
  <2>2. answer \in [method : Methods, below : {0} \cup Below, status : Statuses]
    BY <2>1 DEF Methods, Statuses
  <2> QED BY <2>1, <2>2 DEF AnswerTyped
<1> QED BY <1>6, <1>7

\* The values an insert stores are JSON values.
LEMMA ValuesTyped ==
  /\ \A b \in JsonValues, id \in Ids : WithId(b, id) \in JsonValues
  /\ \A base, patch \in JsonValues : Merge(base, patch) \in JsonValues
  /\ \A n \in 0 .. Width - 1 : Number(n) \in Ids
  /\ \A k \in Keys : Text(k) \in Ids /\ IdOfKey(k) \in Ids
<1>1. \A b \in JsonValues, id \in Ids : WithId(b, id) \in JsonValues
  BY DEF WithId, JsonValues, Fields, NoField
<1>2. \A base, patch \in JsonValues : Merge(base, patch) \in JsonValues
  BY DEF Merge, JsonValues
<1>3. \A n \in 0 .. Width - 1 : Number(n) \in Ids
  <2> TAKE n \in 0 .. Width - 1
  <2>1. Dec(n) \in Keys /\ Dec(n).form = "dec" /\ Dec(n).n = n
    BY CrudAssumption DEF Dec
  <2> QED BY <2>1 DEF Ids
<1>4. \A k \in Keys : k.n \in 0 .. Width - 1
  BY CrudAssumption
<1>5. \A k \in Keys : Text(k) \in Ids
  BY DEF Ids
<1>6. \A k \in Keys : IdOfKey(k) \in Ids
  BY <1>3, <1>4, <1>5 DEF IdOfKey
<1> QED BY <1>1, <1>2, <1>3, <1>5, <1>6

\* An insert keeps the store typed.
LEMMA InsertTyped ==
  ASSUME StoreTyped, NEW k \in Keys, NEW v \in JsonValues, Insert(k, v),
         next_id' \in 0 .. Width - 1, UNCHANGED <<id_strategy, checked>>,
         reusable' \subseteq Keys, strayed' \subseteq Keys
  PROVE  StoreTyped'
<1>1. DOMAIN item' = DOMAIN item \cup {k}
  BY DEF Insert
<1>2. \A l \in DOMAIN item' : item'[l] \in JsonValues
  BY DEF StoreTyped, Insert
<1>3. CASE k \in DOMAIN item
  <2>1. order' = order /\ DOMAIN item' = DOMAIN item
    BY <1>1, <1>3 DEF Insert
  <2> QED BY <1>1, <1>2, <2>1 DEF StoreTyped, Insert
<1>4. CASE k \notin DOMAIN item
  <2>1. order' = Append(order, k) /\ order \in Seq(Keys)
    BY <1>4 DEF Insert, StoreTyped
  <2>2. /\ order' \in Seq(Keys) /\ DOMAIN order' = DOMAIN order \cup {Len(order) + 1}
        /\ order'[Len(order) + 1] = k
        /\ \A i \in DOMAIN order : order'[i] = order[i]
    BY <2>1
  <2>3. \A i \in DOMAIN order : order[i] # k
    BY <1>4 DEF StoreTyped
  <2>4. {order'[i] : i \in DOMAIN order'} = DOMAIN item'
    BY <1>1, <2>2 DEF StoreTyped
  <2>5. \A i, j \in DOMAIN order' : order'[i] = order'[j] => i = j
    BY <2>2, <2>3 DEF StoreTyped
  <2> QED BY <1>1, <1>2, <2>2, <2>4, <2>5 DEF StoreTyped, Insert
<1> QED BY <1>3, <1>4

\* Every request keeps them.
LEMMA StepStoreTyped ==
  ASSUME StoreTyped, [Next]_vars
  PROVE  StoreTyped'
<1> USE DEF StoreTyped
<1>1. CASE Stays
  BY <1>1 DEF Stays, store
<1>2. CASE \E b \in Bodies : Counts(b)
  <2>1. PICK b \in Bodies : Counts(b)
    BY <1>2
  <2>2. b \in JsonValues /\ Dec(next_id) \in Keys
    BY CrudAssumption
  <2>3. next_id' \in 0 .. Width - 1
    <3> HIDE DEF StoreTyped
    <3>1. next_id \in 0 .. Width - 1 /\ next_id' = IdAfter(next_id)
      BY <2>1 DEF Counts, StoreTyped
    <3> QED BY <3>1, CrudAssumption DEF IdAfter
  <2>4. WithId(b, Number(next_id)) \in JsonValues
    BY <2>2, ValuesTyped
  <2>5. reusable' \subseteq Keys /\ strayed' \subseteq Keys
    BY <2>1 DEF Counts, Numerals
  <2> QED BY <2>1, <2>2, <2>3, <2>4, <2>5, InsertTyped DEF Counts
<1>3. CASE \E b \in Bodies : Draws(b)
  <2>1. PICK b \in Bodies, u \in Uuids : Insert(u, WithId(b, Text(u)))
    BY <1>3 DEF Draws
  <2>2. b \in JsonValues /\ u \in Keys
    BY CrudAssumption
  <2>3. WithId(b, Text(u)) \in JsonValues
    BY <2>2, ValuesTyped
  <2>4. UNCHANGED <<next_id, id_strategy, checked, reusable, strayed>>
    BY <1>3 DEF Draws
  <2> QED BY <2>1, <2>2, <2>3, <2>4, InsertTyped
<1>4. CASE \E k \in DOMAIN item : \/ \E b \in Bodies : Puts(k, b)
                                  \/ \E b \in PatchBodies : Patches(k, b)
  <2>1. PICK k \in DOMAIN item : \/ \E b \in Bodies : Puts(k, b)
                                 \/ \E b \in PatchBodies : Patches(k, b)
    BY <1>4
  <2>2. /\ k \in Keys /\ item[k] \in JsonValues
        /\ UNCHANGED <<next_id, id_strategy, checked, reusable>>
        /\ strayed' \subseteq Keys
    BY <2>1 DEF Puts, Patches
  <2>3. \E v \in JsonValues : Insert(k, v)
    <3>1. CASE \E b \in Bodies : Puts(k, b)
      <4>1. PICK b \in JsonValues : Insert(k, WithId(b, IdOfKey(k)))
        BY <3>1, CrudAssumption DEF Puts
      <4>2. WithId(b, IdOfKey(k)) \in JsonValues
        BY <2>2, ValuesTyped
      <4> QED BY <4>1, <4>2
    <3>2. CASE \E b \in PatchBodies : Patches(k, b)
      <4>1. PICK b \in JsonValues : Insert(k, Merge(item[k], b))
        BY <3>2, CrudAssumption DEF Patches
      <4>2. Merge(item[k], b) \in JsonValues
        BY <2>2, ValuesTyped
      <4> QED BY <4>1, <4>2
    <3> QED BY <2>1, <3>1, <3>2
  <2> QED BY <2>2, <2>3, InsertTyped
<1>5. CASE \E k \in DOMAIN item : Deletes(k)
  <2>1. PICK k \in DOMAIN item : Deletes(k)
    BY <1>5
  <2>2. DOMAIN item' = DOMAIN item \ {k} /\ \A l \in DOMAIN item' : item'[l] = item[l]
    BY <2>1 DEF Deletes
  <2>3. /\ order' \in Seq(Keys)
        /\ \A i, j \in DOMAIN order' : order'[i] = order'[j] => i = j
        /\ {order'[i] : i \in DOMAIN order'} = {order[i] : i \in DOMAIN order} \ {k}
    <3> HIDE DEF StoreTyped
    <3>1. /\ order \in Seq(Keys) /\ k \in {order[i] : i \in DOMAIN order}
          /\ \A i, j \in DOMAIN order : order[i] = order[j] => i = j
      BY DEF StoreTyped
    <3> QED BY <2>1, <3>1, Removed DEF Deletes
  <2>4. {order'[i] : i \in DOMAIN order'} = DOMAIN item'
    BY <2>2, <2>3
  <2> QED BY <2>1, <2>2, <2>3, <2>4 DEF Deletes
<1> QED BY <1>1, <1>2, <1>3, <1>4, <1>5, Effects

\* A request and its answer.
LEMMA StepAnswerTyped ==
  ASSUME AnswerTyped, [Next]_vars
  PROVE  AnswerTyped'
<1>1. CASE UNCHANGED vars
  BY <1>1 DEF AnswerTyped, vars
<1>2. CASE Next
  <2>1. \A p \in Paths : p.below \in {0} \cup Below
    BY DEF Paths, Own
  <2>2. \A p \in Paths, m \in Methods, status \in Statuses :
          Respond(m, p, status) =>
            answer' \in [method : Methods, below : {0} \cup Below, status : Statuses]
    BY <2>1 DEF Respond
  <2>3. PICK p \in Paths :
          \/ List(p) \/ Get(p) \/ Delete(p) \/ CreatePanics(p)
          \/ \E m \in Methods : NotFound(m, p) \/ NotAllowed(m, p) \/ Poisoned(m, p)
          \/ \E b \in Bodies : Create(p, b) \/ Replace(p, b)
          \/ \E b \in PatchBodies : Patch(p, b)
    BY <1>2 DEF Next
  <2> DEFINE Answers == \E m \in Methods, status \in Statuses :
                          Respond(m, p, status) /\ poisoned' \in {poisoned, TRUE}
  <2>4. ASSUME List(p) \/ Get(p) \/ Delete(p) \/ CreatePanics(p)
        PROVE  Answers
    <3>1. PICK m \in {"GET", "DELETE", "POST"}, status \in {200, 204, NoAnswer} :
            Respond(m, p, status) /\ poisoned' \in {poisoned, TRUE}
      BY <2>4, ZenonT(30) DEF List, Get, Delete, CreatePanics
    <3>2. m \in Methods /\ status \in Statuses
      BY DEF Methods, Statuses
    <3> QED BY <3>1, <3>2
  <2>5. ASSUME \E m \in Methods : NotFound(m, p) \/ NotAllowed(m, p) \/ Poisoned(m, p)
        PROVE  Answers
    <3>1. \E m \in Methods, status \in {404, 405, NoAnswer} :
            Respond(m, p, status) /\ poisoned' = poisoned
      BY <2>5 DEF NotFound, NotAllowed, Poisoned
    <3> QED BY <3>1 DEF Statuses
  <2>6. ASSUME \/ \E b \in Bodies : Create(p, b) \/ Replace(p, b)
               \/ \E b \in PatchBodies : Patch(p, b)
        PROVE  Answers
    <3>1. \E m \in {"POST", "PUT", "PATCH"}, status \in {200, 201} :
            Respond(m, p, status) /\ poisoned' = poisoned
      BY <2>6 DEF Create, Replace, Patch
    <3> QED BY <3>1 DEF Methods, Statuses
  <2>7. Answers
    BY <2>3, <2>4, <2>5, <2>6
  <2> QED BY <2>2, <2>7 DEF AnswerTyped
<1> QED BY <1>1, <1>2

\* The store and the answers have their types in any build: the list holds
\* the key of every item once (reply/crud.rs:28-145).
THEOREM TypeCorrect == Spec => []TypeOK
<1>1. Init => StoreTyped /\ AnswerTyped
  BY InitTyped
<1>2. StoreTyped /\ AnswerTyped /\ [Next]_vars => StoreTyped' /\ AnswerTyped'
  BY StepStoreTyped, StepAnswerTyped
<1>3. StoreTyped /\ AnswerTyped => TypeOK
  BY DEF StoreTyped, AnswerTyped, TypeOK
<1> QED BY <1>1, <1>2, <1>3, PTL DEF Spec

-----------------------------------------------------------------------------
(***************************************************************************)
(* The list keeps its order.                                               *)
(***************************************************************************)
\* A replaced item keeps its place and a new one goes behind all others.
LEMMA InsertKeepsOrder ==
  ASSUME TypeOK, NEW k \in Keys, NEW v, Insert(k, v),
         NEW l \in DOMAIN item, NEW m \in DOMAIN item
  PROVE  Before(l, m) <=> Before(l, m)'
<1>1. CASE order' = order
  BY <1>1 DEF Before
<1>2. CASE k \notin DOMAIN item /\ order' = Append(order, k)
  <2>1. /\ DOMAIN order' = DOMAIN order \cup {Len(order) + 1}
        /\ order'[Len(order) + 1] = k
        /\ \A i \in DOMAIN order : order'[i] = order[i]
    BY <1>2 DEF TypeOK
  <2>2. k # l /\ k # m
    BY <1>2
  <2> QED BY <2>1, <2>2 DEF Before
<1> QED BY <1>1, <1>2 DEF Insert

\* The items around a deleted one stay as they were.
LEMMA DeleteKeepsOrder ==
  ASSUME TypeOK, NEW k \in DOMAIN item, Deletes(k),
         NEW l \in DOMAIN item \ {k}, NEW m \in DOMAIN item \ {k}
  PROVE  Before(l, m) <=> Before(l, m)'
<1> DEFINE p == Place(k)
           n == Len(order)
<1>1. /\ order \in Seq(Keys) /\ k \in {order[i] : i \in DOMAIN order}
      /\ \A i, j \in DOMAIN order : order[i] = order[j] => i = j
  BY DEF TypeOK
<1>2. order[p] = k
  BY <1>1 DEF Place
<1>3. /\ p \in 1 .. n /\ DOMAIN order' = 1 .. n - 1
      /\ \A i \in DOMAIN order' : order'[i] = IF i < p THEN order[i] ELSE order[i + 1]
  BY <1>1, Removed DEF Deletes
<1>4. n \in Nat /\ DOMAIN order = 1 .. n
  BY <1>1
<1> HIDE DEF p, n
<1>5. ASSUME Before(l, m)'
      PROVE  Before(l, m)
  <2>1. PICK i \in 1 .. n - 1, j \in 1 .. n - 1 : i < j /\ order'[i] = l /\ order'[j] = m
    BY <1>3, <1>5 DEF Before
  <2> DEFINE a == IF i < p THEN i ELSE i + 1
             b == IF j < p THEN j ELSE j + 1
  <2>2. a \in 1 .. n /\ b \in 1 .. n /\ a < b
    BY <1>3, <1>4, <2>1
  <2>3. order[a] = l /\ order[b] = m
    BY <1>3, <2>1
  <2> QED BY <1>4, <2>2, <2>3 DEF Before
<1>6. ASSUME Before(l, m)
      PROVE  Before(l, m)'
  <2>1. PICK i \in 1 .. n, j \in 1 .. n : i < j /\ order[i] = l /\ order[j] = m
    BY <1>4, <1>6 DEF Before
  <2>2. i # p /\ j # p
    BY <1>2, <2>1
  <2> DEFINE a == IF i < p THEN i ELSE i - 1
             b == IF j < p THEN j ELSE j - 1
  <2>3. a \in 1 .. n - 1 /\ b \in 1 .. n - 1 /\ a < b
    BY <1>3, <1>4, <2>1, <2>2
  <2>4. order'[a] = l
    BY <1>3, <1>4, <2>1, <2>2, <2>3
  <2>5. order'[b] = m
    BY <1>3, <1>4, <2>1, <2>2, <2>3
  <2> QED BY <1>3, <2>3, <2>4, <2>5 DEF Before
<1> QED BY <1>5, <1>6

\* Whatever a request does, the items that stay are listed in the order they
\* were: a replaced or patched item keeps its place and a deleted one leaves
\* the others theirs (reply/crud.rs:95-145), in any build.
THEOREM ListKeepsItsOrder == Spec => OrderKept
<1> DEFINE Kept == \A k, l \in DOMAIN item \cap DOMAIN item' :
                     Before(k, l) <=> Before(k, l)'
<1>1. TypeOK /\ [Next]_vars => Kept
  <2> SUFFICES ASSUME TypeOK, [Next]_vars PROVE Kept
    OBVIOUS
  <2>1. CASE Stays
    BY <2>1 DEF Stays, store, Before
  <2>2. CASE \E k \in Keys : \E v : Insert(k, v)
    BY <2>2, InsertKeepsOrder
  <2>3. CASE \E k \in DOMAIN item : Deletes(k)
    <3>1. PICK k \in DOMAIN item : Deletes(k)
      BY <2>3
    <3>2. DOMAIN item' = DOMAIN item \ {k}
      BY <3>1 DEF Deletes
    <3> QED BY <3>1, <3>2, DeleteKeepsOrder
  <2>4. CASE \E b \in Bodies : Counts(b) \/ Draws(b)
    <3>1. Dec(next_id) \in Keys /\ Uuids \subseteq Keys
      BY CrudAssumption DEF TypeOK
    <3> QED BY <2>2, <2>4, <3>1 DEF Counts, Draws
  <2>5. CASE \E k \in DOMAIN item : \/ \E b \in Bodies : Puts(k, b)
                                    \/ \E b \in PatchBodies : Patches(k, b)
    <3>1. PICK k \in DOMAIN item : \E v : Insert(k, v)
      BY <2>5 DEF Puts, Patches
    <3>2. k \in Keys
      BY DEF TypeOK
    <3> QED BY <2>2, <3>1, <3>2
  <2> QED BY <2>1, <2>3, <2>4, <2>5, Effects
<1> QED BY <1>1, TypeCorrect, PTL DEF Spec, OrderKept

-----------------------------------------------------------------------------
(***************************************************************************)
(* Ids are used once.                                                      *)
(***************************************************************************)
\* The counter is ahead of every number an item has had that is not set apart.
Fresh ==
  /\ DOMAIN item \subseteq named
  /\ named \subseteq Keys
  /\ next_id \in 0 .. Width - 1
  /\ reusable \subseteq Numerals
  /\ \A k \in named \ reusable : k.form = "dec" => k.n < next_id

\* The counter starts behind the largest number of the data list, those
\* written as text aside, unless it goes round at once.
LEMMA InitFresh ==
  ASSUME Init
  PROVE  Fresh
<1>1. PICK data \in Seeds, max_id \in 0 .. Width - 1 :
        /\ IsMaxId(data, max_id)
        /\ \E last \in LastOf(data) : item = [k \in SeedKeys(data) |-> data[last[k]]]
        /\ next_id = IdAfter(max_id)
        /\ named = SeedKeys(data)
        /\ reusable = IF next_id = 0 THEN Numerals ELSE TextNumerals(data)
  BY DEF Init
<1>2. DOMAIN item = named
  BY <1>1
<1>3. named \subseteq Keys
  BY <1>1, SeedIds DEF SeedKeys
<1>4. next_id \in 0 .. Width - 1
  BY <1>1, CrudAssumption DEF IdAfter
<1>5. ASSUME NEW k \in named \ reusable, k.form = "dec"
      PROVE  k.n < next_id
  <2>1. PICK i \in DOMAIN data : HasId(data[i]) /\ data[i].id.key = k
    BY <1>1 DEF SeedKeys
  <2>2. k \in Numerals
    BY <1>3, <1>5 DEF Numerals
  <2>3. next_id # 0 /\ k \notin TextNumerals(data)
    BY <1>1, <1>5, <2>2
  <2>4. data[i].id.type = "int"
    <3>1. i \in At(data, k)
      BY <2>1 DEF At
    <3>2. data[i].id.type # "text"
      BY <1>1, <2>2, <2>3, <3>1 DEF TextNumerals
    <3>3. data[i].id \in Ids /\ data[i].id # NoId
      BY <2>1, SeedIds DEF JsonValues, HasId
    <3> QED BY <3>2, <3>3 DEF Ids, Text, Number
  <2>5. k.n \in SeedNumbers(data)
    BY <2>1, <2>4 DEF SeedNumbers
  <2>6. k.n <= max_id
    BY <1>1, <2>5 DEF IsMaxId
  <2>7. k.n \in 0 .. Width - 1
    BY <1>3, CrudAssumption
  <2>8. next_id = max_id + 1 /\ max_id \in Int /\ k.n \in Int
    BY <1>1, <2>3, <2>7, CrudAssumption, SMTT(30) DEF IdAfter
  <2> QED BY <2>6, <2>8
<1>6. reusable \subseteq Numerals
  BY <1>1 DEF TextNumerals
<1> QED BY <1>2, <1>3, <1>4, <1>5, <1>6 DEF Fresh

\* Insert under a key keeps the facts that do not concern the counter.
LEMMA InsertNamed ==
  ASSUME Fresh, NEW k \in Keys, NEW v, Insert(k, v)
  PROVE  DOMAIN item' \subseteq named' /\ named' \subseteq Keys /\ named' = named \cup {k}
BY DEF Fresh, Insert

\* A create takes the number the counter is at; no other request takes one.
LEMMA StepFresh ==
  ASSUME Fresh, [Next]_vars
  PROVE  Fresh'
<1>1. CASE Stays
  BY <1>1 DEF Stays, store, Fresh
<1>2. CASE \E b \in Bodies : Counts(b)
  <2>1. PICK b \in Bodies : Counts(b)
    BY <1>2
  <2>2. /\ next_id' \in 0 .. Width - 1
        /\ next_id' # 0 => next_id' = next_id + 1
    BY <2>1, CrudAssumption, SMTT(30) DEF Counts, IdAfter, Fresh
  <2>3. Dec(next_id) \in Keys
    BY CrudAssumption DEF Fresh
  <2>4. /\ DOMAIN item' \subseteq named' /\ named' \subseteq Keys
        /\ named' = named \cup {Dec(next_id)}
    BY <2>1, <2>3, InsertNamed DEF Counts
  <2>5. ASSUME NEW k \in named' \ reusable', k.form = "dec"
        PROVE  k.n < next_id'
    <3>1. k \in Numerals /\ k.n \in 0 .. Width - 1
      BY <2>4, <2>5, CrudAssumption DEF Numerals
    <3>2. next_id' = next_id + 1 /\ reusable' = reusable
      BY <2>1, <2>2, <2>5, <3>1 DEF Counts
    <3>3. CASE k \in named
      <4>1. k.n < next_id
        BY <2>5, <3>2, <3>3 DEF Fresh
      <4> QED BY <3>1, <3>2, <4>1, CrudAssumption DEF Fresh
    <3>4. CASE k = Dec(next_id)
      BY <3>2, <3>4, CrudAssumption DEF Dec, Fresh
    <3> QED BY <2>4, <2>5, <3>3, <3>4
  <2>6. reusable' \subseteq Numerals
    BY <2>1 DEF Counts, Fresh
  <2> QED BY <2>2, <2>4, <2>5, <2>6 DEF Fresh
<1>3. CASE \E b \in Bodies : Draws(b)
  <2>1. PICK b \in Bodies, u \in Uuids \ named :
          Insert(u, WithId(b, Text(u))) /\ UNCHANGED <<next_id, reusable>>
    BY <1>3 DEF Draws
  <2>2. u \in Keys /\ u.form = "name"
    BY <2>1, CrudAssumption
  <2>3. DOMAIN item' \subseteq named' /\ named' \subseteq Keys /\ named' = named \cup {u}
    BY <2>1, <2>2, InsertNamed
  <2> QED BY <2>1, <2>2, <2>3 DEF Fresh
<1>4. CASE \E k \in DOMAIN item : \/ \E b \in Bodies : Puts(k, b)
                                  \/ \E b \in PatchBodies : Patches(k, b)
  <2>1. PICK k \in DOMAIN item : \E v : Insert(k, v) /\ UNCHANGED <<next_id, reusable>>
    BY <1>4 DEF Puts, Patches
  <2>2. k \in Keys /\ k \in named
    BY DEF Fresh
  <2>3. DOMAIN item' \subseteq named' /\ named' = named
    BY <2>1, <2>2, InsertNamed
  <2> QED BY <2>1, <2>3 DEF Fresh
<1>5. CASE \E k \in DOMAIN item : Deletes(k)
  BY <1>5 DEF Deletes, Fresh
<1> QED BY <1>1, <1>2, <1>3, <1>4, <1>5, Effects

\* Among what Collection allows is what each step of the store does.
LEMMA StepIsResource ==
  ASSUME Fresh, [Next]_vars
  PROVE  [Resource!Next]_<<item, named, reusable>>
<1>1. CASE Stays
  BY <1>1 DEF Stays, store
<1>2. ASSUME NEW k \in Keys \ (named \ reusable), NEW v, Insert(k, v),
             reusable \subseteq reusable'
      PROVE  Resource!Add(k)
  BY <1>2 DEF Insert, Resource!Add, Resource!Kept
<1>3. ASSUME NEW k \in DOMAIN item, NEW v, Insert(k, v), UNCHANGED reusable
      PROVE  Resource!Change(k)
  <2>1. k \in named
    BY <1>3 DEF Fresh
  <2> QED BY <1>3, <2>1 DEF Insert, Resource!Change, Resource!Kept
<1>4. CASE \E b \in Bodies : Counts(b)
  <2>1. Dec(next_id) \in Keys
    BY CrudAssumption DEF Fresh
  <2>2. Dec(next_id) \notin named \ reusable
    BY CrudAssumption DEF Fresh, Dec
  <2>3. PICK b \in Bodies : Counts(b)
    BY <1>4
  <2>4. CASE UNCHANGED reusable
    BY <1>2, <2>1, <2>2, <2>3, <2>4 DEF Counts, Resource!Next
  <2>5. CASE reusable' = Numerals
    <3>1. reusable \subseteq reusable'
      BY <2>5 DEF Fresh
    <3> QED BY <1>2, <2>1, <2>2, <2>3, <3>1 DEF Counts, Resource!Next
  <2> QED BY <2>3, <2>4, <2>5 DEF Counts
<1>5. CASE \E b \in Bodies : Draws(b)
  <2>1. PICK u \in Uuids \ named : \E v : Insert(u, v) /\ UNCHANGED reusable
    BY <1>5 DEF Draws
  <2>2. u \in Keys \ (named \ reusable)
    BY <2>1, CrudAssumption
  <2> QED BY <1>2, <2>1, <2>2 DEF Resource!Next
<1>6. CASE \E k \in DOMAIN item : \/ \E b \in Bodies : Puts(k, b)
                                  \/ \E b \in PatchBodies : Patches(k, b)
  <2>1. PICK k \in DOMAIN item : \E v : Insert(k, v) /\ UNCHANGED reusable
    BY <1>6 DEF Puts, Patches
  <2>2. k \in Keys
    BY DEF Fresh
  <2> QED BY <1>3, <2>1, <2>2 DEF Resource!Next
<1>7. CASE \E k \in DOMAIN item : Deletes(k)
  <2>1. PICK k \in DOMAIN item : Deletes(k)
    BY <1>7
  <2>2. Resource!Remove(k)
    BY <2>1 DEF Deletes, Resource!Remove, Resource!Kept
  <2>3. k \in Keys
    BY DEF Fresh
  <2> QED BY <2>2, <2>3 DEF Resource!Next
<1> QED BY <1>1, <1>4, <1>5, <1>6, <1>7, Effects

\* The store implements Collection, for any data list and in either build
\* (reply/crud.rs:23-144): no id is used twice but the numbers the data list
\* writes as text and, once the counter has gone round, the numbers; PUT, PATCH
\* and DELETE act on the item they name only.
THEOREM StoreImplementsCollection == Spec => ImplementsCollection
<1>1. Init => Fresh /\ Resource!Init
  <2> SUFFICES ASSUME Init PROVE Fresh /\ Resource!Init
    OBVIOUS
  <2>1. Fresh
    BY InitFresh
  <2>2. DOMAIN item = named
    BY DEF Init
  <2>3. reusable \subseteq Keys
    BY InitTyped DEF StoreTyped
  <2> QED BY <2>1, <2>2, <2>3 DEF Fresh, Resource!Init
<1>2. Fresh /\ [Next]_vars => Fresh' /\ [Resource!Next]_<<item, named, reusable>>
  BY StepFresh, StepIsResource
<1> QED BY <1>1, <1>2, PTL DEF Spec, ImplementsCollection, Resource!Spec

-----------------------------------------------------------------------------
(***************************************************************************)
(* Answers.                                                                *)
(***************************************************************************)
\* Only a POST answers 201.
LEMMA OnlyCreateCreates ==
  ASSUME Next, answer'.status = 201
  PROVE  \E b \in Bodies : Counts(b) \/ Draws(b)
<1>1. PICK p \in Paths :
        \/ List(p) \/ Get(p) \/ Delete(p) \/ CreatePanics(p)
        \/ \E m \in Methods : NotFound(m, p) \/ NotAllowed(m, p) \/ Poisoned(m, p)
        \/ \E b \in Bodies : Create(p, b) \/ Replace(p, b)
        \/ \E b \in PatchBodies : Patch(p, b)
  BY DEF Next
<1>2. ~(List(p) \/ Get(p) \/ Delete(p) \/ CreatePanics(p))
  BY DEF List, Get, Delete, CreatePanics, Respond, NoAnswer
<1>3. ~\E m \in Methods : NotFound(m, p) \/ NotAllowed(m, p) \/ Poisoned(m, p)
  BY DEF NotFound, NotAllowed, Poisoned, Respond, NoAnswer
<1>4. ~\E b \in Bodies : Replace(p, b)
  BY DEF Replace, Respond
<1>5. ~\E b \in PatchBodies : Patch(p, b)
  BY DEF Patch, Respond
<1>6. PICK b \in Bodies : Create(p, b)
  BY <1>1, <1>2, <1>3, <1>4, <1>5
<1> QED BY <1>6 DEF Create, Counts, Draws, NextId

\* A POST adds an item, at the end of the list, and touches no other, for any
\* data list and in either build: the key made for the item
\* (reply/crud.rs:64-97) is in use only if it is one of the reusable numbers.
THEOREM CreatesAddAnItem == Spec => CreateAdds
<1> DEFINE Adds ==
      answer'.status = 201 /\ (id_strategy = "inc" => Dec(next_id) \notin reusable) =>
        /\ Len(order') = Len(order) + 1
        /\ SubSeq(order', 1, Len(order)) = order
        /\ \A k \in DOMAIN item : item'[k] = item[k]
<1>1. TypeOK /\ Fresh /\ Next => Adds
  <2> SUFFICES ASSUME TypeOK, Fresh, Next, answer'.status = 201,
                      id_strategy = "inc" => Dec(next_id) \notin reusable
               PROVE  /\ Len(order') = Len(order) + 1
                      /\ SubSeq(order', 1, Len(order)) = order
                      /\ \A k \in DOMAIN item : item'[k] = item[k]
    OBVIOUS
  <2>1. Dec(next_id) \notin named \ reusable
    BY CrudAssumption DEF Fresh, Dec
  <2>2. Dec(next_id) \in Keys /\ Uuids \subseteq Keys
    <3>1. next_id \in 0 .. Width - 1
      BY DEF TypeOK
    <3> QED BY <3>1, CrudAssumption
  <2>3. PICK k \in Keys \ named : \E v : Insert(k, v)
    BY <2>1, <2>2, OnlyCreateCreates DEF Counts, Draws
  <2>4. k \notin DOMAIN item
    BY DEF Fresh
  <2>5. order' = Append(order, k) /\ \A l \in DOMAIN item : item'[l] = item[l]
    BY <2>3, <2>4 DEF Insert
  <2>6. order \in Seq(Keys)
    BY DEF TypeOK
  <2> QED BY <2>5, <2>6
<1>2. Init => Fresh
  BY InitFresh
<1>3. Fresh /\ [Next]_vars => Fresh'
  BY StepFresh
<1> QED BY <1>1, <1>2, <1>3, TypeCorrect, PTL DEF Spec, CreateAdds

-----------------------------------------------------------------------------
(***************************************************************************)
(* Items are found under the ids they show.                                *)
(***************************************************************************)
Shows(v, k) == v.object /\ v.id # NoId /\ v.id.key = k

\* Seeded items are under the ids they show.
LEMMA InitKeysMatchIds == Init => KeysMatchIds
<1> SUFFICES ASSUME Init, NEW k \in DOMAIN item
             PROVE  Found(k)
  BY DEF KeysMatchIds
<1>1. PICK data \in Seeds :
        \E last \in LastOf(data) : item = [l \in SeedKeys(data) |-> data[last[l]]]
  BY DEF Init
<1>2. PICK last \in LastOf(data) : item = [l \in SeedKeys(data) |-> data[last[l]]]
  BY <1>1
<1>3. last[k] \in At(data, k)
  BY <1>2 DEF LastOf
<1> QED BY <1>2, <1>3 DEF At, HasId, Found

\* An item made of a body has the id it is given.
LEMMA WithIdShows ==
  ASSUME NEW b \in Bodies, NEW id, NEW k, id.key = k, id # NoId
  PROVE  Shows(WithId(b, id), k)
<1>1. b \in JsonValues
  BY CrudAssumption
<1> QED BY <1>1 DEF WithId, Shows, JsonValues

\* So are items inserted under one,
LEMMA InsertMatches ==
  ASSUME KeysMatchIds, NEW k, NEW v, Insert(k, v), Shows(v, k), strayed \ {k} \subseteq strayed'
  PROVE  KeysMatchIds'
BY DEF KeysMatchIds, Found, Insert, Shows

\* and others are set apart.
LEMMA InsertStrays ==
  ASSUME KeysMatchIds, NEW k, NEW v, Insert(k, v), strayed' = strayed \cup {k}
  PROVE  KeysMatchIds'
BY DEF KeysMatchIds, Found, Insert

\* Every request leaves the items it does not set apart under the ids they show.
LEMMA StepKeysMatchIds ==
  ASSUME DOMAIN item \subseteq Keys, KeysMatchIds, [Next]_vars
  PROVE  KeysMatchIds'
<1>1. CASE Stays
  BY <1>1 DEF Stays, store, KeysMatchIds, Found
<1>2. CASE \E b \in Bodies : Counts(b)
  <2>1. PICK b \in Bodies : Insert(Dec(next_id), WithId(b, Number(next_id)))
    BY <1>2 DEF Counts
  <2>2. Number(next_id).key = Dec(next_id) /\ Number(next_id) # NoId
    BY DEF Number, NoId
  <2>3. Shows(WithId(b, Number(next_id)), Dec(next_id))
    BY <2>2, WithIdShows
  <2>4. strayed \ {Dec(next_id)} \subseteq strayed'
    BY <1>2 DEF Counts
  <2> QED BY <2>1, <2>3, <2>4, InsertMatches
<1>3. CASE \E b \in Bodies : Draws(b)
  <2>1. PICK b \in Bodies, u \in Uuids : Insert(u, WithId(b, Text(u)))
    BY <1>3 DEF Draws
  <2>2. Text(u).key = u /\ Text(u) # NoId
    BY DEF Text, NoId
  <2>3. Shows(WithId(b, Text(u)), u)
    BY <2>2, WithIdShows
  <2>4. strayed \ {u} \subseteq strayed'
    BY <1>3 DEF Draws
  <2> QED BY <2>1, <2>3, <2>4, InsertMatches
<1>4. CASE \E k \in DOMAIN item : \E b \in Bodies : Puts(k, b)
  <2>1. PICK k \in DOMAIN item, b \in Bodies : Puts(k, b)
    BY <1>4
  <2>2. Insert(k, WithId(b, IdOfKey(k)))
    BY <2>1 DEF Puts
  <2>3. CASE k.form = "pad"
    <3>1. strayed' = strayed \cup {k}
      BY <2>1, <2>3 DEF Puts
    <3> QED BY <2>2, <3>1, InsertStrays
  <2>4. CASE k.form # "pad"
    <3>1. k \in [form : {"dec", "name"}, n : 0 .. Width - 1]
      BY <2>4, CrudAssumption
    <3>2. IdOfKey(k).key = k /\ IdOfKey(k) # NoId
      BY <3>1 DEF IdOfKey, Text, Number, Dec, NoId
    <3>3. Shows(WithId(b, IdOfKey(k)), k)
      BY <3>2, WithIdShows
    <3>4. strayed \ {k} \subseteq strayed'
      BY <2>1, <2>4 DEF Puts
    <3> QED BY <2>2, <3>3, <3>4, InsertMatches
  <2> QED BY <2>3, <2>4
<1>5. CASE \E k \in DOMAIN item : \E b \in PatchBodies : Patches(k, b)
  <2>1. PICK k \in DOMAIN item, b \in PatchBodies : Patches(k, b)
    BY <1>5
  <2>2. Insert(k, Merge(item[k], b))
    BY <2>1 DEF Patches
  <2>3. CASE (b.object /\ b.id = NoId) /\ k \notin strayed
    <3>1. Shows(item[k], k)
      BY <2>3 DEF KeysMatchIds, Found, Shows
    <3>2. Shows(Merge(item[k], b), k)
      BY <2>3, <3>1 DEF Merge, Shows
    <3>3. strayed \ {k} \subseteq strayed'
      BY <2>1, <2>3 DEF Patches
    <3> QED BY <2>2, <3>2, <3>3, InsertMatches
  <2>4. CASE ~(b.object /\ b.id = NoId) \/ k \in strayed
    <3>1. strayed' = strayed \cup {k}
      BY <2>1, <2>4 DEF Patches
    <3> QED BY <2>2, <3>1, InsertStrays
  <2> QED BY <2>3, <2>4
<1>6. CASE \E k \in DOMAIN item : Deletes(k)
  BY <1>6 DEF Deletes, KeysMatchIds, Found
<1> QED BY <1>1, <1>2, <1>3, <1>4, <1>5, <1>6, Effects

\* GET under the id an item shows finds the item, for any data list, bodies and
\* keys, in either build and for either id strategy, but for items last written
\* by a PATCH that names an id or is no object, or by a PUT under a key that is
\* another string for a number (reply/crud.rs:64-135).
THEOREM ItemsFoundUnderTheirIds == Spec => []KeysMatchIds
<1>1. Init => KeysMatchIds
  BY InitKeysMatchIds
<1>2. TypeOK /\ KeysMatchIds /\ [Next]_vars => KeysMatchIds'
  BY StepKeysMatchIds DEF TypeOK
<1> QED BY <1>1, <1>2, TypeCorrect, PTL DEF Spec

=============================================================================
