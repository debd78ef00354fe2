----------------------------- MODULE CrudStore -----------------------------
(***************************************************************************)
(* The in-memory resource behind `reply: {crud!: ...}` (src/reply/crud.rs) *)
(* and the routing of a request to it (resolve_crud_reply, src/server.rs). *)
(* Every method of the store holds its RwLock from the first read to the   *)
(* last write, so each is one step.                                        *)
(*                                                                         *)
(* The key of an item is a string; three kinds matter.  Dec(n) is the      *)
(* number n as the code prints it; Pad(n) another string that parses to n, *)
(* like "07"; Name(n) a string that is no number.  Numbers are those of a  *)
(* u64: negative ones and fractions are left out.                          *)
(***************************************************************************)
EXTENDS Integers, FiniteSets, Sequences
SE == INSTANCE SequencesExt

CONSTANTS
  Keys,            \* the strings that name items
  Seeds,           \* possible `data` lists: sequences of JSON values
  Bodies,          \* JSON values of POST and PUT requests
  PatchBodies,     \* JSON values of PATCH requests
  Strategies,      \* possible values of `id.new`: "inc", "uuid"
  Uuids,           \* the keys Uuid::new_v4 may make
  BaseDepth,       \* segments in the path of the rule
  Below,           \* segments requests may have after those, but for its own path
  Width,           \* 2^64: the number of values of a u64
  Builds,          \* the possible values of `checked`
  MaxNamed         \* bound on the keys ever used

Dec(n) == [form |-> "dec", n |-> n]
Pad(n) == [form |-> "pad", n |-> n]
Name(n) == [form |-> "name", n |-> n]

\* The value of an id field.
Number(n) == [type |-> "int", key |-> Dec(n)]
Text(k) == [type |-> "text", key |-> k]
NoId == [type |-> "none"]
Ids == {NoId} \cup {Text(k) : k \in Keys} \cup {Number(k.n) : k \in {k \in Keys : k.form = "dec"}}

\* A JSON value: whether it is an object, its id and one other field.
NoField == "absent"
Fields == {NoField, "value", "a", "b"}
JsonValues == [object : BOOLEAN, id : Ids, field : Fields]

ASSUME CrudAssumption ==
  /\ Width \in Nat \ {0}
  /\ Keys \subseteq [form : {"dec", "pad", "name"}, n : 0 .. Width - 1]
  /\ Name(0) \in Keys
  /\ \A n \in 0 .. Width - 1 : Dec(n) \in Keys
  /\ Uuids \subseteq {k \in Keys : k.form = "name"}
  /\ Seeds \subseteq Seq(JsonValues)
  /\ Bodies \subseteq JsonValues
  /\ PatchBodies \subseteq JsonValues
  /\ Strategies \subseteq {"inc", "uuid"}
  /\ Builds \subseteq BOOLEAN
  /\ BaseDepth \in Nat
  /\ Below \subseteq Nat \ {0}

VARIABLES
  item,      \* items: from key to JSON value
  order,     \* the keys as the IndexMap orders them
  next_id,
  id_strategy,
  checked,   \* TRUE in a debug build: overflow panics
  poisoned,  \* a thread panicked while it held the lock for writing
  named,     \* history: every key an item has had
  reusable,  \* history: the numbers a POST may take though an item has had
             \* them: those the data list writes as text, which new does not
             \* count, and all of them once the counter has gone round
  strayed,   \* history: the keys of items last written by a PATCH that names an
             \* id or is no object, or by a PUT under another string for a number
  answer     \* history: the latest request, how far below the rule's path it
             \* was, and its status

store == <<item, order, next_id, id_strategy, checked, named, reusable, strayed>>
vars == <<store, poisoned, answer>>

\* A request path by its segments below the rule's path and its last one: the
\* rule's own path (its last segment is Name(0)), an item's, or one further down.
Own == [below |-> 0, last |-> Name(0)]
Paths == {Own} \cup [below : Below, last : Keys]
NoAnswer == 0  \* the handler panicked, the client has no response
Statuses == {NoAnswer, 200, 201, 204, 404, 405}
Methods == {"GET", "POST", "PUT", "PATCH", "DELETE", "HEAD"}

TypeOK ==
  /\ DOMAIN item \subseteq Keys
  /\ \A k \in DOMAIN item : item[k] \in JsonValues
  /\ order \in Seq(Keys)
  /\ {order[i] : i \in DOMAIN order} = DOMAIN item
  /\ \A i, j \in DOMAIN order : order[i] = order[j] => i = j
  /\ next_id \in 0 .. Width - 1
  /\ id_strategy \in Strategies
  /\ checked \in Builds
  /\ poisoned \in BOOLEAN
  /\ DOMAIN item \subseteq named /\ named \subseteq Keys
  /\ reusable \subseteq Keys /\ strayed \subseteq Keys
  /\ answer \in [method : Methods, below : {0} \cup Below, status : Statuses]

-----------------------------------------------------------------------------
(***************************************************************************)
(* CrudStore::new                                                          *)
(***************************************************************************)
HasId(v) == v.object /\ v.id # NoId

SeedKeys(data) == {data[i].id.key : i \in {i \in DOMAIN data : HasId(data[i])}}

At(data, k) == {i \in DOMAIN data : HasId(data[i]) /\ data[i].id.key = k}

\* Where the last value under each key is: it stays, in the place of the first.
LastOf(data) ==
  {last \in [SeedKeys(data) -> DOMAIN data] :
     \A k \in SeedKeys(data) :
       last[k] \in At(data, k) /\ \A j \in At(data, k) : j <= last[k]}

Precedes(data, k, l) ==
  \E i \in At(data, k) : \A j \in At(data, l) : i < j

\* The keys in the order of the data list: there is one such sequence.
SeedOrder(data) ==
  {keys \in [1 .. Cardinality(SeedKeys(data)) -> SeedKeys(data)] :
     \A i, j \in DOMAIN keys : i < j => Precedes(data, keys[i], keys[j])}

SeedNumbers(data) ==
  {0} \cup {data[i].id.key.n :
              i \in {i \in DOMAIN data : HasId(data[i]) /\ data[i].id.type = "int"}}

MutantIsMaxId(data, n) == n = 0

IsMaxId(data, n) ==
  n \in SeedNumbers(data) /\ \A m \in SeedNumbers(data) : m <= n

Numerals == {k \in Keys : k.form = "dec"}

TextNumerals(data) ==
  {k \in SeedKeys(data) \cap Numerals : \E i \in At(data, k) : data[i].id.type = "text"}

\* Adding 1 to a u64, in a release build.
IdAfter(n) == IF n = Width - 1 THEN 0 ELSE n + 1

Init ==
  \E data \in Seeds : \E max_id \in 0 .. Width - 1 :
    /\ IsMaxId(data, max_id)
    /\ checked \in Builds /\ (checked => max_id < Width - 1)
    /\ \E last \in LastOf(data) : item = [k \in SeedKeys(data) |-> data[last[k]]]
    /\ order \in SeedOrder(data)
    /\ next_id = IdAfter(max_id)
    /\ id_strategy \in Strategies
    /\ poisoned = FALSE
    /\ named = SeedKeys(data)
    /\ reusable = IF next_id = 0 THEN Numerals ELSE TextNumerals(data)
    /\ strayed = {}
    /\ answer = [method |-> "HEAD", below |-> 0, status |-> 405]

-----------------------------------------------------------------------------
\* id_key_to_value: a string that parses becomes a number.
IdOfKey(k) == IF k.form = "name" THEN Text(k) ELSE Number(k.n)

MutantWithId(b, id) ==
  IF b.object THEN [b EXCEPT !.id = IF b.id = NoId THEN id ELSE b.id]
  ELSE [object |-> TRUE, id |-> id, field |-> "value"]

\* An item made of a body: not an object, it becomes {value: body}.
WithId(b, id) ==
  IF b.object THEN [b EXCEPT !.id = id]
  ELSE [object |-> TRUE, id |-> id, field |-> "value"]

\* merge_values
Merge(base, patch) ==
  IF base.object /\ patch.object
    THEN [object |-> TRUE,
          id |-> IF patch.id = NoId THEN base.id ELSE patch.id,
          field |-> IF patch.field = NoField THEN base.field ELSE patch.field]
    ELSE patch

MutantInsert(k, v) ==
  /\ item' = [i \in DOMAIN item \cup {k} |-> IF i = k THEN v ELSE item[i]]
  /\ order' = Append(order, k)
  /\ named' = named \cup {k}

\* IndexMap::insert: a new key goes last, an old one keeps its place.
Insert(k, v) ==
  /\ item' = [i \in DOMAIN item \cup {k} |-> IF i = k THEN v ELSE item[i]]
  /\ order' = IF k \in DOMAIN item THEN order ELSE Append(order, k)
  /\ named' = named \cup {k}

Place(k) == CHOOSE i \in DOMAIN order : order[i] = k

MutantOrderWithout(k) ==
  SubSeq([order EXCEPT ![Place(k)] = order[Len(order)]], 1, Len(order) - 1)

\* IndexMap::shift_remove
OrderWithout(k) == SE!RemoveAt(order, Place(k))

(***************************************************************************)
(* resolve_crud_reply.  The number of segments decides whether a path      *)
(* names an item; the path of the rule is not looked at.                   *)
(***************************************************************************)
Segments(p) == IF BaseDepth + p.below = 0 THEN 1 ELSE BaseDepth + p.below

NamesItem(p) == Segments(p) >= 2

Respond(m, p, status) == answer' = [method |-> m, below |-> p.below, status |-> status]

OnItem(p) == ~poisoned /\ NamesItem(p) /\ p.last \in DOMAIN item

List(p) ==
  /\ ~poisoned
  /\ ~NamesItem(p)
  /\ Respond("GET", p, 200)
  /\ UNCHANGED <<store, poisoned>>

Get(p) ==
  /\ OnItem(p)
  /\ Respond("GET", p, 200)
  /\ UNCHANGED <<store, poisoned>>

\* A request that names no item of the store.
NotFound(m, p) ==
  /\ m \in {"GET", "PUT", "PATCH", "DELETE"}
  /\ ~poisoned
  /\ NamesItem(p)
  /\ p.last \notin DOMAIN item
  /\ Respond(m, p, 404)
  /\ UNCHANGED <<store, poisoned>>

MutantNextId == Cardinality(DOMAIN item) + 1

\* The number the next item gets.
NextId == next_id

Create(p, b) ==
  /\ ~poisoned
  /\ ~NamesItem(p)
  /\ \/ /\ id_strategy = "inc"
        /\ checked => NextId < Width - 1
        /\ next_id' = IdAfter(NextId)
        /\ Insert(Dec(NextId), WithId(b, Number(NextId)))
        /\ reusable' = IF next_id' = 0 THEN Numerals ELSE reusable
        /\ strayed' = strayed \ {Dec(NextId)}
     \/ /\ id_strategy = "uuid"
        /\ \E u \in Uuids \ named : Insert(u, WithId(b, Text(u)))
        /\ UNCHANGED <<next_id, reusable, strayed>>
  /\ Cardinality(named') <= MaxNamed
  /\ Respond("POST", p, 201)
  /\ UNCHANGED <<id_strategy, checked, poisoned>>

\* `state.next_id += 1` panics, with the lock held.
CreatePanics(p) ==
  /\ ~poisoned
  /\ ~NamesItem(p)
  /\ id_strategy = "inc"
  /\ checked /\ NextId = Width - 1
  /\ poisoned' = TRUE
  /\ Respond("POST", p, NoAnswer)
  /\ UNCHANGED store

Replace(p, b) ==
  /\ OnItem(p)
  /\ Insert(p.last, WithId(b, IdOfKey(p.last)))
  /\ strayed' = IF p.last.form = "pad" THEN strayed \cup {p.last} ELSE strayed \ {p.last}
  /\ Respond("PUT", p, 200)
  /\ UNCHANGED <<next_id, id_strategy, checked, poisoned, reusable>>

Patch(p, b) ==
  /\ OnItem(p)
  /\ Insert(p.last, Merge(item[p.last], b))
  /\ strayed' = IF b.object /\ b.id = NoId THEN strayed ELSE strayed \cup {p.last}
  /\ Respond("PATCH", p, 200)
  /\ UNCHANGED <<next_id, id_strategy, checked, poisoned, reusable>>

Delete(p) ==
  /\ OnItem(p)
  /\ item' = [k \in DOMAIN item \ {p.last} |-> item[k]]
  /\ order' = OrderWithout(p.last)
  /\ strayed' = strayed \ {p.last}
  /\ Respond("DELETE", p, 204)
  /\ UNCHANGED <<next_id, id_strategy, checked, poisoned, named, reusable>>

\* Whether a request gets as far as the store.
Reaches(m, p) ==
  m \in IF NamesItem(p) THEN {"GET", "PUT", "PATCH", "DELETE"} ELSE {"GET", "POST"}

NotAllowed(m, p) ==
  /\ ~Reaches(m, p)
  /\ Respond(m, p, 405)
  /\ UNCHANGED <<store, poisoned>>

\* `.unwrap()` of a poisoned lock panics.
Poisoned(m, p) ==
  /\ poisoned
  /\ Reaches(m, p)
  /\ Respond(m, p, NoAnswer)
  /\ UNCHANGED <<store, poisoned>>

Next ==
  \E p \in Paths :
    \/ List(p) \/ Get(p) \/ Delete(p) \/ CreatePanics(p)
    \/ \E m \in Methods : NotFound(m, p) \/ NotAllowed(m, p) \/ Poisoned(m, p)
    \/ \E b \in Bodies : Create(p, b) \/ Replace(p, b)
    \/ \E b \in PatchBodies : Patch(p, b)

Spec == Init /\ [][Next]_vars

-----------------------------------------------------------------------------
(***************************************************************************)
(* Properties                                                              *)
(***************************************************************************)

Found(k) == item[k].object /\ item[k].id # NoId /\ item[k].id.key = k

\* GET under the id an item shows finds the item, whatever requests came
\* before, but for an item whose latest writing was a PATCH that names an id or
\* is no object, or a PUT under a key like "07": create and replace set the id,
\* and an ordinary PATCH leaves it (crud.rs:64-135).
KeysMatchIds == \A k \in DOMAIN item \ strayed : Found(k)

\* A POST adds an item, at the end of the list, and touches no other: the
\* counter is ahead of every number in use but those the data list writes as
\* text, until it has gone round.
CreateAdds ==
  [][answer'.status = 201 /\ (id_strategy = "inc" => Dec(next_id) \notin reusable) =>
       /\ Len(order') = Len(order) + 1
       /\ SubSeq(order', 1, Len(order)) = order
       /\ \A k \in DOMAIN item : item'[k] = item[k]]_vars

Before(k, l) == \E i, j \in DOMAIN order : i < j /\ order[i] = k /\ order[j] = l

\* The list keeps its order: whatever a request does, the items that stay
\* are listed in the order they were.
OrderKept ==
  [][\A k, l \in DOMAIN item \cap DOMAIN item' : Before(k, l) <=> Before(k, l)']_vars

\* No id is used twice, not even after a DELETE, but the reusable numbers, and
\* PUT, PATCH and DELETE act on the item they name only.
Resource == INSTANCE Collection WITH items <- item
ImplementsCollection == Resource!Spec

(***************************************************************************)
(* "crud - in-memory REST resource" (README.md:71), in the four parts in   *)
(* which the code departs from it.                                         *)
(***************************************************************************)
\* "Get a single item by ID" (crud.rs:55): every item is found under the id a
\* client sees in a list or in an answer.
IdsAreKeys == \A k \in DOMAIN item : Found(k)

\* "Create a new item, assigning an ID" (crud.rs:64): after a POST there is one
\* item more.
CreatesNew == answer'.status = 201 => Len(order') = Len(order) + 1

\* "Returns None if path matches the base exactly (list operation)"
\* (crud.rs:182): a request for the rule's own path is one for the list.
CollectionAnswers ==
  answer.below = 0 /\ answer.method \in {"GET", "POST"} =>
    answer.status \in {200, 201, NoAnswer}

\* "Patch an item by ID (partial update, merge fields)" (crud.rs:124): what the
\* body of a PATCH does not mention stays as it was.
PatchKeepsFields ==
  \A p \in Paths, b \in PatchBodies :
    Patch(p, b) /\ b.field = NoField => item'[p.last].field = item[p.last].field

\* A client that knows nothing but REST can rely on all of it.
IsRestResource ==
  /\ [](IdsAreKeys /\ CollectionAnswers)
  /\ [][CreatesNew /\ PatchKeepsFields]_vars

=============================================================================
