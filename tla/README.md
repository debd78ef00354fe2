# mockinx, specified in TLA+

mockinx is a mock HTTP server: clients register rules (`match` + `reply` +
`serve` + `chaos`) at `/_mx`, every other request is answered by the newest
rule it matches, under the rule's rate and connection limits, with a body that
may be paced, held back, cut or hung. This directory models the parts of it in
which order, interleaving, time and limits matter, checks them with TLC on
small instances and proves the central invariants with TLAPS for all values of
the constants. Paths below are relative to the repository, `server.rs:66` means
line 66 of `src/server.rs`.

## 1. Inventory

| Part | Source | State | Operations | Interacts through |
|---|---|---|---|---|
| Application state | `server.rs`, `store.rs` | rule list, runtime table, store table, counter, three `RwLock`s | POST, PUT, GET `/_mx`; match; look up by index | threads of the tokio pool share everything |
| Connection limit | `serve/runtime.rs`, `PermitStream` in `server.rs` | a tokio semaphore per rule, its queue, permits on their way | `check`, hand the permit on, drop it | awaits of the handler tasks; client disconnects |
| Rate limit | `serve/runtime.rs` | timestamps behind a mutex | `try_acquire` | threads; the clock, read before the mutex is taken |
| Delivery engine | `serve/engine.rs`, `serve/pace.rs` | offset, timer, deadlines of one stream | `deliver`, `poll_next` | polled by hyper whenever the task wakes or the client takes a chunk |
| CRUD resource | `reply/crud.rs`, `resolve_crud_reply` | items in order, id counter, lock poisoning | list, get, create, replace, patch, delete | requests of any connection, one lock |
| Request handling | `server.rs`, `reply/body.rs` | one counter per peer address and rule | reject, chaos, static, sequence, crud and reflect! replies | gate, store, chaos, delivery |
| Chaos | `chaos.rs` | none | parse, select by a roll | request handling |
| Rule language | `rule.rs`, `reply/mod.rs`, `serve/mod.rs`, `serve/pace.rs`, `serve/behavior_types.rs` | none | parse a document into rules, or refuse it | everything a rule configures |
| Units and ranges | `units.rs` | none | parse a quantity or range, sample it | rule language, delivery |
| Rule matching | `match_rule.rs` | none | parse, match | application state |
| Validation | `validate.rs` | none | warn about rules that were accepted | admin API, start-up |
| Suggestions | `suggest.rs` | none | edit distance, nearest key | errors for unknown keys |
| Body generation | `reply/body.rs` | files on disk | whole body, size, chunks | request handling |
| Entry point, benchmarks | `main.rs`, `lib.rs`, `benches/` | none | load the configuration, listen | a POST before the server listens |

What makes each of them correct, and what is hard about it:

* **Application state.** A rule's index must lead to that rule's own runtime and
  store. The list, the tables and the counter are under different locks or none,
  `clear_all` takes them one at a time, and a request reads them one at a time
  with an unbounded wait (for a permit) in between. Also: no deadlock between
  handlers that take the locks in different places.
* **Connection limit.** Never more than `conn.max` requests are served, no permit
  is lost, every wait that should end does. A grant, the timeout of the wait, and
  the disconnect of the client race; a response that hangs, or whose client stops
  reading, keeps its permit.
* **Rate limit.** No second admits more than `rps.max`. The clock is read outside
  the mutex.
* **Delivery.** The pace is kept however often and however late the stream is
  polled; drop, hang, first-byte and chunk timers combine in any way.
* **CRUD.** Ids should never be used twice and items be found under the ids they
  show, whatever the data list and the bodies name; the list keeps its order.
* **Request handling.** The newest rule that matches answers; sequences cycle per
  connection, chaos percentages are exact, reflect! bodies are resolved before they
  are generated.
* **Rule language.** A document of several rules is taken whole or not at all, also
  when the parser panics halfway; what is sampled later is what the text said, at
  every boundary of widths and units.
* **Matching.** By segments, not by characters, with method keys and a catch-all.
* **Validation, suggestions.** A warning is right about all draws of the ranges it
  is about; a suggestion is the nearest key there is.
* **Body generation.** A body read in chunks is the body.

`PROJECT.json` lists the hazards with their lines and the properties for each.

## 2. Modules

```
RuleLog        <- implemented by -  Registry        <- RegistryProofs
ConnLimit      <- implemented by -  Gate            <- GateProofs
Collection     <- implemented by -  CrudStore       <- CrudProofs
                                    RateLimiter     <- RateProofs
                                    DeliveryStream  <- DeliveryProofs

Units <- Matching, Suggest, Bodies <- Rules <- Handler
                                               <- RulesProofs <- RangeProofs <- HandlerProofs
```

The first five model what goes on below a request: in Registry a rule is a model
value, in Gate, RateLimiter and DeliveryStream its limits and its delivery are
constants or chosen. The last row models what they are given: documents, the rules
they become, and which rule and which part of it answers. An arrow there is EXTENDS;
all but Handler have no variables and are checked through Handler's run.

`MCRegistry`, `MCDeliveryStream`, `MCCrudStore` and `MCHandler` give the constants
their small sets; Gate and RateLimiter are run as they are. Operators named
`MutantXxx` are faulty variants of the definition that follows them; no
specification uses them. Each is there because some property must notice it.

### Registry

State: `entries` (the list), `runtimes`, `crudStores`, `stubCounter`, and the two
write locks `register_rules` keeps while it runs. The lock of the list, and the
locks of the tables in `clear_all` and in the look-ups, are held for one statement
only, so that statement is a step. An admin handler has a place (`pc`), the rules
still to register and the index of the next one; a request handler has the entry
it matched and what it found under the entry's index.

| Action | Code |
|---|---|
| `Post`, `Put` | `handle_append_rules`, `handle_replace_rules` up to the first shared access |
| `ClearEntries`, `ClearRuntimes`, `ClearCrud`, `ResetCounter` | the four statements of `clear_all` |
| `LockRuntimes`, `LockCrud`, `Reserve`, `AddRule`, `Return` | `register_rules`: two locks, `fetch_add`, the turns of the loop, the end |
| `MatchRequest`, `GetRuntime`, `Resolve`, `Finish` | `match_request`, `get_runtime`, `get_crud_store`, the end of `handle_request` |

A turn of the loop is one step: both tables are locked during it, so only the push
onto the list, its last statement, can be seen by others. The content of a rule is
a model value; a request is the set of rules it satisfies; a runtime or store is
named by the entry it was created for, which makes "its own" an equality. A
request that is rejected, or gets 500, ends like any other (`Finish`).

`RuleLog` is the list as clients see it: batches are appended whole, PUT resets and
then loads. The refinement maps `log` to `Committed`, the rules of the entries before
the first one of a registration under way (`Settled`): a batch appears in the log
when it, and every one that began to be listed before it, has been listed whole.

`torn` is a history variable. `clear_all` is four statements with nothing held
between them, and a registration can fall across them: it numbers its rules from the
counter of the list just cleared, or loses rules it has pushed, or pushes rules whose
runtimes are cleared afterwards. From that step on the list is torn, until some PUT
resets the counter while the list is empty and no registration is pushing. `Committed` is
empty while the list is torn. What a torn list can look like when everything has come to
rest is in section 3: a listed rule can be without a runtime or store for good, or have
another rule's, which a request then uses against `NeverForeignState`.

### Gate

One rule with a connection limit. `waiters` and `assigned` model the tokio
semaphore (external): a released permit goes to the first waiter, who owns it from
then on although its task has not run yet; a future dropped in that state gives the
permit back. `tokio::time::timeout` polls the future before its timer, so a request
that has been assigned a permit before the poll does not time out, but one can be
assigned a permit between the poll and the drop of the future (`TimeOut`, then
`Reject`). `Deliver` chooses among an unshaped response, which gives the permit
back before the body is sent (`server.rs:495`), a shaped one, whose `PermitStream`
owns the permit, and one that hangs. `Disconnect` may come at any await.
`StreamEnds`, the end of a shaped body, need never come: hyper polls the stream
only while the client reads, so the client decides.

`ConnLimit` is the promise of `conn: {max: N}`: the requests being served come and
go one by one and are never more than N.

### RateLimiter

`ReadNow` is `Instant::now()`, before the mutex; `Acquire` is the rest of
`try_acquire`, under it. `admitted`, the timestamps of all admitted requests, is a
history variable; `timestamps` holds the places in it of those the limiter retains.

### DeliveryStream

`d` is the delivery after sampling, `due` when the task is woken next, `late` how
long it may have to wait for its poll after that. Polls may also come early. Each
action `PollXxx` is one way through `poll_next`; `WakeAt` is the deadline of the
timer it would wait for, a pending one or one it starts. A poll takes no time, so
the two looks at the drop deadline are one. A hang returns `Pending` and has
nothing left that would wake the task: `due = Never`.

### CrudStore

Each method holds the store's lock from its first read to its last write, so each
is one step, and the arms of `resolve_crud_reply` are part of it. Keys are strings
of three kinds (a number as printed, another string that parses to it, a string
that is no number), values have an id and one more field or are no objects. `item` is
the map's content and `order` the list of its keys. A path
is its number of segments and its last one, which is all the code looks at.
Numbers that are no u64 are left out. `checked` is the build: the id counter panics
with the lock held (debug), after which the store is poisoned, or wraps (release). A
UUID is assumed to be new.

`Collection` is what a REST resource promises: a create uses a name no item ever
had, any other change is to one item that is there. Three history variables say how
far the code keeps that. `named` is the list of names. `reusable` are the numbers a
POST may take although an item has had them: those the data list writes as text,
since `new` counts only ids that are JSON numbers (`crud.rs:31`), and, once the
counter has gone round, all. `strayed` are the keys of items whose latest writing
was a PUT under another string for a number ("07" shows the id 7, `crud.rs:156`) or a
PATCH that names an id or is no object (`crud.rs:167`). The properties of the passing
run speak of all other keys, and are wrong if the code lets any more of them go;
`IsRestResource`, the property of the run `crud_rest`, has the statements without the
exceptions.

### Units

The text of a quantity is a number (decimal, in tenths, or `inf`, `NaN` or no
number, as Rust's `parse::<f64>` reads them), a unit and whether "/s" follows. What
every parser returns is an outcome: a value, a refusal with the key it suggests, or
a panic. `All` is the `?` operator over several parsers in their order: the first
failure decides. The casts clamp (`AsU64`), and `Duration::from_secs_f64` panics on
what it cannot represent (`FromTicks`). `ParseRange` is `parse_range_str` for any
type that can be scaled; `Sample` is the linear draw.

### Matching

A path is a sequence of characters; `NormalizePath` and `Under` are the two string
operations of `MatchRule::matches`, `ParseMatchRule` its parser with the method
shortcuts of yttp.

### Suggest

`EditDistance` is the table of `edit_distance`, row by row as a recursive function of
rows (`Row`), `SuggestFrom` the order in which synonyms, hints and near keys are looked
for. What a suggestion ought to be is stated in Handler without the table: `IsAdvice`
edits the word by one letter, then by two, and looks for keys among the results.

### Bodies

`GenerateBody`, `BodySize` and the chunk iterator. A random byte is named by its seed
and its place in the generator's stream, so two ways of taking bytes from the stream
can be compared; a fill takes whole words from it (`Filled`).

### Rules

One operator per parser, in the order of the code: `ParseRules` is what an admin
request or the configuration file goes through. A document is what serde_json makes
of it: a record tagged with its JSON type, an object has a field for each key the
code looks up and one, `extra`, for an unknown key. `ValidateRules` gives the
warnings of the rules that were accepted. A rule keeps its source, so that a property
can compare what the server does with what was written.

Percentages of chaos are counted in steps: `Hundred` steps are 100%, `Tolerance` of
them 0.01%, which is what the sum may be off by in `validate.rs:49`. `NaN%` is a
percentage, as `chaos.rs:45` lets it pass; a sum with it in it is no number
(`Summable`), and every comparison with that is false.

### Handler

State: the rules, the counters of reply sequences per rule and peer address, the
connections, and the response of the latest step; `fresh`, `used` and `heard` are
history. `Post`, `Put` and `Handle` are the admin handlers and `handle_request`, each
one step: what an admin request shows in between is Registry's subject, who waits for
a permit is Gate's, and there is no await between `check` and the response; in
particular `timeout` wraps a future that is ready at once and never fires
(`server.rs:289`). `Handle` is 400 for a body it cannot read, 404, a rejection by a
limit (which of them rejects and when is left open), or an answer: a chaos reply, a
static one, the next of a sequence, or the store's. `Built` is the response builder:
a panic in it closes the connection, a status it cannot represent becomes a 500.
Rolls are counted in `Rolls` equal parts. `register_rules` ends in a panic if a
store cannot be made (`Overflows`; `OverflowChecks` is the build): the rules before
it stay, and both locks are poisoned (`poisoned`), so that later registrations and
requests panic too (`LockedOut`).

## 3. Runs

| Run | Instance | Shows |
|---|---|---|
| `registry` | 2 admins, 1 request, 3 admin requests, lists of no and of 2 rules | `IndexIsPosition`, `OwnState`, `LiveRuleUsesOwnState`, `ImplementsRuleLog`; `RequestsEnd` |
| `gate` | 4 clients, 2 permits, all overflow actions and shapes | `PermitsConserved`, `QueueExact`, `RefusedOnlyWhenFull`, `ImplementsConnLimit`; `TimedWaitsEnd`, `WaitersServed` |
| `rate` | 3 threads, 2 per window of 2 ticks, 5 admitted | `SlidingWindowInOrder`, `OvershootBounded` |
| `delivery` | every combination of a pace, first byte, drop and hang, 30 ticks | `PaceKept`, `SentInTime`, `EndsComplete`, `DroppedAtNextWake`, `SpreadOverDuration`, `HangHolds`; `StreamEnds` |
| `crud` | 3 numbers, 2 names, "01", up to 3 keys used, 5 data lists, both id strategies and builds, bodies and patches with ids | `KeysMatchIds`, `CreateAdds`, `OrderKept`, `ImplementsCollection` |
| `handler` | 2 connections, 2 addresses, 4 configurations, 3 documents at any time, about 80 tried first, up to 3 rules and 3 replies of a sequence to an address | `DocumentsAllOrNothing`, `QuantitiesAsWritten`, `WarningsTell`, `SuggestionsAreNearest`, `AnsweredByNewestMatch`, `ChaosShares`, `CycledPerConnection`, `ChunksMakeBody` |

Why the bounds are enough. Registry: three admin requests give every pair of
overlapping ones, POSTs and PUTs, together with a list registered before, or one after
which mends a torn list; two rules of different kinds give every padding and look-up
case, and the empty list a PUT that only clears. Gate: two served, two waiting, which is
the least in which the order of the queue and a second release matter; client
symmetry makes a fifth add nothing new to a step. Rate: each thread contributes one
stale timestamp, so three threads show that the bound of `OvershootBounded` grows
with their number (it is reached). Delivery: lateness of 2 ticks straddles every
pair of timers in the instance; the clock runs past the last timer of every
delivery without a hang. Crud: the id counter reaches its end within the bound and
goes round among items that are still there; the data lists have a number twice, a
number as text, "01", a name, an item without an id and the largest number.
Handler: three replies of a sequence of two, so that a wrap-around is seen; three
rules give an older and a newer rule for one path and a third between them. The
documents tried first (`Trials`) are one for nearly every refusal and panic of the
parsers, a few that are wrong in several places (which error is reported decides what
is suggested), or hold every accepted form of a part at its boundaries; they are sent before any client comes, because a refused document leaves
nothing behind (`DocumentsAllOrNothing` checks just that) and the rules of an accepted
one are judged at once. Widths are scaled so that the boundaries are near: a kb is
10 bytes, a u64 ends at 50000, a `Duration` at 10 s, a u32 at 8, a word of the
generator has 4 bytes, a step of chaos is a tenth of a percent and two of them stand
for 0.01%, so a list one step short of 100% is warned about as 99.995% is; the code uses these numbers nowhere but in the clamps, casts
and products that the model has. Words are cut short, the longest to five letters:
suggestions depend on distances up to 2 only. Connections are interchangeable, and so
are addresses (`SYMMETRY`); no property of the run is a liveness property.

Runs that find a statement of the documentation violated:

| Run | Statement | What the code does |
|---|---|---|
| `registry_put_gap` | README: PUT is an "atomic reset + load" | a request between `clear_all` and `register_rules` gets 404 |
| `registry_stale_index` | runtimes and stores are "per rule" | a request that overlaps a PUT uses those of the rule that took its index over |
| `delivery_drop_time` | README: `drop: 1s` kills the connection after 1s | only at the next poll, which a longer timer delays |
| `delivery_hang` | README: `hang: 10kb` stops sending after 10kb | the chunk that is due then is sent whole, and without a pace that is the whole body |
| `crud_rest` | README: `crud` is an "in-memory REST resource"; "Get a single item by ID" | a PATCH that names an id or is no object, or a PUT `/toys/07`, leaves an item that is not found under the id it shows |
| `handler_reflect` | `unreachable!("reflect! should be resolved ...")` | reached from chaos and overflow replies |

`IsRestResource` has four parts, each with the comment it is taken from. The data list of
`crud_rest` has plain numbers for ids and its rule a path of one segment, so that the run
shows `IdsAreKeys` (and `PatchKeepsFields`: a PATCH whose body is no object, as an empty or
malformed one becomes, replaces the item, `crud.rs:176`). The other two fail as well, in
other instances: `CreatesNew` with the data lists of `crud`, where a POST overwrites the
item whose id is written as `"1"`, or, in a release build, one it reaches again after 2^64
ids; `CollectionAnswers` with `BaseDepth = 2`, where GET of the rule's own path is 404 and
POST 405, as `server.rs:409` counts segments.

Observations stated as passing properties rather than as violations: `rps` is
exceeded by up to one request per overlapping call (`OvershootBounded`); a response
under `pace: duration` sends its last chunk on time and ends one chunk delay later
(`SpreadOverDuration`); a drop ends the response like its completion does
(`EndsComplete`); a chunked random body is the body only for chunks of whole words
(`ChunksMakeBody`); a drop less than a millisecond shorter than the pace may go without
a warning (`WarningsTell`).

Met while modelling, and modelled as the code does it, against what the text quoted
says; no run is given to these, and the properties of the passing runs allow for them as
their comments say:

* `clear_all` is four statements, and a registration that overlaps them can stay listed
  without a runtime or store of its own (`torn`), where `server.rs:47` and `:49` say
  "per-rule";
* a sum of 99.995% is warned about (`validate.rs:49`) as "no normal responses will ever be
  returned", which leaves 5 in 100000 (`WarningsTell`);
* `NaN%` is accepted (`chaos.rs:45`) as a "percentage of requests" (`chaos.rs:10`), and no
  entry from it on is ever selected (`ChaosShares`);
* `match_rule.rs:43` removes a trailing "/" "(except root)"; the code removes the root's
  too, so that a rule for `/` answers every path (`AnsweredByNewestMatch` allows both);
* a `conn.max` of 2^32 passes "conn max must be > 0" (`behavior_types.rs:99`) and is then
  truncated to 0 permits: every request waits or is refused;
* PUT is an "atomic reset + load", but if a store cannot be made (an id of 2^64 - 1,
  overflow checks on), the old rules are gone and some of the new ones are there
  (`DocumentsAllOrNothing` excepts this document).

And where no text of the repository says otherwise:

* a status from 0 to 99 is accepted (`reply/mod.rs:148`) and every answer of the rule
  is then an empty 500;
* `ct!` with a `reflect!` body sends two content types, as `server.rs:370` looks for
  the name in lower case;
* a `pace`, `drop`, `hang`, `first_byte` or `timeout` that no `Duration` can hold,
  `inf` among them, panics in the parser; the admin request's connection is closed
  and the rules stay as they were;
* `file!` in chaos and overflow replies is resolved from the working directory
  (`chaos.rs:86`), elsewhere from the configuration file's;
* a chaos entry's `serve` replaces the rule's delivery as a whole;
* `timeout` never fires;
* a file that cannot be read has size 0 in chunks and an error text as a whole.

## 4. Assumptions

* Fairness. Registry: handlers run to completion (a tokio worker is never blocked
  for ever; `std::sync::RwLock` has no further guarantee, and weak fairness of a
  handler suffices because a lock, once free, can only be taken by handlers that
  will release it, and admin requests are finitely many in an instance). Gate: the
  runtime polls woken tasks and fires timers; clients owe nothing, not even to read
  their responses, and `WaitersServed` is conditional: every response with a permit
  of its own, hanging or not, is over some time, read to its end or closed.
  DeliveryStream: a due task is polled, and time passes.
* yttp and serde_json are external: a document is a tree of values, an object has at
  most one unknown key, `expand_headers` maps `ct!` to `Content-Type`. So are the
  random generator and `f64`: roundings of less than a byte or a tenth of a
  millisecond, sums of percentages that are off by a rounding, and letter case and
  spaces (the parsers trim and lower) are left out.
* The semaphore, hyper and the clock are external and modelled from how the code
  uses them. Uuid collisions do not happen.
* Constants. The `ASSUME`s ask for what the code's types give (numbers of a `u64`,
  finite sets of threads and clients, deliveries of the shape `sample` returns), and
  for at least one thread (`RateAssumption`). `HandlerAssumption` and
  `DocumentsAssumption` are what the proofs take from serde_json and the notation of
  a document: lists are lists, paths are strings, and a quantity, range, body, reply,
  `serve:` object or rule has the fields its form has (`IsNumber`, `IsQuantity`,
  `IsRangeText`, `IsBody`, `IsReply`, `IsServe`, `IsRuleValue`), and an unknown key is a
  word with a spelling (`IsExtra`). They leave open what the fields hold, so refused and
  panicking documents are among them. `SuggestAssumption` asks that every word, the keys
  of a rule and of `serve:` among them, is a sequence of letters. TLC evaluates them for
  the documents and words of the run.
* `CHECK_DEADLOCK FALSE` where the system may stop: when clients send nothing more,
  or the instance's bound (`MaxOps`, `MaxClock`, `MaxNamed`) is reached. Handler never stops.

## 5. Proofs

The modules `XxxProofs` extend the module they are about. All theorems hold for
every value of the constants that satisfies the `ASSUME` of the module; no theorem
assumes more.

**RegistryProofs.** `IndexIsPosition` and `OwnState` say nothing of a registration
in progress, so neither is inductive. The invariant adds: the locks are held by
exactly the handler whose `pc` says so (`LocksHeld`); unless the list is torn, no
handler is between two statements of `clear_all` while another is pushing
(`NoOverlap`), and the counter is ahead of the list by exactly the rules some handler
has reserved and still has to push (`CounterAgrees`); and the entry numbers used to
name runtimes and stores are new (`NumbersFresh`). Two steps can tear the list, and
`ResetCounter` mends it, where the invariant has to be found again from nothing: an
empty list, a counter of 0 and nobody pushing are enough for it. From it follow
`IndexCorrect`, `TablesCorrect` and `LiveRulesUseOwnState`, for requests that overlap in
any way. `RegistryImplementsRuleLog` adds `BatchesWhole`: the entries of a registration
under way are the tail of the list, and with what it has still to push they are one
batch. That makes `Return`, with no rule left to push, the step that appends the batch to
`Committed`, the first statement of `clear_all` and the step that tears the list those
that empty it, and every other step a stutter.

**GateProofs.** The invariant is `TypeOK`, `PermitsConserved`, `QueueExact` and
`AssignedWait` (a permit on its way belongs to a request that waits for it or has
just timed out). None is inductive alone: a grant keeps the sum of permits because
the head of the queue owns none yet, and it passes over nobody because the queue
holds each waiter once. `RefusedOnlyWhenFull` is an action
property from the same invariant, and `GateImplementsConnLimit` maps every step to
one of `ConnLimit` or a stutter. The counting is in lemmas on the cardinality of a
set with one element more or less.

**RateProofs.** How many requests a second has admitted cannot be read off the
limiter's state, since it forgets timestamps, with a late clock even some of a second
that still counts. `WindowHoldsInOrder` rests on `OrderInv`: what is forgotten is a
whole window older than some admitted request, or has `MaxRps` admitted requests
behind it (`Forgotten`), so with calls in the order of their timestamps the second
before a new one is still remembered as a whole. `OvershootIsBounded` rests on
`OverlapInv`: every second is either remembered as a whole, and then within the limit
(`Remembered`), or over, and then only calls that have read the clock already can add
to it (`Over`): with them it holds at most `MaxRps` and one less than the number of
threads, as the thread whose later call first forgot a part of it is not among them.

**DeliveryProofs.** Four invariants, each on top of the one before or of `TypeOK`.
`TimeInv` adds to `SentInTime` that a timer that runs before the first-byte delay is
over is the one that ends it (`FirstByte`): a stream may be polled early, and goes
back to sleep. From it follow `BytesSentInTime`, `EndsAreComplete` and, as an action property, `HangsHold`. `PaceInv` relates the
offset to the time of the first and the latest chunk (`Paced`), which `PaceKept`, a
statement about now, leaves open: the next chunk is judged by the latest one, and a
timer that runs ends a delay after it. `PromptInv` bounds the timers there can be at
a drop's deadline (`Longest`) and gives `DropsAtNextWake`. `OnTimeInv` says that with
prompt polls the k-th chunk comes exactly k - 1 delays after the first (`Sent`) and
that between two chunks the stream waits for the delay and nothing else (`Waiting`);
`SpreadIsExact` follows with the arithmetic of the two divisions, the number of chunks
and the delay between them.

**CrudProofs.** `Effects` reduces the requests to the five things they can do to
the items; all theorems go by these cases, and hold for all data lists, keys and
bodies and in both builds. `TypeCorrect` and `ListKeepsItsOrder`: `order` lists every
key once, and taking one out leaves the places of the others in order
(`DeleteKeepsOrder`). `StoreImplementsCollection` and `CreatesAddAnItem` rest on `Fresh`:
the counter is ahead of every number that was ever a key and is not `reusable`. For the
first state that is `SeedIds`, the maximum over the ids that are numbers; in a step it
is kept until the counter reaches its end, where a debug build stops and a release build
makes all numbers reusable. `ItemsFoundUnderTheirIds` is inductive: a write puts an item
under the id it shows (`WithIdShows`) or makes its key `strayed`, and no write touches
another item. That the exceptions are no larger than they must be is for `crud_rest`,
which fails without them, and for the mutants, which fail with them.

**RulesProofs, RangeProofs, HandlerProofs.** The chain from a document to an answer.
RulesProofs says what each parser made of an accepted part, for all documents: `All`
reports the first failure, so a value means that there is none (`Outcome`, `AllOk`),
and `RulesParsed`, `RuleParsed`, `StrategyParsed` and the others follow one by one;
`MatchesAsWritten` is that `MatchRule::matches` finds exactly the rules for a resource
or one above it. RangeProofs says what the parsed values are worth: every draw of a
range is one its text allows (`Drawn`; the casts clamp, so this takes the bounds of
every width), also in the limits and in the chaos entries (`RuleDraws`), each chaos entry
has its percentage of the rolls, up to the first that is NaN (`ChaosPicks`), a warning
is there if the draws or rolls make it so and only then, to the millisecond and to the
tolerance of the sum (`WarnsRightly`), every body has a
length that is a number (`BodiesOK`), and the chunks of such a body, joined, are the
body (`ChunksAreBody`, from `PiecesJoin` and, for random ones, `WordsFilled`). Where the
model sums or joins with a recursive function, the lemma goes by induction over numbers
as a set: a set with 0 in it, and with n in it if n - 1 is, has all numbers up to a
bound (`Upto`).

HandlerProofs puts these into the invariant `RulesOK`: every rule is one that
`parse_rule` accepted, with ranges, warnings, chaos entries and bodies as above. None
of it is about a state the server could repair later, so it must hold when a rule is
added; what a response says about a rule is true as long as the rule is there.
`DocumentsTakenWhole` and `NewestRuleAnswers` follow step by step; a registration that
panics is one of a first part of its rules (`Taken`, `Registered`), so the same lemmas
serve both. `Loaded` adds that
the warnings of a response are those of the rules it added, which gives
`DrawsMatchTheText`, `WarningsAreRight` and `ChaosEntriesShare`. `ChunksMakeUpBodies`
needs `Delivered`: the body of a response comes from a reply, a chaos entry or a limit
of such a rule, and is no unresolved `reflect!`, on which the builder panics.
`SequencesCycle` is not inductive: `CycleInv` adds that the counter of a connection's
address is one ahead of the place it heard last (`Heard`), that open connections have
different addresses and that an address counts nothing before it is used
(`Addresses`); `ModSucc` is the arithmetic of going round.

`SuggestionsNearest` compares a table with sets of edited words. That the table exists
at all is a lemma (`Recursion`: there is a function on 0 .. n whose values follow from
each other as given, so a recursive definition of one satisfies its equation), used once
for a row and once for the rows. A cell depends on the letters before it only, so the table of two words is the
corner of the table of longer ones (`Locality`), and `Distances` turns the recursion into
laws about words: 0 from the empty word to itself, one more per letter, and the least of
three when a letter is appended to both. The edits of a word are then described the same
way, by what they do at its last letter and what before it (`EditsAtEnd`, `EditsBefore`,
`EditsOnly`). With both in this form, `AllReached` shows by induction over both words
that a distance of at most two is reached by as many edits, and `EditsNear` that an edit
changes no distance by more than one (`Near`); together they are `DistanceMeans`: for k
up to 2 the table says at most k exactly if the words are within k edits. Induction over
words goes, like that over numbers, by a set with the empty word in it that is closed
under appending a letter (`WordInduction`). `SuggestFromIsAdvice` adds the order of the
tables and the choice among keys. The invariant `Refusal` says which parse a refusal
reports, `BlamedRefuses` and `ExtraRefused` which unknown key that is when a document is
wrong in several places: the first rule that is not accepted, its own unknown key before
`match` and `reply`, and those before the keys of `serve:`.

Every invariant and every action property of the passing runs is stated by a theorem.
Left to TLC is liveness (`RequestsEnd`, `TimedWaitsEnd`, `WaitersServed`, `StreamEnds`),
which needs ENABLED.

## 6. Not modelled, and the plan

Not modelled: the text of messages and headers other than the content type,
`suggest_reply_key` and `extract_id` (not called by the server), the command line,
sockets, the listener, and the stand-alone servers under `benches/`: no property
tells them apart, or nothing of the server runs them. Registry's stores are made without
a failure: what a panic of `CrudStore::new` inside `register_rules` leaves behind is
modelled in Handler, where a registration is one step, and not among its interleavings.

Next: a composition of Gate, RateLimiter and DeliveryStream under one request: a rate
slot is spent by a request that the connection limit rejects; a permit is held
exactly as long as a shaped body is streamed, whatever chaos selects.
