-------------------------------- MODULE Handler --------------------------------
(***************************************************************************)
(* The server as a client sees it: documents are parsed into rules, a      *)
(* request is answered by the newest rule it matches.  It composes the     *)
(* admin handlers, match_request, the second half of handle_request,       *)
(* resolve_and_deliver, resolve_reflect and the response builders          *)
(* (src/server.rs) with the language of Rules, the choice of a chaos entry *)
(* (src/chaos.rs) and the counters of a reply sequence (src/store.rs).     *)
(*                                                                         *)
(* An admin request and an answer are one step each.  What a PUT shows     *)
(* while it clears and reloads is the subject of Registry, who waits for a *)
(* permit that of Gate; from the return of BehaviorRuntime::check to the   *)
(* response there is no await, and the `timeout` around                    *)
(* build_delivery_response, which is ready when first polled, never fires. *)
(***************************************************************************)
EXTENDS Rules

CONSTANTS
  Clients,    \* connections, each with one request at a time
  Peers,      \* the addresses connections come from
  Configs,    \* configuration files the server is started with
  Documents,  \* documents sent to /_mx at any time
  Trials,     \* documents sent only first of all, before any client connects
              \* (a bound: a document that is refused leaves nothing behind)
  Requests,   \* what clients ask for: [method, path]
  Rolls,      \* rolls of the die
  ChunkSizes, \* chunk sizes a body is read with
  OverflowChecks, \* the build panics where an integer overflows (a debug build)
  MaxCalls,   \* bound on the sequence replies an address gets from a rule
  MaxRules    \* bound on the rules a POST leaves and a client connects to

Absent == "absent"

ASSUME HandlerAssumption ==
  /\ IsFiniteSet(Clients)
  /\ Absent \notin Peers
  /\ Rolls \in 1 .. Hundred
  /\ ChunkSizes \subseteq Nat
  /\ OverflowChecks \in BOOLEAN
  /\ MaxCalls \in Nat /\ MaxRules \in Nat
  /\ \A q \in Requests : q.path \in Seq(STRING)

IsList(l) == l \in Seq({l[i] : i \in DOMAIN l})

\* What serde_json and the notation of Units and Rules promise of a quantity,
\* of a body, a reply, a serve: object and a rule as written.
IsNumber(n) == n \in {Inf, NaN, NoNumber} \/ (n.is = "decimal" /\ n.tenths \in Int)

IsQuantity(s) == s \in [num : {s.num}, unit : {s.unit}, per : BOOLEAN] /\ IsNumber(s.num)

IsRangeText(t) ==
  /\ t.is \in {"one", "between", "percent"}
  /\ IsQuantity(t.a)
  /\ t.is = "between" => IsQuantity(t.b)
  /\ t.is = "percent" => IsNumber(t.p)

\* A field, or the one field of its older form.
Inner(field, key) == IF field.is = "object" THEN field.o[key] ELSE field

IsBody(b) ==
  /\ b.is \in {"missing", "rand!", "pattern!", "reflect!", "file!", "literal"}
  /\ b.is = "literal" => IsList(b.bytes)
  /\ b.is \in {"rand!", "pattern!"} /\ b.arg.is = "object" /\ b.arg.o.size.is = "text" =>
       IsQuantity(b.arg.o.size.s)

IsReply(f) == f.is = "object" => IsBody(f.o.b)

\* The unknown key of an object, if it has one.
IsExtra(word) == word \in DOMAIN Spelling \cup {NoWord}

IsDelivery(o) ==
  /\ \A field \in {Inner(o.drop, "after"), o.hang, Inner(o.firstByte, "delay")} :
       field.is = "text" => IsRangeText(field.s)
  /\ o.pace.is = "text" =>
       IF o.pace.s.is = "chunk" THEN IsRangeText(o.pace.s.size) /\ IsRangeText(o.pace.s.interval)
       ELSE IsRangeText(o.pace.s)

IsServe(o) ==
  /\ IsExtra(o.extra)
  /\ IsDelivery(o)
  /\ o.timeout.is = "text" => IsRangeText(o.timeout.s)
  /\ o.conn.is = "object" =>
       /\ o.conn.o.max.is = "number" => o.conn.o.max.n \in Int
       /\ IsReply(IF o.conn.o.over.is = "blocking" THEN o.conn.o.over.then ELSE o.conn.o.over)
       /\ o.conn.o.over.is = "blocking" /\ o.conn.o.over.block.is = "text" =>
            IsRangeText(o.conn.o.over.block.s)
  /\ o.rps.is = "object" => IsReply(o.rps.o.over)

IsRuleValue(v) ==
  v.is = "object" =>
    /\ v = Object(v.o) /\ IsExtra(v.o.extra)
    /\ IsReply(v.o.reply)
    /\ v.o.reply.is = "list" =>
         IsList(v.o.reply.l) /\ \A i \in DOMAIN v.o.reply.l : IsReply(v.o.reply.l[i])
    /\ v.o.chaos.is = "list" =>
         /\ IsList(v.o.chaos.l)
         /\ \A i \in DOMAIN v.o.chaos.l :
              LET entry == v.o.chaos.l[i]
              IN  entry.is = "object" =>
                    /\ IsReply(entry.o.reply)
                    /\ entry.o.serve.is = "object" => IsDelivery(entry.o.serve.o)
    /\ v.o.serve.is = "object" => IsServe(v.o.serve.o)
    /\ v.o.match.is = "pairs" =>
         /\ IsList(v.o.match.pairs)
         /\ \A i \in DOMAIN v.o.match.pairs :
              LET path == v.o.match.pairs[i].path IN path.is = "text" => path.s \in Seq(STRING)

ASSUME DocumentsAssumption ==
  \A doc \in Documents \cup Trials \cup Configs :
    IF doc.is = "list" THEN IsList(doc.l) /\ \A i \in DOMAIN doc.l : IsRuleValue(doc.l[i])
    ELSE IsRuleValue(doc)

\* Library operators the properties use.
SE == INSTANCE SequencesExt

VARIABLES
  entries,   \* RuleStore.entries, oldest first
  counters,  \* RuleEntry.conn_counters: answers given per peer address
  conn,      \* the address each client is connected from, or Absent
  poisoned,  \* a panic poisoned the locks of runtimes and crud_stores
  response,  \* the response made by the latest step, if it made one
  fresh,     \* history: no earlier connection had the client's address
  used,      \* history: addresses that have been connected from
  heard      \* history: places in its sequence of the replies each connection
             \* has had from each entry

vars == <<entries, counters, conn, poisoned, response, fresh, used, heard>>

NoResponse == [from |-> "none"]

TypeOK ==
  /\ \A i \in DOMAIN entries : entries[i].reply.is \in {"static", "sequence", "crud"}
  /\ DOMAIN counters = DOMAIN entries
  /\ \A i \in DOMAIN entries : counters[i] \in [Peers -> 0 .. MaxCalls]
  /\ conn \in [Clients -> Peers \cup {Absent}]
  /\ poisoned \in BOOLEAN
  /\ fresh \in [Clients -> BOOLEAN]
  /\ used \subseteq Peers
  /\ \A c \in Clients : DOMAIN heard[c] = DOMAIN entries
  /\ \A c, o \in Clients : conn[c] = conn[o] /\ conn[c] # Absent => c = o

\* CrudStore::new panics: the id after the largest one does not fit 64 bits.
Overflows(rule) ==
  /\ OverflowChecks /\ rule.reply.is = "crud"
  /\ LET spec == rule.reply.spec
     IN  \E i \in DOMAIN spec.data :
           LET item == spec.data[i]
           IN  /\ item.is = "object" /\ spec.id.name \in DOMAIN item.o
               /\ item.o[spec.id.name] = Number(MaxU64)

\* main loads the configuration file, or ends; its directory is the base of
\* relative paths.
Init ==
  /\ \E doc \in Configs : LET rules == ParseRules(doc, Some(BaseDir))
                          IN  /\ rules.is = "ok" /\ \A i \in DOMAIN rules.val : ~Overflows(rules.val[i])
                              /\ entries = rules.val
  /\ counters = [i \in DOMAIN entries |-> [p \in Peers |-> 0]]
  /\ conn = [c \in Clients |-> Absent]
  /\ poisoned = FALSE
  /\ response = NoResponse
  /\ fresh = [c \in Clients |-> FALSE]
  /\ used = {}
  /\ heard = [c \in Clients |-> [i \in DOMAIN entries |-> <<>>]]

-----------------------------------------------------------------------------
(***************************************************************************)
(* The admin handlers.                                                     *)
(***************************************************************************)
\* The list of rules: the first n entries stay, and new ones follow.
Load(n, rules) ==
  LET Extend(old, new) ==
        [i \in 1 .. n + Len(rules) |-> IF i <= n THEN old[i] ELSE new]
  IN  /\ entries' = SubSeq(entries, 1, n) \o rules
      /\ counters' = Extend(counters, [p \in Peers |-> 0])
      /\ heard' = [c \in Clients |-> Extend(heard[c], <<>>)]

\* register_rules, after the first n entries.  If a store cannot be made, the
\* rules before it have been added, and the panic poisons both locks: from
\* then on register_rules panics at once.
Register(doc, n, rules) ==
  LET failing == {i \in DOMAIN rules : Overflows(rules[i])}
      Finished == ~poisoned /\ failing = {}
  IN  /\ Load(n, IF Finished THEN rules
                 ELSE IF poisoned THEN <<>> ELSE SubSeq(rules, 1, Min(failing) - 1))
      /\ poisoned' = ~Finished
      /\ response' = IF Finished THEN [from |-> "loaded", doc |-> doc, after |-> n,
                                       warnings |-> ValidateRules(rules)]
                     ELSE [from |-> "unfinished", doc |-> doc, after |-> n]

\* 400 with the error, or a panic in the parser: the handler returns before
\* it touches the rules.
Refuse(doc, outcome) ==
  /\ outcome.is # "ok"
  /\ response' = [from |-> IF outcome = Panic THEN "panic" ELSE "refused", doc |-> doc,
                  advice |-> IF outcome.is = "refused" THEN outcome.advice ELSE None]
  /\ UNCHANGED <<entries, counters, poisoned, heard>>

\* What each document is parsed to: parsing depends on nothing else.
Parsed == [doc \in Documents \cup Trials |-> ParseRules(doc, None)]

\* The documents that can be sent now.
Sendable ==
  Documents \cup (IF used = {} /\ response = NoResponse THEN Trials ELSE {})

\* handle_append_rules
Post(doc, rules) ==
  /\ \/ Refuse(doc, rules)
     \/ /\ rules.is = "ok"
        /\ Len(entries) + Len(rules.val) <= MaxRules
        /\ Register(doc, Len(entries), rules.val)
  /\ UNCHANGED <<conn, fresh, used>>

\* handle_replace_rules
Put(doc, rules) ==
  /\ \/ Refuse(doc, rules)
     \/ /\ rules.is = "ok"
        /\ Register(doc, 0, rules.val)
  /\ UNCHANGED <<conn, fresh, used>>

-----------------------------------------------------------------------------
(***************************************************************************)
(* Connections (external).  An address is free again once it is closed.    *)
(***************************************************************************)
MutantConnect(c, p) ==
  /\ conn[c] = Absent
  /\ Len(entries) <= MaxRules
  /\ conn' = [conn EXCEPT ![c] = p]
  /\ fresh' = [fresh EXCEPT ![c] = p \notin used]
  /\ used' = used \cup {p}
  /\ response' = NoResponse
  /\ UNCHANGED <<entries, counters, poisoned, heard>>

Connect(c, p) ==
  /\ conn[c] = Absent
  /\ \A o \in Clients : conn[o] # p
  /\ Len(entries) <= MaxRules
  /\ conn' = [conn EXCEPT ![c] = p]
  /\ fresh' = [fresh EXCEPT ![c] = p \notin used]
  /\ used' = used \cup {p}
  /\ response' = NoResponse
  /\ UNCHANGED <<entries, counters, poisoned, heard>>

Close(c) ==
  /\ conn[c] # Absent
  /\ conn' = [conn EXCEPT ![c] = Absent]
  /\ fresh' = [fresh EXCEPT ![c] = FALSE]
  /\ heard' = [heard EXCEPT ![c] = [i \in DOMAIN entries |-> <<>>]]
  /\ response' = NoResponse
  /\ UNCHANGED <<entries, counters, poisoned, used>>

-----------------------------------------------------------------------------
(***************************************************************************)
(* Chaos                                                                   *)
(***************************************************************************)
\* The percentage, in steps, at which a roll falls.
Rolled(roll) == roll * (Hundred \div Rolls)

MutantPicks(chaos, at, i) ==
  /\ Summable(chaos, i)
  /\ Cumulative(chaos)[i - 1] <= at /\ at <= Cumulative(chaos)[i]

\* A roll at this percentage selects entry i.
Picks(chaos, at, i) ==
  /\ Summable(chaos, i)
  /\ Cumulative(chaos)[i - 1] <= at /\ at < Cumulative(chaos)[i]

\* resolve_chaos: the overrides for one request.
Normal == [reply |-> None, serve |-> None]

ResolveChaos(chaos, at) ==
  IF \E i \in DOMAIN chaos : Picks(chaos, at, i)
  THEN LET i == CHOOSE i \in DOMAIN chaos : Picks(chaos, at, i)
       IN  [reply |-> chaos[i].reply, serve |-> chaos[i].serve]
  ELSE Normal

-----------------------------------------------------------------------------
(***************************************************************************)
(* The answer to a request.                                                *)
(***************************************************************************)
\* match_request: the newest entry that matches, or 0.
MatchRequest(q) ==
  LET matching == {i \in DOMAIN entries : Matches(entries[i].match, q.method, q.path)}
  IN  Max(matching \cup {0})

\* resolve_reflect makes the body a literal, and JSON unless the header is
\* set; it looks for the name in lower case.
ResolveReflect(r) ==
  IF r.body.is = "reflect"
  THEN ReplySpec(r.status, r.headers \cup {"content-type"}, Literal("object", <<"reflected">>))
  ELSE r

\* infer_content_type, and the content types that are written.
ContentTypes(reply) ==
  LET set == reply.headers \cap {"Content-Type", "content-type"}
  IN  IF set # {} THEN set
      ELSE IF reply.body.is = "literal" /\ reply.body.kind # "other"
           THEN {IF reply.body.kind = "string" THEN "text/plain" ELSE "application/json"}
           ELSE {}

\* build_reply_response and build_delivery_response.  generate_body panics on
\* a reflect! body, which closes the connection; a status below 100 is none,
\* for which the builder is replaced by a 500.
Built(from, i, q, reply, delivery) ==
  IF GenerateBody(reply.body) = Panic THEN [from |-> "panicked", entry |-> i, request |-> q]
  ELSE IF reply.status < 100 THEN [from |-> "500", entry |-> i, request |-> q]
  ELSE [from |-> from, entry |-> i, request |-> q, status |-> reply.status,
        body |-> reply.body, types |-> ContentTypes(reply), delivery |-> delivery]

\* The body cannot be read, or is larger than 10 MB.
Unread(q) ==
  /\ response' = [from |-> "400", entry |-> 0, request |-> q]
  /\ UNCHANGED <<counters, heard>>

NotFound(i, q) ==
  /\ i = 0
  /\ response' = [from |-> "404", entry |-> 0, request |-> q]
  /\ UNCHANGED <<counters, heard>>

\* get_runtime panics on the lock: the connection is closed.
LockedOut(i, q) ==
  /\ i # 0 /\ poisoned
  /\ response' = [from |-> "lockedOut", entry |-> i, request |-> q]
  /\ UNCHANGED <<counters, heard>>

\* The replies check can reject a request with.
Overs(behavior) ==
  {r.reply : r \in {behavior.rps} \ {None}}
    \cup {o.reply : o \in {r.over : r \in {behavior.conn} \ {None}} \ {[is |-> "block"]}}

Reject(i, q) ==
  /\ i # 0 /\ ~poisoned
  /\ \E over \in Overs(entries[i].behavior) :
       response' = Built("over", i, q, over, DefaultDelivery)
  /\ UNCHANGED <<counters, heard>>

\* The delivery: all of the chaos entry's if it has one, else the rule's.
Shaping(rule, override) ==
  IF override.serve # None THEN override.serve.val ELSE rule.delivery

\* A chaos entry with a reply was selected.
AnswerChaos(i, q, override) ==
  /\ override.reply # None
  /\ response' = Built("chaos", i, q, override.reply.val, Shaping(entries[i], override))
  /\ UNCHANGED <<counters, heard>>

AnswerStatic(i, q, override) ==
  LET rule == entries[i] IN
  /\ override.reply = None
  /\ rule.reply.is = "static"
  /\ response' = Built("rule", i, q, ResolveReflect(rule.reply.replies[1]), Shaping(rule, override))
  /\ UNCHANGED <<counters, heard>>

MutantNextCallFor(i, p) ==
  counters' = [counters EXCEPT ![i] = [q \in Peers |-> counters[i][q] + 1]]

\* next_call_for: the count of the address goes up by one.
NextCallFor(i, p) == counters' = [counters EXCEPT ![i][p] = @ + 1]

\* The place of the reply to call n, from 0.
PlaceOf(replies, n) == 1 + (n % Len(replies))

AnswerSequence(c, i, q, override) ==
  LET rule == entries[i]
      p == conn[c]
      place == PlaceOf(rule.reply.replies, counters[i][p])
  IN  /\ override.reply = None
      /\ rule.reply.is = "sequence"
      /\ counters[i][p] < MaxCalls
      /\ NextCallFor(i, p)
      /\ heard' = [heard EXCEPT ![c][i] = Append(@, place)]
      /\ response' = Built("rule", i, q, ResolveReflect(rule.reply.replies[place]),
                           Shaping(rule, override))

\* The store's answer (CrudStore), with the rule's headers: a body or, after
\* a delete, none.  A PUT may have taken the store away (Registry): 500.
AnswerCrud(i, q, override) ==
  LET rule == entries[i]
      Stored(status, body) ==
        Built("rule", i, q, ReplySpec(status, rule.reply.headers, body), Shaping(rule, override))
  IN  /\ override.reply = None
      /\ rule.reply.is = "crud"
      /\ response' \in {Stored(200, Literal("object", <<"item">>)), Stored(204, NoBody),
                        [from |-> "500", entry |-> i, request |-> q]}
      /\ UNCHANGED <<counters, heard>>

\* handle_request, with resolve_and_deliver
Answer(c, i, q, roll) ==
  LET override == ResolveChaos(entries[i].chaos, Rolled(roll))
  IN  /\ i # 0 /\ ~poisoned
      /\ \/ AnswerChaos(i, q, override) \/ AnswerStatic(i, q, override)
         \/ AnswerSequence(c, i, q, override) \/ AnswerCrud(i, q, override)

Handle(c, q) ==
  /\ conn[c] # Absent
  /\ LET i == MatchRequest(q)
     IN  \/ Unread(q)
         \/ NotFound(i, q)
         \/ LockedOut(i, q)
         \/ Reject(i, q)
         \/ \E roll \in 0 .. Rolls - 1 : Answer(c, i, q, roll)
  /\ UNCHANGED <<entries, conn, poisoned, fresh, used>>

Next ==
  \/ \E doc \in Sendable : LET rules == Parsed[doc] IN Post(doc, rules) \/ Put(doc, rules)
  \/ \E c \in Clients : \/ \E p \in Peers : Connect(c, p)
                        \/ Close(c)
                        \/ \E q \in Requests : Handle(c, q)

Spec == Init /\ [][Next]_vars

-----------------------------------------------------------------------------
(***************************************************************************)
(* Properties of the documents                                             *)
(***************************************************************************)

\* The rules a document holds.
RulesIn(doc) == IF doc.is = "list" THEN doc.l ELSE <<doc>>

\* What a step may do with a document.
WholeOrNothing ==
  /\ response'.from \in {"refused", "panic"} => UNCHANGED <<entries, counters, heard>>
  /\ response'.from \in {"loaded", "unfinished"} =>
       LET n == response'.after
           added == [i \in 1 .. Len(entries') - n |-> Object(entries'[n + i].source)]
       IN  /\ SubSeq(entries', 1, n) = SubSeq(entries, 1, n)
           /\ response'.from = "loaded" => added = RulesIn(response'.doc)
           /\ \A i \in DOMAIN added : added[i] = RulesIn(response'.doc)[i]

\* A document is taken whole or not at all: one with an error in any of its
\* rules, or on which the parser panics, leaves the rules and their counters
\* as they are, whether it was to be appended or to replace them; any other
\* adds all of its rules, in its order, behind the ones that stay.  Only if
\* the store of one of its rules cannot be made are its first rules added
\* and the others not.
DocumentsAllOrNothing == [][WholeOrNothing]_vars

\* The ranges of a delivery, each with the text it was parsed from.
DeliveryQuantities(o, d) ==
  {<<Inner(o.drop, "after").s, r.range>> : r \in {d.drop} \ {None}}
    \cup {<<o.hang.s, r.range>> : r \in {d.hang} \ {None}}
    \cup {<<Inner(o.firstByte, "delay").s, r>> : r \in {d.firstByte} \ {None}}
    \cup (CASE d.pace = None -> {}
            [] d.pace.is = "chunk" -> {<<o.pace.s.size, d.pace.size>>,
                                       <<o.pace.s.interval, d.pace.interval>>}
            [] OTHER -> {<<o.pace.s, d.pace.range>>})

\* Those of the limits: the two timeouts.
BehaviorQuantities(o, b) ==
  {<<o.timeout.s, r>> : r \in {b.timeout} \ {None}}
    \cup {<<o.conn.o.over.block.s, l.over.timeout>> :
            l \in {l \in {b.conn} \ {None} : l.over.is = "blockWithTimeout"}}

\* All quantities of a rule, those of its chaos entries included.
Quantities(rule) ==
  LET source == rule.source
      shaped == {i \in DOMAIN rule.chaos : rule.chaos[i].serve # None}
  IN  (IF source.serve.is = "missing" THEN {}
       ELSE DeliveryQuantities(source.serve.o, rule.delivery)
              \cup BehaviorQuantities(source.serve.o, rule.behavior))
        \cup UNION {DeliveryQuantities(source.chaos.l[i].o.serve.o, rule.chaos[i].serve.val) :
                      i \in shaped}

\* The value a quantity is written with.
Written(s) ==
  IF s.unit \in DOMAIN TimeUnits THEN ParseDuration(s).val
  ELSE ParseByteSize([s EXCEPT !.per = FALSE]).val

\* What a text allows a draw to be, give or take the byte or tick a draw is
\* rounded down by.
Allows(t, n) ==
  CASE t.is = "one" -> n = Written(t.a)
    [] t.is = "between" -> Written(t.a) <= n /\ n <= Written(t.b)
    [] t.is = "percent" ->
         LET off == n - Written(t.a)
         IN  t.p.is = "decimal" =>
               1000 * (IF off < 0 THEN 0 - off ELSE off) <= t.p.tenths * Written(t.a) + 1000

\* The rules the latest step loaded, and their places.
LoadedRules == IF response.from = "loaded" THEN response.after + 1 .. Len(entries) ELSE {}

DrawsAsWritten(rule) ==
  \A q \in Quantities(rule), k \in 0 .. Draws - 1 : Allows(q[1], Sample(q[2], k))

\* Every draw from a range of an accepted rule, of its limits and of its
\* chaos entries is one its text allows: "min..max" draws between the two,
\* "value..percent" no further off than that.
QuantitiesAsWritten == \A i \in LoadedRules : DrawsAsWritten(entries[i])

\* Some draw of the drop is shorter than some draw of the pace, by at least
\* that many ticks.
DropsBefore(drop, pace, ticks) ==
  /\ drop.is = "time" /\ pace.is = "duration"
  /\ \E j, k \in 0 .. Draws : Sample(drop.range, j) + ticks <= Sample(pace.range, k)

\* The rolls, in steps, that leave a request to the rule itself.
NormalRolls(chaos) == {at \in 0 .. Hundred - 1 : ResolveChaos(chaos, at) = Normal}

NeverNormal(chaos) == NormalRolls(chaos) = {}

\* The warnings say what they mean.  "drop fires before pace completes" is
\* sent only if some draws make it so, and always if some draws are a
\* millisecond or more apart.  "no normal responses will ever be returned"
\* is always sent if chaos takes every request (unless a percentage is NaN),
\* and never if it leaves the rule 0.01% of them.
WarningsTell ==
  \A i \in LoadedRules :
    LET warned == response.warnings[i - response.after]
        rule == entries[i]
        drop == rule.delivery.drop
        pace == rule.delivery.pace
    IN  /\ "truncated" \in warned => DropsBefore(drop, pace, 1)
        /\ DropsBefore(drop, pace, 10) => "truncated" \in warned
        /\ NeverNormal(rule.chaos) /\ Summable(rule.chaos, Len(rule.chaos)) =>
             "never normal" \in warned
        /\ "never normal" \in warned => Cardinality(NormalRolls(rule.chaos)) < Tolerance

\* All words one edit away, over the letters in use.
Letters == UNION {{Spelling[w][i] : i \in DOMAIN Spelling[w]} : w \in DOMAIN Spelling}
Edits(s) ==
  {SE!RemoveAt(s, i) : i \in DOMAIN s}
    \cup {SE!InsertAt(s, i, l) : i \in 1 .. Len(s) + 1, l \in Letters}
    \cup {SE!ReplaceAt(s, i, l) : i \in DOMAIN s, l \in Letters}
EditsOfAll(S) == UNION {Edits(s) : s \in S}

\* What an error about an unknown word may suggest: its synonym or hint, in
\* any case, if it has one, else a key one edit away, else two edits away,
\* else nothing.
IsAdvice(advice, word, aliases, hints, keys) ==
  LET spelling == Spelling[word]
      once == Edits(spelling)
      Spelled(S) == {k \in SE!ToSet(keys) : Spelling[k] \in S \ {spelling}}
      twice == Spelled(EditsOfAll(once))
  IN  IF Rows(word, aliases) # {} THEN advice \in {UseKey(aliases[w]) : w \in Rows(word, aliases)}
      ELSE IF Rows(word, hints) # {} THEN advice \in {Hint(hints[w]) : w \in Rows(word, hints)}
      ELSE IF Spelled(once) # {} THEN advice \in {UseKey(k) : k \in Spelled(once)}
      ELSE IF twice # {} THEN advice \in {UseKey(k) : k \in twice}
      ELSE advice = None

\* The rule a document is refused for: the first that is not accepted.
Blamed(doc) ==
  LET rules == RulesIn(doc)
  IN  rules[Min({i \in DOMAIN rules : ParseRule(rules[i], None).is # "ok"})]

\* The error names the first unknown key, of the rule or, if it comes as far
\* as that, of its serve: object, and suggests the nearest key there is.
SuggestionsAreNearest ==
  LET rule == Blamed(response.doc)
      o == rule.o
      SoFar == /\ Required(o.match, ParseMatchRule).is = "ok"
               /\ Required(o.reply, LAMBDA f : ParseReplyStrategy(f, None)).is = "ok"
  IN  response.from = "refused" /\ rule.is = "object" =>
        IF o.extra # NoWord
        THEN IsAdvice(response.advice, o.extra, RuleAliases, <<>>, RuleKeys)
        ELSE SoFar /\ o.serve.is = "object" /\ o.serve.o.extra # NoWord =>
               IsAdvice(response.advice, o.serve.o.extra, ServeAliases, ServeHints, ServeKeys)

-----------------------------------------------------------------------------
(***************************************************************************)
(* Properties of the answers                                               *)
(***************************************************************************)
\* A path, to be compared by whole segments.
Closed(path) == IF path # <<>> /\ path[Len(path)] = "/" THEN path ELSE Append(path, "/")

\* The request is for the resource a rule is written for, or one below it;
\* all are below "/".
IsFor(q, written) ==
  \/ written.is = "text"
  \/ /\ written.pairs[1].key = AnyMethod \/ Shortcuts[written.pairs[1].key] = q.method
     /\ SE!IsPrefix(Closed(Rooted(written.pairs[1].path.s)), Closed(q.path))

\* Only a rule written for "/" brings the request here.
IsForRootOnly(q, written) ==
  /\ written.is = "pairs" /\ Closed(Rooted(written.pairs[1].path.s)) = <<"/">>
  /\ Closed(q.path) # <<"/">>

\* "Later rules take precedence": an answer comes from the newest rule for
\* the resource or one above it, by whole segments: a rule for /a answers
\* /a/b and not /ab.  Whether a rule for "/" is one for all paths (what the
\* code makes of it, src/match_rule.rs:46) or for that path alone ("no
\* trailing `/` (except root)", line 43) is left open: such a rule may
\* answer other paths, but need not.
AnsweredByNewestMatch ==
  response.from \in {"404", "500", "panicked", "lockedOut", "over", "chaos", "rule"} =>
    LET asked == {i \in DOMAIN entries : IsFor(response.request, entries[i].source.match)}
        surely == {i \in asked : ~IsForRootOnly(response.request, entries[i].source.match)}
    IN  /\ response.entry \in {0} \cup asked
        /\ \A i \in surely : i <= response.entry

\* How many of the rolls select an entry.
Share(chaos, e) == Cardinality({at \in 0 .. Hundred - 1 : Picks(chaos, at, e)})

Shares(chaos) ==
  \A e \in DOMAIN chaos :
    Share(chaos, e) = IF Summable(chaos, e) THEN chaos[e].p.tenths ELSE 0

\* Each chaos entry is selected by its percentage of the rolls, whatever
\* entries stand around it: the selected ranges neither overlap nor leave
\* gaps.  From the first NaN percentage on, no entry is ever selected.
ChaosShares == \A i \in LoadedRules : Shares(entries[i].chaos)

\* "sequence - array of replies, cycled per connection": a connection hears
\* the replies of a rule in order, however other connections, rules, chaos
\* replies and rejections fall between its requests, and from the first one
\* if its address is new.
CycledPerConnection ==
  \A c \in Clients, i \in DOMAIN entries :
    LET places == heard[c][i] IN
    /\ \A n \in DOMAIN places \ {1} :
         places[n] = PlaceOf(entries[i].reply.replies, places[n - 1])
    /\ fresh[c] => \A n \in DOMAIN places : places[n] = PlaceOf(entries[i].reply.replies, n - 1)

\* A body read in chunks is the body, of any size and content and for any
\* chunk size; random bytes only if all chunks but the last take whole words
\* from the generator, and a file only if it can be read.
ChunksMakeBody ==
  response.from \in {"over", "chaos", "rule"} =>
    \A c \in ChunkSizes :
      \/ response.body.is = "rand" /\ c % Word # 0 /\ c < response.body.size
      \/ response.body.is = "rand" /\ c = 0 /\ response.body.size > 1
      \/ response.body.is = "file" /\ response.body.path \notin DOMAIN Files
      \/ SE!FlattenSeq(BodyChunks(response.body, c)) = GenerateBody(response.body).val

\* `unreachable!("reflect! should be resolved before body generation")`.
ReflectIsResolved == response.from # "panicked"
=============================================================================
