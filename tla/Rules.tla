--------------------------------- MODULE Rules ---------------------------------
(***************************************************************************)
(* The rule language: what a document sent to /_mx, or a configuration     *)
(* file, becomes (src/rule.rs, src/serve/mod.rs, src/serve/pace.rs,        *)
(* src/serve/behavior_types.rs, src/reply/mod.rs, src/chaos.rs) and the    *)
(* warnings it earns (src/validate.rs).                                    *)
(*                                                                         *)
(* A document is read by yttp and serde_json (external) into values.  Here *)
(* a value is a record tagged with its JSON type, an object has a field    *)
(* for every key the code looks up, and a value of a type the code has no  *)
(* use for is Wrong.  A parser maps a value to an outcome.                 *)
(***************************************************************************)
EXTENDS Matching, Suggest, Bodies

CONSTANTS
  Width32,   \* 2 to the 32
  Hundred,   \* 100%, in the steps the percentages of chaos are multiples of
  Tolerance, \* 0.01%, in these steps
  BaseDir,   \* the configuration file's directory
  NoWord     \* an object without unknown keys

ASSUME RulesAssumption ==
  /\ Width32 \in Nat \ {0} /\ Hundred \in Nat \ {0} /\ Tolerance \in Nat \ {0}
  /\ NoWord \notin DOMAIN Spelling

Missing == [is |-> "missing"]
Wrong == [is |-> "wrong"]
True == [is |-> "true"]
Text(s) == [is |-> "text", s |-> s]
Number(n) == [is |-> "number", n |-> n]
Object(o) == [is |-> "object", o |-> o]
List(l) == [is |-> "list", l |-> l]

Optional(field, Parse(_)) == IF field.is = "missing" THEN Ok(None) ELSE Parse(field)
FromText(field, Parse(_)) == IF field.is = "text" THEN Parse(field.s) ELSE Error
FromObject(field, Parse(_)) == IF field.is = "object" THEN Parse(field.o) ELSE Error

\* Each element of a list, in order.
Each(l, Parse(_)) == All([i \in DOMAIN l |-> Parse(l[i])], LAMBDA v : v)

\* The check for unknown keys of an object.
KnownKeys(o, Suggestion(_)) ==
  IF o.extra = NoWord THEN Ok(None) ELSE Refused(Suggestion(o.extra))

-----------------------------------------------------------------------------
(***************************************************************************)
(* serve: the delivery                                                     *)
(***************************************************************************)
ByRange(kind, outcome) == Then(outcome, LAMBDA r : [is |-> kind, range |-> r])

\* The text has "/s" in it.
MentionsSpeed(t) == t.a.per \/ (t.is = "between" /\ t.b.per)

\* parse_pace_str
ParsePaceStr(t) ==
  CASE t.is = "chunk" ->
         All(<<ParseByteSizeRange(t.size), ParseDurationRange(t.interval)>>,
             LAMBDA v : [is |-> "chunk", size |-> v[1], interval |-> v[2]])
    [] t.is # "chunk" /\ MentionsSpeed(t) -> ByRange("speed", ParseSpeedRange(t))
    [] OTHER -> ByRange("duration", ParseDurationRange(t))

\* parse_drop_value, and the same in parse_hang: bytes, or else a time.
ParseBytesOrTime(t) ==
  LET bytes == ParseByteSizeRange(t)
  IN  IF bytes.is = "ok" THEN ByRange("bytes", bytes) ELSE ByRange("time", ParseDurationRange(t))

\* A text, or the one text field of an older form.
ParseDrop(field) ==
  FromText(IF field.is = "object" THEN field.o.after ELSE field, ParseBytesOrTime)

ParseHang(field) == FromText(field, ParseBytesOrTime)

ParseFirstByte(field) ==
  FromText(IF field.is = "object" THEN field.o.delay ELSE field, ParseDurationRange)

Delivery(pace, drop, hang, firstByte) ==
  [pace |-> pace, drop |-> drop, hang |-> hang, firstByte |-> firstByte]
DefaultDelivery == Delivery(None, None, None, None)

\* parse_delivery_fields
ParseDeliveryFields(o) ==
  All(<<Optional(o.pace, LAMBDA f : FromText(f, ParsePaceStr)), Optional(o.drop, ParseDrop),
        Optional(o.hang, ParseHang), Optional(o.firstByte, ParseFirstByte)>>,
      LAMBDA v : Delivery(v[1], v[2], v[3], v[4]))

-----------------------------------------------------------------------------
(***************************************************************************)
(* reply                                                                   *)
(***************************************************************************)
ReplySpec(status, headers, body) == [status |-> status, headers |-> headers, body |-> body]

\* parse_status
ParseStatus(field) ==
  CASE field.is = "missing" -> Ok(200)
    [] field.is = "number" -> Check(field.n \in 0 .. 999, Ok(field.n))
    [] OTHER -> Error

\* yttp::expand_headers (external), of the names that matter.
ExpandHeaders(names) == {IF h = "ct!" THEN "Content-Type" ELSE h : h \in names}

\* parse_headers
ParseHeaders(field) ==
  IF field.is = "missing" THEN Ok({})
  ELSE FromObject(field, LAMBDA names : Ok(ExpandHeaders(names)))

\* parse_file: a relative path is joined to the base directory, if any.
ResolvePath(path, base) ==
  IF path.relative /\ base # None THEN <<base.val, path.name>> ELSE <<path.name>>

\* parse_rand_body
ParseRandBody(o) ==
  All(<<FromText(o.size, ParseByteSize),
        Check(o.seed.is = "number" /\ o.seed.n >= 0, Ok(o.seed))>>,
      LAMBDA v : RandBody(v[1], v[2].n))

\* parse_pattern_body
ParsePatternBody(o) ==
  All(<<FromText(o.repeat, LAMBDA s : Check(s # <<>>, Ok(s))), FromText(o.size, ParseByteSize)>>,
      LAMBDA v : PatternBody(v[1], v[2]))

ReflectBody(fields) == [is |-> "reflect", fields |-> fields]
ReflectFields == [method |-> "i.m", headers |-> "i.h", url |-> "i.u", query |-> "i.q", body |-> "i.b"]

\* parse_reflect_field
ParseReflectField(field) ==
  FromText(field, LAMBDA s :
    LET named == {f \in DOMAIN ReflectFields : ReflectFields[f] = s}
    IN  Check(named # {}, Ok(CHOOSE f \in named : TRUE)))

\* parse_reflect_body
ParseReflectBody(field) ==
  CASE field.is = "true" -> Ok(ReflectBody(<<"method", "headers", "url", "query">>))
    [] field.is = "list" /\ field.l # <<>> -> Then(Each(field.l, ParseReflectField), ReflectBody)
    [] OTHER -> Error

\* parse_body: an object with a directive, or a literal.
ParseBody(field, base) ==
  CASE field.is = "missing" -> Ok(NoBody)
    [] field.is = "rand!" -> FromObject(field.arg, ParseRandBody)
    [] field.is = "pattern!" -> FromObject(field.arg, ParsePatternBody)
    [] field.is = "reflect!" -> ParseReflectBody(field.arg)
    [] field.is = "file!" ->
         FromText(field.arg, LAMBDA path : Ok(FileBody(ResolvePath(path, base))))
    [] field.is = "literal" -> Ok(field)

\* parse_reply
ParseReply(field, base) ==
  FromObject(field, LAMBDA o :
    All(<<ParseStatus(o.s), ParseHeaders(o.h), ParseBody(o.b, base)>>,
        LAMBDA v : ReplySpec(v[1], v[2], v[3])))

DefaultId == [name |-> "id", new |-> "inc"]
TextOr(field, default) == IF field.is = "text" THEN field.s ELSE default

\* parse_crud_spec
ParseCrudSpec(o) ==
  All(<<IF o.id.is = "missing" THEN Ok(DefaultId)
        ELSE FromObject(o.id, LAMBDA id :
               Ok([name |-> TextOr(id.name, "id"), new |-> TextOr(id.new, "inc")])),
        IF o.data.is = "missing" THEN Ok(<<>>) ELSE Check(o.data.is = "list", Ok(o.data.l))>>,
      LAMBDA v : [id |-> v[1], data |-> v[2]])

\* parse_reply_strategy: a list is a sequence, an object with crud! a
\* resource, any other object a static reply.
ParseReplyStrategy(field, base) ==
  CASE field.is = "list" /\ field.l # <<>> ->
         Then(Each(field.l, LAMBDA f : ParseReply(f, base)),
              LAMBDA v : [is |-> "sequence", replies |-> v])
    [] field.is = "object" /\ field.o.crud.is # "missing" ->
         Then(IF field.o.crud = True THEN Ok([id |-> DefaultId, data |-> <<>>])
              ELSE FromObject(field.o.crud, ParseCrudSpec),
              LAMBDA v : [is |-> "crud", spec |-> v,
                          headers |-> IF field.o.h.is = "object" THEN ExpandHeaders(field.o.h.o) ELSE {}])
    [] field.is = "object" /\ field.o.crud.is = "missing" ->
         Then(ParseReply(field, base), LAMBDA r : [is |-> "static", replies |-> <<r>>])
    [] OTHER -> Error

-----------------------------------------------------------------------------
(***************************************************************************)
(* serve: the limits                                                       *)
(***************************************************************************)
\* parse_overflow_action.  Its replies know no base directory.
ParseOverflowAction(field) ==
  CASE field.is = "text" -> Check(field.s = "block", Ok([is |-> "block"]))
    [] field.is = "blocking" ->
         All(<<FromText(field.block, ParseDurationRange), ParseReply(field.then, None)>>,
             LAMBDA v : [is |-> "blockWithTimeout", timeout |-> v[1], reply |-> v[2]])
    [] OTHER -> Then(ParseReply(field, None), LAMBDA r : [is |-> "reply", reply |-> r])

\* parse_conn: a maximum of at least 1, as a u32.
ParseConn(field) ==
  FromObject(field, LAMBDA o :
    All(<<Check(o.max.is = "number" /\ o.max.n > 0, Ok(o.max)), ParseOverflowAction(o.over)>>,
        LAMBDA v : [is |-> "conn", max |-> v[1].n % Width32, over |-> v[2]]))

\* parse_rps: 0 is allowed here.
ParseRps(field) ==
  FromObject(field, LAMBDA o :
    All(<<Check(o.max.is = "number" /\ o.max.n >= 0, Ok(o.max)), ParseReply(o.over, None)>>,
        LAMBDA v : [is |-> "rps", max |-> v[1].n % Width32, reply |-> v[2]]))

Behavior(conn, rps, timeout) == [conn |-> conn, rps |-> rps, timeout |-> timeout]

\* parse_behavior, with parse_timeout
ParseBehavior(o) ==
  All(<<Optional(o.conn, ParseConn), Optional(o.rps, ParseRps),
        Optional(o.timeout, LAMBDA f : FromText(f, ParseDurationRange))>>,
      LAMBDA v : Behavior(v[1], v[2], v[3]))

Serve(delivery, behavior) == [delivery |-> delivery, behavior |-> behavior]
DefaultServe == Serve(DefaultDelivery, Behavior(None, None, None))

\* parse_serve
ParseServe(field) ==
  FromObject(field, LAMBDA o :
    All(<<KnownKeys(o, SuggestServeKey), ParseDeliveryFields(o), ParseBehavior(o)>>,
        LAMBDA v : Serve(v[2], v[3])))

-----------------------------------------------------------------------------
(***************************************************************************)
(* chaos.  The tenths of a percentage are steps; floats are rounded to a   *)
(* whole number of them.                                                   *)
(***************************************************************************)
\* parse_percentage: NaN is neither negative nor over 100.
ParsePercentage(field) ==
  FromText(field, LAMBDA s :
    LET fits == s.num.is = "decimal" /\ s.num.tenths \in 0 .. Hundred
    IN  Check(s.percent /\ (fits \/ s.num = NaN), Ok(s.num)))

\* Up to entry i there is no NaN, which stays in every sum it gets into and
\* is not less or greater than anything.
Summable(chaos, i) == \A j \in 1 .. i : chaos[j].p # NaN

Steps(p) == IF p = NaN THEN 0 ELSE p.tenths

\* The percentages of the first i entries of a list, if they have a sum.
Cumulative(chaos) ==
  LET sum[i \in 0 .. Len(chaos)] == IF i = 0 THEN 0 ELSE sum[i - 1] + Steps(chaos[i].p)
  IN  sum

\* A serve without any delivery field is no serve.
ParseChaosServe(field) ==
  FromObject(field, LAMBDA o :
    Then(ParseDeliveryFields(o), LAMBDA d : IF d = DefaultDelivery THEN None ELSE Some(d)))

\* The first i entries of a list, with their percentages as they are written.
WrittenEntries(l, i) ==
  LET p(j) == FromObject(l[j], LAMBDA o : ParsePercentage(o.p))
  IN  [j \in 1 .. i |-> [p |-> IF p(j).is = "ok" THEN p(j).val ELSE Decimal(0)]]

Exceeds(chaos, i) == Summable(chaos, i) /\ Cumulative(chaos)[i] > Hundred

ParseChaosEntry(l, i) ==
  FromObject(l[i], LAMBDA o :
    LET entry == All(<<ParsePercentage(o.p), Check(~Exceeds(WrittenEntries(l, i), i), Ok(None)),
                       Optional(o.reply, LAMBDA r : Then(ParseReply(r, None), Some)),
                       Optional(o.serve, ParseChaosServe)>>,
                     LAMBDA v : [p |-> v[1], reply |-> v[3], serve |-> v[4]])
    IN  IF entry.is = "ok" /\ entry.val.reply = None /\ entry.val.serve = None
        THEN Error ELSE entry)

\* parse_chaos
ParseChaos(field) ==
  IF field.is # "list" \/ field.l = <<>> THEN Error
  ELSE LET places == [i \in DOMAIN field.l |-> i]
       IN  Each(places, LAMBDA i : ParseChaosEntry(field.l, i))

-----------------------------------------------------------------------------
(***************************************************************************)
(* Rules and documents                                                     *)
(***************************************************************************)
Required(field, Parse(_)) == IF field.is = "missing" THEN Error ELSE Parse(field)

\* parse_rule.  What a rule was parsed from is kept with it.
ParseRule(v, base) ==
  FromObject(v, LAMBDA o :
    All(<<KnownKeys(o, SuggestRuleKey), Required(o.match, ParseMatchRule),
          Required(o.reply, LAMBDA f : ParseReplyStrategy(f, base)),
          IF o.serve.is = "missing" THEN Ok(DefaultServe) ELSE ParseServe(o.serve),
          IF o.chaos.is = "missing" THEN Ok(<<>>) ELSE ParseChaos(o.chaos)>>,
        LAMBDA r : [match |-> r[2], reply |-> r[3], delivery |-> r[4].delivery,
                    behavior |-> r[4].behavior, chaos |-> r[5], source |-> o]))

MutantParseRules(doc, base) ==
  LET good == {i \in DOMAIN doc.l : ParseRule(doc.l[i], base).is = "ok"}
      Nth(n) == CHOOSE i \in good : Cardinality({j \in good : j <= i}) = n
  IN  CASE doc.is = "list" -> Ok([n \in 1 .. Cardinality(good) |-> ParseRule(doc.l[Nth(n)], base).val])
        [] doc.is = "object" -> Then(ParseRule(doc, base), LAMBDA r : <<r>>)
        [] OTHER -> Error

\* parse_body_as_rules and load_config: parse_rules, of a readable document.
ParseRules(doc, base) ==
  CASE doc.is = "list" -> Each(doc.l, LAMBDA v : ParseRule(v, base))
    [] doc.is = "object" -> Then(ParseRule(doc, base), LAMBDA r : <<r>>)
    [] OTHER -> Error

MutantDropsEarly(drop, pace) ==
  /\ drop.is = "time" /\ pace.is = "duration"
  /\ AsMillis(drop.range.hi) < AsMillis(pace.range.lo)

\* The shortest drop comes before the longest pace.
DropsEarly(drop, pace) ==
  /\ drop.is = "time" /\ pace.is = "duration"
  /\ AsMillis(drop.range.lo) < AsMillis(pace.range.hi)

\* The percentages sum to 100%, give or take less than 0.01%.
SumsToHundred(chaos) ==
  LET n == Len(chaos)
      off == Cumulative(chaos)[n] - Hundred
  IN  chaos # <<>> /\ Summable(chaos, n) /\ off < Tolerance /\ 0 - off < Tolerance

\* validate_rule: its warnings.
ValidateRule(rule) ==
  {w \in {"truncated", "never normal"} :
     IF w = "truncated" THEN DropsEarly(rule.delivery.drop, rule.delivery.pace)
     ELSE SumsToHundred(rule.chaos)}

\* validate_rules: the warnings of each rule, in order.
ValidateRules(rules) == [i \in DOMAIN rules |-> ValidateRule(rules[i])]
=============================================================================
