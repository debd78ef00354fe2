---------------------------- MODULE HandlerProofs ----------------------------
(***************************************************************************)
(* Proofs about Handler: for all documents, requests, connections and      *)
(* widths.  They rest on what an accepted document is parsed to (RuleOK,   *)
(* from RulesProofs and RangeProofs), on what a response says of the rules *)
(* that were loaded (Loaded), and on how the counters of a sequence go     *)
(* with what was heard (Heard).                                            *)
(***************************************************************************)
EXTENDS RangeProofs

-----------------------------------------------------------------------------
(***************************************************************************)
(* Documents                                                               *)
(***************************************************************************)

\* What the proofs need of an accepted rule.
RuleOK(rule) ==
  /\ rule.reply.is \in {"static", "sequence", "crud"}
  /\ rule.reply.is = "sequence" => Len(rule.reply.replies) \in Nat \ {0}
  /\ \A q \in Requests : Matches(rule.match, q.method, q.path) <=> IsFor(q, rule.source.match)
  /\ DrawsAsWritten(rule) /\ Shares(rule.chaos) /\ WarnsRightly(rule) /\ BodiesOK(rule)

\* parse_rule gives such a rule, and keeps what it was parsed from.
LEMMA RuleLoaded ==
  ASSUME NEW v, NEW base, IsRuleValue(v), ParseRule(v, base).is = "ok"
  PROVE  RuleOK(ParseRule(v, base).val) /\ Object(ParseRule(v, base).val.source) = v
<1> DEFINE rule == ParseRule(v, base).val
<1>1. /\ v.is = "object"
      /\ ParseMatchRule(v.o.match).is = "ok"
      /\ ParseReplyStrategy(v.o.reply, base).is = "ok"
      /\ rule.match = ParseMatchRule(v.o.match).val
      /\ rule.reply = ParseReplyStrategy(v.o.reply, base).val
      /\ rule.source = v.o
  BY RuleParsed
<1> HIDE DEF rule
<1>2. Object(rule.source) = v
  BY <1>1 DEF IsRuleValue
<1>3. /\ rule.reply.is \in {"static", "sequence", "crud"}
      /\ rule.reply.is = "sequence" => Len(rule.reply.replies) \in Nat \ {0}
  <2>1. v.o.reply.is = "list" => IsList(v.o.reply.l)
    BY <1>1 DEF IsRuleValue
  <2>2. QED  BY <1>1, <2>1, StrategyParsed
<1>4. ASSUME NEW q \in Requests
      PROVE  Matches(rule.match, q.method, q.path) <=> IsFor(q, rule.source.match)
  <2>1. q.path \in Seq(STRING)
    BY HandlerAssumption
  <2> DEFINE m == v.o.match
  <2>2. m.is = "pairs" =>
          /\ IsList(m.pairs)
          /\ \A i \in DOMAIN m.pairs : m.pairs[i].path.is = "text" => m.pairs[i].path.s \in Seq(STRING)
    BY <1>1 DEF IsRuleValue
  <2>3. ParseMatchRule(m).is = "ok" /\ rule.match = ParseMatchRule(m).val /\ rule.source.match = m
    BY <1>1
  <2> HIDE DEF m
  <2>4. QED  BY <2>1, <2>2, <2>3, MatchesAsWritten
<1>5. DrawsAsWritten(rule) /\ Shares(rule.chaos) /\ WarnsRightly(rule) /\ BodiesOK(rule)
  BY RuleDraws, RuleWarned, RuleBodies DEF rule
<1>6. QED  BY <1>2, <1>3, <1>4, <1>5 DEF RuleOK, rule

\* So does parse_rules for each rule of a document, in its order.
LEMMA DocumentLoaded ==
  ASSUME NEW doc \in Documents \cup Trials \cup Configs, NEW base,
         ParseRules(doc, base).is = "ok"
  PROVE  LET rules == ParseRules(doc, base).val
         IN  /\ IsList(rules)
             /\ \A i \in DOMAIN rules : RuleOK(rules[i])
             /\ [i \in 1 .. Len(rules) |-> Object(rules[i].source)] = RulesIn(doc)
<1> DEFINE rules == ParseRules(doc, base).val
<1>1. doc.is = "list" => IsList(doc.l)
  BY DocumentsAssumption
<1>2. CASE /\ doc.is = "list"
           /\ \A i \in DOMAIN doc.l : ParseRule(doc.l[i], base).is = "ok"
           /\ rules = [i \in DOMAIN doc.l |-> ParseRule(doc.l[i], base).val]
  <2>1. \A i \in DOMAIN doc.l : IsRuleValue(doc.l[i])
    BY <1>2, DocumentsAssumption
  <2>2. \A i \in DOMAIN doc.l : RuleOK(rules[i]) /\ Object(rules[i].source) = doc.l[i]
    BY <1>2, <2>1, RuleLoaded
  <2>3. rules = [i \in DOMAIN doc.l |-> rules[i]]
    BY <1>2
  <2> HIDE DEF rules
  <2>4. IsList(rules) /\ Len(rules) = Len(doc.l) /\ DOMAIN rules = DOMAIN doc.l
    BY <1>1, <1>2, <2>3, Mapped
  <2>5. doc.l = [i \in 1 .. Len(doc.l) |-> doc.l[i]]
    BY <1>1, <1>2, LenProperties DEF IsList
  <2>6. DOMAIN doc.l = 1 .. Len(doc.l)
    BY <2>5
  <2>7. [i \in 1 .. Len(rules) |-> Object(rules[i].source)] = doc.l
    BY <2>2, <2>4, <2>5, <2>6
  <2>8. QED  BY <1>2, <2>2, <2>4, <2>7 DEF RulesIn, rules
<1>3. CASE /\ doc.is = "object"
           /\ ParseRule(doc, base).is = "ok"
           /\ rules = <<ParseRule(doc, base).val>>
  <2> DEFINE rule == ParseRule(doc, base).val
  <2>1. RuleOK(rule) /\ Object(rule.source) = doc
    BY <1>3, DocumentsAssumption, RuleLoaded
  <2>2. rules = <<rule>>
    BY <1>3
  <2> HIDE DEF rules, rule
  <2>3. /\ IsList(rules) /\ Len(rules) = 1 /\ DOMAIN rules = 1 .. 1 /\ rules[1] = rule
    BY <2>2 DEF IsList
  <2>4. [i \in 1 .. Len(rules) |-> Object(rules[i].source)] = <<doc>>
    BY <2>1, <2>3
  <2>5. QED  BY <1>3, <2>1, <2>3, <2>4 DEF RulesIn, rules
<1>4. QED  BY <1>1, <1>2, <1>3, RulesParsed

-----------------------------------------------------------------------------
(***************************************************************************)
(* The steps                                                               *)
(***************************************************************************)

\* What a step can do to the rules, counters and connections.
Quiet == UNCHANGED <<entries, counters, conn, fresh, used, heard>>

Loads(n, rules) ==
  /\ n \in {0, Len(entries)}
  /\ IsList(rules) /\ \A i \in DOMAIN rules : RuleOK(rules[i])
  /\ Load(n, rules)
  /\ UNCHANGED <<conn, fresh, used>>

Hears(c, i) ==
  LET place == PlaceOf(entries[i].reply.replies, counters[i][conn[c]])
  IN  /\ conn[c] # Absent
      /\ entries[i].reply.is = "sequence"
      /\ counters[i][conn[c]] < MaxCalls
      /\ NextCallFor(i, conn[c])
      /\ heard' = [heard EXCEPT ![c][i] = Append(@, place)]
      /\ UNCHANGED <<entries, conn, fresh, used>>

\* The first n of a list are a list.
LEMMA Prefix ==
  ASSUME NEW l, IsList(l), NEW n \in 0 .. Len(l)
  PROVE  /\ IsList(SubSeq(l, 1, n)) /\ Len(SubSeq(l, 1, n)) = n
         /\ \A i \in 1 .. n : SubSeq(l, 1, n)[i] = l[i]
<1> DEFINE S == {l[i] : i \in DOMAIN l}
           kept == SubSeq(l, 1, n)
<1>1. l \in Seq(S)
  BY DEF IsList
<1> HIDE DEF S
<1>2. Len(l) \in Nat /\ n \in Nat
  BY <1>1, LenProperties
<1>3. kept \in Seq(S) /\ Len(kept) = n /\ \A i \in 1 .. n : kept[i] = l[i]
  <2>1. \A i \in 1 .. n : l[i] \in S
    BY <1>1, <1>2, ElementOfSeq
  <2>2. QED  BY <1>2, <2>1, SubSeqProperties
<1> HIDE DEF kept
<1>4. IsList(kept)
  BY <1>3, Listed
<1>5. QED  BY <1>3, <1>4 DEF kept

\* register_rules adds the rules of a document, or the first ones of them if
\* it panics.
Added(doc, n, rules, added) ==
  /\ Loads(n, added)
  /\ Len(added) \in Nat /\ Len(rules) \in Nat /\ Len(added) <= Len(rules)
  /\ DOMAIN rules = 1 .. Len(rules)
  /\ \A i \in 1 .. Len(added) : added[i] = rules[i]
  /\ [i \in 1 .. Len(rules) |-> Object(rules[i].source)] = RulesIn(doc)
  /\ response'.doc = doc /\ response'.after = n
  /\ \/ /\ response'.from = "loaded" /\ added = rules
        /\ response'.warnings = [i \in DOMAIN rules |-> ValidateRule(rules[i])]
     \/ response'.from = "unfinished"

\* That is what it does.
LEMMA Taken ==
  ASSUME IsList(entries), NEW doc \in Documents \cup Trials, NEW n \in {0, Len(entries)},
         NEW rules, ParseRules(doc, None).is = "ok", rules = ParseRules(doc, None).val,
         Register(doc, n, rules), UNCHANGED <<conn, fresh, used>>
  PROVE  \E added : Added(doc, n, rules, added)
<1>1. /\ IsList(rules) /\ \A i \in DOMAIN rules : RuleOK(rules[i])
      /\ [i \in 1 .. Len(rules) |-> Object(rules[i].source)] = RulesIn(doc)
  BY DocumentLoaded
<1>2. Len(rules) \in Nat /\ DOMAIN rules = 1 .. Len(rules)
  BY <1>1, LenProperties DEF IsList
<1> DEFINE failing == {i \in DOMAIN rules : Overflows(rules[i])}
           finished == ~poisoned /\ failing = {}
           first == SubSeq(rules, 1, Min(failing) - 1)
           added == IF finished THEN rules ELSE IF poisoned THEN <<>> ELSE first
<1>3. /\ Load(n, added)
      /\ response' = IF finished THEN [from |-> "loaded", doc |-> doc, after |-> n,
                                       warnings |-> ValidateRules(rules)]
                     ELSE [from |-> "unfinished", doc |-> doc, after |-> n]
  BY DEF Register
<1>4. \/ finished /\ added = rules
      \/ ~finished /\ added = <<>>
      \/ ~finished /\ failing # {} /\ added = first
  OBVIOUS
<1>5. /\ response'.doc = doc /\ response'.after = n
      /\ finished => /\ response'.from = "loaded"
                     /\ response'.warnings = [i \in DOMAIN rules |-> ValidateRule(rules[i])]
      /\ ~finished => response'.from = "unfinished"
  BY <1>3 DEF ValidateRules
<1> HIDE DEF added, finished
<1>6. failing # {} => /\ IsList(first) /\ Len(first) \in Nat /\ Len(first) <= Len(rules)
                      /\ \A i \in 1 .. Len(first) : first[i] = rules[i]
  <2> SUFFICES ASSUME failing # {}
               PROVE  /\ IsList(first) /\ Len(first) \in Nat /\ Len(first) <= Len(rules)
                      /\ \A i \in 1 .. Len(first) : first[i] = rules[i]
    OBVIOUS
  <2> DEFINE m == Min(failing) - 1
  <2>1. failing \in SUBSET Nat
    BY <1>2
  <2>2. Min(failing) \in failing
    <3> HIDE DEF failing
    <3>1. QED  BY <2>1, MinIs
  <2>3. m \in 0 .. Len(rules)
    BY <1>2, <2>2
  <2> HIDE DEF m
  <2>4. /\ IsList(SubSeq(rules, 1, m)) /\ Len(SubSeq(rules, 1, m)) = m
        /\ \A i \in 1 .. m : SubSeq(rules, 1, m)[i] = rules[i]
    BY <1>1, <2>3, Prefix
  <2>5. m \in Nat /\ m <= Len(rules)
    BY <1>2, <2>3
  <2>6. first = SubSeq(rules, 1, m)
    BY DEF m
  <2> HIDE DEF first
  <2>7. QED  BY <2>4, <2>5, <2>6
<1> HIDE DEF first, failing
<1>7. /\ IsList(added) /\ Len(added) \in Nat /\ Len(added) <= Len(rules)
      /\ \A i \in 1 .. Len(added) : added[i] = rules[i]
  <2>1. CASE added = rules
    BY <1>1, <1>2, <2>1
  <2>2. CASE added = <<>>
    <3>1. IsList(<<>>) /\ Len(<<>>) = 0
      BY EmptySeq DEF IsList
    <3>2. QED  BY <1>2, <2>2, <3>1
  <2>3. CASE failing # {} /\ added = first
    BY <1>6, <2>3
  <2>4. QED  BY <1>4, <2>1, <2>2, <2>3
<1>8. \A i \in DOMAIN added : RuleOK(added[i])
  <2>1. DOMAIN added = 1 .. Len(added)
    BY <1>7, LenProperties DEF IsList
  <2>2. \A i \in 1 .. Len(added) : i \in DOMAIN rules
    BY <1>2, <1>7
  <2>3. QED  BY <1>1, <1>7, <2>1, <2>2
<1>9. Loads(n, added)
  BY <1>3, <1>7, <1>8 DEF Loads
<1>10. \/ /\ response'.from = "loaded" /\ added = rules
          /\ response'.warnings = [i \in DOMAIN rules |-> ValidateRule(rules[i])]
       \/ response'.from = "unfinished"
  BY <1>4, <1>5
<1>11. Added(doc, n, rules, added)
  BY <1>1, <1>2, <1>5, <1>7, <1>9, <1>10 DEF Added
<1>12. QED  BY <1>11

\* An admin request does that, or nothing to the rules.
LEMMA Sent ==
  ASSUME IsList(entries), NEW doc \in Sendable, Post(doc, Parsed[doc]) \/ Put(doc, Parsed[doc])
  PROVE  /\ doc \in Documents \cup Trials /\ Parsed[doc] = ParseRules(doc, None)
         /\ \/ Refuse(doc, Parsed[doc]) /\ UNCHANGED <<conn, fresh, used>>
            \/ \E n, rules, added : Added(doc, n, rules, added)
<1>1. doc \in Documents \cup Trials /\ Parsed[doc] = ParseRules(doc, None)
  BY DEF Parsed, Sendable
<1>2. \/ Refuse(doc, Parsed[doc]) /\ UNCHANGED <<conn, fresh, used>>
      \/ \E n \in {0, Len(entries)} :
           /\ ParseRules(doc, None).is = "ok" /\ Register(doc, n, ParseRules(doc, None).val)
           /\ UNCHANGED <<conn, fresh, used>>
  BY <1>1 DEF Post, Put
<1>3. QED  BY <1>1, <1>2, Taken

\* The newest match is one of those there are, and none is newer.
LEMMA NewestIsEntry ==
  ASSUME IsList(entries), NEW q
  PROVE  /\ MatchRequest(q) \in {0} \cup DOMAIN entries
         /\ MatchRequest(q) # 0 => Matches(entries[MatchRequest(q)].match, q.method, q.path)
         /\ \A i \in DOMAIN entries :
              Matches(entries[i].match, q.method, q.path) => i <= MatchRequest(q)
<1> DEFINE matching == {i \in DOMAIN entries : Matches(entries[i].match, q.method, q.path)}
           S == matching \cup {0}
           n == Len(entries)
<1>1. n \in Nat /\ DOMAIN entries = 1 .. n
  BY LenProperties DEF IsList
<1>2. S \subseteq 0 .. n /\ S # {}
  BY <1>1
<1> HIDE DEF S
<1>3. \E m \in S : \A j \in S : m >= j
  <2> DEFINE T == {n - x : x \in S}
  <2>1. T \in SUBSET Nat /\ T # {}
    <3>1. \A x \in S : n - x \in Nat
      BY <1>1, <1>2
    <3> HIDE DEF n
    <3>2. QED  BY <1>2, <3>1
  <2>2. PICK t \in T : \A u \in T : t <= u
    <3> HIDE DEF T
    <3>1. QED  BY <2>1, Least
  <2>3. PICK m \in S : t = n - m
    OBVIOUS
  <2>4. ASSUME NEW j \in S PROVE m >= j
    <3>1. n - j \in T
      OBVIOUS
    <3>2. t <= n - j
      BY <2>2, <3>1
    <3>3. m \in Int /\ j \in Int /\ n \in Int
      BY <1>1, <1>2
    <3> HIDE DEF n
    <3>4. QED  BY <2>3, <3>2, <3>3
  <2>5. QED  BY <2>4
<1>4. Max(S) \in S /\ \A j \in S : Max(S) >= j
  BY <1>3 DEF Max
<1>5. MatchRequest(q) = Max(S)
  BY DEF MatchRequest, S
<1>6. MatchRequest(q) \in 0 .. n
  BY <1>2, <1>4, <1>5
<1>7. ASSUME NEW i \in matching PROVE i <= MatchRequest(q)
  <2>1. i \in S
    BY DEF S
  <2>2. i \in Int /\ MatchRequest(q) >= i
    BY <1>1, <1>4, <1>5, <2>1
  <2>3. QED  BY <1>6, <2>2
<1>8. MatchRequest(q) \in matching \cup {0}
  BY <1>4, <1>5 DEF S
<1>9. QED  BY <1>7, <1>8

\* Every step of the server does one of these.
LEMMA Effects ==
  ASSUME IsList(entries), [Next]_vars
  PROVE  \/ Quiet
         \/ \E n, rules : Loads(n, rules)
         \/ \E c \in Clients : \/ \E p \in Peers : Connect(c, p)
                              \/ Close(c)
                              \/ \E i \in DOMAIN entries : Hears(c, i)
<1>1. CASE UNCHANGED vars
  BY <1>1 DEF vars, Quiet
<1>2. ASSUME NEW doc \in Sendable, Post(doc, Parsed[doc]) \/ Put(doc, Parsed[doc])
      PROVE  Quiet \/ \E n, rules : Loads(n, rules)
  BY <1>2, Sent DEF Refuse, Quiet, Added
<1>3. ASSUME NEW c \in Clients, NEW q \in Requests, Handle(c, q)
      PROVE  Quiet \/ \E i \in DOMAIN entries : Hears(c, i)
  <2> DEFINE i == MatchRequest(q)
  <2>1. CASE Unread(q) \/ NotFound(i, q) \/ LockedOut(i, q) \/ Reject(i, q)
    BY <1>3, <2>1 DEF Handle, Unread, NotFound, LockedOut, Reject, Quiet
  <2>2. ASSUME NEW roll \in 0 .. Rolls - 1, Answer(c, i, q, roll)
        PROVE  Quiet \/ \E j \in DOMAIN entries : Hears(c, j)
    <3> DEFINE override == ResolveChaos(entries[i].chaos, Rolled(roll))
    <3>1. i \in DOMAIN entries
      BY <2>2, NewestIsEntry DEF Answer
    <3>2. CASE AnswerChaos(i, q, override) \/ AnswerStatic(i, q, override) \/ AnswerCrud(i, q, override)
      BY <1>3, <3>2 DEF Handle, AnswerChaos, AnswerStatic, AnswerCrud, Quiet
    <3>3. CASE AnswerSequence(c, i, q, override)
      <4> HIDE DEF i
      <4>1. Hears(c, i)
        BY <1>3, <3>3 DEF Handle, AnswerSequence, Hears
      <4>2. QED  BY <3>1, <4>1
    <3>4. QED  BY <2>2, <3>2, <3>3 DEF Answer
  <2>3. QED  BY <1>3, <2>1, <2>2 DEF Handle
<1>4. CASE Next
  BY <1>2, <1>3, <1>4 DEF Next
<1>5. QED  BY <1>1, <1>4

\* Rules that are loaded come behind the ones that stay.
LEMMA Registered ==
  ASSUME IsList(entries), NEW n, NEW rules, Loads(n, rules)
  PROVE  /\ n \in Nat /\ n \in 0 .. Len(entries) /\ Len(rules) \in Nat
         /\ DOMAIN entries = 1 .. Len(entries)
         /\ IsList(entries') /\ Len(entries') = n + Len(rules)
         /\ DOMAIN entries' = 1 .. n + Len(rules)
         /\ \A i \in 1 .. n : entries'[i] = entries[i]
         /\ \A i \in 1 .. Len(rules) : entries'[n + i] = rules[i] /\ RuleOK(rules[i])
         /\ SubSeq(entries', 1, n) = SubSeq(entries, 1, n)
<1>1. IsList(rules) /\ \A i \in DOMAIN rules : RuleOK(rules[i])
  BY DEF Loads
<1>2. /\ Len(entries) \in Nat /\ DOMAIN entries = 1 .. Len(entries)
      /\ Len(rules) \in Nat /\ DOMAIN rules = 1 .. Len(rules)
  BY <1>1, LenProperties DEF IsList
<1>3. n \in 0 .. Len(entries)
  <2> DEFINE size == Len(entries)
  <2>1. size \in Nat /\ (n = 0 \/ n = size)
    BY <1>2 DEF Loads
  <2> HIDE DEF size
  <2>2. n \in 0 .. size
    BY <2>1
  <2>3. QED  BY <2>2 DEF size
<1>4. entries' = SubSeq(entries, 1, n) \o rules
  BY DEF Loads, Load
<1>5. /\ IsList(entries') /\ Len(entries') = n + Len(rules)
      /\ DOMAIN entries' = 1 .. n + Len(rules)
      /\ \A i \in 1 .. n : entries'[i] = entries[i]
      /\ \A i \in 1 .. Len(rules) : entries'[n + i] = rules[i]
      /\ SubSeq(entries', 1, n) = SubSeq(entries, 1, n)
  <2> DEFINE l == SubSeq(entries, 1, n) \o rules
  <2>1. /\ IsList(l) /\ Len(l) = n + Len(rules) /\ DOMAIN l = 1 .. n + Len(rules)
        /\ \A i \in 1 .. n : l[i] = entries[i]
        /\ \A i \in 1 .. Len(rules) : l[n + i] = rules[i]
        /\ SubSeq(l, 1, n) = SubSeq(entries, 1, n)
    BY <1>1, <1>3, Appended, Zenon
  <2>2. entries' = l
    BY <1>4
  <2> HIDE DEF l
  <2>3. QED  BY <2>1, <2>2
<1>6. n \in Nat
  BY <1>3
<1>7. QED  BY <1>1, <1>2, <1>3, <1>5, <1>6

\* What an answer says of itself.
LEMMA Answered ==
  ASSUME NEW c, NEW q, Handle(c, q)
  PROVE  \/ response'.from = "400"
         \/ /\ response'.from \in {"404", "500", "panicked", "lockedOut", "over", "chaos", "rule"}
            /\ response'.entry = MatchRequest(q) /\ response'.request = q
<1> DEFINE i == MatchRequest(q)
<1>1. ASSUME NEW from \in {"over", "chaos", "rule"}, NEW reply, NEW delivery,
             response' = Built(from, i, q, reply, delivery)
      PROVE  /\ response'.from \in {"404", "500", "panicked", "lockedOut", "over", "chaos", "rule"}
             /\ response'.entry = i /\ response'.request = q
  <2> HIDE DEF i
  <2>1. QED  BY <1>1 DEF Built
<1>2. CASE Unread(q) \/ NotFound(i, q) \/ LockedOut(i, q)
  BY <1>2 DEF Unread, NotFound, LockedOut
<1>3. CASE Reject(i, q)
  BY <1>1, <1>3 DEF Reject
<1>4. ASSUME NEW roll \in 0 .. Rolls - 1, Answer(c, i, q, roll)
      PROVE  /\ response'.from \in {"404", "500", "panicked", "lockedOut", "over", "chaos", "rule"}
             /\ response'.entry = i /\ response'.request = q
  <2> DEFINE override == ResolveChaos(entries[i].chaos, Rolled(roll))
  <2> HIDE DEF i, override
  <2>1. CASE AnswerChaos(i, q, override)
    BY <1>1, <2>1 DEF AnswerChaos
  <2>2. CASE AnswerStatic(i, q, override)
    BY <1>1, <2>2 DEF AnswerStatic
  <2>3. CASE AnswerSequence(c, i, q, override)
    BY <1>1, <2>3 DEF AnswerSequence
  <2>4. CASE AnswerCrud(i, q, override)
    <3>1. \/ response' = [from |-> "500", entry |-> i, request |-> q]
          \/ \E reply, delivery : response' = Built("rule", i, q, reply, delivery)
      BY <2>4 DEF AnswerCrud
    <3>2. QED  BY <1>1, <3>1
  <2>5. QED  BY <1>4, <2>1, <2>2, <2>3, <2>4 DEF Answer, override
<1>5. QED  BY <1>2, <1>3, <1>4 DEF Handle

-----------------------------------------------------------------------------
(***************************************************************************)
(* The rules are rules of accepted documents                               *)
(***************************************************************************)

RulesOK == IsList(entries) /\ \A i \in DOMAIN entries : RuleOK(entries[i])

\* The configuration file is an accepted document.
LEMMA RulesInit ==
  ASSUME Init
  PROVE  RulesOK
<1>1. PICK doc \in Configs : LET rules == ParseRules(doc, Some(BaseDir))
                            IN  rules.is = "ok" /\ entries = rules.val
  BY Zenon DEF Init
<1>2. QED  BY <1>1, DocumentLoaded DEF RulesOK

\* Rules come from accepted documents only.
LEMMA RulesStep ==
  ASSUME RulesOK, [Next]_vars
  PROVE  RulesOK'
<1>1. IsList(entries)
  BY DEF RulesOK
<1>2. CASE entries' = entries
  BY <1>2 DEF RulesOK
<1>3. ASSUME NEW n, NEW rules, Loads(n, rules)
      PROVE  RulesOK'
  <2>1. /\ n \in Nat /\ n \in 0 .. Len(entries)
        /\ Len(rules) \in Nat /\ DOMAIN entries = 1 .. Len(entries)
        /\ IsList(entries') /\ DOMAIN entries' = 1 .. n + Len(rules)
        /\ \A i \in 1 .. n : entries'[i] = entries[i]
        /\ \A i \in 1 .. Len(rules) : entries'[n + i] = rules[i] /\ RuleOK(rules[i])
    BY <1>1, <1>3, Registered, Zenon
  <2>2. ASSUME NEW i \in DOMAIN entries' PROVE RuleOK(entries'[i])
    <3>1. CASE i \in 1 .. n
      BY <2>1, <3>1 DEF RulesOK
    <3>2. CASE i \notin 1 .. n
      <4>1. n \in Nat /\ Len(rules) \in Nat /\ i \in 1 .. n + Len(rules)
        BY <2>1
      <4>2. PICK j \in 1 .. Len(rules) : i = n + j
        BY <3>2, <4>1, Beyond
      <4>3. QED  BY <2>1, <4>2
    <3>3. QED  BY <3>1, <3>2
  <2>3. QED  BY <2>1, <2>2 DEF RulesOK
<1>4. QED  BY <1>1, <1>2, <1>3, Effects DEF Quiet, Connect, Close, Hears

\* At all times each rule is one that parse_rule accepted: its sequence has
\* replies, and it matches what it was written for.
THEOREM RulesAlwaysOK == Spec => []RulesOK
<1>1. QED  BY RulesInit, RulesStep, PTL DEF Spec

-----------------------------------------------------------------------------
(***************************************************************************)
(* DocumentsAllOrNothing                                                   *)
(***************************************************************************)

\* Any document, also one with an error in its last rule or one that makes
\* the parser panic, is taken whole or leaves everything as it is; the panic
\* of register_rules leaves its first rules, whatever they are.
THEOREM DocumentsTakenWhole == Spec => DocumentsAllOrNothing
<1>1. ASSUME RulesOK, [Next]_vars PROVE [WholeOrNothing]_vars
  <2>1. CASE UNCHANGED vars
    BY <2>1
  <2>2. ASSUME NEW doc \in Sendable, Post(doc, Parsed[doc]) \/ Put(doc, Parsed[doc])
        PROVE  WholeOrNothing
    <3>1. IsList(entries)
      BY <1>1 DEF RulesOK
    <3>2. CASE Refuse(doc, Parsed[doc])
      BY <3>2 DEF Refuse, WholeOrNothing
    <3>3. ASSUME NEW n, NEW rules, NEW added, Added(doc, n, rules, added)
          PROVE  WholeOrNothing
      <4> DEFINE sources == [i \in 1 .. Len(entries') - n |-> Object(entries'[n + i].source)]
                 written == [i \in 1 .. Len(rules) |-> Object(rules[i].source)]
      <4>1. /\ Len(added) \in Nat /\ Len(rules) \in Nat /\ Len(added) <= Len(rules)
            /\ \A i \in 1 .. Len(added) : added[i] = rules[i]
            /\ written = RulesIn(doc)
            /\ response'.doc = doc /\ response'.after = n
            /\ \/ response'.from = "loaded" /\ added = rules
               \/ response'.from = "unfinished"
        BY <3>3 DEF Added
      <4>2. /\ n \in Nat /\ Len(entries') = n + Len(added)
            /\ \A i \in 1 .. Len(added) : entries'[n + i] = added[i]
            /\ SubSeq(entries', 1, n) = SubSeq(entries, 1, n)
        <5>1. Loads(n, added)
          BY <3>3 DEF Added
        <5>2. /\ n \in Nat /\ Len(entries') = n + Len(added)
              /\ \A i \in 1 .. Len(added) : entries'[n + i] = added[i] /\ RuleOK(added[i])
              /\ SubSeq(entries', 1, n) = SubSeq(entries, 1, n)
          BY ONLY <3>1, <5>1, Registered, Zenon
        <5>3. QED  BY <5>2
      <4>3. Len(entries') - n = Len(added)
        BY <4>1, <4>2
      <4>4. sources = [i \in 1 .. Len(added) |-> Object(rules[i].source)]
        BY <4>1, <4>2, <4>3
      <4>5. added = rules => sources = RulesIn(doc)
        BY <4>1, <4>4
      <4>6. \A i \in DOMAIN sources : sources[i] = RulesIn(doc)[i]
        <5>1. ASSUME NEW i \in 1 .. Len(added) PROVE sources[i] = written[i]
          <6>1. i \in 1 .. Len(rules)
            BY <4>1
          <6>2. QED  BY <4>4, <6>1
        <5>2. DOMAIN sources = 1 .. Len(added)
          BY <4>4
        <5>3. QED  BY <4>1, <5>1, <5>2
      <4> HIDE DEF sources
      <4>7. QED  BY <4>1, <4>2, <4>5, <4>6 DEF WholeOrNothing, sources
    <3>4. QED  BY <2>2, <3>1, <3>2, <3>3, Sent
  <2>3. ASSUME NEW c \in Clients, NEW p \in Peers, Connect(c, p) PROVE WholeOrNothing
    BY <2>3 DEF Connect, NoResponse, WholeOrNothing
  <2>4. ASSUME NEW c \in Clients, Close(c) PROVE WholeOrNothing
    BY <2>4 DEF Close, NoResponse, WholeOrNothing
  <2>5. ASSUME NEW c \in Clients, NEW q \in Requests, Handle(c, q) PROVE WholeOrNothing
    BY <2>5, Answered DEF WholeOrNothing
  <2>6. QED  BY <1>1, <2>1, <2>2, <2>3, <2>4, <2>5 DEF Next
<1>2. QED  BY <1>1, RulesAlwaysOK, PTL DEF Spec, DocumentsAllOrNothing

-----------------------------------------------------------------------------
(***************************************************************************)
(* AnsweredByNewestMatch                                                   *)
(***************************************************************************)

\* Every answer comes from the newest rule for the resource that was asked
\* for, or one above it, whatever paths and methods rules are written with;
\* rules for "/" are the ones the property leaves open.
THEOREM NewestRuleAnswers == Spec => []AnsweredByNewestMatch
<1>1. Init => AnsweredByNewestMatch
  BY DEF Init, NoResponse, AnsweredByNewestMatch
<1>2. ASSUME RulesOK, AnsweredByNewestMatch, [Next]_vars PROVE AnsweredByNewestMatch'
  <2>1. CASE UNCHANGED vars
    BY <1>2, <2>1 DEF vars, AnsweredByNewestMatch
  <2>2. ASSUME NEW doc \in Sendable, Post(doc, Parsed[doc]) \/ Put(doc, Parsed[doc])
        PROVE  AnsweredByNewestMatch'
    <3>1. CASE Refuse(doc, Parsed[doc])
      BY <3>1 DEF Refuse, AnsweredByNewestMatch
    <3>2. ASSUME NEW n, NEW rules, NEW added, Added(doc, n, rules, added)
          PROVE  response'.from \in {"loaded", "unfinished"}
      BY <3>2 DEF Added
    <3>3. IsList(entries)
      BY <1>2 DEF RulesOK
    <3>4. QED  BY <2>2, <3>1, <3>2, <3>3, Sent DEF AnsweredByNewestMatch
  <2>3. ASSUME NEW c \in Clients, NEW p \in Peers, Connect(c, p) PROVE AnsweredByNewestMatch'
    BY <2>3 DEF Connect, NoResponse, AnsweredByNewestMatch
  <2>4. ASSUME NEW c \in Clients, Close(c) PROVE AnsweredByNewestMatch'
    BY <2>4 DEF Close, NoResponse, AnsweredByNewestMatch
  <2>5. ASSUME NEW c \in Clients, NEW q \in Requests, Handle(c, q) PROVE AnsweredByNewestMatch'
    <3>1. \A i \in DOMAIN entries :
            Matches(entries[i].match, q.method, q.path) <=> IsFor(q, entries[i].source.match)
      BY <1>2 DEF RulesOK, RuleOK
    <3>2. /\ MatchRequest(q) \in {0} \cup {i \in DOMAIN entries : IsFor(q, entries[i].source.match)}
          /\ \A i \in DOMAIN entries : IsFor(q, entries[i].source.match) => i <= MatchRequest(q)
      BY <1>2, <3>1, NewestIsEntry DEF RulesOK
    <3>3. entries' = entries
      BY <2>5 DEF Handle
    <3>4. QED  BY <2>5, <3>2, <3>3, Answered DEF AnsweredByNewestMatch
  <2>6. QED  BY <1>2, <2>1, <2>2, <2>3, <2>4, <2>5 DEF Next
<1>3. QED  BY <1>1, <1>2, RulesAlwaysOK, PTL DEF Spec

-----------------------------------------------------------------------------
(***************************************************************************)
(* QuantitiesAsWritten, WarningsTell, ChaosShares                           *)
(***************************************************************************)

\* A response to a document is about rules that are there, and holds the
\* warnings of each.
Loaded ==
  response.from = "loaded" =>
    LET n == response.after
    IN  /\ n \in 0 .. Len(entries)
        /\ \A i \in n + 1 .. Len(entries) :
             response.warnings[i - n] = ValidateRule(entries[i])

\* register_rules validates the rules it adds; no other step answers with
\* warnings.
LEMMA LoadedStep ==
  ASSUME RulesOK, Loaded, [Next]_vars
  PROVE  Loaded'
<1>1. CASE UNCHANGED vars
  BY <1>1 DEF vars, Loaded
<1>2. ASSUME NEW doc \in Sendable, Post(doc, Parsed[doc]) \/ Put(doc, Parsed[doc])
      PROVE  Loaded'
  <2>1. IsList(entries)
    BY DEF RulesOK
  <2>2. CASE Refuse(doc, Parsed[doc])
    BY <2>2 DEF Refuse, Loaded
  <2>3. ASSUME NEW n, NEW rules, NEW added, Added(doc, n, rules, added)
        PROVE  Loaded'
    <3>1. CASE response'.from = "unfinished"
      BY <3>1 DEF Loaded
    <3>2. CASE response'.from = "loaded"
      <4>1. /\ Loads(n, rules) /\ Len(rules) \in Nat /\ DOMAIN rules = 1 .. Len(rules)
            /\ response'.after = n
            /\ response'.warnings = [i \in DOMAIN rules |-> ValidateRule(rules[i])]
        BY <2>3, <3>2 DEF Added
      <4>2. /\ n \in Nat /\ Len(entries') = n + Len(rules)
            /\ \A i \in 1 .. Len(rules) : entries'[n + i] = rules[i]
        BY <2>1, <4>1, Registered
      <4>3. ASSUME NEW i \in n + 1 .. Len(entries')
            PROVE  response'.warnings[i - n] = ValidateRule(entries'[i])
        <5>1. i - n \in 1 .. Len(rules) /\ n + (i - n) = i
          BY <4>1, <4>2
        <5>2. entries'[i] = rules[i - n]
          BY <4>2, <5>1
        <5>3. response'.warnings[i - n] = ValidateRule(rules[i - n])
          BY <4>1, <5>1
        <5>4. QED  BY <5>2, <5>3
      <4>4. n \in 0 .. Len(entries')
        BY <4>1, <4>2
      <4>5. QED  BY <4>1, <4>3, <4>4 DEF Loaded
    <3>3. QED  BY <2>3, <3>1, <3>2 DEF Added
  <2>4. QED  BY <1>2, <2>1, <2>2, <2>3, Sent
<1>3. ASSUME NEW c \in Clients, NEW p \in Peers, Connect(c, p) PROVE Loaded'
  BY <1>3 DEF Connect, NoResponse, Loaded
<1>4. ASSUME NEW c \in Clients, Close(c) PROVE Loaded'
  BY <1>4 DEF Close, NoResponse, Loaded
<1>5. ASSUME NEW c \in Clients, NEW q \in Requests, Handle(c, q) PROVE Loaded'
  BY <1>5, Answered DEF Loaded
<1>6. QED  BY <1>1, <1>2, <1>3, <1>4, <1>5 DEF Next

\* What is loaded is accepted, and validated.
LEMMA LoadedRulesOK ==
  ASSUME RulesOK, Loaded
  PROVE  \A i \in LoadedRules :
           /\ i \in DOMAIN entries /\ RuleOK(entries[i])
           /\ response.warnings[i - response.after] = ValidateRule(entries[i])
<1>1. Len(entries) \in Nat /\ DOMAIN entries = 1 .. Len(entries)
  BY LenProperties DEF RulesOK, IsList
<1>2. ASSUME NEW i \in LoadedRules
      PROVE  /\ i \in DOMAIN entries
             /\ response.warnings[i - response.after] = ValidateRule(entries[i])
  <2>1. response.from = "loaded"
    BY DEF LoadedRules
  <2>2. response.after \in 0 .. Len(entries) /\ i \in response.after + 1 .. Len(entries)
    BY <2>1 DEF Loaded, LoadedRules
  <2>3. i \in 1 .. Len(entries)
    BY <1>1, <2>2
  <2>4. QED  BY <1>1, <2>1, <2>2, <2>3 DEF Loaded
<1>3. QED  BY <1>2 DEF RulesOK

\* So it is at all times.
LEMMA AlwaysLoaded == Spec => [](RulesOK /\ Loaded)
<1>1. Init => Loaded
  BY DEF Init, NoResponse, Loaded
<1>2. RulesOK /\ Loaded /\ [Next]_vars => Loaded'
  BY LoadedStep
<1>3. QED  BY <1>1, <1>2, RulesInit, RulesStep, PTL DEF Spec

\* Every draw from any range of an accepted rule is one its text allows: a
\* duration, size or speed, alone, between two or with a percentage, for all
\* widths of the numbers, all percentages and all draws.
THEOREM DrawsMatchTheText == Spec => []QuantitiesAsWritten
<1>1. RulesOK /\ Loaded => QuantitiesAsWritten
  BY LoadedRulesOK DEF QuantitiesAsWritten, RuleOK
<1>2. QED  BY <1>1, AlwaysLoaded, PTL

\* The warnings that are sent for a rule are right, both when they are there
\* and when they are not: to the millisecond, and to 0.01% of the rolls.
THEOREM WarningsAreRight == Spec => []WarningsTell
<1>1. RulesOK /\ Loaded => WarningsTell
  <2>1. ASSUME RulesOK, Loaded, NEW i \in LoadedRules
        PROVE  WarnsRightly(entries[i]) /\ response.warnings[i - response.after] = ValidateRule(entries[i])
    BY <2>1, LoadedRulesOK DEF RuleOK
  <2>2. QED  BY <2>1 DEF WarningsTell, WarnsRightly
<1>2. QED  BY <1>1, AlwaysLoaded, PTL

\* Any list of chaos entries that is accepted gives each of them its
\* percentage of the rolls, up to the first that is NaN, and none to those
\* from there on.
THEOREM ChaosEntriesShare == Spec => []ChaosShares
<1>1. RulesOK /\ Loaded => ChaosShares
  BY LoadedRulesOK DEF ChaosShares, RuleOK
<1>2. QED  BY <1>1, AlwaysLoaded, PTL

-----------------------------------------------------------------------------
(***************************************************************************)
(* CycledPerConnection                                                     *)
(***************************************************************************)

Types ==
  /\ counters = [i \in DOMAIN entries |-> counters[i]]
  /\ \A i \in DOMAIN entries : counters[i] \in [Peers -> 0 .. MaxCalls]
  /\ conn \in [Clients -> Peers \cup {Absent}]
  /\ fresh \in [Clients -> BOOLEAN]
  /\ used \subseteq Peers
  /\ heard = [c \in Clients |-> heard[c]]
  /\ \A c \in Clients : heard[c] = [i \in DOMAIN entries |-> heard[c][i]]
  /\ \A c \in Clients, i \in DOMAIN entries : heard[c][i] \in Seq(Nat)

\* Addresses are shared by no two connections, and count nothing until used.
Addresses ==
  /\ \A c, o \in Clients : conn[c] = conn[o] /\ conn[c] # Absent => c = o
  /\ \A c \in Clients : conn[c] # Absent => conn[c] \in used
  /\ \A i \in DOMAIN entries, p \in Peers \ used : counters[i][p] = 0

\* What a connection has heard of a sequence, and the counter of its address.
Heard(c, i) ==
  LET places == heard[c][i]
      count == counters[i][conn[c]]
      Place(n) == PlaceOf(entries[i].reply.replies, n)
  IN  /\ conn[c] = Absent => places = <<>> /\ ~fresh[c]
      /\ conn[c] # Absent /\ fresh[c] => Len(places) = count
      /\ places # <<>> => /\ entries[i].reply.is = "sequence"
                         /\ count > 0
                         /\ places[Len(places)] = Place(count - 1)
      /\ \A n \in DOMAIN places \ {1} : places[n] = Place(places[n - 1])
      /\ fresh[c] => \A n \in DOMAIN places : places[n] = Place(n - 1)

CycleInv ==
  /\ RulesOK /\ Types /\ Addresses
  /\ \A c \in Clients, i \in DOMAIN entries : Heard(c, i)
  /\ \A c \in Clients : conn[c] = Absent => ~fresh[c]

\* Nobody has heard anything when the server starts.
LEMMA CycleInit ==
  ASSUME Init
  PROVE  CycleInv
<1>1. RulesOK
  BY RulesInit
<1>2. Types
  BY EmptySeq, HandlerAssumption DEF Init, Types
<1>3. Addresses
  BY DEF Init, Addresses
<1>4. ASSUME NEW c \in Clients, NEW i \in DOMAIN entries PROVE Heard(c, i)
  <2>1. conn[c] = Absent /\ heard[c][i] = <<>> /\ fresh[c] = FALSE
    BY DEF Init
  <2>2. DOMAIN <<>> = {}
    OBVIOUS
  <2>3. QED  BY <2>1, <2>2 DEF Heard
<1>5. QED  BY <1>1, <1>2, <1>3, <1>4 DEF CycleInv, Init

\* A document: the rules that stay keep their counters and what was heard of
\* them, those that are new have none.
LEMMA CycleLoads ==
  ASSUME CycleInv, NEW n, NEW rules, Loads(n, rules), RulesOK'
  PROVE  CycleInv'
<1>1. /\ n \in Nat /\ Len(rules) \in Nat /\ n \in 0 .. Len(entries)
      /\ DOMAIN entries = 1 .. Len(entries)
      /\ DOMAIN entries' = 1 .. n + Len(rules)
      /\ \A i \in 1 .. n : entries'[i] = entries[i]
  BY Registered DEF CycleInv, RulesOK
<1>2. \A i \in 1 .. n : i \in DOMAIN entries
  BY <1>1
<1>3. /\ counters' = [i \in 1 .. n + Len(rules) |-> IF i <= n THEN counters[i] ELSE [p \in Peers |-> 0]]
      /\ heard' = [c \in Clients |->
                     [i \in 1 .. n + Len(rules) |-> IF i <= n THEN heard[c][i] ELSE <<>>]]
      /\ conn' = conn /\ fresh' = fresh /\ used' = used
  BY DEF Loads, Load
<1>4. ASSUME NEW i \in DOMAIN entries'
      PROVE  \/ /\ i \in DOMAIN entries /\ entries'[i] = entries[i] /\ counters'[i] = counters[i]
                /\ \A c \in Clients : heard'[c][i] = heard[c][i]
             \/ /\ counters'[i] = [p \in Peers |-> 0]
                /\ \A c \in Clients : heard'[c][i] = <<>>
  <2>1. i \in 1 .. n + Len(rules)
    BY <1>1
  <2>2. i <= n => i \in 1 .. n
    BY <1>1, <2>1
  <2>3. QED  BY <1>1, <1>2, <1>3, <2>1, <2>2
<1>5. Types'
  <2>1. \A i \in DOMAIN entries' : counters'[i] \in [Peers -> 0 .. MaxCalls]
    <3>1. [p \in Peers |-> 0] \in [Peers -> 0 .. MaxCalls]
      BY HandlerAssumption
    <3>2. QED  BY <1>4, <3>1 DEF CycleInv, Types
  <2>2. \A c \in Clients, i \in DOMAIN entries' : heard'[c][i] \in Seq(Nat)
    BY <1>4, EmptySeq DEF CycleInv, Types
  <2>3. /\ counters' = [i \in DOMAIN entries' |-> counters'[i]]
        /\ heard' = [c \in Clients |-> heard'[c]]
        /\ \A c \in Clients : heard'[c] = [i \in DOMAIN entries' |-> heard'[c][i]]
    BY <1>1, <1>3
  <2>4. QED  BY <1>3, <2>1, <2>2, <2>3 DEF CycleInv, Types
<1>6. Addresses'
  <2>1. ASSUME NEW i \in DOMAIN entries', NEW p \in Peers \ used PROVE counters'[i][p] = 0
    BY <1>4 DEF CycleInv, Addresses
  <2>2. conn' = conn /\ used' = used
    BY <1>3
  <2>3. QED  BY <2>1, <2>2 DEF CycleInv, Addresses
<1>7. ASSUME NEW c \in Clients, NEW i \in DOMAIN entries' PROVE Heard(c, i)'
  <2>1. CASE /\ i \in DOMAIN entries /\ entries'[i] = entries[i] /\ counters'[i] = counters[i]
             /\ heard'[c][i] = heard[c][i]
    <3>1. Heard(c, i)
      BY <2>1 DEF CycleInv
    <3>2. conn' = conn /\ fresh' = fresh
      BY <1>3
    <3>3. QED  BY <2>1, <3>1, <3>2 DEF Heard
  <2>2. CASE counters'[i] = [p \in Peers |-> 0] /\ heard'[c][i] = <<>>
    <3>1. DOMAIN <<>> = {} /\ Len(<<>>) = 0
      OBVIOUS
    <3>2. conn[c] # Absent => conn[c] \in Peers
      BY DEF CycleInv, Types
    <3>3. conn[c] = Absent => ~fresh[c]
      BY DEF CycleInv
    <3>4. QED  BY <1>3, <2>2, <3>1, <3>2, <3>3, ZenonT(30) DEF Heard
  <2>3. QED  BY <1>4, <2>1, <2>2
<1>8. QED  BY <1>3, <1>5, <1>6, <1>7 DEF CycleInv

\* A new connection has heard nothing, and a new address has counted nothing.
LEMMA CycleConnect ==
  ASSUME CycleInv, NEW c \in Clients, NEW p \in Peers, Connect(c, p), RulesOK'
  PROVE  CycleInv'
<1>1. /\ conn[c] = Absent /\ \A o \in Clients : conn[o] # p
      /\ entries' = entries /\ counters' = counters /\ heard' = heard
      /\ used' = used \cup {p} /\ p # Absent
  BY HandlerAssumption DEF Connect
<1>2. /\ conn' = [conn EXCEPT ![c] = p] /\ fresh' = [fresh EXCEPT ![c] = p \notin used]
      /\ conn \in [Clients -> Peers \cup {Absent}] /\ fresh \in [Clients -> BOOLEAN]
  BY DEF Connect, CycleInv, Types
<1>3. /\ conn'[c] = p /\ fresh'[c] = (p \notin used)
      /\ \A o \in Clients \ {c} : conn'[o] = conn[o] /\ fresh'[o] = fresh[o]
  BY <1>2
<1>4. Types'
  BY <1>1, <1>2 DEF CycleInv, Types
<1>5. Addresses'
  BY <1>1, <1>3 DEF CycleInv, Addresses
<1>6. ASSUME NEW o \in Clients, NEW i \in DOMAIN entries' PROVE Heard(o, i)'
  <2>1. Heard(o, i)
    BY <1>1 DEF CycleInv
  <2>2. CASE o = c
    <3>1. heard'[c][i] = <<>>
      BY <1>1, <2>1, <2>2 DEF Heard
    <3>2. p \notin used => counters'[i][p] = 0
      BY <1>1 DEF CycleInv, Addresses
    <3>3. DOMAIN <<>> = {} /\ Len(<<>>) = 0
      OBVIOUS
    <3>4. QED  BY <1>1, <1>3, <2>2, <3>1, <3>2, <3>3 DEF Heard
  <2>3. CASE o # c
    BY <1>1, <1>3, <2>1, <2>3 DEF Heard
  <2>4. QED  BY <2>2, <2>3
<1>7. QED  BY <1>1, <1>3, <1>4, <1>5, <1>6 DEF CycleInv

\* A closed connection's address keeps its counters.
LEMMA CycleClose ==
  ASSUME CycleInv, NEW c \in Clients, Close(c), RulesOK'
  PROVE  CycleInv'
<1>1. entries' = entries /\ counters' = counters /\ used' = used
  BY DEF Close
<1>2. /\ conn' = [conn EXCEPT ![c] = Absent] /\ fresh' = [fresh EXCEPT ![c] = FALSE]
      /\ heard' = [heard EXCEPT ![c] = [i \in DOMAIN entries |-> <<>>]]
      /\ conn \in [Clients -> Peers \cup {Absent}] /\ fresh \in [Clients -> BOOLEAN]
      /\ heard = [o \in Clients |-> heard[o]]
  BY DEF Close, CycleInv, Types
<1>3. /\ conn'[c] = Absent /\ fresh'[c] = FALSE /\ heard'[c] = [i \in DOMAIN entries |-> <<>>]
      /\ \A o \in Clients \ {c} : conn'[o] = conn[o] /\ fresh'[o] = fresh[o] /\ heard'[o] = heard[o]
  BY <1>2
<1>4. Types'
  <2>1. ASSUME NEW o \in Clients, NEW i \in DOMAIN entries PROVE heard'[o][i] \in Seq(Nat)
    <3>1. <<>> \in Seq(Nat) /\ heard[o][i] \in Seq(Nat)
      BY EmptySeq DEF CycleInv, Types
    <3>2. heard'[c][i] = <<>> /\ (o # c => heard'[o] = heard[o])
      BY <1>3
    <3>3. QED  BY <3>1, <3>2
  <2>2. \A o \in Clients : heard'[o] = [i \in DOMAIN entries |-> heard'[o][i]]
    BY <1>3 DEF CycleInv, Types
  <2>3. heard' = [o \in Clients |-> heard'[o]]
    BY <1>2
  <2>4. QED  BY <1>1, <1>2, <2>1, <2>2, <2>3 DEF CycleInv, Types
<1>5. Addresses'
  BY <1>1, <1>3 DEF CycleInv, Addresses
<1>6. ASSUME NEW o \in Clients, NEW i \in DOMAIN entries' PROVE Heard(o, i)'
  <2>1. Heard(o, i)
    BY <1>1 DEF CycleInv
  <2>2. CASE o = c
    <3>1. heard'[c][i] = <<>> /\ DOMAIN <<>> = {}
      BY <1>1, <1>3
    <3>2. QED  BY <1>3, <2>2, <3>1 DEF Heard
  <2>3. CASE o # c
    BY <1>1, <1>3, <2>1, <2>3 DEF Heard
  <2>4. QED  BY <2>2, <2>3
<1>7. QED  BY <1>1, <1>3, <1>4, <1>5, <1>6 DEF CycleInv

\* The next reply of a sequence: only its connection's address counts.
LEMMA CycleHears ==
  ASSUME CycleInv, NEW c \in Clients, NEW i \in DOMAIN entries, Hears(c, i), RulesOK'
  PROVE  CycleInv'
<1> DEFINE p == conn[c]
           k == counters[i][p]
           L == Len(entries[i].reply.replies)
           Place(n) == PlaceOf(entries[i].reply.replies, n)
           places == heard[c][i]
<1>1. /\ p # Absent /\ p \in Peers /\ p \in used
      /\ k \in Nat /\ k + 1 \in 0 .. MaxCalls
      /\ entries[i].reply.is = "sequence" /\ L \in Nat \ {0}
      /\ places \in Seq(Nat)
  BY HandlerAssumption DEF Hears, CycleInv, Types, Addresses, RulesOK, RuleOK
<1>2. /\ entries' = entries /\ conn' = conn /\ fresh' = fresh /\ used' = used
      /\ counters' = [counters EXCEPT ![i][p] = k + 1]
      /\ heard' = [heard EXCEPT ![c][i] = Append(places, Place(k))]
  BY DEF Hears, NextCallFor
<1>3. /\ counters'[i] \in [Peers -> 0 .. MaxCalls] /\ counters'[i][p] = k + 1
      /\ \A q \in Peers \ {p} : counters'[i][q] = counters[i][q]
      /\ \A j \in DOMAIN entries \ {i} : counters'[j] = counters[j]
      /\ counters' = [j \in DOMAIN entries |-> counters'[j]]
  BY <1>1, <1>2 DEF CycleInv, Types
<1>4. /\ heard'[c][i] = Append(places, Place(k))
      /\ \A j \in DOMAIN entries \ {i} : heard'[c][j] = heard[c][j]
      /\ \A o \in Clients \ {c} : heard'[o] = heard[o]
      /\ heard' = [o \in Clients |-> heard'[o]]
      /\ heard'[c] = [j \in DOMAIN entries |-> heard'[c][j]]
  BY <1>1, <1>2 DEF CycleInv, Types
<1>5. Place(k) \in Nat
  BY <1>1, ModSplit DEF PlaceOf
<1>6. Types'
  <2>1. \A j \in DOMAIN entries : counters'[j] \in [Peers -> 0 .. MaxCalls]
    BY <1>3 DEF CycleInv, Types
  <2>2. Append(places, Place(k)) \in Seq(Nat)
    BY <1>1, <1>5
  <2>3. \A o \in Clients, j \in DOMAIN entries : heard'[o][j] \in Seq(Nat)
    BY <1>4, <2>2 DEF CycleInv, Types
  <2>4. \A o \in Clients : heard'[o] = [j \in DOMAIN entries |-> heard'[o][j]]
    BY <1>4 DEF CycleInv, Types
  <2>5. QED  BY <1>2, <1>3, <1>4, <2>1, <2>3, <2>4 DEF CycleInv, Types
<1>7. Addresses'
  <2>1. ASSUME NEW j \in DOMAIN entries, NEW q \in Peers \ used PROVE counters'[j][q] = 0
    BY <1>1, <1>3 DEF CycleInv, Addresses
  <2>2. QED  BY <1>2, <2>1 DEF CycleInv, Addresses
<1>8. Heard(c, i)'
  <2> DEFINE len == Len(places)
             told == Append(places, Place(k))
  <2>1. Heard(c, i)
    BY DEF CycleInv
  <2>2. len \in Nat /\ DOMAIN places = 1 .. len
    BY <1>1, LenProperties
  <2>3. /\ Len(told) = len + 1 /\ DOMAIN told = 1 .. len + 1
        /\ told[len + 1] = Place(k) /\ \A n \in 1 .. len : told[n] = places[n]
    BY <1>1, <1>5, <2>2
  <2>4. ASSUME NEW n \in DOMAIN told \ {1} PROVE told[n] = Place(told[n - 1])
    <3>1. CASE n <= len
      <4>1. n \in DOMAIN places \ {1} /\ n \in 1 .. len /\ n - 1 \in 1 .. len
        BY <2>2, <2>3, <3>1
      <4>2. places[n] = Place(places[n - 1])
        BY <2>1, <4>1 DEF Heard
      <4>3. QED  BY <2>3, <4>1, <4>2
    <3>2. CASE n > len
      <4>1. n = len + 1 /\ len \in 1 .. len
        BY <2>2, <2>3, <3>2
      <4>2. places # <<>>
        BY <2>2, <4>1
      <4>3. k > 0 /\ places[len] = Place(k - 1)
        BY <1>1, <2>1, <4>2 DEF Heard
      <4>4. Place(Place(k - 1)) = Place(k)
        <5>1. k - 1 \in Nat /\ (k - 1) + 1 = k
          BY <1>1, <4>3
        <5>2. (1 + ((k - 1) % L)) % L = ((k - 1) + 1) % L
          BY <1>1, <5>1, ModSucc
        <5>3. QED  BY <5>1, <5>2 DEF PlaceOf
      <4>5. told[n - 1] = Place(k - 1)
        <5>1. n - 1 = len /\ told[len] = places[len]
          BY <2>2, <2>3, <4>1
        <5>2. QED  BY <4>3, <5>1
      <4>6. QED  BY <2>3, <4>1, <4>4, <4>5
    <3>3. n \in Int /\ len \in Int
      BY <2>2, <2>3
    <3>4. QED  BY <3>1, <3>2, <3>3
  <2>5. ASSUME fresh[c], NEW n \in DOMAIN told PROVE told[n] = Place(n - 1)
    <3>1. len = k
      BY <1>1, <2>1, <2>5 DEF Heard
    <3>2. CASE n <= len
      <4>1. n \in 1 .. len
        BY <2>2, <2>3, <3>2
      <4>2. QED  BY <2>1, <2>2, <2>3, <2>5, <4>1 DEF Heard
    <3>3. CASE n > len
      <4>1. n = len + 1 /\ n - 1 = k
        BY <2>2, <2>3, <3>1, <3>3, SMTT(30)
      <4>2. QED  BY <2>3, <4>1
    <3>4. QED  BY <2>2, <2>3, <3>2, <3>3
  <2>6. /\ heard'[c][i] = told /\ counters'[i][p] = k + 1
        /\ entries' = entries /\ conn' = conn /\ fresh' = fresh
    BY <1>2, <1>3, <1>4
  <2>7. told # <<>> /\ told[Len(told)] = Place((k + 1) - 1) /\ k + 1 > 0
    <3>1. (k + 1) - 1 = k /\ k + 1 > 0
      BY <1>1
    <3> HIDE DEF told, places
    <3>2. told # <<>>
      BY <2>2, <2>3
    <3>3. told[Len(told)] = Place(k)
      BY <2>3
    <3>4. QED  BY ONLY <3>1, <3>2, <3>3
  <2>8. fresh[c] => Len(told) = k + 1
    BY <1>1, <2>1, <2>3 DEF Heard
  <2> HIDE DEF told, places, k, L
  <2>9. QED  BY <1>1, <2>4, <2>5, <2>6, <2>7, <2>8 DEF Heard
<1>9. ASSUME NEW o \in Clients, NEW j \in DOMAIN entries, o # c \/ j # i PROVE Heard(o, j)'
  <2>1. Heard(o, j)
    BY DEF CycleInv
  <2>2. heard'[o][j] = heard[o][j]
    BY <1>4, <1>9
  <2>3. conn[o] # Absent => counters'[j][conn[o]] = counters[j][conn[o]]
    <3>1. CASE j # i
      BY <1>3, <3>1
    <3>2. CASE o # c
      BY <1>1, <1>3, <3>2 DEF CycleInv, Addresses, Types
    <3>3. QED  BY <1>9, <3>1, <3>2
  <2>4. QED  BY <1>2, <2>1, <2>2, <2>3 DEF Heard
<1>10. QED  BY <1>2, <1>6, <1>7, <1>8, <1>9 DEF CycleInv

\* The invariant of sequences is kept by every step.
LEMMA CycleStep ==
  ASSUME CycleInv, [Next]_vars
  PROVE  CycleInv'
<1>1. RulesOK'
  BY RulesStep DEF CycleInv
<1>2. CASE Quiet
  <2>1. RulesOK /\ Types /\ Addresses
    BY DEF CycleInv
  <2>2. Types' /\ Addresses'
    BY <1>2, <2>1 DEF Quiet, Types, Addresses
  <2>3. ASSUME NEW c \in Clients, NEW i \in DOMAIN entries' PROVE Heard(c, i)'
    BY <1>2 DEF Quiet, CycleInv, Heard
  <2>4. QED  BY <1>1, <1>2, <2>2, <2>3 DEF Quiet, CycleInv
<1>3. CASE \E n, rules : Loads(n, rules)
  BY <1>1, <1>3, CycleLoads
<1>4. CASE \E c \in Clients, p \in Peers : Connect(c, p)
  BY <1>1, <1>4, CycleConnect
<1>5. CASE \E c \in Clients : Close(c)
  BY <1>1, <1>5, CycleClose
<1>6. CASE \E c \in Clients, i \in DOMAIN entries : Hears(c, i)
  BY <1>1, <1>6, CycleHears
<1>7. QED  BY <1>2, <1>3, <1>4, <1>5, <1>6, Effects DEF CycleInv, RulesOK

Poison == poisoned \in BOOLEAN

\* Locks are poisoned or not.
LEMMA PoisonStep ==
  ASSUME Poison, [Next]_vars
  PROVE  Poison'
<1>1. CASE UNCHANGED vars
  BY <1>1 DEF vars, Poison
<1>2. ASSUME NEW doc, NEW rules, Post(doc, rules) \/ Put(doc, rules) PROVE Poison'
  <2>1. CASE Refuse(doc, rules)
    BY <2>1 DEF Refuse, Poison
  <2>2. ASSUME NEW n, NEW val, Register(doc, n, val) PROVE Poison'
    <3>1. PICK P : poisoned' = ~P
      BY <2>2, Zenon DEF Register
    <3>2. QED  BY <3>1 DEF Poison
  <2>3. QED  BY <1>2, <2>1, <2>2 DEF Post, Put
<1>3. ASSUME NEW c \in Clients, NEW p \in Peers, Connect(c, p) PROVE Poison'
  BY <1>3 DEF Connect, Poison
<1>4. ASSUME NEW c \in Clients, Close(c) PROVE Poison'
  BY <1>4 DEF Close, Poison
<1>5. ASSUME NEW c \in Clients, NEW q \in Requests, Handle(c, q) PROVE Poison'
  BY <1>5 DEF Handle, Poison
<1>6. QED  BY <1>1, <1>2, <1>3, <1>4, <1>5 DEF Next

\* The counters, connections and what is heard stay of their types.
THEOREM TypeCorrect == Spec => []TypeOK
<1>1. CycleInv /\ Poison => TypeOK
  <2> SUFFICES ASSUME CycleInv, Poison PROVE TypeOK
    OBVIOUS
  <2>1. DOMAIN counters = DOMAIN entries
    BY DEF CycleInv, Types
  <2>2. \A c \in Clients : DOMAIN heard[c] = DOMAIN entries
    BY DEF CycleInv, Types
  <2>3. QED  BY <2>1, <2>2 DEF CycleInv, Types, Addresses, RulesOK, RuleOK, Poison, TypeOK
<1>2. Init => Poison
  BY DEF Init, Poison
<1>3. QED  BY <1>1, <1>2, CycleInit, CycleStep, PoisonStep, PTL DEF Spec

\* Every connection hears the replies of a sequence in order, and from the
\* first one if its address is new, however many connections, addresses,
\* rules and documents there are.
THEOREM SequencesCycle == Spec => []CycledPerConnection
<1>1. CycleInv => CycledPerConnection
  BY DEF CycleInv, Heard, CycledPerConnection
<1>2. QED  BY <1>1, CycleInit, CycleStep, PTL DEF Spec

-----------------------------------------------------------------------------
(***************************************************************************)
(* ChunksMakeBody                                                          *)
(***************************************************************************)

\* What a response delivers is a body with a length.
Delivered ==
  response.from \in {"over", "chaos", "rule"} => BodyOK(response.body) /\ response.body.is # "reflect"

\* A built response delivers the body of its reply, and no reflect! body.
LEMMA BuiltDelivers ==
  ASSUME NEW from, NEW i, NEW q, NEW reply, NEW delivery, BodyOK(reply.body),
         response' = Built(from, i, q, reply, delivery)
  PROVE  Delivered'
<1>1. CASE reply.body.is = "reflect"
  BY <1>1 DEF Built, GenerateBody, Delivered
<1>2. CASE reply.body.is # "reflect"
  BY <1>2 DEF Built, Delivered
<1>3. QED  BY <1>1, <1>2

\* resolve_reflect puts a literal in the place of such a body.
LEMMA ReflectOK ==
  ASSUME NEW r, BodyOK(r.body)
  PROVE  BodyOK(ResolveReflect(r).body)
<1>1. IsList(<<"reflected">>)
  BY DEF IsList
<1>2. QED  BY <1>1 DEF ResolveReflect, ReplySpec, Literal, BodyOK

\* An override's reply is that of a chaos entry.
LEMMA OverrideOK ==
  ASSUME NEW rule, BodiesOK(rule), NEW at, ResolveChaos(rule.chaos, at).reply # None
  PROVE  BodyOK(ResolveChaos(rule.chaos, at).reply.val.body)
<1> DEFINE chaos == rule.chaos
           i == CHOOSE i \in DOMAIN chaos : Picks(chaos, at, i)
<1>1. \E j \in DOMAIN chaos : Picks(chaos, at, j)
  BY DEF ResolveChaos, Normal
<1>2. i \in DOMAIN chaos
  BY <1>1
<1>3. ResolveChaos(chaos, at).reply = chaos[i].reply
  BY <1>1 DEF ResolveChaos
<1> HIDE DEF i
<1>4. QED  BY <1>2, <1>3 DEF BodiesOK

\* Every answer is made of a reply of the rule, of one of its chaos entries
\* or of one of its limits.
LEMMA AnswersDeliver ==
  ASSUME CycleInv, NEW c \in Clients, NEW q \in Requests, Handle(c, q)
  PROVE  Delivered'
<1> DEFINE i == MatchRequest(q)
           rule == entries[i]
<1>1. IsList(entries) /\ \A j \in DOMAIN entries : RuleOK(entries[j])
  BY DEF CycleInv, RulesOK
<1>2. i \in {0} \cup DOMAIN entries
  BY <1>1, NewestIsEntry
<1>3. ASSUME i # 0 PROVE i \in DOMAIN entries /\ RuleOK(rule) /\ BodiesOK(rule)
  <2> HIDE DEF i
  <2>1. QED  BY <1>1, <1>2, <1>3 DEF RuleOK
<1>4. CASE Unread(q) \/ NotFound(i, q) \/ LockedOut(i, q)
  BY <1>4 DEF Unread, NotFound, LockedOut, Delivered
<1>5. CASE Reject(i, q)
  <2> HIDE DEF i
  <2>1. PICK over \in Overs(rule.behavior) :
          response' = Built("over", i, q, over, DefaultDelivery)
    BY <1>5 DEF Reject
  <2>2. BodyOK(over.body)
    BY <1>3, <1>5 DEF Reject, BodiesOK
  <2>3. QED  BY <2>1, <2>2, BuiltDelivers
<1>6. ASSUME NEW roll \in 0 .. Rolls - 1, Answer(c, i, q, roll)
      PROVE  Delivered'
  <2> DEFINE override == ResolveChaos(rule.chaos, Rolled(roll))
  <2> HIDE DEF i
  <2>1. i \in DOMAIN entries /\ RuleOK(rule) /\ BodiesOK(rule)
    BY <1>3, <1>6 DEF Answer
  <2>2. CASE AnswerChaos(i, q, override)
    <3>1. override.reply # None
          /\ response' = Built("chaos", i, q, override.reply.val, Shaping(rule, override))
      BY <2>2 DEF AnswerChaos
    <3>2. BodyOK(override.reply.val.body)
      BY <2>1, <3>1, OverrideOK
    <3> HIDE DEF override
    <3>3. QED  BY <3>1, <3>2, BuiltDelivers
  <2> HIDE DEF override
  <2>3. CASE AnswerStatic(i, q, override)
    <3> DEFINE r == rule.reply.replies[1]
    <3>1. rule.reply.is = "static"
          /\ response' = Built("rule", i, q, ResolveReflect(r), Shaping(rule, override))
      BY <2>3 DEF AnswerStatic
    <3>2. BodyOK(r.body)
      BY <2>1, <3>1 DEF BodiesOK
    <3> HIDE DEF r
    <3>3. QED  BY <3>1, <3>2, ReflectOK, BuiltDelivers
  <2>4. CASE AnswerSequence(c, i, q, override)
    <3> DEFINE k == counters[i][conn[c]]
               L == Len(rule.reply.replies)
               place == PlaceOf(rule.reply.replies, k)
               r == rule.reply.replies[place]
    <3>1. rule.reply.is = "sequence"
          /\ response' = Built("rule", i, q, ResolveReflect(r), Shaping(rule, override))
      BY <2>4 DEF AnswerSequence
    <3>2. conn[c] \in Peers
      BY <2>4 DEF CycleInv, Types, AnswerSequence, Handle
    <3>3. k \in Nat /\ L \in Nat \ {0}
      BY <2>1, <3>1, <3>2, HandlerAssumption DEF CycleInv, Types, RuleOK
    <3>4. place \in 1 .. L
      <4>1. place = 1 + (k % L)
        BY DEF PlaceOf
      <4> HIDE DEF k, L, place
      <4>2. QED  BY <3>3, <4>1, ModSplit
    <3> HIDE DEF place
    <3>5. BodyOK(r.body)
      BY <2>1, <3>1, <3>4 DEF BodiesOK
    <3> HIDE DEF r
    <3>6. QED  BY <3>1, <3>5, ReflectOK, BuiltDelivers
  <2>5. CASE AnswerCrud(i, q, override)
    <3>1. \/ response'.from = "500"
          \/ \E status, headers, body :
               /\ body \in {Literal("object", <<"item">>), NoBody}
               /\ response' = Built("rule", i, q, ReplySpec(status, headers, body),
                                    Shaping(rule, override))
      BY <2>5 DEF AnswerCrud
    <3>2. IsList(<<"item">>)
      BY DEF IsList
    <3>3. \A status, headers, body :
            body \in {Literal("object", <<"item">>), NoBody} =>
              BodyOK(ReplySpec(status, headers, body).body)
      BY <3>2 DEF ReplySpec, Literal, NoBody, BodyOK
    <3>4. CASE response'.from = "500"
      BY <3>4 DEF Delivered
    <3>5. QED  BY <3>1, <3>3, <3>4, BuiltDelivers
  <2>6. QED  BY <1>6, <2>2, <2>3, <2>4, <2>5 DEF Answer, override
<1>7. QED  BY <1>4, <1>5, <1>6 DEF Handle

\* No other step delivers anything.
LEMMA DeliveredStep ==
  ASSUME CycleInv, Delivered, [Next]_vars
  PROVE  Delivered'
<1>1. CASE UNCHANGED vars
  BY <1>1 DEF vars, Delivered
<1>2. ASSUME NEW doc \in Sendable, NEW rules, Post(doc, rules) \/ Put(doc, rules)
      PROVE  Delivered'
  <2>1. ASSUME Refuse(doc, rules) PROVE response'.from \in {"panic", "refused"}
    BY <2>1 DEF Refuse
  <2>2. ASSUME NEW n, NEW val, Register(doc, n, val) PROVE response'.from \in {"loaded", "unfinished"}
    BY <2>2 DEF Register
  <2>3. response'.from \in {"panic", "refused", "loaded", "unfinished"}
    BY <1>2, <2>1, <2>2 DEF Post, Put
  <2>4. QED  BY <2>3 DEF Delivered
<1>3. ASSUME NEW c \in Clients, NEW p \in Peers, Connect(c, p) PROVE Delivered'
  BY <1>3 DEF Connect, NoResponse, Delivered
<1>4. ASSUME NEW c \in Clients, Close(c) PROVE Delivered'
  BY <1>4 DEF Close, NoResponse, Delivered
<1>5. ASSUME NEW c \in Clients, NEW q \in Requests, Handle(c, q) PROVE Delivered'
  BY <1>5, AnswersDeliver
<1>6. QED  BY <1>1, <1>2, <1>3, <1>4, <1>5 DEF Next

\* Whatever body is delivered, of any size and for any chunk size, its chunks
\* make it up; but for the random bytes of odd chunks, and for files that
\* cannot be read.
THEOREM ChunksMakeUpBodies == Spec => []ChunksMakeBody
<1>1. ASSUME Delivered, response.from \in {"over", "chaos", "rule"}, NEW size \in ChunkSizes
      PROVE  \/ response.body.is = "rand" /\ size % Word # 0 /\ size < response.body.size
             \/ response.body.is = "rand" /\ size = 0 /\ response.body.size > 1
             \/ response.body.is = "file" /\ response.body.path \notin DOMAIN Files
             \/ SE!FlattenSeq(BodyChunks(response.body, size)) = GenerateBody(response.body).val
  <2> DEFINE b == response.body
             c == IF size = 0 THEN 1 ELSE size
  <2>1. BodyOK(b) /\ b.is # "reflect" /\ size \in Nat
    BY <1>1, HandlerAssumption DEF Delivered
  <2> HIDE DEF b
  <2>2. CASE b.is = "rand" /\ c % Word # 0 /\ ~(b.size <= c)
    <3>1. b.size \in Nat
      BY <2>1, <2>2 DEF BodyOK
    <3>2. size = 0 \/ c = size
      OBVIOUS
    <3>3. QED  BY <2>1, <2>2, <3>1, <3>2 DEF b
  <2>3. CASE ~(b.is = "rand" /\ c % Word # 0 /\ ~(b.size <= c))
    <3> DEFINE d == c
    <3> HIDE DEF d
    <3>1. d = IF size = 0 THEN 1 ELSE size
      BY DEF d
    <3>2. \/ b.is = "file" /\ b.path \notin DOMAIN Files
          \/ SE!FlattenSeq(BodyChunks(b, size)) = GenerateBody(b).val
      BY <2>1, <2>3, <3>1, ChunksAreBody DEF d
    <3>3. QED  BY <3>2 DEF b
  <2>4. QED  BY <2>2, <2>3
<1>2. Delivered => ChunksMakeBody
  BY <1>1 DEF ChunksMakeBody
<1>3. Init => Delivered
  BY DEF Init, NoResponse, Delivered
<1>4. CycleInv /\ Delivered /\ [Next]_vars => Delivered'
  BY DeliveredStep
<1>5. QED  BY <1>2, <1>3, <1>4, CycleInit, CycleStep, PTL DEF Spec

-----------------------------------------------------------------------------
(*****************************************************************************)
(* SuggestionsAreNearest                                                   *)
(*****************************************************************************)

\* A response to a refused document holds what its parser said.
Refusal ==
  response.from = "refused" =>
    LET outcome == ParseRules(response.doc, None)
    IN  /\ response.doc \in Documents \cup Trials
        /\ outcome.is # "ok"
        /\ response.advice = IF outcome.is = "refused" THEN outcome.advice ELSE None

\* Only a document is refused.
LEMMA RefusalStep ==
  ASSUME RulesOK, Refusal, [Next]_vars
  PROVE  Refusal'
<1>1. CASE UNCHANGED vars
  BY <1>1 DEF vars, Refusal
<1>2. ASSUME NEW doc \in Sendable, Post(doc, Parsed[doc]) \/ Put(doc, Parsed[doc])
      PROVE  Refusal'
  <2>1. Parsed[doc] = ParseRules(doc, None) /\ doc \in Documents \cup Trials
    BY DEF Parsed, Sendable
  <2>2. CASE Refuse(doc, Parsed[doc])
    BY <2>1, <2>2 DEF Refuse, Refusal
  <2>3. ASSUME NEW n, NEW rules, Register(doc, n, rules) PROVE Refusal'
    BY <2>3 DEF Register, Refusal
  <2>4. QED  BY <1>2, <2>2, <2>3 DEF Post, Put
<1>3. ASSUME NEW c \in Clients, NEW p \in Peers, Connect(c, p) PROVE Refusal'
  BY <1>3 DEF Connect, NoResponse, Refusal
<1>4. ASSUME NEW c \in Clients, Close(c) PROVE Refusal'
  BY <1>4 DEF Close, NoResponse, Refusal
<1>5. ASSUME NEW c \in Clients, NEW q \in Requests, Handle(c, q) PROVE Refusal'
  BY <1>5, Answered DEF Refusal
<1>6. QED  BY <1>1, <1>2, <1>3, <1>4, <1>5 DEF Next

\* The error names the first unknown key and suggests the nearest there is.
THEOREM SuggestionsNearest == Spec => []SuggestionsAreNearest
<1>1. ASSUME Refusal, response.from = "refused", Blamed(response.doc).is = "object"
      PROVE  LET o == Blamed(response.doc).o
                 match == IF o.match.is = "missing" THEN Error ELSE ParseMatchRule(o.match)
                 reply == IF o.reply.is = "missing" THEN Error ELSE ParseReplyStrategy(o.reply, None)
             IN  IF o.extra # NoWord
                 THEN IsAdvice(response.advice, o.extra, RuleAliases, <<>>, RuleKeys)
                 ELSE /\ match.is = "ok" /\ reply.is = "ok"
                      /\ o.serve.is = "object" /\ o.serve.o.extra # NoWord
                      => IsAdvice(response.advice, o.serve.o.extra, ServeAliases, ServeHints, ServeKeys)
  <2> DEFINE rule == Blamed(response.doc)
             o == rule.o
             match == IF o.match.is = "missing" THEN Error ELSE ParseMatchRule(o.match)
             reply == IF o.reply.is = "missing" THEN Error ELSE ParseReplyStrategy(o.reply, None)
             outcome == ParseRules(response.doc, None)
  <2>1. /\ response.doc \in Documents \cup Trials /\ outcome.is # "ok"
        /\ response.advice = IF outcome.is = "refused" THEN outcome.advice ELSE None
    BY <1>1 DEF Refusal
  <2>2. IsRuleValue(rule) /\ outcome = ParseRule(rule, None)
    BY <1>1, <2>1, BlamedRefuses
  <2>3. rule.is = "object"
    BY <1>1
  <2>4. IsExtra(o.extra) /\ (o.serve.is = "object" => IsExtra(o.serve.o.extra))
    BY <2>2, <2>3 DEF IsRuleValue, IsServe
  <2>5. /\ o.extra # NoWord => ParseRule(rule, None) = Refused(SuggestRuleKey(o.extra))
        /\ /\ o.extra = NoWord /\ match.is = "ok" /\ reply.is = "ok"
           /\ o.serve.is = "object" /\ o.serve.o.extra # NoWord
           => ParseRule(rule, None) = Refused(SuggestServeKey(o.serve.o.extra))
    BY <2>3, ExtraRefused
  <2> HIDE DEF match, reply, outcome, rule
  <2>6. ASSUME o.extra # NoWord
        PROVE  IsAdvice(response.advice, o.extra, RuleAliases, <<>>, RuleKeys)
    <3>1. o.extra \in DOMAIN Spelling
      BY <2>4, <2>6 DEF IsExtra
    <3>2. response.advice = SuggestRuleKey(o.extra)
      BY <2>1, <2>2, <2>5, <2>6 DEF Refused
    <3>3. RuleKeys \in Seq(DOMAIN Spelling)
      BY SuggestAssumption
    <3>4. QED  BY <3>1, <3>2, <3>3, SuggestFromIsAdvice DEF SuggestRuleKey
  <2>7. ASSUME o.extra = NoWord, match.is = "ok", reply.is = "ok",
               o.serve.is = "object", o.serve.o.extra # NoWord
        PROVE  IsAdvice(response.advice, o.serve.o.extra, ServeAliases, ServeHints, ServeKeys)
    <3>1. o.serve.o.extra \in DOMAIN Spelling
      BY <2>4, <2>7 DEF IsExtra
    <3>2. response.advice = SuggestServeKey(o.serve.o.extra)
      BY <2>1, <2>2, <2>5, <2>7 DEF Refused
    <3>3. ServeKeys \in Seq(DOMAIN Spelling)
      BY SuggestAssumption
    <3>4. QED  BY <3>1, <3>2, <3>3, SuggestFromIsAdvice DEF SuggestServeKey
  <2>8. QED  BY <2>6, <2>7 DEF match, reply, rule
<1>2. Refusal => SuggestionsAreNearest
  BY <1>1 DEF SuggestionsAreNearest, Required
<1>3. Init => Refusal
  BY DEF Init, NoResponse, Refusal
<1>4. RulesOK /\ Refusal /\ [Next]_vars => Refusal'
  BY RefusalStep
<1>5. QED  BY <1>2, <1>3, <1>4, RulesInit, RulesStep, PTL DEF Spec
=============================================================================
