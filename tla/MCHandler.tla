----------------------------- MODULE MCHandler -----------------------------
(***************************************************************************)
(* Instances of Handler for TLC: documents as clients write them.  Sizes   *)
(* and widths are scaled down: a kb is 10 bytes, a u64 ends at 50000, a    *)
(* Duration at 10 s, a u32 at 8.  A step of chaos is 0.1%, and two of them *)
(* stand for 0.01%.                                                        *)
(***************************************************************************)
EXTENDS Handler, TLC

\* Quantities, in tenths of a unit, and texts of them.
Q(tenths, unit) == [num |-> Decimal(tenths), unit |-> unit, per |-> FALSE]
Odd(num, unit) == [num |-> num, unit |-> unit, per |-> FALSE]
PerSecond(q) == [q EXCEPT !.per = TRUE]
One(q) == Text([is |-> "one", a |-> q])
Between(a, b) == Text([is |-> "between", a |-> a, b |-> b])
PlusMinus(a, p) == Text([is |-> "percent", a |-> a, p |-> p])
ChunkAt(size, interval) == Text([is |-> "chunk", size |-> size.s, interval |-> interval.s])

\* Objects, from the fields they have.
Reply(fields) == Object(fields @@ [s |-> Missing, h |-> Missing, b |-> Missing, crud |-> Missing])
ServeOf(fields) ==
  Object(fields @@ [extra |-> NoWord, pace |-> Missing, drop |-> Missing, hang |-> Missing,
                    firstByte |-> Missing, conn |-> Missing, rps |-> Missing, timeout |-> Missing])
RuleOf(fields) ==
  Object(fields @@ [extra |-> NoWord, match |-> Text(AnyMethod), reply |-> Reply(<<>>),
                    serve |-> Missing, chaos |-> Missing])
Roll(tenths, fields) ==
  Object(fields @@ [p |-> Text([num |-> Decimal(tenths), percent |-> TRUE]),
                    reply |-> Missing, serve |-> Missing])
RollNaN(fields) == Object(fields @@ [p |-> Text([num |-> NaN, percent |-> TRUE]),
                                     reply |-> Missing, serve |-> Missing])
Limit(max, over) == Object([max |-> Number(max), over |-> over])
On(method, path) == [is |-> "pairs", pairs |-> <<[key |-> method, path |-> Text(path)]>>]
Directive(kind, arg) == [is |-> kind, arg |-> arg]
Rand(bytes, seed) == Directive("rand!", Object([size |-> Text(Q(10 * bytes, "b")), seed |-> Number(seed)]))
Pattern(repeat, bytes) ==
  Directive("pattern!", Object([repeat |-> Text(repeat), size |-> Text(Q(10 * bytes, "b"))]))
File(name, relative) == Directive("file!", Text([relative |-> relative, name |-> name]))
ReflectAll == Directive("reflect!", True)

-----------------------------------------------------------------------------
A == <<"/", "a">>
AB == <<"/", "a", "b">>
AslashB == <<"/", "a", "/", "b">>
MCRequests ==
  {[method |-> "GET", path |-> A], [method |-> "GET", path |-> AB],
   [method |-> "POST", path |-> AslashB], [method |-> "GET", path |-> <<"/">>]}

MCShortcuts == [g |-> "GET", p |-> "POST"]
MCFiles == (<<"dir", "f">> :> <<"x", "y", "z">>)
MCErrorReading == <<"error">>

\* Any method on /a, and GETs with a sequence, chaos and a limit.
SequenceRules ==
  List(<<RuleOf([match |-> On("_", A), reply |-> Reply([b |-> ReflectAll, h |-> Object({"ct!"})])]),
         RuleOf([match |-> On("g", A),
                 reply |-> List(<<Reply([b |-> Literal("string", <<"s">>)]),
                                  Reply([b |-> Rand(3, 7)])>>),
                 serve |-> ServeOf([pace |-> Between(Q(10, "s"), Q(20, "s")),
                                    conn |-> Limit(2, Reply([b |-> Rand(9, 7), s |-> Number(503)]))]),
                 chaos |-> List(<<Roll(0, [reply |-> Reply([s |-> Number(500)])]),
                                  Roll(250, [reply |-> Reply([b |-> Pattern(<<"x", "y">>, 5)])]),
                                  Roll(250, [serve |-> ServeOf([drop |-> One(Q(10, "kb"))])])>>)])>>)

\* Every request, from a file beside the configuration, with a limited rate.
FileRule ==
  RuleOf([reply |-> Reply([b |-> File("f", TRUE)]),
          serve |-> ServeOf([rps |-> Limit(1, Reply([s |-> Number(42)]))])])

\* A resource at "ab/", and all of its requests chaos.
CrudRule ==
  RuleOf([match |-> On("_", <<"a", "b", "/">>),
          reply |-> Reply([crud |-> True]),
          chaos |-> List(<<Roll(500, [reply |-> Reply([s |-> Number(500)]),
                                      serve |-> ServeOf([hang |-> One(Q(10, "s"))])])>>)])

MCNoConfig == {List(<<>>)}
\* Connections are alike, and so are addresses.
Symmetry == Permutations(Clients) \cup Permutations(Peers)

MCConfigs == {List(<<>>), FileRule, SequenceRules, True}
MCDocuments == {SequenceRules, FileRule, CrudRule}

-----------------------------------------------------------------------------
(***************************************************************************)
(* Documents that are tried before clients come: rules on a path nobody    *)
(* asks for, and documents that are refused or make the parser panic.      *)
(***************************************************************************)
Unasked == On("p", <<"/", "z">>)
Served(fields) == RuleOf([match |-> Unasked, serve |-> ServeOf(fields)])
Replied(fields) == RuleOf([match |-> Unasked, reply |-> Reply(fields)])
Chaotic(entries_) == RuleOf([match |-> Unasked, chaos |-> List(entries_)])

\* Every form of a quantity, with ranges that just meet and that round.
Shapes == List(<<
  Served([pace |-> One(PerSecond(Q(15, "kb"))), drop |-> PlusMinus(Q(70, "b"), Decimal(250)),
          timeout |-> One(Q(0, "ms"))]),
  Served([pace |-> Between(PerSecond(Q(10, "b")), PerSecond(Q(10, "mb"))),
          hang |-> PlusMinus(Q(15, "s"), Decimal(1000))]),
  Served([pace |-> ChunkAt(PlusMinus(Q(10, "kb"), Decimal(2000)), Between(Q(10, "ms"), Q(10, "ms"))),
          firstByte |-> Object([delay |-> PlusMinus(Q(35, "ms"), Decimal(100))])]),
  Served([drop |-> Object([after |-> Between(Q(5, "b"), Odd(Inf, "gb"))]),
          hang |-> One(Odd(NaN, "b")), firstByte |-> PlusMinus(Q(10, "s"), Decimal(0))]),
  Served([conn |-> Limit(8, Text("block")), rps |-> Limit(0, Reply([h |-> Object({"content-type"})]))]),
  Served([conn |-> Limit(7, [is |-> "blocking", block |-> Between(Q(10, "s"), Q(20, "s")),
                             then |-> Reply([s |-> Number(503)])])]),
  Chaotic(<<Roll(10, [serve |-> ServeOf([drop |-> PlusMinus(Q(70, "b"), Decimal(250)),
                                         pace |-> Between(Q(10, "s"), Q(20, "s"))])])>>)>>)

\* Drops around paces, and chaos that leaves no normal response, or some.
Warned == List(<<
  Served([drop |-> One(Q(10, "s")), pace |-> One(Q(10, "s"))]),
  Served([drop |-> Between(Q(10, "s"), Q(30, "s")), pace |-> Between(Q(5, "s"), Q(20, "s"))]),
  Served([drop |-> Between(Q(30, "s"), Q(40, "s")), pace |-> Between(Q(10, "s"), Q(30, "s"))]),
  Served([drop |-> One(Q(11, "ms")), pace |-> One(Q(19, "ms"))]),
  Served([drop |-> One(Q(19, "ms")), pace |-> One(Q(21, "ms"))]),
  Served([drop |-> One(Q(10, "b")), pace |-> One(Q(10, "s"))]),
  Chaotic(<<Roll(999, [reply |-> Reply(<<>>)]), Roll(1, [reply |-> Reply([s |-> Number(500)])])>>),
  Chaotic(<<Roll(999, [reply |-> Reply(<<>>)])>>), Chaotic(<<Roll(998, [reply |-> Reply(<<>>)])>>),
  Chaotic(<<Roll(500, [reply |-> Reply(<<>>)]), RollNaN([reply |-> Reply(<<>>)]),
            Roll(600, [reply |-> Reply(<<>>)])>>),
  Chaotic(<<Roll(1000, [reply |-> Reply(<<>>)]), RollNaN([reply |-> Reply(<<>>)])>>),
  Chaotic(<<Roll(1000, [serve |-> ServeOf([hang |-> One(Q(10, "b"))])]),
            Roll(0, [reply |-> Reply([b |-> File("f", FALSE)])])>>)>>)

\* Every kind of reply.
Replies == List(<<
  Replied([b |-> Directive("reflect!", List(<<Text("i.b"), Text("i.m")>>)), s |-> Number(999)]),
  Replied([h |-> Object({"ct!", "other"}), s |-> Number(0)]),
  Replied([crud |-> Object([id |-> Object([name |-> Text("key"), new |-> Wrong]),
                            data |-> List(<<Object([key |-> Text("x")]), Wrong>>)]), h |-> Object({"ct!"})]),
  Replied([crud |-> Object([id |-> Missing, data |-> Missing]), h |-> Wrong])>>)

\* A document whose second rule has a store that cannot be made.
LastId == Object([id |-> Number(MaxU64)])
HalfDocument ==
  List(<<RuleOf([match |-> On("g", A)]),
         Replied([crud |-> Object([id |-> Missing, data |-> List(<<LastId>>)])]), FileRule>>)

\* serve: objects with an error, or on which a Duration overflows.
WrongServes ==
  {[pace |-> Between(Q(20, "s"), Q(10, "s"))], [pace |-> One(Q(10, "h"))],
   [pace |-> One(PerSecond(Q(10, "s")))], [pace |-> One(Q(-10, "s"))],
   [pace |-> ChunkAt(One(Q(10, "kb")), One(Q(10, "kb")))],
   [pace |-> One(Odd(Inf, "s"))], [drop |-> One(Odd(NaN, "s"))],
   [drop |-> PlusMinus(Q(10, "s"), Decimal(1001))], [hang |-> PlusMinus(Q(10, "s"), Inf)],
   [hang |-> PlusMinus(Q(10, "s"), Decimal(-10))], [drop |-> Between(Q(20, "kb"), Q(10, "kb"))],
   [hang |-> PlusMinus(Q(100, "s"), Decimal(1))], [firstByte |-> Wrong],
   [firstByte |-> Object([delay |-> Missing])], [timeout |-> One(Odd(NoNumber, "s"))],
   [conn |-> Limit(0, Text("block"))], [conn |-> Limit(1, Text("wait"))],
   [conn |-> Limit(1, [is |-> "blocking", block |-> One(Q(-10, "s")), then |-> Reply(<<>>)])],
   [rps |-> Limit(-1, Reply(<<>>))], [rps |-> Limit(1, Missing)], [rps |-> Wrong],
   [timeout |-> PlusMinus(Odd(Inf, "s"), Decimal(10))]}

WrongReplies ==
  {[s |-> Number(1000)], [s |-> Wrong], [h |-> Wrong], [b |-> Rand(-1, 7)], [b |-> Rand(1, -7)],
   [b |-> Pattern(<<>>, 1)], [b |-> Directive("reflect!", List(<<>>))],
   [b |-> Directive("reflect!", List(<<Text("i.m"), Text("i.x")>>))],
   [b |-> Directive("reflect!", Wrong)], [b |-> Directive("file!", Wrong)],
   [crud |-> Wrong], [crud |-> Object([id |-> Missing, data |-> Wrong])],
   [crud |-> Object([id |-> Wrong, data |-> Missing])]}

WrongChaos ==
  {<<>>, <<Wrong>>, <<Roll(1001, [reply |-> Reply(<<>>)])>>, <<Roll(-1, [reply |-> Reply(<<>>)])>>,
   <<Roll(500, [reply |-> Reply(<<>>)]), Roll(501, [reply |-> Reply(<<>>)])>>,
   <<Roll(500, <<>>)>>, <<Roll(500, [serve |-> ServeOf(<<>>)])>>,
   <<Roll(500, [reply |-> Reply([s |-> Number(-1)])])>>}

WrongMatches ==
  {Missing, Wrong, Text("GET"), [is |-> "pairs", pairs |-> <<>>], On("x", A),
   [is |-> "pairs", pairs |-> <<[key |-> "g", path |-> Wrong]>>]}

\* Words, the longer ones cut short.
MCSpelling ==
  [reply |-> <<"r", "e", "p">>, match |-> <<"m", "a", "t">>,
   resp |-> <<"r", "e", "s">>, rply |-> <<"r", "p">>,
   pace |-> <<"p", "a", "c", "e">>, rps |-> <<"r", "p", "s">>,
   drop |-> <<"d", "r", "o", "p">>, Pace |-> <<"p", "a", "c", "e">>, rate |-> <<"r", "a", "t">>,
   Rate |-> <<"r", "a", "t">>,
   chunk |-> <<"c", "h">>, drops |-> <<"d", "r", "o", "p", "s">>,
   rp |-> <<"r", "p">>, op |-> <<"o", "p">>, eca |-> <<"e", "c", "a">>,
   ace |-> <<"a", "c", "e">>]

MCRuleKeys == <<"match", "reply">>
MCRuleAliases == [resp |-> "reply"]
MCServeKeys == <<"pace", "drop", "rps">>
MCServeAliases == [rate |-> "pace"]
MCServeHints == [chunk |-> "use pace"]

UnknownKeys ==
  {RuleOf([extra |-> w]) : w \in {"resp", "rply", "rp"}}
    \cup {Served([extra |-> w]) : w \in {"rate", "Rate", "chunk", "drops", "Pace", "rp", "op", "eca", "ace"}}
    \cup {RuleOf([match |-> Missing, serve |-> ServeOf([extra |-> "drops"])]),
          List(<<Replied(<<>>), Served([extra |-> "drops"]), RuleOf([extra |-> "resp"])>>)}

MCTrials ==
  {Shapes, Warned, Replies, HalfDocument, List(<<>>), Wrong, List(<<Replied(<<>>), Wrong, FileRule>>),
   RuleOf([reply |-> Missing]), RuleOf([reply |-> List(<<>>)]), RuleOf([serve |-> Wrong]),
   RuleOf([chaos |-> Wrong]), RuleOf([reply |-> List(<<Reply(<<>>), Reply([s |-> Wrong])>>)]),
   List(<<FileRule, RuleOf([reply |-> Wrong]), CrudRule>>)}
    \cup {RuleOf([match |-> On("_", <<"/">>)]), RuleOf([match |-> On("g", <<"/", "a", "/">>)])}
    \cup {Served(s) : s \in WrongServes} \cup {Replied(r) : r \in WrongReplies}
    \cup {Chaotic(l) : l \in WrongChaos} \cup {RuleOf([match |-> m]) : m \in WrongMatches}
    \cup UnknownKeys

\* reflect! where it is not resolved: in a chaos or an overflow reply.
ReflectDocuments ==
  {RuleOf([chaos |-> List(<<Roll(250, [reply |-> Reply([b |-> ReflectAll])])>>)]),
   RuleOf([serve |-> ServeOf([rps |-> Limit(1, Reply([b |-> ReflectAll]))])])}
=============================================================================
