-------------------------------- MODULE Suggest --------------------------------
(***************************************************************************)
(* What an error says about an unknown key (src/suggest.rs).  A word is a  *)
(* model value or string, spelled by Spelling in lower case: words that    *)
(* differ in case only are spelled alike.  The tables of the source are    *)
(* constants; suggest_reply_key and its tables are not used by the server. *)
(***************************************************************************)
EXTENDS Units, FiniteSetsExt

CONSTANTS
  Spelling,      \* each word's letters
  RuleKeys,      \* the keys of a rule, in the order of the table
  RuleAliases,   \* other names for them: word -> key
  ServeKeys,     \* the same for serve:
  ServeAliases,
  ServeHints     \* words that get a hint instead: word -> hint

ASSUME SuggestAssumption ==
  /\ \A w \in DOMAIN Spelling : Spelling[w] \in Seq(STRING)
  /\ RuleKeys \in Seq(DOMAIN Spelling) /\ ServeKeys \in Seq(DOMAIN Spelling)

MutantEditDistance(a, b) ==
  Max({Len(a), Len(b)}) - Cardinality({i \in DOMAIN a \cap DOMAIN b : a[i] = b[i]})

\* edit_distance: dp[i][j] is the distance of the first i letters of a from
\* the first j of b.  A row of the table follows from the one above.
Row(a, b, i, above) ==
  LET row[j \in 0 .. Len(b)] ==
        IF i = 0 THEN j
        ELSE IF j = 0 THEN i
        ELSE Min({above[j] + 1, row[j - 1] + 1,
                  above[j - 1] + (IF a[i] = b[j] THEN 0 ELSE 1)})
  IN  row

EditDistance(a, b) ==
  LET dp[i \in 0 .. Len(a)] == Row(a, b, i, dp[i - 1])
  IN  dp[Len(a)][Len(b)]

UseKey(key) == [is |-> "useKey", key |-> key]
Hint(hint) == [is |-> "hint", hint |-> hint]

\* The rows of a table whose word is the given one, once in lower case.
Rows(word, table) == {w \in DOMAIN table : Spelling[w] = Spelling[word]}

\* suggest_from: an alias, a hint, or the first of the nearest keys within
\* two edits; a key that differs in case only is at distance 0 and skipped.
SuggestFrom(word, aliases, hints, keys) ==
  LET Distance(i) == EditDistance(Spelling[word], Spelling[keys[i]])
      close == {i \in DOMAIN keys : Distance(i) \in 1 .. 2}
      nearest == {i \in close : \A j \in close : Distance(i) <= Distance(j)}
  IN  IF Rows(word, aliases) # {} THEN UseKey(aliases[CHOOSE w \in Rows(word, aliases) : TRUE])
      ELSE IF Rows(word, hints) # {} THEN Hint(hints[CHOOSE w \in Rows(word, hints) : TRUE])
      ELSE IF close # {} THEN UseKey(keys[Min(nearest)])
      ELSE None

SuggestRuleKey(word) == SuggestFrom(word, RuleAliases, <<>>, RuleKeys)
SuggestServeKey(word) == SuggestFrom(word, ServeAliases, ServeHints, ServeKeys)
=============================================================================
