------------------------------- MODULE Matching -------------------------------
(***************************************************************************)
(* Which requests a rule matches (src/match_rule.rs).  A path is a         *)
(* sequence of characters, of which only "/" means anything.               *)
(***************************************************************************)
EXTENDS Units

CONSTANTS
  Shortcuts,  \* yttp::resolve_method (external): method keys -> methods
  AnyMethod   \* the key "_", and the string "_" on its own

ASSUME MatchingAssumption == AnyMethod \notin DOMAIN Shortcuts

CatchAll == [is |-> "catchAll"]
MethodPath(method, path) == [is |-> "methodPath", method |-> method, path |-> path]

\* A path a rule is written with gets its leading "/".
Rooted(path) == IF path # <<>> /\ path[1] = "/" THEN path ELSE <<"/">> \o path

\* parse_match_rule: "_", or an object with one pair of a method and a path.
ParseMatchRule(v) ==
  CASE v.is = "text" -> Check(v.s = AnyMethod, Ok(CatchAll))
    [] v.is = "pairs" /\ Len(v.pairs) = 1 ->
         LET key == v.pairs[1].key
             path == v.pairs[1].path
         IN  IF path.is # "text" THEN Error
             ELSE IF key = AnyMethod THEN Ok(MethodPath(None, Rooted(path.s)))
             ELSE Check(key \in DOMAIN Shortcuts,
                        Ok(MethodPath(Some(Shortcuts[key]), Rooted(path.s))))
    [] OTHER -> Error

\* normalize_path: one "/" at the end goes, that of the root too.
NormalizePath(path) ==
  IF path # <<>> /\ path[Len(path)] = "/" THEN SubSeq(path, 1, Len(path) - 1) ELSE path

MutantUnder(path, base) ==
  Len(base) <= Len(path) /\ SubSeq(path, 1, Len(base)) = base

\* starts_with, with a "/" as the next byte.
Under(path, base) ==
  /\ Len(base) < Len(path)
  /\ SubSeq(path, 1, Len(base)) = base
  /\ path[Len(base) + 1] = "/"

\* MatchRule::matches (methods are compared in one case).
Matches(rule, method, path) ==
  \/ rule.is = "catchAll"
  \/ /\ rule.method \in {None, Some(method)}
     /\ LET asked == NormalizePath(path)
            own == NormalizePath(rule.path)
        IN  asked = own \/ Under(asked, own)
=============================================================================
