-------------------------------- MODULE Units --------------------------------
(***************************************************************************)
(* Byte sizes, durations, speeds and ranges (src/units.rs), and what every *)
(* parser of the rule language returns.                                    *)
(*                                                                         *)
(* The text of a quantity is a record: a number, its unit and whether it   *)
(* ends in "/s".  A number is a decimal in tenths, or one of the words     *)
(* Rust reads as a float, or no number at all.  Spaces and letter case are *)
(* left out (every parser trims and lowers), and so is the rounding of a   *)
(* float below a tenth of a millisecond or of a byte.                      *)
(***************************************************************************)
EXTENDS Integers, Sequences, FiniteSets

CONSTANTS
  Kilo,        \* bytes in a kb
  MaxU64,      \* what a float that is too large becomes as a u64
  MaxDuration, \* the longest std::time::Duration, in ticks of 0.1 ms
  Draws        \* values a random t in [0, 1) takes: 0/Draws, 1/Draws, ...

ASSUME UnitsAssumption ==
  /\ Kilo \in Nat \ {0}
  /\ MaxU64 \in Nat
  /\ MaxDuration \in Nat
  /\ Draws \in Nat \ {0}

-----------------------------------------------------------------------------
(***************************************************************************)
(* Outcomes: a value, a ParseError (with the key it suggests, if any), or  *)
(* a panic, which ends the handler that parses.                            *)
(***************************************************************************)
None == [is |-> "none"]
Some(v) == [is |-> "some", val |-> v]

Ok(v) == [is |-> "ok", val |-> v]
Refused(advice) == [is |-> "refused", advice |-> advice]
Error == Refused(None)
Panic == [is |-> "panic"]

\* The ? operator: the first outcome that is no value, or the value built
\* from all of them.
All(outcomes, Build(_)) ==
  LET failed == {i \in DOMAIN outcomes : outcomes[i].is # "ok"}
  IN  IF failed = {} THEN Ok(Build([i \in DOMAIN outcomes |-> outcomes[i].val]))
      ELSE outcomes[CHOOSE i \in failed : \A j \in failed : i <= j]

Then(outcome, Build(_)) == All(<<outcome>>, LAMBDA v : Build(v[1]))

Check(condition, outcome) == IF condition THEN outcome ELSE Error

-----------------------------------------------------------------------------
Decimal(tenths) == [is |-> "decimal", tenths |-> tenths]
Inf == [is |-> "inf"]
NaN == [is |-> "nan"]
NoNumber == [is |-> "bad"]

IsNegative(n) == n.is = "decimal" /\ n.tenths < 0

ByteUnits == [b |-> 1, kb |-> Kilo, mb |-> Kilo * Kilo, gb |-> Kilo * Kilo * Kilo]
TimeUnits == [ms |-> 1, s |-> 1000, m |-> 60000]

\* A float as a u64 (floats are in tenths): truncated, and clamped at both
\* ends.
AsU64(tenths) ==
  IF tenths < 0 THEN 0 ELSE IF tenths \div 10 > MaxU64 THEN MaxU64 ELSE tenths \div 10

\* std::time::Duration::from_secs_f64 (external).
FromTicks(ticks) == IF ticks \in 0 .. MaxDuration THEN Ok(ticks) ELSE Panic

\* parse_byte_size: NaN is 0 and infinity the largest size.
ParseByteSize(s) ==
  IF s.per \/ s.unit \notin DOMAIN ByteUnits \/ s.num = NoNumber \/ IsNegative(s.num)
  THEN Error
  ELSE Ok(CASE s.num = NaN -> 0
            [] s.num = Inf -> MaxU64
            [] OTHER -> AsU64(s.num.tenths * ByteUnits[s.unit]))

\* parse_duration: NaN and infinity reach from_secs_f64.  A tenth of the
\* unit ms is a tick.
ParseDuration(s) ==
  IF s.per \/ s.unit \notin DOMAIN TimeUnits \/ s.num = NoNumber \/ IsNegative(s.num)
  THEN Error
  ELSE IF s.num \in {NaN, Inf} THEN Panic
       ELSE FromTicks(s.num.tenths * TimeUnits[s.unit])

\* parse_speed: a byte size followed by "/s".
ParseSpeed(s) == Check(s.per, ParseByteSize([s EXCEPT !.per = FALSE]))

-----------------------------------------------------------------------------
(***************************************************************************)
(* Ranges.  The text is one quantity, "a..b" or "a..p%".                   *)
(***************************************************************************)
Fixed(v) == [is |-> "fixed", lo |-> v, hi |-> v]
MinMax(lo, hi) == [is |-> "minmax", lo |-> lo, hi |-> hi]

\* Scalable::scale by 1 + p (p in thousandths, negative for 1 - p): a size is
\* clamped, a duration below zero panics.
ScaleSize(v, p) ==
  Ok(CASE p.is = "decimal" -> AsU64((v * (1000 + p.tenths)) \div 100)
       [] p = Inf /\ v > 0 -> MaxU64
       [] OTHER -> 0)

ScaleDuration(v, p) ==
  IF p.is # "decimal" THEN Panic ELSE FromTicks((v * (1000 + p.tenths)) \div 1000)

Minus(p) == CASE p.is = "decimal" -> Decimal(0 - p.tenths)
              [] p = Inf -> [is |-> "-inf"]
              [] OTHER -> p

ParsePercentRange(base, p, Scale(_, _)) ==
  IF p = NoNumber \/ IsNegative(p) THEN Error
  ELSE IF p = Decimal(0) THEN Ok(Fixed(base))
  ELSE All(<<Scale(base, Minus(p)), Scale(base, p)>>, LAMBDA v : MinMax(v[1], v[2]))

MutantParseMinMax(lo, hi) == Ok(IF lo = hi THEN Fixed(lo) ELSE MinMax(lo, hi))

ParseMinMax(lo, hi) ==
  Check(lo <= hi, Ok(IF lo = hi THEN Fixed(lo) ELSE MinMax(lo, hi)))

\* parse_range_str, for a parser of quantities and the type's scale.
ParseRange(t, Parse(_), Scale(_, _)) ==
  LET a == Parse(t.a)
      b == IF t.is = "between" THEN Parse(t.b) ELSE a
  IN  IF a.is # "ok" THEN a
      ELSE IF b.is # "ok" THEN b
      ELSE CASE t.is = "one" -> Ok(Fixed(a.val))
             [] t.is = "between" -> ParseMinMax(a.val, b.val)
             [] t.is = "percent" -> ParsePercentRange(a.val, t.p, Scale)

ParseByteSizeRange(t) == ParseRange(t, ParseByteSize, ScaleSize)
ParseDurationRange(t) == ParseRange(t, ParseDuration, ScaleDuration)
ParseSpeedRange(t) == ParseRange(t, ParseSpeed, ScaleSize)

\* Range::sample: lerp at t = k / Draws.
Sample(r, k) == r.lo + (((r.hi - r.lo) * k) \div Draws)

\* Duration::as_millis.
AsMillis(ticks) == ticks \div 10
=============================================================================
