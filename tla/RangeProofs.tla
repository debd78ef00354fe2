----------------------------- MODULE RangeProofs -----------------------------
(***************************************************************************)
(* What the quantities of an accepted rule are: every draw of a range is   *)
(* one its text allows, the chaos entries share the rolls by their         *)
(* percentages, the warnings say so, and a body is the same read in        *)
(* chunks.  For all texts, widths, bodies and numbers of entries.          *)
(***************************************************************************)
EXTENDS RulesProofs

-----------------------------------------------------------------------------
(***************************************************************************)
(* Quantities and ranges                                                   *)
(***************************************************************************)

\* A draw lies between the ends of its range, and reaches both.
LEMMA SampleBetween ==
  ASSUME NEW r, r.lo \in Nat, r.hi \in Nat, r.lo <= r.hi
  PROVE  /\ \A k \in 0 .. Draws :
              Sample(r, k) \in Nat /\ r.lo <= Sample(r, k) /\ Sample(r, k) <= r.hi
         /\ Sample(r, 0) = r.lo /\ Sample(r, Draws) = r.hi
<1> DEFINE d == r.hi - r.lo
<1>1. d \in Nat /\ Draws \in Nat \ {0} /\ r.hi = r.lo + d
  BY UnitsAssumption
<1>2. \A k : Sample(r, k) = r.lo + ((d * k) \div Draws)
  BY DEF Sample
<1> HIDE DEF d
<1>3. ASSUME NEW k \in 0 .. Draws
      PROVE  (d * k) \div Draws \in Nat /\ (d * k) \div Draws <= d
  <2>1. k \in Nat /\ k <= Draws /\ d * k \in Nat /\ d * Draws \in Nat /\ d * k <= d * Draws
    BY <1>1, TimesFacts
  <2>2. (d * k) \div Draws \in Nat /\ (d * k) \div Draws <= (d * Draws) \div Draws
    BY <1>1, <2>1, DivFacts
  <2>3. (d * Draws) \div Draws = d
    BY <1>1, DivFacts
  <2>4. QED  BY <2>2, <2>3
<1>4. (d * 0) \div Draws = 0 /\ (d * Draws) \div Draws = d
  <2>1. d * 0 = 0 * Draws /\ (0 * Draws) \div Draws = 0 /\ (d * Draws) \div Draws = d
    BY <1>1, DivFacts
  <2>2. QED  BY <2>1
<1>5. QED  BY <1>1, <1>2, <1>3, <1>4

\* A unit of sizes is a whole number of bytes, and no unit of time.
LEMMA ByteUnitNat ==
  ASSUME NEW u \in DOMAIN ByteUnits
  PROVE  ByteUnits[u] \in Nat /\ u \notin DOMAIN TimeUnits
<1>1. Kilo * Kilo \in Nat /\ Kilo * Kilo * Kilo \in Nat /\ Kilo \in Nat
  BY UnitsAssumption, TimesFacts
<1>2. QED  BY <1>1 DEF ByteUnits, TimeUnits

\* A float is clamped to 64 bits.
LEMMA U64 ==
  ASSUME NEW x \in Int
  PROVE  AsU64(x) \in 0 .. MaxU64
  BY UnitsAssumption, DivFacts DEF AsU64

\* A size, a speed and a duration that are accepted fit their type and are
\* what is written.
LEMMA SizeParsed ==
  ASSUME NEW s, IsQuantity(s), ParseByteSize(s).is = "ok"
  PROVE  ~s.per /\ ParseByteSize(s).val \in 0 .. MaxU64 /\ ParseByteSize(s).val = Written(s)
<1> DEFINE v == CASE s.num = NaN -> 0
                  [] s.num = Inf -> MaxU64
                  [] OTHER -> AsU64(s.num.tenths * ByteUnits[s.unit])
<1>1. /\ ~s.per /\ s.unit \in DOMAIN ByteUnits /\ s.num # NoNumber /\ ~IsNegative(s.num)
      /\ ParseByteSize(s) = Ok(v)
  BY DEF ParseByteSize, Error, Refused
<1>2. v \in 0 .. MaxU64
  <2>1. CASE s.num = NaN \/ s.num = Inf
    BY <2>1, UnitsAssumption DEF NaN, Inf
  <2>2. CASE s.num # NaN /\ s.num # Inf
    <3>1. s.num.tenths \in Int
      BY <1>1, <2>2 DEF IsQuantity, IsNumber
    <3>2. s.num.tenths * ByteUnits[s.unit] \in Int
      BY <1>1, <3>1, ByteUnitNat
    <3>3. v = AsU64(s.num.tenths * ByteUnits[s.unit])
      BY <2>2
    <3>4. QED  BY <3>2, <3>3, U64
  <2>3. QED  BY <2>1, <2>2
<1>3. s.unit \notin DOMAIN TimeUnits
  BY <1>1, ByteUnitNat
<1>4. [s EXCEPT !.per = FALSE] = s
  BY <1>1 DEF IsQuantity
<1>5. Written(s) = ParseByteSize(s).val
  BY <1>3, <1>4 DEF Written
<1>6. ParseByteSize(s).val = v
  BY <1>1 DEF Ok
<1>7. QED  BY <1>1, <1>2, <1>5, <1>6

\* A speed is a size with "/s".
LEMMA SpeedParsed ==
  ASSUME NEW s, IsQuantity(s), ParseSpeed(s).is = "ok"
  PROVE  s.per /\ ParseSpeed(s).val \in 0 .. MaxU64 /\ ParseSpeed(s).val = Written(s)
<1> DEFINE size == [s EXCEPT !.per = FALSE]
<1>1. s.per /\ ParseSpeed(s) = ParseByteSize(size)
  BY DEF ParseSpeed, Check, Error, Refused
<1>2. IsQuantity(size) /\ size.unit = s.unit
  BY DEF IsQuantity
<1> HIDE DEF size
<1>3. ParseByteSize(size).val \in 0 .. MaxU64
  BY <1>1, <1>2, SizeParsed
<1>4. s.unit \notin DOMAIN TimeUnits
  <2>1. size.unit \in DOMAIN ByteUnits
    BY <1>1 DEF ParseByteSize, Error, Refused
  <2>2. QED  BY <1>2, <2>1, ByteUnitNat
<1>5. Written(s) = ParseByteSize(size).val
  BY <1>4 DEF Written, size
<1>6. QED  BY <1>1, <1>3, <1>5

\* A duration is within what Duration holds, or the parser panics.
LEMMA DurationParsed ==
  ASSUME NEW s, ParseDuration(s).is = "ok"
  PROVE  ParseDuration(s).val \in 0 .. MaxDuration /\ ParseDuration(s).val = Written(s)
<1> DEFINE ticks == s.num.tenths * TimeUnits[s.unit]
<1>1. s.unit \in DOMAIN TimeUnits /\ ParseDuration(s) = FromTicks(ticks)
  BY DEF ParseDuration, Error, Refused, Panic
<1> HIDE DEF ticks
<1>2. FromTicks(ticks).val \in 0 .. MaxDuration
  BY <1>1 DEF FromTicks, Ok, Panic
<1>3. QED  BY <1>1, <1>2 DEF Written

\* Every draw of a range is one the text it is parsed from allows.
Drawn(t, r) ==
  /\ r.lo \in Nat /\ r.hi \in Nat /\ r.lo <= r.hi
  /\ \A k \in 0 .. Draws : Allows(t, Sample(r, k))

\* One quantity, or one with 0%, is drawn as it is.
LEMMA FixedDrawn ==
  ASSUME NEW t, NEW v \in Nat, v = Written(t.a), t.is = "one" \/ (t.is = "percent" /\ t.p = Decimal(0))
  PROVE  Drawn(t, Fixed(v))
<1> DEFINE r == Fixed(v)
<1>1. r.lo = v /\ r.hi = v
  BY DEF Fixed
<1> HIDE DEF r
<1>2. ASSUME NEW k \in 0 .. Draws PROVE Allows(t, Sample(r, k))
  <2>1. Sample(r, k) = v
    BY <1>1, SampleBetween
  <2>2. CASE t.is = "one"
    BY <2>1, <2>2 DEF Allows
  <2>3. CASE t.is = "percent"
    <3>1. t.p.tenths = 0 /\ 0 * v = 0 /\ v - v = 0
      BY <2>3 DEF Decimal
    <3>2. QED  BY <2>1, <2>3, <3>1 DEF Allows
  <2>4. QED  BY <2>2, <2>3
<1>3. QED  BY <1>1, <1>2 DEF Drawn, r

\* "a..b" draws between the two: b is not below a.
LEMMA BetweenDrawn ==
  ASSUME NEW t, NEW lo \in Nat, NEW hi \in Nat, t.is = "between",
         lo = Written(t.a), hi = Written(t.b), ParseMinMax(lo, hi).is = "ok"
  PROVE  Drawn(t, ParseMinMax(lo, hi).val)
<1> DEFINE r == ParseMinMax(lo, hi).val
<1>1. lo <= hi /\ r.lo = lo /\ r.hi = hi
  BY DEF ParseMinMax, Check, Error, Refused, Ok, Fixed, MinMax
<1> HIDE DEF r
<1>2. ASSUME NEW k \in 0 .. Draws PROVE Allows(t, Sample(r, k))
  <2>1. lo <= Sample(r, k) /\ Sample(r, k) <= hi
    BY <1>1, SampleBetween
  <2>2. QED  BY <2>1 DEF Allows
<1>3. QED  BY <1>1, <1>2 DEF Drawn, r

\* "a..p%" draws no further off than its ends are.
LEMMA PercentDrawn ==
  ASSUME NEW t, NEW v \in Nat, v = Written(t.a), t.is = "percent", t.p.is = "decimal", t.p.tenths \in Nat,
         NEW lo \in Nat, NEW hi \in Nat, lo <= v, v <= hi,
         1000 * (v - lo) <= t.p.tenths * v + 1000, 1000 * (hi - v) <= t.p.tenths * v + 1000
  PROVE  Drawn(t, MinMax(lo, hi))
<1> DEFINE r == MinMax(lo, hi)
           off(k) == Sample(r, k) - v
           w == t.p.tenths * v
<1>1. lo <= hi /\ r.lo = lo /\ r.hi = hi /\ w \in Nat
  BY TimesFacts DEF MinMax
<1> HIDE DEF r
<1>2. ASSUME NEW k \in 0 .. Draws PROVE Allows(t, Sample(r, k))
  <2> DEFINE n == Sample(r, k)
  <2>1. n \in Nat /\ lo <= n /\ n <= hi
    BY <1>1, SampleBetween
  <2> HIDE DEF n, w
  <2>2. 1000 * (IF n - v < 0 THEN 0 - (n - v) ELSE n - v) <= w + 1000
    BY <1>1, <2>1 DEF w
  <2>3. QED  BY <2>2 DEF Allows, n, w
<1>3. QED  BY <1>1, <1>2 DEF Drawn, r

\* Ends that are no further off than a percentage, in tenths.
EndsWithin(v, p, lo, hi) ==
  /\ lo \in Nat /\ hi \in Nat /\ lo <= v /\ v <= hi
  /\ 1000 * (v - lo) <= p * v + 1000 /\ 1000 * (hi - v) <= p * v + 1000

\* The ends of a size that is scaled by a percentage, clamped at 0 and at 64
\* bits.
LEMMA SizesScaled ==
  ASSUME NEW v \in 0 .. MaxU64, NEW p \in Nat, NEW lo, NEW hi,
         lo = AsU64((v * (1000 + (0 - p))) \div 100), hi = AsU64((v * (1000 + p)) \div 100)
  PROVE  EndsWithin(v, p, lo, hi)
<1> DEFINE w == p * v
<1>1. w \in Nat /\ v * (1000 + (0 - p)) = 1000 * v - w /\ v * (1000 + p) = 1000 * v + w
  BY UnitsAssumption, TimesFacts
<1> HIDE DEF w
<1>2. \A x \in Int : x < 0 => x \div 100 < 0
  OBVIOUS
<1>3. \A x \in Nat : x \div 100 \in Nat /\ (x \div 100) \div 10 = x \div 1000
  OBVIOUS
<1>4. \A x \in Nat : 1000 * (x \div 1000) <= x /\ x < 1000 * (x \div 1000) + 1000
  OBVIOUS
<1> DEFINE low == AsU64((1000 * v - w) \div 100)
           high == AsU64((1000 * v + w) \div 100)
<1>5. low \in Nat /\ low <= v /\ 1000 * (v - low) <= w + 1000
  <2>1. CASE 1000 * v - w < 0
    <3>1. (1000 * v - w) \div 100 < 0
      BY <1>1, <1>2, <2>1, UnitsAssumption
    <3>2. QED  BY <3>1, <2>1, <1>1, UnitsAssumption DEF AsU64
  <2>2. CASE 1000 * v - w >= 0
    <3> DEFINE x == 1000 * v - w
    <3>1. x \in Nat
      BY <1>1, <2>2, UnitsAssumption
    <3>2. x \div 1000 \in Nat /\ x \div 1000 <= v
      BY <3>1, <1>1, UnitsAssumption
    <3>3. AsU64(x \div 100) = x \div 1000
      <4> HIDE DEF x
      <4>1. QED  BY <1>3, <3>1, <3>2, UnitsAssumption DEF AsU64
    <3>4. QED  BY <1>1, <1>4, <3>1, <3>2, <3>3, UnitsAssumption
  <2>3. QED  BY <2>1, <2>2, <1>1, UnitsAssumption
<1>6. high \in Nat /\ v <= high /\ 1000 * (high - v) <= w + 1000
  <2> DEFINE x == 1000 * v + w
             q == x \div 1000
  <2>1. x \in Nat /\ q \in Nat /\ v <= q /\ 1000 * q <= x
    BY <1>1, UnitsAssumption
  <2>2. AsU64(x \div 100) = IF q > MaxU64 THEN MaxU64 ELSE q
    <3> HIDE DEF x
    <3>1. QED  BY <1>3, <2>1, UnitsAssumption DEF AsU64
  <2>3. QED  BY <1>1, <2>1, <2>2, UnitsAssumption
<1>7. lo = low /\ hi = high
  BY <1>1
<1> HIDE DEF low, high
<1>8. QED  BY <1>5, <1>6, <1>7 DEF w, EndsWithin

\* The ends of a duration that is scaled.
LEMMA DurationsScaled ==
  ASSUME NEW v \in 0 .. MaxDuration, NEW p \in Nat,
         NEW lo \in Nat, NEW hi \in Nat,
         lo = (v * (1000 + (0 - p))) \div 1000, hi = (v * (1000 + p)) \div 1000
  PROVE  /\ lo <= v /\ v <= hi
         /\ 1000 * (v - lo) <= p * v + 1000 /\ 1000 * (hi - v) <= p * v + 1000
<1> DEFINE w == p * v
<1>1. w \in Nat /\ v * (1000 + (0 - p)) = 1000 * v - w /\ v * (1000 + p) = 1000 * v + w
  BY UnitsAssumption, TimesFacts
<1> HIDE DEF w
<1>2. lo = (1000 * v - w) \div 1000 /\ hi = (1000 * v + w) \div 1000
  BY <1>1
<1>3. lo <= v /\ v <= hi /\ 1000 * (v - lo) <= w + 1000 /\ 1000 * (hi - v) <= w + 1000
  BY <1>1, <1>2, UnitsAssumption
<1>4. QED  BY <1>3 DEF w

\* The percentage down.
LEMMA MinusDecimal ==
  ASSUME NEW p, p.is = "decimal"
  PROVE  Minus(p).is = "decimal" /\ Minus(p).tenths = 0 - p.tenths
<1>1. p # Inf
  BY DEF Inf
<1>2. Minus(p) = Decimal(0 - p.tenths)
  BY <1>1 DEF Minus
<1>3. QED  BY <1>2 DEF Decimal

\* What scale does with a number,
LEMMA ScaledBy ==
  ASSUME NEW p, p.is = "decimal", NEW v
  PROVE  /\ ScaleSize(v, p) = Ok(AsU64((v * (1000 + p.tenths)) \div 100))
         /\ ScaleDuration(v, p) = FromTicks((v * (1000 + p.tenths)) \div 1000)
<1>1. p # Inf
  BY DEF Inf
<1>2. ScaleSize(v, p) = Ok(AsU64((v * (1000 + p.tenths)) \div 100))
  BY <1>1 DEF ScaleSize
<1>3. ScaleDuration(v, p) = FromTicks((v * (1000 + p.tenths)) \div 1000)
  BY DEF ScaleDuration
<1>4. QED  BY <1>2, <1>3

\* and with infinity and NaN: sizes become 0 or the largest.
LEMMA ScaledByNone ==
  ASSUME NEW p, p.is # "decimal", NEW v \in Nat
  PROVE  /\ ScaleSize(v, p) \in {Ok(0), Ok(MaxU64)}
         /\ p \in {Inf, NaN} => ScaleSize(v, Minus(p)) = Ok(0)
<1>1. ScaleSize(v, p) \in {Ok(0), Ok(MaxU64)}
  <2>1. CASE p = Inf /\ v > 0
    BY <2>1 DEF ScaleSize
  <2>2. CASE ~(p = Inf /\ v > 0)
    BY <2>2 DEF ScaleSize
  <2>3. QED  BY <2>1, <2>2
<1>2. ASSUME p \in {Inf, NaN} PROVE ScaleSize(v, Minus(p)) = Ok(0)
  <2>1. Minus(p) # Inf /\ Minus(p).is # "decimal"
    BY <1>2 DEF Minus, Inf, NaN
  <2>2. QED  BY <2>1 DEF ScaleSize
<1>3. QED  BY <1>1, <1>2

\* A size or a speed with a percentage draws what its text allows.
LEMMA PercentSizeDrawn ==
  ASSUME NEW t, t.is = "percent", IsNumber(t.p), NEW v \in 0 .. MaxU64, v = Written(t.a),
         ParsePercentRange(v, t.p, ScaleSize).is = "ok"
  PROVE  Drawn(t, ParsePercentRange(v, t.p, ScaleSize).val)
<1> DEFINE p == t.p
           range == ParsePercentRange(v, p, ScaleSize)
           lo == ScaleSize(v, Minus(p))
           hi == ScaleSize(v, p)
           outcomes == <<lo, hi>>
           val == MinMax(lo.val, hi.val)
<1>1. v \in Nat /\ MaxU64 \in Nat
  BY UnitsAssumption
<1>2. p # NoNumber /\ ~IsNegative(p)
  BY DEF ParsePercentRange, Error, Refused
<1>3. CASE p = Decimal(0)
  <2>1. range = Ok(Fixed(v))
    BY <1>2, <1>3 DEF ParsePercentRange
  <2>2. Drawn(t, Fixed(v))
    BY <1>1, <1>3, FixedDrawn
  <2>3. QED  BY <2>1, <2>2 DEF Ok
<1>4. CASE p # Decimal(0)
  <2>1. range = Outcome(outcomes, val)
    <3> DEFINE vals == [i \in DOMAIN outcomes |-> outcomes[i].val]
    <3>1. range = Outcome(outcomes, MinMax(vals[1], vals[2]))
      BY <1>2, <1>4 DEF ParsePercentRange, All, Outcome
    <3> HIDE DEF lo, hi
    <3>2. vals[1] = lo.val /\ vals[2] = hi.val
      OBVIOUS
    <3>3. QED  BY <3>1, <3>2
  <2>2. range.val = val
    <3>1. DOMAIN outcomes \in SUBSET Nat
      OBVIOUS
    <3> HIDE DEF outcomes, val
    <3>2. QED  BY <2>1, <3>1, AllOk
  <2>3. CASE p.is = "decimal"
    <3>1. p.tenths \in Nat
      BY <1>2, <2>3 DEF IsNumber, IsNegative, Inf, NaN, NoNumber
    <3>2. /\ lo.val = AsU64((v * (1000 + (0 - p.tenths))) \div 100)
          /\ hi.val = AsU64((v * (1000 + p.tenths)) \div 100)
      <4>1. ScaleSize(v, p) = Ok(AsU64((v * (1000 + p.tenths)) \div 100))
        BY <2>3, ScaledBy
      <4>2. ScaleSize(v, Minus(p)) = Ok(AsU64((v * (1000 + (0 - p.tenths))) \div 100))
        BY <2>3, MinusDecimal, ScaledBy
      <4>3. QED  BY <4>1, <4>2 DEF Ok
    <3> HIDE DEF lo, hi
    <3>3. /\ lo.val \in Nat /\ hi.val \in Nat /\ lo.val <= v /\ v <= hi.val
          /\ 1000 * (v - lo.val) <= p.tenths * v + 1000 /\ 1000 * (hi.val - v) <= p.tenths * v + 1000
      <4> DEFINE n == p.tenths
                 l == lo.val
                 h == hi.val
      <4>1. n \in Nat /\ l = AsU64((v * (1000 + (0 - n))) \div 100)
            /\ h = AsU64((v * (1000 + n)) \div 100)
        BY <3>1, <3>2
      <4> HIDE DEF n, l, h
      <4>2. EndsWithin(v, n, l, h)
        BY <4>1, SizesScaled, SMTT(30)
      <4>3. EndsWithin(v, p.tenths, lo.val, hi.val)
        BY <4>2 DEF n, l, h
      <4>4. QED  BY <4>3 DEF EndsWithin
    <3>4. Drawn(t, val)
      BY <1>1, <2>3, <3>1, <3>3, PercentDrawn
    <3>5. QED  BY <2>2, <3>4
  <2>4. CASE p.is # "decimal"
    <3>1. lo.val \in Nat /\ hi.val \in Nat /\ lo.val <= hi.val
      <4>1. p = Inf \/ p = NaN
        BY <1>2, <2>4 DEF IsNumber
      <4>2. lo = Ok(0) /\ (hi = Ok(0) \/ hi = Ok(MaxU64))
        BY <1>1, <2>4, <4>1, ScaledByNone
      <4>3. lo.val = 0 /\ (hi.val = 0 \/ hi.val = MaxU64)
        BY <4>2 DEF Ok
      <4>4. QED  BY <1>1, <4>3
    <3>2. val.lo = lo.val /\ val.hi = hi.val
      BY DEF MinMax
    <3>3. \A n : Allows(t, n)
      BY <2>4 DEF Allows
    <3> HIDE DEF lo, hi, val
    <3>4. Drawn(t, val)
      BY <3>1, <3>2, <3>3 DEF Drawn
    <3>5. QED  BY <2>2, <3>4
  <2>5. QED  BY <2>3, <2>4
<1>5. QED  BY <1>3, <1>4

\* So does a duration with one, unless the parser panics.
LEMMA PercentDurationDrawn ==
  ASSUME NEW t, t.is = "percent", IsNumber(t.p), NEW v \in 0 .. MaxDuration, v = Written(t.a),
         ParsePercentRange(v, t.p, ScaleDuration).is = "ok"
  PROVE  Drawn(t, ParsePercentRange(v, t.p, ScaleDuration).val)
<1> DEFINE p == t.p
           range == ParsePercentRange(v, p, ScaleDuration)
           lo == ScaleDuration(v, Minus(p))
           hi == ScaleDuration(v, p)
           outcomes == <<lo, hi>>
           val == MinMax(lo.val, hi.val)
<1>1. v \in Nat
  BY UnitsAssumption
<1>2. p # NoNumber /\ ~IsNegative(p)
  BY DEF ParsePercentRange, Error, Refused
<1>3. CASE p = Decimal(0)
  <2>1. range = Ok(Fixed(v))
    BY <1>2, <1>3 DEF ParsePercentRange
  <2>2. Drawn(t, Fixed(v))
    BY <1>1, <1>3, FixedDrawn
  <2>3. QED  BY <2>1, <2>2 DEF Ok
<1>4. CASE p # Decimal(0)
  <2>1. range = Outcome(outcomes, val)
    <3> DEFINE vals == [i \in DOMAIN outcomes |-> outcomes[i].val]
    <3>1. range = Outcome(outcomes, MinMax(vals[1], vals[2]))
      BY <1>2, <1>4 DEF ParsePercentRange, All, Outcome
    <3> HIDE DEF lo, hi
    <3>2. vals[1] = lo.val /\ vals[2] = hi.val
      OBVIOUS
    <3>3. QED  BY <3>1, <3>2
  <2>2. range.val = val /\ lo.is = "ok" /\ hi.is = "ok"
    <3>1. DOMAIN outcomes \in SUBSET Nat /\ {1, 2} \subseteq DOMAIN outcomes
      OBVIOUS
    <3>2. range.val = val /\ \A i \in {1, 2} : outcomes[i].is = "ok"
      <4> HIDE DEF outcomes, val
      <4>1. QED  BY <2>1, <3>1, AllOk
    <3> HIDE DEF lo, hi
    <3>3. QED  BY <3>2
  <2>3. p.is = "decimal"
    <3> HIDE DEF lo, p
    <3>1. QED  BY <2>2 DEF ScaleDuration, Panic
  <2>4. p.tenths \in Nat
    BY <1>2, <2>3 DEF IsNumber, IsNegative, Inf, NaN, NoNumber
  <2>5. /\ lo = FromTicks((v * (1000 + (0 - p.tenths))) \div 1000)
        /\ hi = FromTicks((v * (1000 + p.tenths)) \div 1000)
    <3>1. Minus(p).is = "decimal" /\ Minus(p).tenths = 0 - p.tenths
      BY <2>3, MinusDecimal
    <3>2. QED  BY <2>3, <3>1, ScaledBy
  <2>6. \A x : FromTicks(x).is = "ok" => x \in Nat /\ FromTicks(x).val = x
    BY DEF FromTicks, Ok, Panic
  <2> HIDE DEF lo, hi
  <2>7. /\ lo.val \in Nat /\ lo.val = (v * (1000 + (0 - p.tenths))) \div 1000
        /\ hi.val \in Nat /\ hi.val = (v * (1000 + p.tenths)) \div 1000
    BY <2>2, <2>5, <2>6
  <2>8. /\ lo.val <= v /\ v <= hi.val
        /\ 1000 * (v - lo.val) <= p.tenths * v + 1000 /\ 1000 * (hi.val - v) <= p.tenths * v + 1000
    BY <2>4, <2>7, DurationsScaled
  <2>9. Drawn(t, val)
    BY <1>1, <2>3, <2>4, <2>7, <2>8, PercentDrawn
  <2>10. QED  BY <2>2, <2>9
<1>5. QED  BY <1>3, <1>4

\* A range is accepted if its parts are.
LEMMA RangeParsed ==
  ASSUME NEW t, t.is \in {"one", "between", "percent"}, NEW a, NEW b, NEW scaled,
         a.is = "ok" => a.val \in Nat /\ a.val = Written(t.a),
         t.is = "between" /\ b.is = "ok" => b.val \in Nat /\ b.val = Written(t.b),
         t.is = "percent" /\ a.is = "ok" /\ scaled.is = "ok" => Drawn(t, scaled.val),
         NEW range,
         range = IF a.is # "ok" THEN a
                 ELSE IF b.is # "ok" THEN b
                 ELSE CASE t.is = "one" -> Ok(Fixed(a.val))
                        [] t.is = "between" -> ParseMinMax(a.val, b.val)
                        [] t.is = "percent" -> scaled,
         range.is = "ok"
  PROVE  Drawn(t, range.val)
<1>1. a.is = "ok" /\ b.is = "ok"
  OBVIOUS
<1>2. CASE t.is = "one"
  <2>1. range.val = Fixed(a.val)
    BY <1>1, <1>2 DEF Ok
  <2>2. QED  BY <1>1, <1>2, <2>1, FixedDrawn
<1>3. CASE t.is = "between"
  <2>1. range = ParseMinMax(a.val, b.val)
    BY <1>1, <1>3
  <2>2. QED  BY <1>1, <1>3, <2>1, BetweenDrawn
<1>4. CASE t.is = "percent"
  BY <1>1, <1>4
<1>5. QED  BY <1>2, <1>3, <1>4

\* All draws of a size range are as it is written,
LEMMA SizeRangeDrawn ==
  ASSUME NEW t, IsRangeText(t), ParseByteSizeRange(t).is = "ok"
  PROVE  Drawn(t, ParseByteSizeRange(t).val)
<1> DEFINE a == ParseByteSize(t.a)
           b == IF t.is = "between" THEN ParseByteSize(t.b) ELSE a
           scaled == ParsePercentRange(a.val, t.p, ScaleSize)
<1>1. a.is = "ok" => a.val \in 0 .. MaxU64 /\ a.val = Written(t.a)
  BY SizeParsed DEF IsRangeText
<1>2. t.is = "between" /\ b.is = "ok" => b.val \in 0 .. MaxU64 /\ b.val = Written(t.b)
  BY SizeParsed DEF IsRangeText
<1>3. t.is = "percent" /\ a.is = "ok" /\ scaled.is = "ok" => Drawn(t, scaled.val)
  BY <1>1, PercentSizeDrawn DEF IsRangeText
<1>4. ParseByteSizeRange(t) =
        IF a.is # "ok" THEN a
        ELSE IF b.is # "ok" THEN b
        ELSE CASE t.is = "one" -> Ok(Fixed(a.val))
               [] t.is = "between" -> ParseMinMax(a.val, b.val)
               [] t.is = "percent" -> scaled
  BY DEF ParseByteSizeRange, ParseRange
<1>5. t.is \in {"one", "between", "percent"} /\ \A n \in 0 .. MaxU64 : n \in Nat
  BY DEF IsRangeText
<1> HIDE DEF a, b, scaled
<1>6. QED  BY <1>1, <1>2, <1>3, <1>4, <1>5, RangeParsed

\* of a speed range,
LEMMA SpeedRangeDrawn ==
  ASSUME NEW t, IsRangeText(t), ParseSpeedRange(t).is = "ok"
  PROVE  Drawn(t, ParseSpeedRange(t).val)
<1> DEFINE a == ParseSpeed(t.a)
           b == IF t.is = "between" THEN ParseSpeed(t.b) ELSE a
           scaled == ParsePercentRange(a.val, t.p, ScaleSize)
<1>1. a.is = "ok" => a.val \in 0 .. MaxU64 /\ a.val = Written(t.a)
  BY SpeedParsed DEF IsRangeText
<1>2. t.is = "between" /\ b.is = "ok" => b.val \in 0 .. MaxU64 /\ b.val = Written(t.b)
  BY SpeedParsed DEF IsRangeText
<1>3. t.is = "percent" /\ a.is = "ok" /\ scaled.is = "ok" => Drawn(t, scaled.val)
  BY <1>1, PercentSizeDrawn DEF IsRangeText
<1>4. ParseSpeedRange(t) =
        IF a.is # "ok" THEN a
        ELSE IF b.is # "ok" THEN b
        ELSE CASE t.is = "one" -> Ok(Fixed(a.val))
               [] t.is = "between" -> ParseMinMax(a.val, b.val)
               [] t.is = "percent" -> scaled
  BY DEF ParseSpeedRange, ParseRange
<1>5. t.is \in {"one", "between", "percent"} /\ \A n \in 0 .. MaxU64 : n \in Nat
  BY DEF IsRangeText
<1> HIDE DEF a, b, scaled
<1>6. QED  BY <1>1, <1>2, <1>3, <1>4, <1>5, RangeParsed

\* and of a duration range.
LEMMA DurationRangeDrawn ==
  ASSUME NEW t, IsRangeText(t), ParseDurationRange(t).is = "ok"
  PROVE  Drawn(t, ParseDurationRange(t).val)
<1> DEFINE a == ParseDuration(t.a)
           b == IF t.is = "between" THEN ParseDuration(t.b) ELSE a
           scaled == ParsePercentRange(a.val, t.p, ScaleDuration)
<1>1. a.is = "ok" => a.val \in 0 .. MaxDuration /\ a.val = Written(t.a)
  BY DurationParsed
<1>2. t.is = "between" /\ b.is = "ok" => b.val \in 0 .. MaxDuration /\ b.val = Written(t.b)
  BY DurationParsed
<1>3. t.is = "percent" /\ a.is = "ok" /\ scaled.is = "ok" => Drawn(t, scaled.val)
  BY <1>1, PercentDurationDrawn DEF IsRangeText
<1>4. ParseDurationRange(t) =
        IF a.is # "ok" THEN a
        ELSE IF b.is # "ok" THEN b
        ELSE CASE t.is = "one" -> Ok(Fixed(a.val))
               [] t.is = "between" -> ParseMinMax(a.val, b.val)
               [] t.is = "percent" -> scaled
  BY DEF ParseDurationRange, ParseRange
<1>5. t.is \in {"one", "between", "percent"} /\ \A n \in 0 .. MaxDuration : n \in Nat
  BY DEF IsRangeText
<1> HIDE DEF a, b, scaled
<1>6. QED  BY <1>1, <1>2, <1>3, <1>4, <1>5, RangeParsed

-----------------------------------------------------------------------------
(***************************************************************************)
(* The ranges of a rule                                                    *)
(***************************************************************************)

\* A drop or a hang: bytes if it is a size, else a time.
LEMMA BytesOrTimeDrawn ==
  ASSUME NEW t, IsRangeText(t), ParseBytesOrTime(t).is = "ok"
  PROVE  /\ ParseBytesOrTime(t).val # None
         /\ Drawn(t, ParseBytesOrTime(t).val.range)
<1> DEFINE bytes == ParseByteSizeRange(t)
           time == ParseDurationRange(t)
<1>1. CASE bytes.is = "ok"
  <2>1. ParseBytesOrTime(t) = Outcome(<<bytes>>, [is |-> "bytes", range |-> <<bytes>>[1].val])
    BY <1>1 DEF ParseBytesOrTime, ByRange, Then, All, Outcome
  <2>2. ParseBytesOrTime(t).val = [is |-> "bytes", range |-> bytes.val]
    BY <2>1, ThenOk
  <2>3. QED  BY <1>1, <2>2, SizeRangeDrawn DEF None
<1>2. CASE bytes.is # "ok"
  <2>1. ParseBytesOrTime(t) = Outcome(<<time>>, [is |-> "time", range |-> <<time>>[1].val])
    BY <1>2 DEF ParseBytesOrTime, ByRange, Then, All, Outcome
  <2>2. time.is = "ok" /\ ParseBytesOrTime(t).val = [is |-> "time", range |-> time.val]
    BY <2>1, ThenOk
  <2>3. QED  BY <2>2, DurationRangeDrawn DEF None
<1>3. QED  BY <1>1, <1>2

\* A pace: a chunk with its interval, a speed or a duration.
LEMMA PaceDrawn ==
  ASSUME NEW t, IF t.is = "chunk" THEN IsRangeText(t.size) /\ IsRangeText(t.interval) ELSE IsRangeText(t),
         ParsePaceStr(t).is = "ok"
  PROVE  LET pace == ParsePaceStr(t).val
         IN  /\ pace # None
             /\ IF pace.is = "chunk" THEN Drawn(t.size, pace.size) /\ Drawn(t.interval, pace.interval)
                ELSE Drawn(t, pace.range)
<1> DEFINE pace == ParsePaceStr(t).val
<1>1. CASE t.is = "chunk"
  <2> DEFINE size == ParseByteSizeRange(t.size)
             interval == ParseDurationRange(t.interval)
             outcomes == <<size, interval>>
             val == [is |-> "chunk", size |-> size.val, interval |-> interval.val]
  <2>1. ParsePaceStr(t) = Outcome(outcomes, val)
    <3> DEFINE vals == [i \in DOMAIN outcomes |-> outcomes[i].val]
    <3>1. ParsePaceStr(t) =
            Outcome(outcomes, [is |-> "chunk", size |-> vals[1], interval |-> vals[2]])
      BY <1>1 DEF ParsePaceStr, All, Outcome
    <3> HIDE DEF size, interval
    <3>2. vals[1] = size.val /\ vals[2] = interval.val
      OBVIOUS
    <3>3. QED  BY <3>1, <3>2
  <2>2. size.is = "ok" /\ interval.is = "ok" /\ pace = val
    <3>1. DOMAIN outcomes \in SUBSET Nat /\ {1, 2} \subseteq DOMAIN outcomes
      OBVIOUS
    <3>2. pace = val /\ \A i \in {1, 2} : outcomes[i].is = "ok"
      <4> HIDE DEF outcomes, val
      <4>1. QED  BY <2>1, <3>1, AllOk
    <3> HIDE DEF size, interval
    <3>3. QED  BY <3>2
  <2>3. pace.is = "chunk" /\ pace.size = size.val /\ pace.interval = interval.val /\ pace # None
    BY <2>2 DEF None
  <2>4. QED  BY <1>1, <2>2, <2>3, SizeRangeDrawn, DurationRangeDrawn
<1>2. CASE t.is # "chunk" /\ MentionsSpeed(t)
  <2> DEFINE speed == ParseSpeedRange(t)
  <2>1. ParsePaceStr(t) = Outcome(<<speed>>, [is |-> "speed", range |-> <<speed>>[1].val])
    BY <1>2 DEF ParsePaceStr, ByRange, Then, All, Outcome
  <2>2. speed.is = "ok" /\ pace = [is |-> "speed", range |-> speed.val]
    BY <2>1, ThenOk
  <2>3. pace.is = "speed" /\ pace.range = speed.val /\ pace # None
    BY <2>2 DEF None
  <2>4. QED  BY <1>2, <2>2, <2>3, SpeedRangeDrawn
<1>3. CASE t.is # "chunk" /\ ~MentionsSpeed(t)
  <2> DEFINE time == ParseDurationRange(t)
  <2>1. ParsePaceStr(t) = Outcome(<<time>>, [is |-> "duration", range |-> <<time>>[1].val])
    BY <1>3 DEF ParsePaceStr, ByRange, Then, All, Outcome
  <2>2. time.is = "ok" /\ pace = [is |-> "duration", range |-> time.val]
    BY <2>1, ThenOk
  <2>3. pace.is = "duration" /\ pace.range = time.val /\ pace # None
    BY <2>2 DEF None
  <2>4. QED  BY <1>3, <2>2, <2>3, DurationRangeDrawn
<1>4. QED  BY <1>1, <1>2, <1>3

\* All ranges of a delivery.
LEMMA DeliveryDrawn ==
  ASSUME NEW o, IsDelivery(o), ParseDeliveryFields(o).is = "ok"
  PROVE  LET d == ParseDeliveryFields(o).val
         IN  /\ d.drop # None => Drawn(Inner(o.drop, "after").s, d.drop.range)
             /\ d.hang # None => Drawn(o.hang.s, d.hang.range)
             /\ d.firstByte # None => Drawn(Inner(o.firstByte, "delay").s, d.firstByte)
             /\ d.pace # None =>
                  IF d.pace.is = "chunk"
                  THEN Drawn(o.pace.s.size, d.pace.size) /\ Drawn(o.pace.s.interval, d.pace.interval)
                  ELSE Drawn(o.pace.s, d.pace.range)
<1> DEFINE d == ParseDeliveryFields(o).val
           drop == Inner(o.drop, "after")
           first == Inner(o.firstByte, "delay")
<1>1. /\ d.pace # None => o.pace.is = "text" /\ ParsePaceStr(o.pace.s).is = "ok"
                          /\ d.pace = ParsePaceStr(o.pace.s).val
      /\ d.drop # None => drop.is = "text" /\ ParseBytesOrTime(drop.s).is = "ok"
                          /\ d.drop = ParseBytesOrTime(drop.s).val
      /\ d.hang # None => o.hang.is = "text" /\ ParseBytesOrTime(o.hang.s).is = "ok"
                          /\ d.hang = ParseBytesOrTime(o.hang.s).val
      /\ d.firstByte # None => first.is = "text" /\ ParseDurationRange(first.s).is = "ok"
                               /\ d.firstByte = ParseDurationRange(first.s).val
  BY DeliveryParsed, Zenon
<1>2. /\ \A field \in {drop, o.hang, first} : field.is = "text" => IsRangeText(field.s)
      /\ o.pace.is = "text" =>
           IF o.pace.s.is = "chunk" THEN IsRangeText(o.pace.s.size) /\ IsRangeText(o.pace.s.interval)
           ELSE IsRangeText(o.pace.s)
  BY DEF IsDelivery
<1> HIDE DEF d, drop, first
<1>3. d.drop # None => Drawn(drop.s, d.drop.range)
  BY <1>1, <1>2, BytesOrTimeDrawn
<1>4. d.hang # None => Drawn(o.hang.s, d.hang.range)
  BY <1>1, <1>2, BytesOrTimeDrawn
<1>5. d.firstByte # None => Drawn(first.s, d.firstByte)
  BY <1>1, <1>2, DurationRangeDrawn
<1>6. d.pace # None =>
        IF d.pace.is = "chunk"
        THEN Drawn(o.pace.s.size, d.pace.size) /\ Drawn(o.pace.s.interval, d.pace.interval)
        ELSE Drawn(o.pace.s, d.pace.range)
  BY <1>1, <1>2, PaceDrawn
<1>7. QED  BY <1>3, <1>4, <1>5, <1>6 DEF d, drop, first

\* Each of them is drawn as it is written.
LEMMA DeliveryDraws ==
  ASSUME NEW o, IsDelivery(o), ParseDeliveryFields(o).is = "ok",
         NEW q \in DeliveryQuantities(o, ParseDeliveryFields(o).val)
  PROVE  Drawn(q[1], q[2])
<1> DEFINE d == ParseDeliveryFields(o).val
<1>1. /\ d.drop # None => Drawn(Inner(o.drop, "after").s, d.drop.range)
      /\ d.hang # None => Drawn(o.hang.s, d.hang.range)
      /\ d.firstByte # None => Drawn(Inner(o.firstByte, "delay").s, d.firstByte)
      /\ d.pace # None =>
           IF d.pace.is = "chunk"
           THEN Drawn(o.pace.s.size, d.pace.size) /\ Drawn(o.pace.s.interval, d.pace.interval)
           ELSE Drawn(o.pace.s, d.pace.range)
  BY DeliveryDrawn
<1> DEFINE P == CASE d.pace = None -> {}
                  [] d.pace.is = "chunk" -> {<<o.pace.s.size, d.pace.size>>,
                                             <<o.pace.s.interval, d.pace.interval>>}
                  [] OTHER -> {<<o.pace.s, d.pace.range>>}
           A == {<<Inner(o.drop, "after").s, r.range>> : r \in {d.drop} \ {None}}
           B == {<<o.hang.s, r.range>> : r \in {d.hang} \ {None}}
           C == {<<Inner(o.firstByte, "delay").s, r>> : r \in {d.firstByte} \ {None}}
<1>2. DeliveryQuantities(o, d) = A \cup B \cup C \cup P
  BY DEF DeliveryQuantities
<1> HIDE DEF d
<1>3. PICK x, y : q = <<x, y>> /\ Drawn(x, y)
  <2>1. CASE q \in A
    <3>1. d.drop # None /\ q = <<Inner(o.drop, "after").s, d.drop.range>>
      BY <2>1
    <3>2. QED  BY <1>1, <3>1
  <2>2. CASE q \in B
    <3>1. d.hang # None /\ q = <<o.hang.s, d.hang.range>>
      BY <2>2
    <3>2. QED  BY <1>1, <3>1
  <2>3. CASE q \in C
    <3>1. d.firstByte # None /\ q = <<Inner(o.firstByte, "delay").s, d.firstByte>>
      BY <2>3
    <3>2. QED  BY <1>1, <3>1
  <2>4. CASE q \in P
    <3>1. d.pace # None
      BY <2>4 DEF None
    <3>2. CASE d.pace.is = "chunk"
      <4>1. q \in {<<o.pace.s.size, d.pace.size>>, <<o.pace.s.interval, d.pace.interval>>}
        BY <2>4, <3>1, <3>2
      <4>2. Drawn(o.pace.s.size, d.pace.size) /\ Drawn(o.pace.s.interval, d.pace.interval)
        BY <1>1, <3>1, <3>2
      <4>3. QED  BY <4>1, <4>2
    <3>3. CASE d.pace.is # "chunk"
      <4>1. q = <<o.pace.s, d.pace.range>> /\ Drawn(o.pace.s, d.pace.range)
        BY <1>1, <2>4, <3>1, <3>3
      <4>2. QED  BY <4>1
    <3>4. QED  BY <3>2, <3>3
  <2> HIDE DEF A, B, C, P
  <2>5. q \in A \/ q \in B \/ q \in C \/ q \in P
    BY <1>2 DEF d
  <2>6. QED  BY <2>1, <2>2, <2>3, <2>4, <2>5
<1>4. q[1] = x /\ q[2] = y
  BY <1>3
<1>5. QED  BY <1>3, <1>4

\* The wait for a permit that a limit allows.
LEMMA OverDrawn ==
  ASSUME NEW f, ParseOverflowAction(f).is = "ok", ParseOverflowAction(f).val.is = "blockWithTimeout",
         f.is = "blocking" /\ f.block.is = "text" => IsRangeText(f.block.s)
  PROVE  Drawn(f.block.s, ParseOverflowAction(f).val.timeout)
<1>1. f.is = "blocking"
  <2>1. ASSUME f.is = "text" PROVE FALSE
    BY <2>1 DEF ParseOverflowAction, Check, Ok, Error, Refused
  <2>2. ASSUME f.is \notin {"text", "blocking"} PROVE FALSE
    <3> DEFINE r == ParseReply(f, None)
               val == [is |-> "reply", reply |-> r.val]
    <3>1. ParseOverflowAction(f) = Outcome(<<r>>, val)
      <4> DEFINE F(x) == [is |-> "reply", reply |-> x]
      <4>1. ParseOverflowAction(f) = Then(r, F)
        BY <2>2 DEF ParseOverflowAction
      <4> HIDE DEF r
      <4>2. Then(r, F) = Outcome(<<r>>, val)
        BY DEF Then, All, Outcome
      <4>3. QED  BY <4>1, <4>2
    <3>2. ParseOverflowAction(f).val = val
      <4> HIDE DEF r, val
      <4>1. QED  BY <3>1, ThenOk
    <3> HIDE DEF r
    <3>3. QED  BY <3>2
  <2>3. QED  BY <2>1, <2>2
<1> DEFINE t == FromText(f.block, ParseDurationRange)
           r == ParseReply(f.then, None)
           outcomes == <<t, r>>
           val == [is |-> "blockWithTimeout", timeout |-> t.val, reply |-> r.val]
<1>2. ParseOverflowAction(f) = Outcome(outcomes, val)
  <2> DEFINE vals == [i \in DOMAIN outcomes |-> outcomes[i].val]
  <2>1. ParseOverflowAction(f) =
          Outcome(outcomes, [is |-> "blockWithTimeout", timeout |-> vals[1], reply |-> vals[2]])
    BY <1>1 DEF ParseOverflowAction, All, Outcome
  <2> HIDE DEF t, r
  <2>2. vals[1] = t.val /\ vals[2] = r.val
    OBVIOUS
  <2>3. QED  BY <2>1, <2>2
<1> HIDE DEF t, r
<1>3. DOMAIN outcomes \in SUBSET Nat /\ 1 \in DOMAIN outcomes /\ outcomes[1] = t
  OBVIOUS
<1>4. t.is = "ok" /\ ParseOverflowAction(f).val = val
  <2> HIDE DEF outcomes, val
  <2>1. QED  BY <1>2, <1>3, AllOk
<1>5. f.block.is = "text" /\ ParseDurationRange(f.block.s).is = "ok" /\ t.val = ParseDurationRange(f.block.s).val
  BY <1>4 DEF t, FromText, Error, Refused
<1>6. Drawn(f.block.s, t.val)
  BY <1>1, <1>5, DurationRangeDrawn
<1>7. QED  BY <1>4, <1>6

\* The two waits of the limits are drawn as they are written.
LEMMA BehaviorDraws ==
  ASSUME NEW o, IsServe(o), ParseBehavior(o).is = "ok",
         NEW q \in BehaviorQuantities(o, ParseBehavior(o).val)
  PROVE  Drawn(q[1], q[2])
<1> DEFINE b == ParseBehavior(o).val
           over == o.conn.o.over
           D == {<<o.timeout.s, r>> : r \in {b.timeout} \ {None}}
           limits == {l \in {b.conn} \ {None} : l.over.is = "blockWithTimeout"}
           E == {<<over.block.s, l.over.timeout>> : l \in limits}
<1>1. BehaviorQuantities(o, b) = D \cup E
  BY DEF BehaviorQuantities
<1>2. b.timeout # None => Drawn(o.timeout.s, b.timeout)
  <2>1. b.timeout # None => /\ o.timeout.is = "text" /\ ParseDurationRange(o.timeout.s).is = "ok"
                           /\ b.timeout = ParseDurationRange(o.timeout.s).val
    BY BehaviorParsed
  <2>2. QED  BY <2>1, DurationRangeDrawn DEF IsServe
<1>3. b.conn # None /\ b.conn.over.is = "blockWithTimeout" => Drawn(over.block.s, b.conn.over.timeout)
  <2> SUFFICES ASSUME b.conn # None, b.conn.over.is = "blockWithTimeout"
               PROVE  Drawn(over.block.s, b.conn.over.timeout)
    OBVIOUS
  <2>1. ParseConn(o.conn).is = "ok" /\ b.conn = ParseConn(o.conn).val
    BY BehaviorParsed
  <2>2. /\ o.conn.is = "object" /\ ParseOverflowAction(over).is = "ok"
        /\ b.conn.over = ParseOverflowAction(over).val
    BY <2>1, ConnParsed
  <2>3. over.is = "blocking" /\ over.block.is = "text" => IsRangeText(over.block.s)
    BY <2>2 DEF IsServe
  <2> HIDE DEF over, b
  <2>4. QED  BY <2>2, <2>3, OverDrawn
<1> HIDE DEF b, over
<1>4. PICK x, y : q = <<x, y>> /\ Drawn(x, y)
  <2>1. CASE q \in D
    <3>1. b.timeout # None /\ q = <<o.timeout.s, b.timeout>>
      BY <2>1
    <3>2. QED  BY <1>2, <3>1
  <2>2. CASE q \in E
    <3>1. PICK l \in limits : q = <<over.block.s, l.over.timeout>>
      BY <2>2
    <3>2. b.conn # None /\ b.conn.over.is = "blockWithTimeout" /\ l = b.conn
      BY <3>1
    <3>3. QED  BY <1>3, <3>1, <3>2
  <2> HIDE DEF D, E
  <2>3. q \in D \/ q \in E
    BY <1>1 DEF b
  <2>4. QED  BY <2>1, <2>2, <2>3
<1>5. q[1] = x /\ q[2] = y
  BY <1>4
<1>6. QED  BY <1>4, <1>5

-----------------------------------------------------------------------------
(***************************************************************************)
(* Chaos                                                                   *)
(***************************************************************************)

\* The sums of the percentages are what their definition says.
LEMMA Sums ==
  ASSUME NEW chaos, Len(chaos) \in Nat
  PROVE  Cumulative(chaos) = [i \in 0 .. Len(chaos) |->
                                IF i = 0 THEN 0
                                ELSE Cumulative(chaos)[i - 1] + Steps(chaos[i].p)]
<1> DEFINE n == Len(chaos)
           p(i) == Steps(chaos[i].p)
           IsSum(f, m) == f = [i \in 0 .. m |-> IF i = 0 THEN 0 ELSE f[i - 1] + p(i)]
           S == {m \in 0 .. n : \E f : IsSum(f, m)}
<1> HIDE DEF p
<1>1. 0 \in S
  <2> DEFINE f == [i \in 0 .. 0 |-> 0]
  <2>1. f = [i \in 0 .. 0 |-> IF i = 0 THEN 0 ELSE f[i - 1] + p(i)]
    OBVIOUS
  <2> HIDE DEF f
  <2>2. QED  BY <2>1
<1>2. ASSUME NEW m \in 1 .. n, m - 1 \in S PROVE m \in S
  <2>1. PICK f : IsSum(f, m - 1)
    BY <1>2
  <2> DEFINE g == [i \in 0 .. m |-> IF i = m THEN f[m - 1] + p(m) ELSE f[i]]
  <2>2. ASSUME NEW i \in 0 .. m PROVE g[i] = IF i = 0 THEN 0 ELSE g[i - 1] + p(i)
    <3>1. CASE i = 0
      <4>1. g[i] = f[0] /\ f[0] = 0
        BY <2>1, <3>1
      <4>2. QED  BY <3>1, <4>1
    <3>2. CASE i = m
      <4>1. g[i] = f[m - 1] + p(m) /\ g[i - 1] = f[m - 1] /\ i # 0
        BY <3>2
      <4>2. QED  BY <3>2, <4>1
    <3>3. CASE i \in 1 .. m - 1
      <4>1. g[i] = f[i] /\ g[i - 1] = f[i - 1] /\ f[i] = f[i - 1] + p(i) /\ i # 0
        BY <2>1, <3>3
      <4>2. QED  BY <4>1
    <3>4. QED  BY <3>1, <3>2, <3>3
  <2>3. g = [i \in 0 .. m |-> g[i]]
    OBVIOUS
  <2> HIDE DEF g
  <2>4. IsSum(g, m)
    BY <2>2, <2>3
  <2>5. m \in 0 .. n
    OBVIOUS
  <2>6. QED  BY <2>4, <2>5
<1>3. n \in S
  <2>1. n \in Nat /\ n \in 0 .. n
    OBVIOUS
  <2> HIDE DEF S, n
  <2>2. \A m \in 0 .. n : m \in S
    BY <1>1, <1>2, <2>1, Upto
  <2>3. QED  BY <2>1, <2>2
<1>4. \E f : IsSum(f, n)
  BY <1>3
<1>5. Cumulative(chaos) =
    CHOOSE f : f = [i \in 0 .. n |-> IF i = 0 THEN 0 ELSE f[i - 1] + Steps(chaos[i].p)]
  BY DEF Cumulative
<1>6. QED  BY <1>4, <1>5 DEF p

\* They go up by each percentage.
LEMMA SumsRise ==
  ASSUME NEW chaos, Len(chaos) \in Nat, \A i \in 1 .. Len(chaos) : Steps(chaos[i].p) \in Nat
  PROVE  LET c == Cumulative(chaos)
             n == Len(chaos)
         IN  /\ c[0] = 0 /\ \A i \in 1 .. n : c[i] = c[i - 1] + Steps(chaos[i].p)
             /\ \A i \in 0 .. n : c[i] \in Nat /\ \A j \in 0 .. i : c[j] <= c[i]
<1> DEFINE c == Cumulative(chaos)
           n == Len(chaos)
           S == {m \in 0 .. n : \A j \in 0 .. m : c[j] \in Nat /\ c[j] <= c[m]}
<1>1. c = [i \in 0 .. n |-> IF i = 0 THEN 0 ELSE c[i - 1] + Steps(chaos[i].p)]
  BY Sums
<1> HIDE DEF c
<1>2. c[0] = 0 /\ \A i \in 1 .. n : c[i] = c[i - 1] + Steps(chaos[i].p)
  <2>1. ASSUME NEW i \in 0 .. n PROVE c[i] = IF i = 0 THEN 0 ELSE c[i - 1] + Steps(chaos[i].p)
    BY <1>1
  <2>2. 0 \in 0 .. n /\ \A i \in 1 .. n : i \in 0 .. n /\ i # 0
    OBVIOUS
  <2>3. QED  BY <2>1, <2>2
<1>3. 0 \in S
  BY <1>2
<1>4. ASSUME NEW m \in 1 .. n, m - 1 \in S PROVE m \in S
  <2>1. \A j \in 0 .. m - 1 : c[j] \in Nat /\ c[j] <= c[m - 1]
    BY <1>4
  <2>2. c[m] = c[m - 1] + Steps(chaos[m].p) /\ Steps(chaos[m].p) \in Nat
    BY <1>2
  <2>3. c[m - 1] \in Nat /\ c[m] \in Nat /\ c[m - 1] <= c[m]
    <3>1. m - 1 \in 0 .. m - 1
      OBVIOUS
    <3>2. QED  BY <2>1, <2>2, <3>1
  <2>4. ASSUME NEW j \in 0 .. m PROVE c[j] \in Nat /\ c[j] <= c[m]
    <3>1. CASE j = m
      BY <2>3, <3>1
    <3>2. CASE j \in 0 .. m - 1
      BY <2>1, <2>3, <3>2
    <3>3. QED  BY <3>1, <3>2
  <2>5. m \in 0 .. n
    OBVIOUS
  <2>6. QED  BY <2>4, <2>5
<1>5. \A m \in 0 .. n : m \in S
  <2>1. n \in Nat
    OBVIOUS
  <2> HIDE DEF S, n
  <2>2. QED  BY <1>3, <1>4, <2>1, Upto
<1>6. ASSUME NEW i \in 0 .. n PROVE c[i] \in Nat /\ \A j \in 0 .. i : c[j] <= c[i]
  <2>1. \A j \in 0 .. i : c[j] \in Nat /\ c[j] <= c[i]
    BY <1>5
  <2>2. i \in 0 .. i
    OBVIOUS
  <2>3. QED  BY <2>1, <2>2
<1> HIDE DEF n
<1>7. QED  BY <1>2, <1>6 DEF c, n

\* They depend on the percentages only.
LEMMA SumsAgree ==
  ASSUME NEW a, NEW b, Len(a) \in Nat, Len(b) \in Nat, NEW n \in Nat, n <= Len(a), n <= Len(b),
         \A i \in 1 .. n : a[i].p = b[i].p
  PROVE  Cumulative(a)[n] = Cumulative(b)[n]
<1> DEFINE c == Cumulative(a)
           d == Cumulative(b)
           S == {m \in 0 .. n : c[m] = d[m]}
<1>1. /\ c = [i \in 0 .. Len(a) |-> IF i = 0 THEN 0 ELSE c[i - 1] + Steps(a[i].p)]
      /\ d = [i \in 0 .. Len(b) |-> IF i = 0 THEN 0 ELSE d[i - 1] + Steps(b[i].p)]
  BY Sums
<1> HIDE DEF c, d
<1>2. 0 \in S
  <2>1. 0 \in 0 .. Len(a) /\ 0 \in 0 .. Len(b) /\ 0 \in 0 .. n
    OBVIOUS
  <2>2. c[0] = 0 /\ d[0] = 0
    BY <1>1, <2>1
  <2>3. QED  BY <2>1, <2>2
<1>3. ASSUME NEW m \in 1 .. n, m - 1 \in S PROVE m \in S
  <2>1. m \in 0 .. Len(a) /\ m \in 0 .. Len(b) /\ m # 0 /\ m \in 0 .. n
    OBVIOUS
  <2>2. c[m] = c[m - 1] + Steps(a[m].p) /\ d[m] = d[m - 1] + Steps(b[m].p)
    BY <1>1, <2>1
  <2>3. c[m - 1] = d[m - 1] /\ a[m].p = b[m].p
    BY <1>3
  <2>4. QED  BY <2>1, <2>2, <2>3
<1>4. n \in S
  <2>1. n \in 0 .. n
    OBVIOUS
  <2> HIDE DEF S
  <2>2. QED  BY <1>2, <1>3, <2>1, Upto
<1>5. QED  BY <1>4 DEF c, d

\* A percentage is NaN or a number of steps.
IsPercentage(p) == p = NaN \/ p.tenths \in Nat

\* What parse_chaos promises of a list of entries.
ChaosOK(chaos) ==
  /\ IsList(chaos)
  /\ \A i \in DOMAIN chaos :
       /\ IsPercentage(chaos[i].p) /\ (chaos[i].reply # None \/ chaos[i].serve # None)
       /\ Summable(chaos, i) => Cumulative(chaos)[i] <= Hundred

\* An accepted percentage is NaN or one of 0 to 100.
LEMMA PercentageParsed ==
  ASSUME NEW p, ParsePercentage(p).is = "ok"
  PROVE  IsPercentage(ParsePercentage(p).val)
<1> DEFINE num == p.s.num
           fits == num.is = "decimal" /\ num.tenths \in 0 .. Hundred
           good == p.s.percent /\ (fits \/ num = NaN)
           pct == ParsePercentage(p)
<1>1. pct = IF p.is = "text" THEN IF good THEN Ok(num) ELSE Error ELSE Error
  BY DEF ParsePercentage, FromText, Check
<1>2. Error.is # "ok"
  BY DEF Error, Refused
<1>3. pct = Ok(num) /\ good
  <2> HIDE DEF pct, good, num
  <2>1. pct.is = "ok"
    BY DEF pct
  <2>2. QED  BY ONLY <1>1, <1>2, <2>1
<1>4. pct.val = num
  BY <1>3 DEF Ok
<1>5. num = NaN \/ num.tenths \in Nat
  <2>1. num = NaN \/ num.tenths \in 0 .. Hundred
    <3> HIDE DEF num, pct
    <3>1. QED  BY ONLY <1>3, Zenon DEF good, fits
  <2> HIDE DEF num
  <2>2. QED  BY ONLY <2>1, RulesAssumption
<1> HIDE DEF num, fits, good, pct
<1>6. QED  BY <1>4, <1>5 DEF pct, IsPercentage

\* An accepted entry has its percentage and changes something; the
\* percentages up to it do not exceed 100%.
LEMMA EntryParsed ==
  ASSUME NEW l, NEW i, ParseChaosEntry(l, i).is = "ok"
  PROVE  LET entry == ParseChaosEntry(l, i).val
             pct == ParsePercentage(l[i].o.p)
         IN  /\ l[i].is = "object" /\ pct.is = "ok" /\ entry.p = pct.val
             /\ IsPercentage(entry.p) /\ ~Exceeds(WrittenEntries(l, i), i)
             /\ entry.reply # None \/ entry.serve # None
             /\ entry.reply # None =>
                  /\ ParseReply(l[i].o.reply, None).is = "ok"
                  /\ entry.reply.val = ParseReply(l[i].o.reply, None).val
             /\ entry.serve # None =>
                  /\ l[i].o.serve.is = "object" /\ ParseDeliveryFields(l[i].o.serve.o).is = "ok"
                  /\ entry.serve.val = ParseDeliveryFields(l[i].o.serve.o).val
<1> DEFINE o == l[i].o
           pct == ParsePercentage(o.p)
           sum == IF ~Exceeds(WrittenEntries(l, i), i) THEN Ok(None) ELSE Error
           reply == Optional(o.reply, LAMBDA r : Then(ParseReply(r, None), Some))
           serve == Optional(o.serve, ParseChaosServe)
           outcomes == <<pct, sum, reply, serve>>
           val == [p |-> pct.val, reply |-> reply.val, serve |-> serve.val]
           entry == Outcome(outcomes, val)
<1>1. l[i].is = "object"
  BY DEF ParseChaosEntry, FromObject, Error, Refused
<1>2. ParseChaosEntry(l, i) =
        IF entry.is = "ok" /\ entry.val.reply = None /\ entry.val.serve = None THEN Error ELSE entry
  <2> DEFINE vals == [j \in DOMAIN outcomes |-> outcomes[j].val]
             e == Outcome(outcomes, [p |-> vals[1], reply |-> vals[3], serve |-> vals[4]])
  <2>1. ParseChaosEntry(l, i) =
          IF e.is = "ok" /\ e.val.reply = None /\ e.val.serve = None THEN Error ELSE e
    BY <1>1 DEF ParseChaosEntry, FromObject, All, Outcome, Check
  <2> HIDE DEF pct, sum, reply, serve
  <2>2. vals[1] = pct.val /\ vals[3] = reply.val /\ vals[4] = serve.val
    OBVIOUS
  <2>3. e = entry
    BY <2>2
  <2> HIDE DEF e, entry
  <2>4. QED  BY <2>1, <2>3
<1> HIDE DEF pct, sum, reply, serve
<1>3. DOMAIN outcomes \in SUBSET Nat /\ {1, 2, 3, 4} \subseteq DOMAIN outcomes
  OBVIOUS
<1>4. Error.is # "ok"
  BY DEF Error, Refused
<1>5. /\ entry.is = "ok" /\ ParseChaosEntry(l, i) = entry
      /\ entry.val.reply # None \/ entry.val.serve # None
  <2> HIDE DEF entry
  <2>1. QED  BY <1>2, <1>4
<1>6. pct.is = "ok" /\ sum.is = "ok" /\ reply.is = "ok" /\ serve.is = "ok" /\ entry.val = val
  <2> HIDE DEF outcomes, val
  <2>1. (\A j \in {1, 2, 3, 4} : outcomes[j].is = "ok") /\ entry.val = val
    BY <1>3, <1>5, AllOk
  <2>2. QED  BY <2>1 DEF outcomes
<1>7. ~Exceeds(WrittenEntries(l, i), i)
  BY <1>4, <1>6 DEF sum
<1>8. IsPercentage(pct.val)
  BY <1>6, PercentageParsed DEF pct
<1>9. ASSUME reply.val # None
      PROVE  ParseReply(o.reply, None).is = "ok" /\ reply.val.val = ParseReply(o.reply, None).val
  <2> DEFINE r == ParseReply(o.reply, None)
  <2>1. reply = IF o.reply.is = "missing" THEN Ok(None) ELSE Outcome(<<r>>, Some(r.val))
    <3> HIDE DEF o, outcomes, val, entry, r
    <3>1. Then(r, Some) = Outcome(<<r>>, Some(r.val))
      BY DEF Then, All, Outcome
    <3>2. QED  BY <3>1 DEF reply, Optional, r
  <2>2. reply = Outcome(<<r>>, Some(r.val))
    BY <1>9, <2>1 DEF Ok
  <2>3. r.is = "ok" /\ reply.val = Some(r.val)
    <3> DEFINE val1 == Some(r.val)
    <3> HIDE DEF r, val1
    <3>1. reply = Outcome(<<r>>, val1)
      BY <2>2 DEF val1
    <3>2. r.is = "ok" /\ reply.val = val1
      BY <1>6, <3>1, ThenOk
    <3>3. QED  BY <3>2 DEF val1
  <2>4. QED  BY <2>3 DEF Some
<1>10. ASSUME serve.val # None
       PROVE  /\ o.serve.is = "object" /\ ParseDeliveryFields(o.serve.o).is = "ok"
              /\ serve.val.val = ParseDeliveryFields(o.serve.o).val
  <2> DEFINE d == ParseDeliveryFields(o.serve.o)
             part == IF d.val = DefaultDelivery THEN None ELSE Some(d.val)
  <2>1. serve = IF o.serve.is = "missing" THEN Ok(None)
                ELSE IF o.serve.is = "object" THEN Outcome(<<d>>, part) ELSE Error
    <3> DEFINE F(x) == IF x = DefaultDelivery THEN None ELSE Some(x)
    <3> HIDE DEF o, outcomes, val, entry
    <3>1. ParseChaosServe(o.serve) = IF o.serve.is = "object" THEN Then(d, F) ELSE Error
      BY DEF ParseChaosServe, FromObject
    <3>2. serve = IF o.serve.is = "missing" THEN Ok(None) ELSE ParseChaosServe(o.serve)
      BY DEF serve, Optional
    <3> HIDE DEF d
    <3>3. Then(d, F) = Outcome(<<d>>, part)
      BY DEF Then, All, Outcome
    <3> HIDE DEF F, part
    <3>4. QED  BY <3>1, <3>2, <3>3
  <2> HIDE DEF d, part
  <2>2. o.serve.is = "object" /\ serve = Outcome(<<d>>, part)
    BY <1>4, <1>6, <1>10, <2>1 DEF Ok
  <2>3. d.is = "ok" /\ serve.val = part
    BY <1>6, <2>2, ThenOk
  <2>4. serve.val = Some(d.val)
    BY <1>10, <2>3 DEF part
  <2>5. QED  BY <2>2, <2>3, <2>4 DEF d, Some
<1> HIDE DEF entry
<1>11. QED  BY <1>1, <1>5, <1>6, <1>7, <1>8, <1>9, <1>10 DEF pct

\* A list of accepted entries has each as parsed, and the check of each one
\* is about the sum of those up to it.
LEMMA ChaosParsed ==
  ASSUME NEW field, ParseChaos(field).is = "ok", field.is = "list" => IsList(field.l)
  PROVE  LET chaos == ParseChaos(field).val
         IN  /\ ChaosOK(chaos) /\ field.is = "list"
             /\ \A i \in DOMAIN chaos :
                  /\ i \in DOMAIN field.l /\ ParseChaosEntry(field.l, i).is = "ok"
                  /\ chaos[i] = ParseChaosEntry(field.l, i).val
<1> DEFINE l == field.l
           n == Len(l)
           outcomes == [i \in DOMAIN l |-> ParseChaosEntry(l, i)]
           chaos == [i \in DOMAIN l |-> ParseChaosEntry(l, i).val]
<1>1. field.is = "list" /\ l # <<>>
  BY DEF ParseChaos, Error, Refused
<1>2. n \in Nat \ {0} /\ DOMAIN l = 1 .. n
  BY <1>1, EmptySeq, LenProperties DEF IsList
<1>3. ParseChaos(field) = Outcome(outcomes, chaos)
  <2> DEFINE places == [i \in DOMAIN l |-> i]
             each == [i \in DOMAIN places |-> ParseChaosEntry(l, places[i])]
  <2>1. ParseChaos(field) = Outcome(each, [i \in DOMAIN each |-> each[i].val])
    BY <1>1 DEF ParseChaos, Each, All, Outcome
  <2>2. each = outcomes
    OBVIOUS
  <2>3. chaos = [i \in DOMAIN outcomes |-> outcomes[i].val]
    OBVIOUS
  <2> HIDE DEF each, outcomes, chaos
  <2>4. QED  BY <2>1, <2>2, <2>3
<1>4. DOMAIN outcomes \in SUBSET Nat
  BY <1>2
<1>5. ParseChaos(field).val = chaos /\ \A i \in DOMAIN l : ParseChaosEntry(l, i).is = "ok"
  <2>1. ParseChaos(field).val = chaos /\ \A i \in DOMAIN outcomes : outcomes[i].is = "ok"
    <3> HIDE DEF outcomes, chaos
    <3>1. QED  BY <1>3, <1>4, AllOk
  <2>2. QED  BY <2>1
<1>6. ASSUME NEW i \in 1 .. n
      PROVE  LET pct == ParsePercentage(l[i].o.p)
             IN  /\ l[i].is = "object" /\ pct.is = "ok" /\ chaos[i].p = pct.val
                 /\ IsPercentage(chaos[i].p) /\ ~Exceeds(WrittenEntries(l, i), i)
                 /\ chaos[i].reply # None \/ chaos[i].serve # None
  <2>1. chaos[i] = ParseChaosEntry(l, i).val /\ ParseChaosEntry(l, i).is = "ok"
    BY <1>2, <1>5
  <2> HIDE DEF chaos
  <2>2. QED  BY <2>1, EntryParsed
<1>7. IsList(chaos) /\ Len(chaos) = n /\ DOMAIN chaos = 1 .. n
  <2>1. chaos = [i \in DOMAIN l |-> chaos[i]]
    OBVIOUS
  <2> HIDE DEF chaos
  <2>2. QED  BY <1>1, <1>2, <2>1, Mapped
<1>8. ASSUME NEW m \in 1 .. n, Summable(chaos, m) PROVE Cumulative(chaos)[m] <= Hundred
  <2> DEFINE p(j) == FromObject(l[j], LAMBDA o : ParsePercentage(o.p))
             written == [j \in 1 .. m |-> [p |-> IF p(j).is = "ok" THEN p(j).val ELSE Decimal(0)]]
  <2>1. WrittenEntries(l, m) = written
    BY DEF WrittenEntries
  <2>2. ASSUME NEW j \in 1 .. m PROVE written[j].p = chaos[j].p
    <3>1. j \in 1 .. n
      BY <1>2
    <3>2. p(j) = ParsePercentage(l[j].o.p)
      BY <1>6, <3>1 DEF FromObject
    <3>3. written[j].p = ParsePercentage(l[j].o.p).val
      BY <1>6, <3>1, <3>2
    <3>4. QED  BY <1>6, <3>1, <3>3
  <2>3. Len(written) = m
    <3>1. DOMAIN written = 1 .. m
      OBVIOUS
    <3> HIDE DEF written, n
    <3>2. m \in Nat
      BY <1>2
    <3>3. QED  BY <3>1, <3>2
  <2> HIDE DEF written, chaos, n
  <2>4. Cumulative(written)[m] = Cumulative(chaos)[m]
    <3>1. m \in Nat /\ Len(written) \in Nat /\ Len(chaos) \in Nat /\ m <= Len(written) /\ m <= Len(chaos)
      BY <1>2, <1>7, <2>3
    <3>2. QED  BY <2>2, <3>1, SumsAgree
  <2>5. ~Exceeds(written, m)
    BY <1>6, <2>1
  <2>6. Summable(written, m)
    BY <1>8, <2>2 DEF Summable
  <2>7. Cumulative(chaos)[m] \in Nat
    <3>1. Len(chaos) \in Nat /\ \A i \in 1 .. Len(chaos) : Steps(chaos[i].p) \in Nat
      BY <1>2, <1>6, <1>7 DEF IsPercentage, Steps
    <3>2. m \in 0 .. Len(chaos)
      BY <1>2, <1>7
    <3>3. QED  BY <3>1, <3>2, SumsRise
  <2>8. QED  BY <2>4, <2>5, <2>6, <2>7, RulesAssumption DEF Exceeds
<1>9. \A i \in DOMAIN l : ParseChaosEntry(l, i).is = "ok" /\ chaos[i] = ParseChaosEntry(l, i).val
  BY <1>5
<1> HIDE DEF chaos
<1>10. QED  BY <1>1, <1>2, <1>5, <1>6, <1>7, <1>8, <1>9 DEF ChaosOK

\* No chaos is chaos without entries.
LEMMA NoChaosOK == ChaosOK(<<>>)
  BY EmptySeq DEF ChaosOK, IsList

\* What the entries of a rule promise.
LEMMA RuleChaos ==
  ASSUME NEW v, NEW base, IsRuleValue(v), ParseRule(v, base).is = "ok"
  PROVE  LET f == v.o.chaos
             chaos == ParseRule(v, base).val.chaos
         IN  /\ ChaosOK(chaos)
             /\ \A i \in DOMAIN chaos :
                  /\ f.is = "list" /\ i \in DOMAIN f.l /\ ParseChaosEntry(f.l, i).is = "ok"
                  /\ chaos[i] = ParseChaosEntry(f.l, i).val
<1> DEFINE f == v.o.chaos
           parsed == IF f.is = "missing" THEN Ok(<<>>) ELSE ParseChaos(f)
           chaos == ParseRule(v, base).val.chaos
<1>1. v.is = "object" /\ parsed.is = "ok" /\ chaos = parsed.val
  BY RuleParsed
<1>2. f.is = "list" => IsList(f.l)
  BY <1>1 DEF IsRuleValue
<1> HIDE DEF f, chaos
<1>3. CASE f.is = "missing"
  <2>1. chaos = <<>>
    BY <1>1, <1>3 DEF Ok
  <2>2. QED  BY <2>1, NoChaosOK DEF f, chaos
<1>4. CASE f.is # "missing"
  <2>1. ParseChaos(f).is = "ok" /\ chaos = ParseChaos(f).val
    BY <1>1, <1>4
  <2>2. /\ ChaosOK(chaos) /\ f.is = "list"
        /\ \A i \in DOMAIN chaos : /\ i \in DOMAIN f.l /\ ParseChaosEntry(f.l, i).is = "ok"
                                  /\ chaos[i] = ParseChaosEntry(f.l, i).val
    BY <1>2, <2>1, ChaosParsed
  <2>3. QED  BY <2>2 DEF f, chaos
<1>5. QED  BY <1>3, <1>4

\* Every range of an accepted rule draws what it is written as.
LEMMA RuleDraws ==
  ASSUME NEW v, NEW base, IsRuleValue(v), ParseRule(v, base).is = "ok"
  PROVE  DrawsAsWritten(ParseRule(v, base).val)
<1> DEFINE rule == ParseRule(v, base).val
           o == v.o.serve.o
           serve == IF v.o.serve.is = "missing" THEN Ok(DefaultServe) ELSE ParseServe(v.o.serve)
           shaped == {i \in DOMAIN rule.chaos : rule.chaos[i].serve # None}
           S == IF v.o.serve.is = "missing" THEN {}
                ELSE DeliveryQuantities(o, rule.delivery) \cup BehaviorQuantities(o, rule.behavior)
           E(i) == DeliveryQuantities(v.o.chaos.l[i].o.serve.o, rule.chaos[i].serve.val)
<1>1. /\ v.is = "object" /\ rule.source = v.o /\ serve.is = "ok"
      /\ rule.delivery = serve.val.delivery /\ rule.behavior = serve.val.behavior
  BY RuleParsed
<1>2. Quantities(rule) = S \cup UNION {E(i) : i \in shaped}
  BY <1>1 DEF Quantities
<1>3. ASSUME NEW q \in S PROVE Drawn(q[1], q[2])
  <2>1. v.o.serve.is # "missing"
    BY <1>3
  <2>2. /\ v.o.serve.is = "object"
        /\ ParseDeliveryFields(o).is = "ok" /\ rule.delivery = ParseDeliveryFields(o).val
        /\ ParseBehavior(o).is = "ok" /\ rule.behavior = ParseBehavior(o).val
    BY <1>1, <2>1, ServeParsed
  <2>3. IsServe(o)
    BY <1>1, <2>2 DEF IsRuleValue
  <2>4. IsDelivery(o)
    BY <2>3 DEF IsServe
  <2>5. \/ q \in DeliveryQuantities(o, ParseDeliveryFields(o).val)
        \/ q \in BehaviorQuantities(o, ParseBehavior(o).val)
    BY <1>3, <2>1, <2>2
  <2> HIDE DEF o
  <2>6. QED  BY <2>2, <2>3, <2>4, <2>5, DeliveryDraws, BehaviorDraws
<1>4. ASSUME NEW i \in shaped, NEW q \in E(i) PROVE Drawn(q[1], q[2])
  <2> DEFINE l == v.o.chaos.l
             field == l[i].o.serve
  <2>1. /\ v.o.chaos.is = "list" /\ i \in DOMAIN l /\ ParseChaosEntry(l, i).is = "ok"
        /\ rule.chaos[i] = ParseChaosEntry(l, i).val /\ rule.chaos[i].serve # None
    BY RuleChaos
  <2>2. /\ l[i].is = "object" /\ field.is = "object" /\ ParseDeliveryFields(field.o).is = "ok"
        /\ rule.chaos[i].serve.val = ParseDeliveryFields(field.o).val
    <3> HIDE DEF rule, l
    <3>1. QED  BY <2>1, EntryParsed
  <2>3. IsDelivery(field.o)
    BY <1>1, <2>1, <2>2 DEF IsRuleValue
  <2>4. q \in DeliveryQuantities(field.o, ParseDeliveryFields(field.o).val)
    BY <1>4, <2>2
  <2> HIDE DEF field
  <2>5. QED  BY <2>2, <2>3, <2>4, DeliveryDraws
<1> HIDE DEF rule, S, E, shaped
<1>5. ASSUME NEW q \in Quantities(rule) PROVE Drawn(q[1], q[2])
  <2>1. q \in S \/ \E i \in shaped : q \in E(i)
    BY <1>2
  <2>2. QED  BY <1>3, <1>4, <2>1
<1>6. \A k \in 0 .. Draws - 1 : k \in 0 .. Draws
  BY UnitsAssumption
<1>7. \A q \in Quantities(rule), k \in 0 .. Draws - 1 : Allows(q[1], Sample(q[2], k))
  BY <1>5, <1>6 DEF Drawn
<1>8. QED  BY <1>7 DEF DrawsAsWritten, rule

\* The rolls at which an entry is selected, and whether any entry is.
LEMMA ChaosPicks ==
  ASSUME NEW chaos, ChaosOK(chaos)
  PROVE  /\ Shares(chaos)
         /\ Summable(chaos, Len(chaos)) =>
              \A at \in 0 .. Hundred - 1 :
                at < Cumulative(chaos)[Len(chaos)] <=> \E i \in DOMAIN chaos : Picks(chaos, at, i)
<1> DEFINE c == Cumulative(chaos)
           n == Len(chaos)
<1>1. n \in Nat /\ DOMAIN chaos = 1 .. n /\ \A i \in 1 .. n : Steps(chaos[i].p) \in Nat
  BY LenProperties DEF ChaosOK, IsList, IsPercentage, Steps
<1>2. /\ c[0] = 0 /\ \A i \in 1 .. n : c[i] = c[i - 1] + Steps(chaos[i].p)
      /\ \A i \in 0 .. n : c[i] \in Nat /\ \A j \in 0 .. i : c[j] <= c[i]
  BY <1>1, SumsRise
<1>3. \A i \in 1 .. n : Summable(chaos, i) => c[i] <= Hundred
  BY <1>1 DEF ChaosOK
<1>4. \A at, i : Picks(chaos, at, i) <=> Summable(chaos, i) /\ c[i - 1] <= at /\ at < c[i]
  BY DEF Picks
<1> HIDE DEF c, n
<1>5. ASSUME NEW e \in 1 .. n, Summable(chaos, e)
      PROVE  Share(chaos, e) = chaos[e].p.tenths
  <2>1. /\ c[e - 1] \in Nat /\ c[e] = c[e - 1] + Steps(chaos[e].p) /\ Steps(chaos[e].p) \in Nat
        /\ c[e] <= Hundred /\ c[e] \in Nat
    <3>1. e - 1 \in 0 .. n /\ e \in 0 .. n
      BY <1>1
    <3>2. QED  BY <1>1, <1>2, <1>3, <1>5, <3>1
  <2>2. {at \in 0 .. Hundred - 1 : Picks(chaos, at, e)} = c[e - 1] .. c[e] - 1
    <3>1. ASSUME NEW at
          PROVE  at \in 0 .. Hundred - 1 /\ c[e - 1] <= at /\ at < c[e] <=> at \in c[e - 1] .. c[e] - 1
      <4> DEFINE lo == c[e - 1]
                 hi == c[e]
      <4>1. lo \in Nat /\ hi \in Nat /\ hi <= Hundred /\ Hundred \in Nat
        BY <2>1, RulesAssumption
      <4> HIDE DEF lo, hi
      <4>2. ASSUME at \in 0 .. Hundred - 1, lo <= at, at < hi PROVE at \in lo .. hi - 1
        BY ONLY <4>1, <4>2
      <4>3. ASSUME at \in lo .. hi - 1 PROVE at \in 0 .. Hundred - 1 /\ lo <= at /\ at < hi
        BY ONLY <4>1, <4>3
      <4>4. QED  BY <4>2, <4>3 DEF lo, hi
    <3>2. {at \in 0 .. Hundred - 1 : Picks(chaos, at, e)} =
            {at \in 0 .. Hundred - 1 : c[e - 1] <= at /\ at < c[e]}
      BY <1>4, <1>5
    <3>3. QED  BY <3>1, <3>2
  <2>3. Cardinality(c[e - 1] .. c[e] - 1) =
          IF c[e - 1] > c[e] - 1 THEN 0 ELSE (c[e] - 1) - c[e - 1] + 1
    <3>1. c[e - 1] \in Int /\ c[e] - 1 \in Int
      BY <2>1
    <3>2. QED  BY <3>1, FS_Interval
  <2>4. (IF c[e - 1] > c[e] - 1 THEN 0 ELSE (c[e] - 1) - c[e - 1] + 1) = Steps(chaos[e].p)
    BY <2>1
  <2>5. Steps(chaos[e].p) = chaos[e].p.tenths
    <3>1. e \in 1 .. e
      BY <1>1
    <3>2. QED  BY <1>5, <3>1 DEF Summable, Steps
  <2>6. QED  BY <2>2, <2>3, <2>4, <2>5 DEF Share
<1>6. ASSUME NEW e \in 1 .. n, ~Summable(chaos, e)
      PROVE  Share(chaos, e) = 0
  <2>1. {at \in 0 .. Hundred - 1 : Picks(chaos, at, e)} = {}
    BY <1>4, <1>6
  <2>2. QED  BY <2>1, FS_EmptySet DEF Share
<1>7. ASSUME Summable(chaos, n), NEW at \in 0 .. Hundred - 1
      PROVE  at < c[n] <=> \E i \in 1 .. n : Picks(chaos, at, i)
  <2>1. \A i \in 1 .. n : Summable(chaos, i)
    BY <1>1, <1>7 DEF Summable
  <2>2. ASSUME NEW i \in 1 .. n, Picks(chaos, at, i) PROVE at < c[n]
    <3>1. at < c[i] /\ c[i] <= c[n] /\ c[i] \in Nat /\ c[n] \in Nat
      BY <1>1, <1>2, <1>4, <2>2
    <3>2. at \in Int
      BY RulesAssumption
    <3>3. QED  BY <3>1, <3>2
  <2>3. ASSUME at < c[n] PROVE \E i \in 1 .. n : Picks(chaos, at, i)
    <3> DEFINE S == {i \in 0 .. n : at < c[i]}
    <3>1. S \in SUBSET Nat /\ n \in S
      BY <1>1, <2>3
    <3>2. PICK i \in S : \A j \in S : i <= j
      <4> HIDE DEF S
      <4>1. S # {}
        BY <3>1
      <4>2. QED  BY <3>1, <4>1, Least
    <3>3. i \in 1 .. n /\ at < c[i]
      <4>1. at \in Nat /\ at < c[i] /\ i \in 0 .. n
        BY <3>2, RulesAssumption
      <4>2. i # 0
        BY <1>2, <4>1
      <4>3. QED  BY <1>1, <4>1, <4>2
    <3>4. i - 1 \notin S
      <4>1. i \in Nat /\ ~(i <= i - 1)
        BY <3>3
      <4> HIDE DEF S
      <4>2. QED  BY <3>2, <4>1
    <3>5. i - 1 \in 0 .. n /\ c[i - 1] \in Nat
      BY <1>1, <1>2, <3>3
    <3>6. c[i - 1] <= at
      <4>1. at \in Nat
        BY RulesAssumption
      <4>2. QED  BY <3>4, <3>5, <4>1
    <3>7. QED  BY <1>4, <2>1, <3>3, <3>6
  <2>4. QED  BY <2>2, <2>3
<1>8. QED  BY <1>1, <1>5, <1>6, <1>7 DEF Shares, c, n

\* The warning about chaos: it is sent if chaos takes all, and if it is sent
\* chaos leaves less than the tolerance.
LEMMA NormalWarned ==
  ASSUME NEW chaos, ChaosOK(chaos)
  PROVE  /\ NeverNormal(chaos) /\ Summable(chaos, Len(chaos)) => SumsToHundred(chaos)
         /\ SumsToHundred(chaos) => Cardinality(NormalRolls(chaos)) < Tolerance
<1> DEFINE n == Len(chaos)
           total == Cumulative(chaos)[n]
           Taken(at) == \E i \in DOMAIN chaos : Picks(chaos, at, i)
<1>1. ASSUME NEW at PROVE ResolveChaos(chaos, at) # Normal <=> Taken(at)
  <2>1. CASE Taken(at)
    <3> DEFINE i == CHOOSE i \in DOMAIN chaos : Picks(chaos, at, i)
    <3>1. i \in DOMAIN chaos
      BY <2>1
    <3>2. chaos[i].reply # None \/ chaos[i].serve # None
      BY <3>1 DEF ChaosOK
    <3>3. ResolveChaos(chaos, at) = [reply |-> chaos[i].reply, serve |-> chaos[i].serve]
      BY <2>1 DEF ResolveChaos
    <3>4. QED  BY <2>1, <3>2, <3>3 DEF Normal
  <2>2. CASE ~Taken(at)
    BY <2>2 DEF ResolveChaos
  <2>3. QED  BY <2>1, <2>2
<1>2. n \in Nat /\ DOMAIN chaos = 1 .. n /\ \A i \in 1 .. n : Steps(chaos[i].p) \in Nat
  BY LenProperties DEF ChaosOK, IsList, IsPercentage, Steps
<1>3. total \in Nat /\ Hundred \in Nat \ {0} /\ Tolerance \in Nat \ {0}
  <2>1. n \in 0 .. n
    BY <1>2
  <2>2. QED  BY <1>2, <2>1, SumsRise, RulesAssumption
<1>4. chaos = <<>> => total = 0
  <2>1. ASSUME chaos = <<>> PROVE total = 0
    <3>1. n = 0
      BY <2>1, EmptySeq
    <3>2. QED  BY <1>2, <3>1, SumsRise
  <2>2. QED  BY <2>1
<1>5. Summable(chaos, n) => total <= Hundred
  <2>1. CASE n = 0
    <3>1. total = 0
      BY <1>2, <2>1, SumsRise
    <3>2. QED  BY <1>3, <3>1
  <2>2. CASE n # 0
    BY <1>2, <2>2 DEF ChaosOK
  <2>3. QED  BY <2>1, <2>2
<1>6. Summable(chaos, n) => NormalRolls(chaos) = total .. Hundred - 1
  <2> SUFFICES ASSUME Summable(chaos, n) PROVE NormalRolls(chaos) = total .. Hundred - 1
    OBVIOUS
  <2>1. \A at \in 0 .. Hundred - 1 : ResolveChaos(chaos, at) = Normal <=> ~(at < total)
    BY <1>1, ChaosPicks
  <2>2. NormalRolls(chaos) = {at \in 0 .. Hundred - 1 : ~(at < total)}
    BY <2>1 DEF NormalRolls
  <2> HIDE DEF total
  <2>3. {at \in 0 .. Hundred - 1 : ~(at < total)} = total .. Hundred - 1
    BY <1>3
  <2>4. QED  BY <2>2, <2>3
<1>7. /\ SumsToHundred(chaos) <=>
           /\ chaos # <<>> /\ Summable(chaos, n)
           /\ total - Hundred < Tolerance /\ 0 - (total - Hundred) < Tolerance
      /\ NeverNormal(chaos) <=> NormalRolls(chaos) = {}
  BY DEF SumsToHundred, NeverNormal
<1> HIDE DEF total, n
<1>8. ASSUME NeverNormal(chaos), Summable(chaos, n) PROVE SumsToHundred(chaos)
  <2>1. total .. Hundred - 1 = {}
    BY <1>6, <1>7, <1>8
  <2>2. ~(total <= Hundred - 1)
    <3>1. total <= Hundred - 1 => total \in total .. Hundred - 1
      BY <1>3
    <3>2. QED  BY <2>1, <3>1
  <2>3. total = Hundred
    BY <1>3, <1>5, <1>8, <2>2
  <2>4. QED  BY <1>3, <1>4, <1>7, <1>8, <2>3
<1>9. ASSUME SumsToHundred(chaos) PROVE Cardinality(NormalRolls(chaos)) < Tolerance
  <2>1. total <= Hundred /\ NormalRolls(chaos) = total .. Hundred - 1 /\ Hundred - total < Tolerance
    BY <1>3, <1>5, <1>6, <1>7, <1>9
  <2>2. total \in Int /\ Hundred - 1 \in Int
    BY <1>3
  <2>3. Cardinality(total .. Hundred - 1) =
          IF total > Hundred - 1 THEN 0 ELSE (Hundred - 1) - total + 1
    BY <2>2, FS_Interval
  <2>4. QED  BY <1>3, <2>1, <2>3
<1>10. QED  BY <1>8, <1>9 DEF n

-----------------------------------------------------------------------------
(***************************************************************************)
(* Warnings                                                                *)
(***************************************************************************)

\* Comparing the ends of the drop and the pace, in whole milliseconds,
\* compares all of their draws to the millisecond.
LEMMA EarlyDrops ==
  ASSUME NEW drop, NEW pace,
         drop.is = "time" => drop.range.lo \in Nat /\ drop.range.hi \in Nat /\ drop.range.lo <= drop.range.hi,
         pace.is = "duration" => pace.range.lo \in Nat /\ pace.range.hi \in Nat /\ pace.range.lo <= pace.range.hi
  PROVE  /\ DropsEarly(drop, pace) => DropsBefore(drop, pace, 1)
         /\ DropsBefore(drop, pace, 10) => DropsEarly(drop, pace)
<1> DEFINE a == drop.range
           b == pace.range
<1>1. CASE ~(drop.is = "time" /\ pace.is = "duration")
  BY <1>1 DEF DropsEarly, DropsBefore
<1>2. CASE drop.is = "time" /\ pace.is = "duration"
  <2>1. /\ DropsEarly(drop, pace) <=> AsMillis(a.lo) < AsMillis(b.hi)
        /\ \A ticks : DropsBefore(drop, pace, ticks) <=>
             \E j, k \in 0 .. Draws : Sample(a, j) + ticks <= Sample(b, k)
    BY <1>2 DEF DropsEarly, DropsBefore
  <2>2. a.lo \in Nat /\ a.hi \in Nat /\ a.lo <= a.hi /\ b.lo \in Nat /\ b.hi \in Nat /\ b.lo <= b.hi
    BY <1>2
  <2> HIDE DEF a, b
  <2>3. 0 \in 0 .. Draws /\ Draws \in 0 .. Draws
    BY UnitsAssumption
  <2>4. Sample(a, 0) = a.lo /\ Sample(b, Draws) = b.hi
    BY <2>2, SampleBetween
  <2>5. ASSUME AsMillis(a.lo) < AsMillis(b.hi)
        PROVE  \E j, k \in 0 .. Draws : Sample(a, j) + 1 <= Sample(b, k)
    <3>1. a.lo \div 10 < b.hi \div 10
      BY <2>5 DEF AsMillis
    <3>2. a.lo + 1 <= b.hi
      <4> DEFINE x == a.lo
                 y == b.hi
      <4>1. x \in Nat /\ y \in Nat /\ x \div 10 < y \div 10
        BY <2>2, <3>1
      <4> HIDE DEF x, y
      <4>2. x + 1 <= y
        BY ONLY <4>1
      <4>3. QED  BY <4>2 DEF x, y
    <3>3. QED  BY <2>3, <2>4, <3>2
  <2>6. ASSUME NEW j \in 0 .. Draws, NEW k \in 0 .. Draws, Sample(a, j) + 10 <= Sample(b, k)
        PROVE  AsMillis(a.lo) < AsMillis(b.hi)
    <3>1. Sample(a, j) \in Nat /\ a.lo <= Sample(a, j) /\ Sample(b, k) \in Nat /\ Sample(b, k) <= b.hi
      BY <2>2, SampleBetween
    <3> DEFINE x == a.lo
               y == b.hi
    <3>2. x \in Nat /\ y \in Nat /\ x + 10 <= y
      BY <2>2, <2>6, <3>1
    <3> HIDE DEF x, y
    <3>3. x \div 10 < y \div 10
      BY ONLY <3>2
    <3>4. QED  BY <3>3 DEF AsMillis, x, y
  <2>7. QED  BY <2>1, <2>5, <2>6
<1>3. QED  BY <1>1, <1>2

\* The warnings of an accepted rule say what they mean.
WarnsRightly(rule) ==
  LET drop == rule.delivery.drop
      pace == rule.delivery.pace
      warned == ValidateRule(rule)
  IN  /\ "truncated" \in warned => DropsBefore(drop, pace, 1)
      /\ DropsBefore(drop, pace, 10) => "truncated" \in warned
      /\ NeverNormal(rule.chaos) /\ Summable(rule.chaos, Len(rule.chaos)) => "never normal" \in warned
      /\ "never normal" \in warned => Cardinality(NormalRolls(rule.chaos)) < Tolerance

\* parse_rule gives a rule whose warnings do, and whose chaos entries have
\* their percentages of the rolls.
LEMMA RuleWarned ==
  ASSUME NEW v, NEW base, IsRuleValue(v), ParseRule(v, base).is = "ok"
  PROVE  WarnsRightly(ParseRule(v, base).val) /\ Shares(ParseRule(v, base).val.chaos)
<1> DEFINE rule == ParseRule(v, base).val
           o == v.o.serve.o
           serve == IF v.o.serve.is = "missing" THEN Ok(DefaultServe) ELSE ParseServe(v.o.serve)
<1>1. v.is = "object" /\ serve.is = "ok" /\ rule.delivery = serve.val.delivery
  BY RuleParsed
<1>2. ChaosOK(rule.chaos)
  BY RuleChaos
<1> HIDE DEF rule
<1> DEFINE d == rule.delivery
<1>3. /\ d.drop # None => d.drop.range.lo \in Nat /\ d.drop.range.hi \in Nat /\ d.drop.range.lo <= d.drop.range.hi
      /\ d.pace # None /\ d.pace.is # "chunk" =>
           d.pace.range.lo \in Nat /\ d.pace.range.hi \in Nat /\ d.pace.range.lo <= d.pace.range.hi
  <2>1. CASE v.o.serve.is = "missing"
    <3>1. d.drop = None /\ d.pace = None
      BY <1>1, <2>1 DEF DefaultServe, Serve, DefaultDelivery, Delivery, Ok
    <3>2. QED  BY <3>1
  <2>2. CASE v.o.serve.is # "missing"
    <3>1. v.o.serve.is = "object" /\ ParseDeliveryFields(o).is = "ok" /\ d = ParseDeliveryFields(o).val
      BY <1>1, <2>2, ServeParsed
    <3>2. IsDelivery(o)
      BY <1>1, <3>1 DEF IsRuleValue, IsServe
    <3> HIDE DEF d, o
    <3>3. /\ d.drop # None => Drawn(Inner(o.drop, "after").s, d.drop.range)
          /\ d.pace # None /\ d.pace.is # "chunk" => Drawn(o.pace.s, d.pace.range)
      BY <3>1, <3>2, DeliveryDrawn
    <3>4. QED  BY <3>3 DEF Drawn
  <2>3. QED  BY <2>1, <2>2
<1>4. /\ DropsEarly(d.drop, d.pace) => DropsBefore(d.drop, d.pace, 1)
      /\ DropsBefore(d.drop, d.pace, 10) => DropsEarly(d.drop, d.pace)
  <2>1. d.drop.is = "time" => d.drop # None
    BY DEF None
  <2>2. d.pace.is = "duration" => d.pace # None /\ d.pace.is # "chunk"
    BY DEF None
  <2> HIDE DEF d
  <2>3. QED  BY <1>3, <2>1, <2>2, EarlyDrops
<1>5. /\ "truncated" \in ValidateRule(rule) <=> DropsEarly(d.drop, d.pace)
      /\ "never normal" \in ValidateRule(rule) <=> SumsToHundred(rule.chaos)
  BY DEF ValidateRule
<1>6. /\ NeverNormal(rule.chaos) /\ Summable(rule.chaos, Len(rule.chaos)) => SumsToHundred(rule.chaos)
      /\ SumsToHundred(rule.chaos) => Cardinality(NormalRolls(rule.chaos)) < Tolerance
  BY <1>2, NormalWarned
<1>7. WarnsRightly(rule)
  BY <1>4, <1>5, <1>6 DEF WarnsRightly
<1>8. QED  BY <1>2, <1>7, ChaosPicks DEF rule

-----------------------------------------------------------------------------
(***************************************************************************)
(* Bodies, whole and in chunks                                             *)
(***************************************************************************)

\* The number of chunks of c that make up t: the last one begins before t,
\* and they reach t.
LEMMA ChunkCount ==
  ASSUME NEW c \in Nat \ {0}, NEW t \in Nat
  PROVE  LET k == (t + c - 1) \div c
         IN  k \in Nat /\ t <= k * c /\ (k # 0 => (k - 1) * c < t)
<1> DEFINE a == t + c - 1
           k == a \div c
<1>1. a \in Nat
  OBVIOUS
<1>2. k \in Nat /\ c * k <= a /\ a < c * k + c
  <2> HIDE DEF a
  <2>1. QED  BY <1>1, DivFacts
<1> HIDE DEF k
<1>3. k * c = c * k /\ (k - 1) * c = c * k - c /\ c * k \in Nat
  BY <1>2
<1>4. t <= c * k /\ c * k - c < t
  <2> DEFINE m == c * k
  <2>1. m \in Nat /\ m <= t + c - 1 /\ t + c - 1 < m + c
    BY <1>2, <1>3 DEF a
  <2> HIDE DEF m
  <2>2. t <= m /\ m - c < t
    BY <2>1
  <2>3. QED  BY <2>2 DEF m
<1>5. QED  BY <1>2, <1>3, <1>4 DEF k

\* The first m bytes of a body.
First(body, m) == [n \in 1 .. m |-> body[n]]

\* And the k bytes behind them.
Piece(body, m, k) == [n \in 1 .. k |-> body[m + n]]

\* Two pieces, one behind the other.
LEMMA FirstJoined ==
  ASSUME NEW body, NEW m \in Nat, NEW k \in Nat
  PROVE  First(body, m) \o Piece(body, m, k) = First(body, m + k)
<1> DEFINE piece == Piece(body, m, k)
           S == {body[n] : n \in 1 .. m + k}
           whole == First(body, m) \o piece
<1>1. /\ First(body, m) \in Seq(S) /\ Len(First(body, m)) = m
      /\ piece \in Seq(S) /\ Len(piece) = k
  <2>1. First(body, m) \in [1 .. m -> S]
    BY DEF First
  <2>2. piece \in [1 .. k -> S]
    <3>1. \A n \in 1 .. k : m + n \in 1 .. m + k
      OBVIOUS
    <3>2. QED  BY <3>1 DEF Piece
  <2> HIDE DEF S
  <2>3. First(body, m) \in Seq(S) /\ piece \in Seq(S)
    BY ONLY <2>1, <2>2, m \in Nat, k \in Nat, SeqDef
  <2>4. DOMAIN First(body, m) = 1 .. m /\ DOMAIN piece = 1 .. k
    BY <2>1, <2>2
  <2>5. QED  BY <2>3, <2>4, LenProperties
<1>2. whole = [n \in 1 .. m + k |-> IF n <= m THEN First(body, m)[n] ELSE piece[n - m]]
  <2> DEFINE u == First(body, m)
  <2> HIDE DEF S, u
  <2>1. /\ whole \in Seq(S) /\ Len(whole) = m + k
        /\ \A n \in 1 .. m + k : whole[n] = IF n <= m THEN First(body, m)[n] ELSE piece[n - m]
    <3>1. u \in Seq(S) /\ piece \in Seq(S) /\ Len(u) = m /\ Len(piece) = k
      BY <1>1 DEF u
    <3>2. /\ u \o piece \in Seq(S) /\ Len(u \o piece) = Len(u) + Len(piece)
          /\ \A n \in 1 .. Len(u) + Len(piece) :
               (u \o piece)[n] = IF n <= Len(u) THEN u[n] ELSE piece[n - Len(u)]
      BY ONLY <3>1, ConcatProperties
    <3>3. QED  BY ONLY <3>1, <3>2 DEF u
  <2> HIDE DEF whole
  <2>2. whole = [n \in 1 .. m + k |-> whole[n]]
    BY <2>1, LenProperties
  <2>3. QED  BY <2>1, <2>2
<1>3. ASSUME NEW n \in 1 .. m + k
      PROVE  (IF n <= m THEN First(body, m)[n] ELSE piece[n - m]) = body[n]
  <2>1. CASE n <= m
    BY <2>1 DEF First
  <2>2. CASE ~(n <= m)
    <3>1. n - m \in 1 .. k /\ m + (n - m) = n
      BY <2>2
    <3>2. QED  BY <2>2, <3>1 DEF Piece
  <2>3. QED  BY <2>1, <2>2
<1>4. QED  BY <1>2, <1>3 DEF First

\* The length of chunk i of chunks of c from t bytes.
PieceLen(c, t, i) == IF t - (i - 1) * c < c THEN t - (i - 1) * c ELSE c

\* What lies before chunk i, with it, is what lies before the next.
LEMMA PieceFits ==
  ASSUME NEW c \in Nat \ {0}, NEW t \in Nat, NEW i \in 1 .. (t + c - 1) \div c
  PROVE  /\ (i - 1) * c \in Nat /\ PieceLen(c, t, i) \in Nat
         /\ (i - 1) * c + PieceLen(c, t, i) <= t
         /\ (i - 1) * c + PieceLen(c, t, i) = IF i = (t + c - 1) \div c THEN t ELSE i * c
<1> DEFINE k == (t + c - 1) \div c
           before == (i - 1) * c
<1>1. k \in Nat /\ t <= k * c /\ (k # 0 => (k - 1) * c < t)
  BY ChunkCount
<1>2. i \in Nat \ {0} /\ i <= k /\ k # 0
  BY <1>1
<1> HIDE DEF k
<1>3. before \in Nat /\ i * c \in Nat /\ i * c = before + c
  BY <1>2
<1>4. CASE i = k
  <2>1. before < t /\ t <= before + c
    BY <1>1, <1>2, <1>3, <1>4
  <2> HIDE DEF before
  <2>2. PieceLen(c, t, i) = t - before
    BY <1>3, <2>1 DEF PieceLen, before
  <2>3. QED  BY <1>3, <1>4, <2>1, <2>2 DEF k, before
<1>5. CASE i # k
  <2>1. c * i <= c * (k - 1)
    BY <1>1, <1>2, <1>5, TimesFacts
  <2>2. i * c < t
    <3>1. c * i = i * c /\ c * (k - 1) = (k - 1) * c /\ (k - 1) * c \in Nat
      BY <1>1, <1>2
    <3>2. QED  BY <1>1, <1>2, <1>3, <2>1, <3>1
  <2>3. PieceLen(c, t, i) = c
    <3> HIDE DEF before
    <3>1. ~(t - before < c)
      BY <1>3, <2>2
    <3>2. QED  BY <3>1 DEF PieceLen, before
  <2> HIDE DEF before
  <2>4. before + c <= t
    BY <1>3, <2>2
  <2>5. QED  BY <1>3, <1>5, <2>3, <2>4 DEF k, before
<1>6. QED  BY <1>4, <1>5

\* All pieces of c of the first t bytes.
Pieces(body, t, c) ==
  [i \in 1 .. (t + c - 1) \div c |-> Piece(body, (i - 1) * c, PieceLen(c, t, i))]

\* Joined, they make up the body.
LEMMA PiecesJoin ==
  ASSUME NEW body, NEW t \in Nat, body = First(body, t), NEW c \in Nat \ {0}
  PROVE  SE!FlattenSeq(Pieces(body, t, c)) = body
<1> DEFINE chunks == Pieces(body, t, c)
           k == (t + c - 1) \div c
           Reached(i) == IF i = k THEN t ELSE i * c
           g == [i \in 1 .. k |-> First(body, Reached(i))]
           IsFlat(f) == f = [i \in 1 .. k |-> IF i = 1 THEN chunks[i] ELSE f[i - 1] \o chunks[i]]
           f == CHOOSE f : IsFlat(f)
<1>1. k \in Nat /\ Len(chunks) = k
  <2>1. k \in Nat
    BY ChunkCount
  <2>2. chunks = [i \in 1 .. k |-> chunks[i]]
    BY DEF Pieces
  <2> HIDE DEF k, chunks
  <2>3. DOMAIN chunks = 1 .. k
    BY <2>2
  <2>4. QED  BY <2>1, <2>3
<1>2. SE!FlattenSeq(chunks) = IF k = 0 THEN chunks ELSE f[k]
  <2> DEFINE n == Len(chunks)
             flat == CHOOSE x : x = [i \in 1 .. n |-> IF i = 1 THEN chunks[i] ELSE x[i - 1] \o chunks[i]]
  <2>1. SE!FlattenSeq(chunks) = IF n = 0 THEN chunks ELSE flat[n]
    BY ONLY DEF SE!FlattenSeq
  <2>2. n = k
    BY <1>1
  <2>3. QED  BY ONLY <2>1, <2>2
<1>3. ASSUME NEW i \in 1 .. k
      PROVE  IF i = 1 THEN chunks[i] = First(body, Reached(i))
             ELSE First(body, Reached(i - 1)) \o chunks[i] = First(body, Reached(i))
  <2> DEFINE m == (i - 1) * c
             l == PieceLen(c, t, i)
  <2>1. m \in Nat /\ l \in Nat /\ m + l = Reached(i)
    BY PieceFits
  <2>2. chunks[i] = Piece(body, m, l)
    BY DEF Pieces
  <2>3. First(body, m) \o chunks[i] = First(body, Reached(i))
    <3> HIDE DEF m, l, Reached
    <3>1. First(body, m) \o Piece(body, m, l) = First(body, m + l)
      BY <2>1, FirstJoined
    <3>2. QED  BY <2>1, <2>2, <3>1
  <2>4. CASE i = 1
    <3>1. m = 0
      BY <2>4
    <3> HIDE DEF m, l, Reached
    <3>2. \A n \in 1 .. l : m + n = n
      BY <2>1, <3>1
    <3>3. chunks[i] = First(body, l)
      BY <2>2, <3>2 DEF First, Piece
    <3>4. l = Reached(i)
      BY <2>1, <3>1
    <3>5. QED  BY <2>4, <3>3, <3>4
  <2>5. CASE i # 1
    <3>1. Reached(i - 1) = m
      BY <1>1, <2>5
    <3>2. QED  BY <2>3, <2>5, <3>1
  <2>6. QED  BY <2>4, <2>5
<1> HIDE DEF k, Reached
<1>4. IsFlat(g)
  <2>1. ASSUME NEW i \in 1 .. k
        PROVE  g[i] = IF i = 1 THEN chunks[i] ELSE g[i - 1] \o chunks[i]
    <3>1. i # 1 => i - 1 \in 1 .. k
      BY <1>1
    <3>2. QED  BY <1>3, <3>1
  <2> HIDE DEF g
  <2>2. g = [i \in 1 .. k |-> g[i]]
    BY DEF g
  <2>3. QED  BY <2>1, <2>2
<1>5. IsFlat(f)
  <2> HIDE DEF g, IsFlat
  <2>1. QED  BY <1>4
<1> HIDE DEF f
<1>6. CASE k = 0
  <2>1. t = 0
    BY <1>6, ChunkCount DEF k
  <2>2. body = <<>> /\ chunks = <<>>
    BY <1>6, <2>1 DEF First, k, Pieces
  <2>3. QED  BY <1>2, <1>6, <2>2
<1>7. CASE k # 0
  <2> DEFINE S == {m \in 0 .. k : m = 0 \/ f[m] = First(body, Reached(m))}
  <2>1. 0 \in S
    BY <1>1
  <2>2. ASSUME NEW m \in 1 .. k, m - 1 \in S PROVE m \in S
    <3>1. f[m] = IF m = 1 THEN chunks[m] ELSE f[m - 1] \o chunks[m]
      BY <1>5
    <3>2. m # 1 => f[m - 1] = First(body, Reached(m - 1))
      BY <2>2
    <3>3. f[m] = First(body, Reached(m))
      BY <1>3, <3>1, <3>2
    <3>4. QED  BY <1>1, <3>3
  <2>3. k \in S
    <3>1. k \in 0 .. k
      BY <1>1
    <3> HIDE DEF S
    <3>2. QED  BY <1>1, <2>1, <2>2, <3>1, Upto
  <2>4. f[k] = First(body, t)
    BY <1>7, <2>3 DEF Reached
  <2>5. QED  BY <1>2, <1>7, <2>4
<1>8. QED  BY <1>6, <1>7

\* A part of a sequence is such a piece.
LEMMA PieceIsPart ==
  ASSUME NEW body, NEW m \in Nat, NEW k \in Nat
  PROVE  SubSeq(body, m + 1, m + k) = Piece(body, m, k)
<1> DEFINE S == {body[i] : i \in m + 1 .. m + k}
           part == SubSeq(body, m + 1, m + k)
<1>1. /\ part \in Seq(S)
      /\ Len(part) = IF m + 1 <= m + k THEN (m + k) - (m + 1) + 1 ELSE 0
      /\ \A i \in 1 .. (m + k) - (m + 1) + 1 : part[i] = body[(m + 1) + i - 1]
  <2>1. m + 1 \in Int /\ m + k \in Int /\ \A i \in m + 1 .. m + k : body[i] \in S
    OBVIOUS
  <2> HIDE DEF S
  <2>2. QED  BY <2>1, SubSeqProperties
<1> HIDE DEF S, part
<1>2. (m + k) - (m + 1) + 1 = k /\ (m + 1 <= m + k <=> k # 0)
  OBVIOUS
<1>3. Len(part) = k /\ \A i \in 1 .. k : part[i] = body[m + i]
  <2>1. \A i \in 1 .. k : (m + 1) + i - 1 = m + i
    OBVIOUS
  <2>2. QED  BY <1>1, <1>2, <2>1
<1>4. part = [i \in 1 .. k |-> part[i]]
  BY <1>1, <1>3, LenProperties
<1>5. QED  BY <1>3, <1>4 DEF Piece, part

\* A fill of whole words takes as many bytes as it gives.
LEMMA WordsFilled ==
  ASSUME NEW c \in Nat \ {0}, c % Word = 0
  PROVE  Filled(c) = c
<1> DEFINE q == c \div Word
<1>1. Word \in Nat \ {0}
  BY BodiesAssumption
<1>2. q \in Nat /\ c = Word * q + 0
  BY <1>1, ModSplit
<1> HIDE DEF q
<1>3. (Word * q + (Word - 1)) \div Word = q
  BY <1>1, <1>2
<1>4. c + Word - 1 = Word * q + (Word - 1)
  BY <1>1, <1>2
<1>5. Filled(c) = q * Word
  BY <1>3, <1>4 DEF Filled
<1>6. QED  BY <1>1, <1>2, <1>5

\* What parse_body and resolve_reflect promise of a body.
BodyOK(b) ==
  /\ b.is \in {"none", "literal", "rand", "pattern", "file", "reflect"}
  /\ b.is = "literal" => IsList(b.bytes)
  /\ b.is \in {"rand", "pattern"} => b.size \in Nat

\* A body is as long as it is said to be.
LEMMA BodyLong ==
  ASSUME NEW b, BodyOK(b), b.is # "reflect", b.is = "file" => b.path \in DOMAIN Files
  PROVE  BodySize(b) \in Nat /\ GenerateBody(b).val = First(GenerateBody(b).val, BodySize(b))
<1>1. ASSUME NEW l, IsList(l) PROVE Len(l) \in Nat /\ l = First(l, Len(l))
  BY <1>1, LenProperties DEF IsList, First
<1>2. CASE b.is = "none"
  <2>1. GenerateBody(b).val = <<>> /\ BodySize(b) = 0
    BY <1>2 DEF GenerateBody, BodySize, Ok
  <2>2. QED  BY <2>1 DEF First
<1>3. CASE b.is = "literal"
  <2>1. GenerateBody(b).val = b.bytes /\ BodySize(b) = Len(b.bytes)
    BY <1>3 DEF GenerateBody, BodySize, Ok
  <2>2. QED  BY <1>1, <1>3, <2>1 DEF BodyOK
<1>4. CASE b.is = "rand"
  <2>1. GenerateBody(b).val = [n \in 1 .. b.size |-> RandByte(b.seed, n - 1)] /\ BodySize(b) = b.size
    BY <1>4 DEF GenerateBody, BodySize, Ok
  <2>2. QED  BY <1>4, <2>1 DEF BodyOK, First
<1>5. CASE b.is = "pattern"
  <2>1. /\ GenerateBody(b).val = [n \in 1 .. b.size |-> PatternByte(b.repeat, n - 1)]
        /\ BodySize(b) = b.size
    BY <1>5 DEF GenerateBody, BodySize, Ok
  <2>2. QED  BY <1>5, <2>1 DEF BodyOK, First
<1>6. CASE b.is = "file"
  <2>1. GenerateBody(b).val = Files[b.path] /\ BodySize(b) = Len(Files[b.path])
    BY <1>6 DEF GenerateBody, BodySize, Ok, FileBytes
  <2>2. IsList(Files[b.path])
    BY <1>6, BodiesAssumption, Listed
  <2>3. QED  BY <1>1, <2>1, <2>2
<1>7. QED  BY <1>2, <1>3, <1>4, <1>5, <1>6 DEF BodyOK

\* Read in chunks it is the same body: random bytes if the chunks take whole
\* words or there is one of them.
LEMMA ChunksAreBody ==
  ASSUME NEW b, BodyOK(b), b.is # "reflect", b.is = "file" => b.path \in DOMAIN Files,
         NEW size \in Nat, NEW c, c = IF size = 0 THEN 1 ELSE size,
         b.is = "rand" => c % Word = 0 \/ b.size <= c
  PROVE  SE!FlattenSeq(BodyChunks(b, size)) = GenerateBody(b).val
<1> DEFINE body == GenerateBody(b).val
           t == BodySize(b)
           k == (t + c - 1) \div c
           chunks == BodyChunks(b, size)
<1>1. t \in Nat /\ body = First(body, t) /\ c \in Nat \ {0}
  BY BodyLong
<1>2. chunks = [i \in 1 .. k |-> BodyChunk(b, c, (i - 1) * c, PieceLen(c, t, i))]
  BY DEF BodyChunks, PieceLen
<1> HIDE DEF body, t, chunks
<1>3. ASSUME NEW i \in 1 .. k
      PROVE  BodyChunk(b, c, (i - 1) * c, PieceLen(c, t, i)) = Piece(body, (i - 1) * c, PieceLen(c, t, i))
  <2> DEFINE m == (i - 1) * c
             l == PieceLen(c, t, i)
  <2>1. m \in Nat /\ l \in Nat /\ m + l <= t
    BY <1>1, PieceFits
  <2>2. \A n \in 1 .. l : m + n \in 1 .. t
    <3> HIDE DEF m, l
    <3>1. QED  BY <1>1, <2>1
  <2>3. CASE b.is = "rand"
    <3>1. t = b.size /\ body = [n \in 1 .. b.size |-> RandByte(b.seed, n - 1)]
      BY <2>3 DEF t, body, BodySize, GenerateBody, Ok
    <3>2. (m \div c) * Filled(c) = m
      <4>1. i - 1 \in Nat /\ m \div c = i - 1
        <5>1. i - 1 \in Nat
          OBVIOUS
        <5>2. QED  BY <1>1, <5>1, DivFacts
      <4>2. CASE c % Word = 0
        BY <1>1, <4>1, <4>2, WordsFilled
      <4>3. CASE b.size <= c
        <5>1. k \in Nat /\ (k # 0 => (k - 1) * c < t)
          BY <1>1, ChunkCount
        <5> HIDE DEF k
        <5>2. ASSUME i # 1 PROVE FALSE
          <6>1. k - 1 \in Nat /\ 1 <= k - 1 /\ k # 0
            BY <5>1, <5>2
          <6>2. c * 1 <= c * (k - 1)
            BY <1>1, <6>1, TimesFacts
          <6>3. c * 1 = c /\ c * (k - 1) = (k - 1) * c /\ (k - 1) * c \in Nat
            BY <1>1, <6>1
          <6>4. QED  BY <1>1, <3>1, <4>3, <5>1, <6>1, <6>2, <6>3
        <5>3. i - 1 = 0 /\ m = 0
          BY <1>1, <5>2
        <5>4. Filled(c) \in Int
          <6>1. Word \in Nat \ {0} /\ c + Word - 1 \in Nat
            BY <1>1, BodiesAssumption
          <6>2. (c + Word - 1) \div Word \in Nat
            BY <6>1, DivFacts
          <6>3. QED  BY <6>1, <6>2, TimesFacts DEF Filled
        <5>5. QED  BY <4>1, <5>3, <5>4
      <4>4. QED  BY <2>3, <4>2, <4>3
    <3>3. BodyChunk(b, c, m, l) = [n \in 1 .. l |-> RandByte(b.seed, m + n - 1)]
      BY <2>3, <3>2 DEF BodyChunk
    <3> HIDE DEF m, l
    <3>4. \A x \in 1 .. t : body[x] = RandByte(b.seed, x - 1)
      BY <3>1
    <3>5. ASSUME NEW n \in 1 .. l PROVE RandByte(b.seed, m + n - 1) = body[m + n]
      <4>1. m + n \in 1 .. t /\ m + n - 1 = (m + n) - 1
        BY <2>1, <2>2
      <4>2. QED  BY <3>4, <4>1
    <3>6. BodyChunk(b, c, m, l) = Piece(body, m, l)
      BY <3>3, <3>5 DEF Piece
    <3>7. QED  BY <3>6 DEF m, l
  <2>4. CASE b.is = "pattern"
    <3>1. t = b.size /\ body = [n \in 1 .. b.size |-> PatternByte(b.repeat, n - 1)]
      BY <2>4 DEF t, body, BodySize, GenerateBody, Ok
    <3>2. BodyChunk(b, c, m, l) = [n \in 1 .. l |-> PatternByte(b.repeat, m + n - 1)]
      BY <2>4 DEF BodyChunk
    <3> HIDE DEF m, l
    <3>3. \A x \in 1 .. t : body[x] = PatternByte(b.repeat, x - 1)
      BY <3>1
    <3>4. ASSUME NEW n \in 1 .. l PROVE PatternByte(b.repeat, m + n - 1) = body[m + n]
      <4>1. m + n \in 1 .. t /\ m + n - 1 = (m + n) - 1
        BY <2>1, <2>2
      <4>2. QED  BY <3>3, <4>1
    <3>5. BodyChunk(b, c, m, l) = Piece(body, m, l)
      BY <3>2, <3>4 DEF Piece
    <3>6. QED  BY <3>5 DEF m, l
  <2>5. CASE b.is \notin {"rand", "pattern"}
    <3>1. BodyChunk(b, c, m, l) = SubSeq(body, m + 1, m + l)
      BY <2>5 DEF BodyChunk, body
    <3> HIDE DEF m, l
    <3>2. QED  BY <2>1, <3>1, PieceIsPart DEF m, l
  <2>6. QED  BY <2>3, <2>4, <2>5
<1>4. chunks = Pieces(body, t, c)
  BY <1>2, <1>3 DEF Pieces
<1>5. SE!FlattenSeq(chunks) = body
  BY <1>1, <1>4, PiecesJoin
<1>6. QED  BY <1>5 DEF chunks, body

-----------------------------------------------------------------------------
(***************************************************************************)
(* The bodies of an accepted rule                                          *)
(***************************************************************************)

\* parse_rand_body: a size that fits its type.
LEMMA RandParsed ==
  ASSUME NEW o, o.size.is = "text" => IsQuantity(o.size.s), ParseRandBody(o).is = "ok"
  PROVE  BodyOK(ParseRandBody(o).val)
<1> DEFINE size == IF o.size.is = "text" THEN ParseByteSize(o.size.s) ELSE Error
           seed == IF o.seed.is = "number" /\ o.seed.n >= 0 THEN Ok(o.seed) ELSE Error
           outcomes == <<size, seed>>
           val == RandBody(size.val, seed.val.n)
<1>1. ParseRandBody(o) = Outcome(outcomes, val)
  <2> DEFINE vals == [i \in DOMAIN outcomes |-> outcomes[i].val]
  <2>1. ParseRandBody(o) = Outcome(outcomes, RandBody(vals[1], vals[2].n))
    BY DEF ParseRandBody, All, Outcome, FromText, Check
  <2> HIDE DEF size, seed
  <2>2. vals[1] = size.val /\ vals[2] = seed.val
    OBVIOUS
  <2>3. QED  BY <2>1, <2>2
<1> HIDE DEF size, seed
<1>2. DOMAIN outcomes \in SUBSET Nat /\ 1 \in DOMAIN outcomes /\ outcomes[1] = size
  OBVIOUS
<1>3. size.is = "ok" /\ ParseRandBody(o).val = val
  <2> HIDE DEF outcomes, val
  <2>1. QED  BY <1>1, <1>2, AllOk
<1>4. o.size.is = "text" /\ size = ParseByteSize(o.size.s)
  BY <1>3 DEF size, Error, Refused
<1>5. size.val \in Nat
  <2>1. size.val \in 0 .. MaxU64
    BY <1>3, <1>4, SizeParsed
  <2>2. QED  BY <2>1, UnitsAssumption
<1>6. QED  BY <1>3, <1>5 DEF RandBody, BodyOK

\* So has parse_pattern_body.
LEMMA PatternParsed ==
  ASSUME NEW o, o.size.is = "text" => IsQuantity(o.size.s), ParsePatternBody(o).is = "ok"
  PROVE  BodyOK(ParsePatternBody(o).val)
<1> DEFINE repeat == IF o.repeat.is = "text"
                     THEN IF o.repeat.s # <<>> THEN Ok(o.repeat.s) ELSE Error ELSE Error
           size == IF o.size.is = "text" THEN ParseByteSize(o.size.s) ELSE Error
           outcomes == <<repeat, size>>
           val == PatternBody(repeat.val, size.val)
<1>1. ParsePatternBody(o) = Outcome(outcomes, val)
  <2> DEFINE vals == [i \in DOMAIN outcomes |-> outcomes[i].val]
  <2>1. ParsePatternBody(o) = Outcome(outcomes, PatternBody(vals[1], vals[2]))
    BY DEF ParsePatternBody, All, Outcome, FromText, Check
  <2> HIDE DEF repeat, size
  <2>2. vals[1] = repeat.val /\ vals[2] = size.val
    OBVIOUS
  <2>3. QED  BY <2>1, <2>2
<1> HIDE DEF repeat, size
<1>2. DOMAIN outcomes \in SUBSET Nat /\ 2 \in DOMAIN outcomes /\ outcomes[2] = size
  OBVIOUS
<1>3. size.is = "ok" /\ ParsePatternBody(o).val = val
  <2> HIDE DEF outcomes, val
  <2>1. QED  BY <1>1, <1>2, AllOk
<1>4. o.size.is = "text" /\ size = ParseByteSize(o.size.s)
  BY <1>3 DEF size, Error, Refused
<1>5. size.val \in Nat
  <2>1. size.val \in 0 .. MaxU64
    BY <1>3, <1>4, SizeParsed
  <2>2. QED  BY <2>1, UnitsAssumption
<1>6. QED  BY <1>3, <1>5 DEF PatternBody, BodyOK

\* A body that is accepted has a length.
LEMMA BodyParsed ==
  ASSUME NEW b, NEW base, IsBody(b), ParseBody(b, base).is = "ok"
  PROVE  BodyOK(ParseBody(b, base).val)
<1>1. CASE b.is = "missing"
  BY <1>1 DEF ParseBody, Ok, NoBody, BodyOK
<1>2. CASE b.is = "rand!"
  <2>1. ParseBody(b, base) = IF b.arg.is = "object" THEN ParseRandBody(b.arg.o) ELSE Error
    BY <1>2 DEF ParseBody, FromObject
  <2>2. b.arg.is = "object"
    BY <2>1 DEF Error, Refused
  <2>3. QED  BY <1>2, <2>1, <2>2, RandParsed DEF IsBody
<1>3. CASE b.is = "pattern!"
  <2>1. ParseBody(b, base) = IF b.arg.is = "object" THEN ParsePatternBody(b.arg.o) ELSE Error
    BY <1>3 DEF ParseBody, FromObject
  <2>2. b.arg.is = "object"
    BY <2>1 DEF Error, Refused
  <2>3. QED  BY <1>3, <2>1, <2>2, PatternParsed DEF IsBody
<1>4. CASE b.is = "reflect!"
  <2>1. ParseBody(b, base) = ParseReflectBody(b.arg)
    BY <1>4 DEF ParseBody
  <2>2. CASE b.arg.is = "true"
    <3> DEFINE fields == <<"method", "headers", "url", "query">>
    <3>1. ParseBody(b, base) = Ok(ReflectBody(fields))
      BY <2>1, <2>2 DEF ParseReflectBody
    <3> HIDE DEF fields
    <3>2. ParseBody(b, base).val.is = "reflect"
      BY <3>1 DEF Ok, ReflectBody
    <3>3. QED  BY <3>2 DEF BodyOK
  <2>3. CASE b.arg.is # "true"
    <3> DEFINE each == Each(b.arg.l, ParseReflectField)
    <3>1. ParseBody(b, base) = Outcome(<<each>>, ReflectBody(each.val))
      <4> HIDE DEF each
      <4>1. ParseReflectBody(b.arg) =
              IF b.arg.is = "list" /\ b.arg.l # <<>> THEN Then(each, ReflectBody) ELSE Error
        BY <2>3 DEF ParseReflectBody, each
      <4>2. ParseReflectBody(b.arg) = Then(each, ReflectBody)
        BY <2>1, <4>1 DEF Error, Refused
      <4>3. QED  BY <2>1, <4>2 DEF Then, All, Outcome
    <3>2. ParseBody(b, base).val = ReflectBody(each.val)
      <4> DEFINE val == ReflectBody(each.val)
      <4> HIDE DEF each, val
      <4>1. ParseBody(b, base) = Outcome(<<each>>, val)
        BY <3>1 DEF val
      <4>2. ParseBody(b, base).val = val
        BY <4>1, ThenOk
      <4>3. QED  BY <4>2 DEF val
    <3>3. QED  BY <3>2 DEF ReflectBody, BodyOK
  <2>4. QED  BY <2>2, <2>3
<1>5. CASE b.is = "file!"
  <2>1. ParseBody(b, base) = IF b.arg.is = "text" THEN Ok(FileBody(ResolvePath(b.arg.s, base))) ELSE Error
    BY <1>5 DEF ParseBody, FromText
  <2>2. ParseBody(b, base).val = FileBody(ResolvePath(b.arg.s, base))
    BY <2>1 DEF Error, Refused, Ok
  <2>3. QED  BY <2>2 DEF FileBody, BodyOK
<1>6. CASE b.is = "literal"
  BY <1>6 DEF ParseBody, Ok, IsBody, BodyOK
<1>7. QED  BY <1>1, <1>2, <1>3, <1>4, <1>5, <1>6 DEF IsBody

\* So has that of a reply.
LEMMA ReplyParsed ==
  ASSUME NEW f, NEW base, IsReply(f), ParseReply(f, base).is = "ok"
  PROVE  BodyOK(ParseReply(f, base).val.body)
<1> DEFINE o == f.o
           s == ParseStatus(o.s)
           h == ParseHeaders(o.h)
           b == ParseBody(o.b, base)
           outcomes == <<s, h, b>>
           val == ReplySpec(s.val, h.val, b.val)
<1>1. f.is = "object"
  BY DEF ParseReply, FromObject, Error, Refused
<1>2. ParseReply(f, base) = Outcome(outcomes, val)
  <2> DEFINE vals == [i \in DOMAIN outcomes |-> outcomes[i].val]
  <2>1. ParseReply(f, base) = Outcome(outcomes, ReplySpec(vals[1], vals[2], vals[3]))
    BY <1>1 DEF ParseReply, FromObject, All, Outcome
  <2> HIDE DEF s, h, b
  <2>2. vals[1] = s.val /\ vals[2] = h.val /\ vals[3] = b.val
    OBVIOUS
  <2>3. QED  BY <2>1, <2>2
<1> HIDE DEF s, h, b
<1>3. DOMAIN outcomes \in SUBSET Nat /\ 3 \in DOMAIN outcomes /\ outcomes[3] = b
  OBVIOUS
<1>4. b.is = "ok" /\ ParseReply(f, base).val = val
  <2> HIDE DEF outcomes, val
  <2>1. QED  BY <1>2, <1>3, AllOk
<1>5. BodyOK(b.val)
  BY <1>1, <1>4, BodyParsed DEF IsReply, b
<1>6. QED  BY <1>4, <1>5 DEF ReplySpec

\* And that of the answer to what is over a limit.
LEMMA OverParsed ==
  ASSUME NEW f, IsReply(IF f.is = "blocking" THEN f.then ELSE f), ParseOverflowAction(f).is = "ok"
  PROVE  LET over == ParseOverflowAction(f).val
         IN  over = [is |-> "block"] \/ BodyOK(over.reply.body)
<1>1. CASE f.is = "text"
  BY <1>1 DEF ParseOverflowAction, Check, Ok, Error, Refused
<1>2. CASE f.is = "blocking"
  <2> DEFINE t == FromText(f.block, ParseDurationRange)
             r == ParseReply(f.then, None)
             outcomes == <<t, r>>
             val == [is |-> "blockWithTimeout", timeout |-> t.val, reply |-> r.val]
  <2>1. ParseOverflowAction(f) = Outcome(outcomes, val)
    <3> DEFINE vals == [i \in DOMAIN outcomes |-> outcomes[i].val]
    <3>1. ParseOverflowAction(f) =
            Outcome(outcomes, [is |-> "blockWithTimeout", timeout |-> vals[1], reply |-> vals[2]])
      BY <1>2 DEF ParseOverflowAction, All, Outcome
    <3> HIDE DEF t, r
    <3>2. vals[1] = t.val /\ vals[2] = r.val
      OBVIOUS
    <3>3. QED  BY <3>1, <3>2
  <2> HIDE DEF t, r
  <2>2. DOMAIN outcomes \in SUBSET Nat /\ 2 \in DOMAIN outcomes /\ outcomes[2] = r
    OBVIOUS
  <2>3. r.is = "ok" /\ ParseOverflowAction(f).val = val
    <3> HIDE DEF outcomes, val
    <3>1. QED  BY <2>1, <2>2, AllOk
  <2>4. BodyOK(r.val.body)
    BY <1>2, <2>3, ReplyParsed DEF r
  <2>5. QED  BY <2>3, <2>4
<1>3. CASE f.is \notin {"text", "blocking"}
  <2> DEFINE r == ParseReply(f, None)
             val == [is |-> "reply", reply |-> r.val]
  <2>1. ParseOverflowAction(f) = Outcome(<<r>>, val)
    <3> DEFINE F(x) == [is |-> "reply", reply |-> x]
    <3>1. ParseOverflowAction(f) = Then(r, F)
      BY <1>3 DEF ParseOverflowAction
    <3> HIDE DEF r
    <3>2. Then(r, F) = Outcome(<<r>>, val)
      BY DEF Then, All, Outcome
    <3>3. QED  BY <3>1, <3>2
  <2>2. r.is = "ok" /\ ParseOverflowAction(f).val = val
    <3> HIDE DEF r, val
    <3>1. QED  BY <2>1, ThenOk
  <2>3. BodyOK(r.val.body)
    BY <1>3, <2>2, ReplyParsed
  <2> HIDE DEF r
  <2>4. QED  BY <2>2, <2>3
<1>4. QED  BY <1>1, <1>2, <1>3

\* The bodies a rule can answer with.
BodiesOK(rule) ==
  /\ rule.reply.is = "static" => BodyOK(rule.reply.replies[1].body)
  /\ rule.reply.is = "sequence" =>
       \A i \in 1 .. Len(rule.reply.replies) : BodyOK(rule.reply.replies[i].body)
  /\ \A over \in Overs(rule.behavior) : BodyOK(over.body)
  /\ \A i \in DOMAIN rule.chaos : rule.chaos[i].reply # None => BodyOK(rule.chaos[i].reply.val.body)

\* All of them have a length, in an accepted rule.
LEMMA RuleBodies ==
  ASSUME NEW v, NEW base, IsRuleValue(v), ParseRule(v, base).is = "ok"
  PROVE  BodiesOK(ParseRule(v, base).val)
<1> DEFINE rule == ParseRule(v, base).val
           o == v.o.serve.o
           serve == IF v.o.serve.is = "missing" THEN Ok(DefaultServe) ELSE ParseServe(v.o.serve)
           chaos == IF v.o.chaos.is = "missing" THEN Ok(<<>>) ELSE ParseChaos(v.o.chaos)
<1>1. /\ v.is = "object"
      /\ ParseReplyStrategy(v.o.reply, base).is = "ok"
      /\ rule.reply = ParseReplyStrategy(v.o.reply, base).val
      /\ serve.is = "ok" /\ rule.behavior = serve.val.behavior
      /\ chaos.is = "ok" /\ rule.chaos = chaos.val
  BY RuleParsed
<1> HIDE DEF rule
<1>2. /\ rule.reply.is = "static" => BodyOK(rule.reply.replies[1].body)
      /\ rule.reply.is = "sequence" =>
           \A i \in 1 .. Len(rule.reply.replies) : BodyOK(rule.reply.replies[i].body)
  <2> DEFINE f == v.o.reply
  <2>1. /\ IsReply(f)
        /\ f.is = "list" => IsList(f.l) /\ \A i \in DOMAIN f.l : IsReply(f.l[i])
    BY <1>1 DEF IsRuleValue
  <2>2. ParseReplyStrategy(f, base).is = "ok" /\ rule.reply = ParseReplyStrategy(f, base).val
    BY <1>1
  <2> HIDE DEF f
  <2>3. /\ rule.reply.is = "static" =>
             ParseReply(f, base).is = "ok" /\ rule.reply.replies[1] = ParseReply(f, base).val
        /\ rule.reply.is = "sequence" =>
             /\ f.is = "list"
             /\ \A i \in 1 .. Len(rule.reply.replies) :
                  /\ i \in DOMAIN f.l /\ ParseReply(f.l[i], base).is = "ok"
                  /\ rule.reply.replies[i] = ParseReply(f.l[i], base).val
    BY <2>1, <2>2, StrategyParsed
  <2>4. CASE rule.reply.is = "static"
    BY <2>1, <2>3, <2>4, ReplyParsed
  <2>5. CASE rule.reply.is = "sequence"
    <3> SUFFICES ASSUME NEW i \in 1 .. Len(rule.reply.replies)
                 PROVE  BodyOK(rule.reply.replies[i].body)
      BY <2>5
    <3> DEFINE r == f.l[i]
    <3>1. IsReply(r) /\ ParseReply(r, base).is = "ok" /\ rule.reply.replies[i] = ParseReply(r, base).val
      BY <2>1, <2>3, <2>5
    <3> HIDE DEF r
    <3>2. QED  BY <3>1, ReplyParsed
  <2>6. QED  BY <2>4, <2>5
<1>3. ASSUME NEW over \in Overs(rule.behavior) PROVE BodyOK(over.body)
  <2> DEFINE b == rule.behavior
  <2>1. CASE v.o.serve.is = "missing"
    <3>1. b.conn = None /\ b.rps = None
      BY <1>1, <2>1 DEF DefaultServe, Serve, Behavior, Ok
    <3>2. QED  BY <1>3, <3>1 DEF Overs
  <2>2. CASE v.o.serve.is # "missing"
    <3>1. /\ v.o.serve.is = "object" /\ ParseBehavior(o).is = "ok" /\ b = ParseBehavior(o).val
      BY <1>1, <2>2, ServeParsed
    <3>2. IsServe(o)
      BY <1>1, <3>1 DEF IsRuleValue
    <3> HIDE DEF b, o
    <3>3. CASE b.rps # None /\ over = b.rps.reply
      <4>1. ParseRps(o.rps).is = "ok" /\ b.rps = ParseRps(o.rps).val
        BY <3>1, <3>3, BehaviorParsed
      <4>2. /\ o.rps.is = "object" /\ ParseReply(o.rps.o.over, None).is = "ok"
            /\ over = ParseReply(o.rps.o.over, None).val
        BY <3>3, <4>1, RpsParsed
      <4>3. IsReply(o.rps.o.over)
        BY <3>2, <4>2 DEF IsServe
      <4>4. QED  BY <4>2, <4>3, ReplyParsed
    <3>4. CASE b.conn # None /\ b.conn.over # [is |-> "block"] /\ over = b.conn.over.reply
      <4>1. ParseConn(o.conn).is = "ok" /\ b.conn = ParseConn(o.conn).val
        BY <3>1, <3>4, BehaviorParsed
      <4> DEFINE f == o.conn.o.over
      <4>2. /\ o.conn.is = "object" /\ ParseOverflowAction(f).is = "ok"
            /\ b.conn.over = ParseOverflowAction(f).val
        BY <4>1, ConnParsed
      <4>3. IsReply(IF f.is = "blocking" THEN f.then ELSE f)
        BY <3>2, <4>2 DEF IsServe
      <4> HIDE DEF f
      <4>4. QED  BY <3>4, <4>2, <4>3, OverParsed
    <3>5. \/ b.rps # None /\ over = b.rps.reply
          \/ b.conn # None /\ b.conn.over # [is |-> "block"] /\ over = b.conn.over.reply
      BY <1>3 DEF Overs, b
    <3>6. QED  BY <3>3, <3>4, <3>5
  <2>3. QED  BY <2>1, <2>2
<1>4. ASSUME NEW i \in DOMAIN rule.chaos, rule.chaos[i].reply # None
      PROVE  BodyOK(rule.chaos[i].reply.val.body)
  <2>1. CASE v.o.chaos.is = "missing"
    BY <1>1, <1>4, <2>1 DEF Ok
  <2>2. CASE v.o.chaos.is # "missing"
    <3> DEFINE f == v.o.chaos
               r == f.l[i].o.reply
    <3>1. /\ f.is = "list" => /\ IsList(f.l)
                              /\ \A j \in DOMAIN f.l : f.l[j].is = "object" => IsReply(f.l[j].o.reply)
      BY <1>1 DEF IsRuleValue
    <3>2. ParseChaos(f).is = "ok" /\ rule.chaos = ParseChaos(f).val
      BY <1>1, <2>2
    <3> HIDE DEF f, r
    <3>3. /\ f.is = "list" /\ i \in DOMAIN f.l /\ ParseChaosEntry(f.l, i).is = "ok"
          /\ rule.chaos[i] = ParseChaosEntry(f.l, i).val
      BY <3>1, <3>2, ChaosParsed
    <3>4. /\ f.l[i].is = "object" /\ ParseReply(r, None).is = "ok"
          /\ rule.chaos[i].reply.val = ParseReply(r, None).val
      BY <1>4, <3>3, EntryParsed DEF r
    <3>5. IsReply(r)
      BY <3>1, <3>3, <3>4 DEF r
    <3>6. QED  BY <3>4, <3>5, ReplyParsed
  <2>3. QED  BY <2>1, <2>2
<1>5. QED  BY <1>2, <1>3, <1>4 DEF BodiesOK, rule
=============================================================================
