----------------------------- MODULE RulesProofs -----------------------------
(***************************************************************************)
(* What the rule language gives the server: lemmas about the parsers of    *)
(* Rules, the ranges of Units, the paths of Matching and the distances of  *)
(* Suggest, for all documents, widths and words, on which the proofs about *)
(* Handler rest.                                                           *)
(***************************************************************************)
EXTENDS Handler, FiniteSetTheorems, SequenceTheorems, WellFoundedInduction, TLAPS

-----------------------------------------------------------------------------
(***************************************************************************)
(* Numbers and sequences                                                   *)
(***************************************************************************)

\* The first failure that All looks for is there if there is a failure.
LEMMA Least ==
  ASSUME NEW S \in SUBSET Nat, S # {}
  PROVE  \E m \in S : \A j \in S : m <= j
<1> DEFINE R == {ss \in Nat \X Nat : ss[1] < ss[2]}
<1>1. IsWellFoundedOn(R, Nat)
  BY NatLessThanWellFounded DEF OpToRel
<1>2. PICK m \in S : \A j \in S : <<j, m>> \notin R
  <2> HIDE DEF R
  <2>1. QED  BY <1>1, WFMin
<1>3. ASSUME NEW j \in S PROVE m <= j
  <2>1. j \in Nat /\ m \in Nat
    OBVIOUS
  <2>2. CASE j < m
    <3>1. <<j, m>> \in Nat \X Nat /\ <<j, m>>[1] < <<j, m>>[2]
      BY <2>1, <2>2
    <3>2. QED  BY <3>1, <1>2
  <2>3. QED  BY <2>1, <2>2
<1>4. QED  BY <1>2, <1>3

\* The least of a set of numbers.
LEMMA MinIs ==
  ASSUME NEW S \in SUBSET Nat, S # {}
  PROVE  Min(S) \in S /\ \A j \in S : Min(S) <= j
<1>1. \E m \in S : \A j \in S : m <= j
  BY Least
<1>2. QED  BY <1>1 DEF Min

\* Induction up to n, for the set of the numbers that have a property.
LEMMA Upto ==
  ASSUME NEW n \in Nat, NEW S, 0 \in S, \A m \in 1 .. n : m - 1 \in S => m \in S
  PROVE  \A m \in 0 .. n : m \in S
<1> DEFINE B == {m \in 0 .. n : m \notin S}
<1>1. ASSUME B # {} PROVE FALSE
  <2>1. B \in SUBSET Nat
    OBVIOUS
  <2>2. PICK m \in B : \A j \in B : m <= j
    <3> HIDE DEF B
    <3>1. QED  BY <1>1, <2>1, Least
  <2>3. m \in 1 .. n /\ m - 1 \in 0 .. n /\ m \notin S
    OBVIOUS
  <2>4. m - 1 \notin B
    <3> HIDE DEF B
    <3>1. m \in Nat /\ ~(m <= m - 1)
      BY <2>3
    <3>2. QED  BY <2>2, <3>1
  <2>5. QED  BY <2>3, <2>4
<1>2. QED  BY <1>1

\* A function f that starts at start and goes from step to step as g says.
Follows(f, n, T, start, g) ==
  f \in [0 .. n -> T] /\ f[0] = start /\ \A m \in 1 .. n : f[m] = g[m][f[m - 1]]

AreSteps(g, n, T) == g \in [1 .. n -> [T -> T]]

\* A function that is defined step by step exists.
LEMMA Recursion ==
  ASSUME NEW n \in Nat, NEW T, NEW start \in T, NEW g, AreSteps(g, n, T)
  PROVE  \E f : Follows(f, n, T, start, g)
<1> DEFINE S == {m \in 0 .. n : \E f : Follows(f, m, T, start, g)}
<1>1. 0 \in S
  <2>1. Follows([m \in 0 .. 0 |-> start], 0, T, start, g)
    BY DEF Follows
  <2>2. QED  BY <2>1
<1>2. ASSUME NEW m \in 1 .. n, m - 1 \in S PROVE m \in S
  <2>1. PICK f : Follows(f, m - 1, T, start, g)
    BY <1>2
  <2> DEFINE h == [i \in 0 .. m |-> IF i = m THEN g[m][f[m - 1]] ELSE f[i]]
  <2>2. f[m - 1] \in T /\ g[m] \in [T -> T]
    BY <2>1 DEF Follows, AreSteps
  <2>3. h \in [0 .. m -> T] /\ h[0] = start
    BY <2>1, <2>2 DEF Follows
  <2>4. ASSUME NEW i \in 1 .. m PROVE h[i] = g[i][h[i - 1]]
    BY <2>1 DEF Follows
  <2>5. Follows(h, m, T, start, g)
    BY <2>3, <2>4 DEF Follows
  <2> HIDE DEF h
  <2>6. QED  BY <2>5
<1>3. n \in S
  <2> HIDE DEF S
  <2>1. n \in 0 .. n
    OBVIOUS
  <2>2. QED  BY <1>1, <1>2, <2>1, Upto
<1>4. QED  BY <1>3

\* A place behind the first n.
LEMMA Beyond ==
  ASSUME NEW n \in Nat, NEW k \in Nat, NEW i \in 1 .. n + k, i \notin 1 .. n
  PROVE  \E j \in 1 .. k : i = n + j
<1>1. i - n \in 1 .. k /\ i = n + (i - n)
  OBVIOUS
<1>2. QED  BY <1>1

\* Division with remainder.
LEMMA ModUnique ==
  ASSUME NEW L \in Nat \ {0}, NEW q \in Int, NEW r \in 0 .. L - 1
  PROVE  (L * q + r) % L = r
  OBVIOUS

\* The remainder and the quotient that % and \div give.
LEMMA ModSplit ==
  ASSUME NEW L \in Nat \ {0}, NEW k \in Nat
  PROVE  /\ k % L \in 0 .. L - 1
         /\ k \div L \in Nat
         /\ k = L * (k \div L) + (k % L)
  OBVIOUS

\* The place after the place of call k is the place of call k + 1.
LEMMA ModSucc ==
  ASSUME NEW L \in Nat \ {0}, NEW k \in Nat
  PROVE  (1 + (k % L)) % L = (k + 1) % L
<1> DEFINE q == k \div L
           r == k % L
<1>1. /\ r \in 0 .. L - 1 /\ q \in Nat /\ k = L * q + r
  BY ModSplit
<1> HIDE DEF q, r
<1>2. CASE r < L - 1
  <2>1. r + 1 \in 0 .. L - 1
    BY <1>1, <1>2
  <2>2. (L * q + (r + 1)) % L = r + 1
    BY <2>1, <1>1, ModUnique
  <2>3. (L * 0 + (r + 1)) % L = r + 1
    BY <2>1, ModUnique
  <2>4. k + 1 = L * q + (r + 1) /\ 1 + r = L * 0 + (r + 1)
    BY <1>1
  <2>5. (1 + r) % L = (k + 1) % L
    BY <2>2, <2>3, <2>4
  <2>6. QED  BY <2>5 DEF r
<1>3. CASE r = L - 1
  <2>1. (L * (q + 1) + 0) % L = 0 /\ (L * 1 + 0) % L = 0
    BY <1>1, ModUnique
  <2>2. k + 1 = L * (q + 1) + 0 /\ 1 + r = L * 1 + 0
    BY <1>1, <1>3
  <2>3. (1 + r) % L = (k + 1) % L
    BY <2>1, <2>2
  <2>4. QED  BY <2>3 DEF r
<1>4. QED  BY <1>1, <1>2, <1>3

\* Whole quotients: they keep an order, and are rounded down.
LEMMA DivFacts ==
  ASSUME NEW a \in Nat, NEW b \in Nat, NEW n \in Nat \ {0}
  PROVE  /\ a \div n \in Nat
         /\ a <= b => a \div n <= b \div n
         /\ n * (a \div n) <= a /\ a < n * (a \div n) + n
         /\ (a * n) \div n = a
  OBVIOUS

\* Products keep an order.
LEMMA TimesFacts ==
  ASSUME NEW s \in Nat, NEW p \in Nat, NEW q \in Nat
  PROVE  s * p \in Nat /\ s * 0 = 0 /\ (p <= q => s * p <= s * q)
  OBVIOUS

\* A sequence is a list in the sense of Handler.
LEMMA Listed ==
  ASSUME NEW S, NEW l \in Seq(S)
  PROVE  IsList(l) /\ Len(l) \in Nat /\ DOMAIN l = 1 .. Len(l)
<1>1. Len(l) \in Nat /\ l \in [1 .. Len(l) -> S] /\ DOMAIN l = 1 .. Len(l)
  BY LenProperties
<1>2. l \in [1 .. Len(l) -> {l[i] : i \in DOMAIN l}]
  BY <1>1
<1>3. l \in Seq({l[i] : i \in DOMAIN l})
  BY ONLY <1>1, <1>2, SeqDef
<1>4. QED  BY <1>1, <1>3 DEF IsList

\* A function on the places of a list is a list as long.
LEMMA Mapped ==
  ASSUME NEW l, IsList(l), NEW m, m = [i \in DOMAIN l |-> m[i]]
  PROVE  IsList(m) /\ Len(m) = Len(l) /\ DOMAIN m = DOMAIN l
<1> DEFINE S == {m[i] : i \in DOMAIN m}
<1>1. PICK n \in Nat : n = Len(l) /\ DOMAIN l = 1 .. n
  BY LenProperties DEF IsList
<1>2. m \in [1 .. n -> S]
  BY <1>1
<1>3. m \in Seq(S)
  BY ONLY <1>1, <1>2, SeqDef
<1>4. DOMAIN m = 1 .. n
  BY <1>2
<1>5. Len(m) = n
  BY <1>3, <1>4, LenProperties
<1>6. QED  BY <1>1, <1>3, <1>5 DEF IsList

\* The first n of a list, with another list behind them.
LEMMA Appended ==
  ASSUME NEW old, IsList(old), NEW new, IsList(new), NEW n \in 0 .. Len(old)
  PROVE  LET l == SubSeq(old, 1, n) \o new
         IN  /\ IsList(l) /\ Len(l) = n + Len(new) /\ DOMAIN l = 1 .. n + Len(new)
             /\ \A i \in 1 .. n : l[i] = old[i]
             /\ \A i \in 1 .. Len(new) : l[n + i] = new[i]
             /\ SubSeq(l, 1, n) = SubSeq(old, 1, n)
<1> DEFINE S == {old[i] : i \in DOMAIN old} \cup {new[i] : i \in DOMAIN new}
           kept == SubSeq(old, 1, n)
           l == kept \o new
<1>1. old \in Seq(S) /\ new \in Seq(S)
  BY SeqMonotonic DEF IsList
<1> HIDE DEF S
<1>2. Len(old) \in Nat /\ Len(new) \in Nat /\ n \in Nat
  BY <1>1, LenProperties
<1>3. kept \in Seq(S) /\ Len(kept) = n /\ \A i \in 1 .. n : kept[i] = old[i]
  <2>1. \A i \in 1 .. n : old[i] \in S
    BY <1>1, <1>2, ElementOfSeq
  <2>2. QED  BY <1>2, <2>1, SubSeqProperties
<1> HIDE DEF kept
<1>4. /\ l \in Seq(S) /\ Len(l) = n + Len(new)
      /\ \A i \in 1 .. n + Len(new) : l[i] = IF i <= n THEN kept[i] ELSE new[i - n]
  BY <1>1, <1>3, ConcatProperties
<1>5. SubSeq(l, 1, n) = kept
  <2>1. CASE n = 0
    BY <1>3, <2>1, SubSeqEmpty, EmptySeq
  <2>2. CASE n # 0
    <3>1. 1 \in 1 .. Len(kept) /\ n \in 1 .. Len(kept)
      BY <1>2, <1>3, <2>2
    <3>2. SubSeq(l, 1, n) = SubSeq(kept, 1, n)
      BY <1>1, <1>3, <3>1, SubSeqOfConcat1
    <3>3. QED  BY <1>3, <3>2, SubSeqFull
  <2>3. QED  BY <2>1, <2>2
<1> HIDE DEF l
<1>6. IsList(l) /\ DOMAIN l = 1 .. n + Len(new)
  BY <1>4, Listed
<1>7. \A i \in 1 .. n : l[i] = old[i]
  BY <1>2, <1>3, <1>4
<1>8. \A i \in 1 .. Len(new) : l[n + i] = new[i]
  BY <1>2, <1>4
<1>9. QED  BY <1>4, <1>5, <1>6, <1>7, <1>8 DEF l, kept

\* A set of words that has the empty one, and with a word all that are a
\* letter longer, has all words.
LEMMA WordInduction ==
  ASSUME NEW L, NEW S, <<>> \in S, \A s \in Seq(L), x \in L : s \in S => Append(s, x) \in S
  PROVE  \A s \in Seq(L) : s \in S
<1> SUFFICES ASSUME NEW word \in Seq(L) PROVE word \in S
  OBVIOUS
<1> DEFINE n == Len(word)
           T == {m \in 0 .. n : \A s \in Seq(L) : Len(s) = m => s \in S}
<1>1. n \in Nat
  BY LenProperties
<1>2. 0 \in T
  BY <1>1, EmptySeq
<1>3. ASSUME NEW m \in 1 .. n, m - 1 \in T PROVE m \in T
  <2>1. SUFFICES ASSUME NEW s \in Seq(L), Len(s) = m PROVE s \in S
    OBVIOUS
  <2>2. s # <<>>
    BY <2>1, EmptySeq
  <2>3. PICK u \in Seq(L), x \in L : s = Append(u, x)
    BY <2>2, SequenceEmptyOrAppend
  <2>4. Len(u) = m - 1
    BY <2>1, <2>3, AppendProperties, LenProperties
  <2>5. QED  BY <1>3, <2>3, <2>4
<1>4. n \in T
  <2> HIDE DEF T, n
  <2>1. n \in 0 .. n
    BY <1>1
  <2>2. QED  BY <1>1, <1>2, <1>3, <2>1, Upto
<1>5. QED  BY <1>4

-----------------------------------------------------------------------------
(*****************************************************************************)
(* The table of edit_distance                                              *)
(*****************************************************************************)

\* The least of three.
LEMMA Least3 ==
  ASSUME NEW x \in Nat, NEW y \in Nat, NEW z \in Nat
  PROVE  /\ Min({x, y, z}) \in {x, y, z}
         /\ Min({x, y, z}) <= x /\ Min({x, y, z}) <= y /\ Min({x, y, z}) <= z
<1>1. \E m \in {x, y, z} : \A j \in {x, y, z} : m <= j
  BY Least
<1>2. QED  BY <1>1 DEF Min

Cost(x, y) == IF x = y THEN 0 ELSE 1

\* A cell of the table follows from those beside and above it.
IsCell(cell, up, left, diagonal, cost) ==
  /\ cell \in {up + 1, left + 1, diagonal + cost}
  /\ cell <= up + 1 /\ cell <= left + 1 /\ cell <= diagonal + cost

\* A row of the table, as its recursion says.
Cell(a, b, i, above, j, left) == Min({above[j] + 1, left + 1, above[j - 1] + Cost(a[i], b[j])})

IsRow(row, a, b, i, above) ==
  row = [j \in 0 .. Len(b) |->
           IF i = 0 THEN j
           ELSE IF j = 0 THEN i
           ELSE Min({above[j] + 1, row[j - 1] + 1,
                     above[j - 1] + (IF a[i] = b[j] THEN 0 ELSE 1)})]

AreCells(row, a, b, i, above) ==
  /\ row = [j \in 0 .. Len(b) |-> row[j]]
  /\ row[0] = i
  /\ \A j \in 1 .. Len(b) : row[j] = Cell(a, b, i, above, j, row[j - 1])

\* The recursive definition of a row says what its cells are, one by one.
LEMMA RowCells ==
  ASSUME NEW a, NEW b, Len(b) \in Nat, NEW i \in Nat, NEW above, i # 0, NEW row
  PROVE  IsRow(row, a, b, i, above) <=> AreCells(row, a, b, i, above)
<1> DEFINE n == Len(b)
           Old(j) == Min({above[j] + 1, row[j - 1] + 1, above[j - 1] + (IF a[i] = b[j] THEN 0 ELSE 1)})
<1>1. \A j : Old(j) = Cell(a, b, i, above, j, row[j - 1])
  BY DEF Cell, Cost
<1>2. IsRow(row, a, b, i, above) <=> row = [j \in 0 .. n |-> IF j = 0 THEN i ELSE Old(j)]
  BY DEF IsRow
<1>3. n \in Nat
  OBVIOUS
<1> HIDE DEF Old, n
<1>4. IsRow(row, a, b, i, above) <=>
           /\ row = [j \in 0 .. n |-> row[j]]
           /\ row[0] = i
           /\ \A j \in 1 .. n : row[j] = Old(j)
  BY <1>2, <1>3
<1>5. QED  BY <1>1, <1>4 DEF n, AreCells

\* A cell is a number.
LEMMA CellTyped ==
  ASSUME NEW a, NEW b, NEW i, NEW j, NEW above, NEW left,
         above[j] \in Nat, above[j - 1] \in Nat, left \in Nat
  PROVE  /\ Cell(a, b, i, above, j, left) \in Nat
         /\ IsCell(Cell(a, b, i, above, j, left), above[j], left, above[j - 1], Cost(a[i], b[j]))
<1> DEFINE x == above[j] + 1
           y == left + 1
           z == above[j - 1] + Cost(a[i], b[j])
<1>1. x \in Nat /\ y \in Nat /\ z \in Nat
  BY DEF Cost
<1>2. LET c == Min({x, y, z})
      IN  c \in {x, y, z} /\ c <= x /\ c <= y /\ c <= z
  <2> HIDE DEF x, y, z
  <2>1. QED  BY <1>1, Least3
<1>3. QED  BY <1>1, <1>2 DEF Cell, IsCell

\* There is such a row.
LEMMA RowExists ==
  ASSUME NEW a, NEW b, Len(b) \in Nat, NEW i \in Nat, NEW above \in [0 .. Len(b) -> Nat], i # 0
  PROVE  \E row : IsRow(row, a, b, i, above)
<1> DEFINE n == Len(b)
           C(j, x) == Cell(a, b, i, above, j, x)
           g == [j \in 1 .. n |-> [x \in Nat |-> C(j, x)]]
<1>1. ASSUME NEW j \in 1 .. n, NEW x \in Nat PROVE C(j, x) \in Nat
  <2>1. above[j] \in Nat /\ above[j - 1] \in Nat
    OBVIOUS
  <2>2. QED  BY <2>1, CellTyped
<1>2. AreSteps(g, n, Nat) /\ \A j \in 1 .. n, x \in Nat : g[j][x] = C(j, x)
  <2> HIDE DEF C
  <2>1. QED  BY <1>1 DEF AreSteps
<1>3. n \in Nat
  OBVIOUS
<1>4. PICK row : Follows(row, n, Nat, i, g)
  <2> HIDE DEF g, n
  <2>1. QED  BY <1>2, <1>3, Recursion
<1> HIDE DEF g, n, C
<1>5. row \in [0 .. n -> Nat] /\ row[0] = i /\ \A j \in 1 .. n : row[j] = g[j][row[j - 1]]
  BY <1>4 DEF Follows
<1>6. ASSUME NEW j \in 1 .. n PROVE row[j] = C(j, row[j - 1])
  <2>1. row[j - 1] \in Nat
    BY <1>3, <1>5
  <2>2. QED  BY <1>2, <1>5, <2>1
<1>7. row = [j \in 0 .. n |-> row[j]]
  BY <1>5
<1>8. IsRow(row, a, b, i, above)
  <2>1. \A j \in 1 .. Len(b) : row[j] = Cell(a, b, i, above, j, row[j - 1])
    BY <1>6 DEF C, n
  <2>2. row = [j \in 0 .. Len(b) |-> row[j]]
    BY <1>7 DEF n
  <2>3. row[0] = i /\ i \in Nat /\ i # 0 /\ Len(b) \in Nat
    BY <1>5
  <2>4. AreCells(row, a, b, i, above)
    BY <2>1, <2>2, <2>3 DEF AreCells
  <2>5. QED  BY <2>4, RowCells
<1>9. QED  BY <1>8

\* It has numbers in it.
LEMMA RowTyped ==
  ASSUME NEW a, NEW b, Len(b) \in Nat, NEW i \in Nat, NEW above \in [0 .. Len(b) -> Nat], i # 0,
         NEW row, IsRow(row, a, b, i, above)
  PROVE  /\ row \in [0 .. Len(b) -> Nat] /\ row[0] = i
         /\ \A j \in 1 .. Len(b) :
              IsCell(row[j], above[j], row[j - 1], above[j - 1], Cost(a[i], b[j]))
<1> DEFINE n == Len(b)
           S == {j \in 0 .. n : row[j] \in Nat}
<1>1. /\ row = [j \in 0 .. n |-> row[j]] /\ row[0] = i
      /\ \A j \in 1 .. n : row[j] = Cell(a, b, i, above, j, row[j - 1])
  BY RowCells DEF AreCells
<1>2. ASSUME NEW j \in 1 .. n, row[j - 1] \in Nat
      PROVE  row[j] \in Nat /\ IsCell(row[j], above[j], row[j - 1], above[j - 1], Cost(a[i], b[j]))
  <2>1. above[j] \in Nat /\ above[j - 1] \in Nat /\ row[j - 1] \in Nat
    BY <1>2
  <2>2. row[j] = Cell(a, b, i, above, j, row[j - 1])
    BY <1>1
  <2>3. QED  BY <2>1, <2>2, CellTyped
<1>3. 0 \in S
  BY <1>1
<1>4. ASSUME NEW j \in 1 .. n, j - 1 \in S PROVE j \in S
  BY <1>2, <1>4
<1>5. n \in Nat
  OBVIOUS
<1>6. \A j \in 0 .. n : j \in S
  <2> HIDE DEF S, n
  <2>1. QED  BY ONLY <1>3, <1>4, <1>5, Upto
<1>7. \A j \in 0 .. n : row[j] \in Nat
  BY <1>6
<1>8. \A j \in 1 .. n : row[j - 1] \in Nat
  BY <1>7
<1>9. row \in [0 .. n -> Nat]
  <2> HIDE DEF n, S
  <2>1. QED  BY ONLY <1>1, <1>7
<1>10. QED  BY <1>1, <1>2, <1>8, <1>9

Numbers(n) == [0 .. n -> Nat]

\* The table: its first row and column, and its cells.
IsTable(d, a, b) ==
  /\ d \in [0 .. Len(a) -> Numbers(Len(b))]
  /\ \A j \in 0 .. Len(b) : d[0][j] = j
  /\ \A i \in 1 .. Len(a) : d[i][0] = i
  /\ \A i \in 1 .. Len(a), j \in 1 .. Len(b) :
       IsCell(d[i][j], d[i - 1][j], d[i][j - 1], d[i - 1][j - 1], Cost(a[i], b[j]))

\* A row below another.
IsBelow(row, a, b, i, above) ==
  /\ row \in Numbers(Len(b)) /\ row[0] = i
  /\ \A j \in 1 .. Len(b) : IsCell(row[j], above[j], row[j - 1], above[j - 1], Cost(a[i], b[j]))

\* What Row makes of the row above it.
LEMMA RowIs ==
  ASSUME NEW a, NEW b, Len(b) \in Nat, NEW i \in Nat, NEW above \in Numbers(Len(b)), i # 0
  PROVE  IsBelow(Row(a, b, i, above), a, b, i, above)
<1> USE DEF Numbers
<1>1. Row(a, b, i, above) = CHOOSE row : IsRow(row, a, b, i, above)
  BY DEF Row, IsRow
<1>2. IsRow(Row(a, b, i, above), a, b, i, above)
  BY <1>1, RowExists
<1> DEFINE row == Row(a, b, i, above)
<1>3. IsRow(row, a, b, i, above)
  BY <1>2
<1> HIDE DEF row
<1>4. /\ row \in [0 .. Len(b) -> Nat] /\ row[0] = i
      /\ \A j \in 1 .. Len(b) : IsCell(row[j], above[j], row[j - 1], above[j - 1], Cost(a[i], b[j]))
  BY <1>3, RowTyped
<1>5. IsBelow(row, a, b, i, above)
  BY <1>4 DEF IsBelow
<1>6. QED  BY <1>5 DEF row

\* The first row needs none above it.
LEMMA RowZero ==
  ASSUME NEW a, NEW b, NEW above
  PROVE  Row(a, b, 0, above) = [j \in 0 .. Len(b) |-> j]
<1>1. Row(a, b, 0, above) = CHOOSE row : row = [j \in 0 .. Len(b) |-> j]
  BY DEF Row
<1>2. QED  BY <1>1

\* The table that EditDistance fills.
IsDp(dp, a, b) == dp = [i \in 0 .. Len(a) |-> Row(a, b, i, dp[i - 1])]

\* Rows can be filled one after the other: for any two words there is such a table.
LEMMA DpExists ==
  ASSUME NEW a, NEW b, Len(a) \in Nat, Len(b) \in Nat
  PROVE  \E dp : IsDp(dp, a, b)
<1> DEFINE n == Len(a)
           T == Numbers(Len(b))
           g == [i \in 1 .. n |-> [r \in T |-> Row(a, b, i, r)]]
           start == [j \in 0 .. Len(b) |-> j]
<1>1. ASSUME NEW i \in 1 .. n, NEW r \in T PROVE Row(a, b, i, r) \in T
  <2>1. i \in Nat /\ i # 0 /\ r \in Numbers(Len(b))
    OBVIOUS
  <2>2. IsBelow(Row(a, b, i, r), a, b, i, r)
    BY <2>1, RowIs
  <2>3. QED  BY <2>2 DEF IsBelow
<1>2. AreSteps(g, n, T) /\ \A i \in 1 .. n, r \in T : g[i][r] = Row(a, b, i, r)
  <2> HIDE DEF T
  <2>1. QED  BY <1>1 DEF AreSteps
<1>3. n \in Nat /\ start \in T
  BY DEF Numbers
<1>4. PICK dp : Follows(dp, n, T, start, g)
  <2> HIDE DEF g, n, T, start
  <2>1. QED  BY <1>2, <1>3, Recursion
<1> HIDE DEF g, n, T
<1>5. dp \in [0 .. n -> T] /\ dp[0] = start /\ \A i \in 1 .. n : dp[i] = g[i][dp[i - 1]]
  BY <1>4 DEF Follows
<1>6. ASSUME NEW i \in 0 .. n PROVE dp[i] = Row(a, b, i, dp[i - 1])
  <2>1. CASE i = 0
    BY <2>1, <1>5, RowZero
  <2>2. CASE i # 0
    <3>1. i \in 1 .. n /\ dp[i - 1] \in T
      BY <1>3, <1>5, <2>2
    <3>2. QED  BY <1>2, <1>5, <3>1
  <2>3. QED  BY <2>1, <2>2
<1>7. dp = [i \in 0 .. n |-> dp[i]]
  BY <1>5
<1>8. IsDp(dp, a, b)
  BY <1>6, <1>7 DEF IsDp, n
<1>9. QED  BY <1>8

\* It is the table.
LEMMA DpTable ==
  ASSUME NEW a, NEW b, Len(a) \in Nat, Len(b) \in Nat, NEW dp, IsDp(dp, a, b)
  PROVE  IsTable(dp, a, b)
<1> DEFINE T == Numbers(Len(b))
           S == {i \in 0 .. Len(a) : dp[i] \in T}
<1>1. \A i \in 0 .. Len(a) : dp[i] = Row(a, b, i, dp[i - 1])
  BY DEF IsDp
<1>2. dp[0] = [j \in 0 .. Len(b) |-> j]
  BY <1>1, RowZero
<1>3. 0 \in S
  BY <1>2 DEF Numbers
<1>4. ASSUME NEW i \in 1 .. Len(a), i - 1 \in S PROVE i \in S
  <2>1. dp[i] = Row(a, b, i, dp[i - 1]) /\ dp[i - 1] \in Numbers(Len(b))
    BY <1>1, <1>4
  <2>2. dp[i] \in T
    BY <2>1, RowIs DEF IsBelow
  <2>3. QED  BY <2>2
<1>5. \A i \in 0 .. Len(a) : i \in S
  <2> HIDE DEF S
  <2>1. QED  BY ONLY <1>3, <1>4, Len(a) \in Nat, Upto
<1>6. \A i \in 0 .. Len(a) : dp[i] \in T
  BY <1>5
<1>7. dp \in [0 .. Len(a) -> T]
  <2> HIDE DEF T
  <2>1. QED  BY <1>6 DEF IsDp
<1>8. ASSUME NEW i \in 1 .. Len(a)
      PROVE  /\ dp[i][0] = i
             /\ \A j \in 1 .. Len(b) :
                  IsCell(dp[i][j], dp[i - 1][j], dp[i][j - 1], dp[i - 1][j - 1], Cost(a[i], b[j]))
  <2>1. dp[i] = Row(a, b, i, dp[i - 1]) /\ dp[i - 1] \in Numbers(Len(b))
    BY <1>1, <1>6
  <2>2. IsBelow(dp[i], a, b, i, dp[i - 1])
    BY <2>1, RowIs
  <2>3. QED  BY <2>2 DEF IsBelow
<1>9. QED  BY <1>2, <1>7, <1>8 DEF IsTable

\* A distance is the last cell of a table.
LEMMA Tabulated ==
  ASSUME NEW a, NEW b, Len(a) \in Nat, Len(b) \in Nat
  PROVE  \E d : IsTable(d, a, b) /\ EditDistance(a, b) = d[Len(a)][Len(b)]
<1> DEFINE dp == CHOOSE dp : IsDp(dp, a, b)
<1>1. EditDistance(a, b) = dp[Len(a)][Len(b)]
  BY DEF EditDistance, IsDp
<1>2. IsDp(dp, a, b)
  BY DpExists
<1> HIDE DEF dp
<1>3. IsTable(dp, a, b)
  BY <1>2, DpTable
<1>4. QED  BY <1>1, <1>3

\* One word begins with another.
Begins(s, t) == Len(s) <= Len(t) /\ \A i \in 1 .. Len(s) : s[i] = t[i]

\* The cells of a table are numbers.
LEMMA TableTyped ==
  ASSUME NEW a, NEW b, NEW d, IsTable(d, a, b)
  PROVE  \A i \in 0 .. Len(a), j \in 0 .. Len(b) : d[i][j] \in Nat
<1> TAKE i \in 0 .. Len(a), j \in 0 .. Len(b)
<1>1. d[i] \in Numbers(Len(b))
  BY DEF IsTable
<1>2. QED  BY <1>1 DEF Numbers

\* A cell is determined by those beside and above it.
LEMMA SameCell ==
  ASSUME NEW c, NEW e, NEW up, NEW left, NEW diagonal, NEW cost,
         IsCell(c, up, left, diagonal, cost), IsCell(e, up, left, diagonal, cost),
         c \in Nat, e \in Nat, up \in Nat, left \in Nat, diagonal \in Nat, cost \in Nat
  PROVE  c = e
  BY DEF IsCell

\* The cells of a table are those of any table of longer words.
LEMMA Locality ==
  ASSUME NEW a, NEW b, NEW p, NEW q, Len(a) \in Nat, Len(b) \in Nat, Len(p) \in Nat, Len(q) \in Nat,
         Begins(a, p), Begins(b, q),
         NEW d, IsTable(d, a, b), NEW e, IsTable(e, p, q)
  PROVE  \A i \in 0 .. Len(a) : \A j \in 0 .. Len(b) : d[i][j] = e[i][j]
<1> DEFINE m == Len(a)
           n == Len(b)
           Same(i) == \A j \in 0 .. n : d[i][j] = e[i][j]
           S == {i \in 0 .. m : Same(i)}
<1>1. /\ \A i \in 1 .. m, j \in 1 .. n :
           /\ IsCell(d[i][j], d[i - 1][j], d[i][j - 1], d[i - 1][j - 1], Cost(a[i], b[j]))
           /\ IsCell(e[i][j], e[i - 1][j], e[i][j - 1], e[i - 1][j - 1], Cost(a[i], b[j]))
      /\ \A j \in 0 .. n : d[0][j] = j /\ e[0][j] = j
      /\ \A i \in 1 .. m : d[i][0] = i /\ e[i][0] = i
      /\ \A i \in 0 .. m, j \in 0 .. n : d[i][j] \in Nat /\ e[i][j] \in Nat
  <2>1. /\ \A i \in 1 .. m, j \in 1 .. n :
             IsCell(d[i][j], d[i - 1][j], d[i][j - 1], d[i - 1][j - 1], Cost(a[i], b[j]))
        /\ \A j \in 0 .. n : d[0][j] = j
        /\ \A i \in 1 .. m : d[i][0] = i
    BY DEF IsTable
  <2>2. \A i \in 0 .. m, j \in 0 .. n : d[i][j] \in Nat
    BY TableTyped
  <2>3. /\ \A i \in 1 .. Len(p), j \in 1 .. Len(q) :
             IsCell(e[i][j], e[i - 1][j], e[i][j - 1], e[i - 1][j - 1], Cost(p[i], q[j]))
        /\ \A j \in 0 .. Len(q) : e[0][j] = j
        /\ \A i \in 1 .. Len(p) : e[i][0] = i
    BY DEF IsTable
  <2>4. \A i \in 0 .. Len(p), j \in 0 .. Len(q) : e[i][j] \in Nat
    BY TableTyped
  <2>5. /\ 0 .. m \subseteq 0 .. Len(p) /\ 1 .. m \subseteq 1 .. Len(p)
        /\ 0 .. n \subseteq 0 .. Len(q) /\ 1 .. n \subseteq 1 .. Len(q)
    BY DEF Begins
  <2>6. \A i \in 1 .. m, j \in 1 .. n : p[i] = a[i] /\ q[j] = b[j]
    BY DEF Begins
  <2> HIDE DEF m, n
  <2>7. \A i \in 1 .. m, j \in 1 .. n :
          IsCell(e[i][j], e[i - 1][j], e[i][j - 1], e[i - 1][j - 1], Cost(a[i], b[j]))
    BY ONLY <2>3, <2>5, <2>6
  <2>8. QED  BY ONLY <2>1, <2>2, <2>3, <2>4, <2>5, <2>7
<1>2. m \in Nat /\ n \in Nat
  OBVIOUS
<1> HIDE DEF m, n
<1>3. 0 \in S
  BY <1>1, <1>2
<1>4. ASSUME NEW i \in 1 .. m, i - 1 \in S PROVE i \in S
  <2> DEFINE R == {j \in 0 .. n : d[i][j] = e[i][j]}
  <2>1. 0 \in R
    BY <1>1, <1>2
  <2>2. ASSUME NEW j \in 1 .. n, j - 1 \in R PROVE j \in R
    <3>1. d[i - 1][j] = e[i - 1][j] /\ d[i - 1][j - 1] = e[i - 1][j - 1] /\ d[i][j - 1] = e[i][j - 1]
      BY <1>2, <1>4, <2>2
    <3>2. Cost(a[i], b[j]) \in Nat
      BY DEF Cost
    <3>3. d[i][j] \in Nat /\ e[i][j] \in Nat
      BY <1>1, <1>2
    <3>4. /\ IsCell(d[i][j], d[i - 1][j], d[i][j - 1], d[i - 1][j - 1], Cost(a[i], b[j]))
          /\ IsCell(e[i][j], d[i - 1][j], d[i][j - 1], d[i - 1][j - 1], Cost(a[i], b[j]))
      BY <1>1, <1>2, <3>1
    <3>5. d[i][j] = e[i][j]
      <4>1. i \in 0 .. m /\ i - 1 \in 0 .. m /\ j \in 0 .. n /\ j - 1 \in 0 .. n
        BY ONLY <1>2, i \in 1 .. m, j \in 1 .. n
      <4>2. \A k \in 0 .. m, l \in 0 .. n : d[k][l] \in Nat
        BY <1>1
      <4>3. d[i - 1][j] \in Nat /\ d[i][j - 1] \in Nat /\ d[i - 1][j - 1] \in Nat
        BY ONLY <4>1, <4>2, Zenon
      <4>4. QED  BY ONLY <3>2, <3>3, <3>4, <4>3, SameCell, Zenon
    <3>6. QED  BY <3>5
  <2>3. \A j \in 0 .. n : j \in R
    <3> HIDE DEF R
    <3>1. QED  BY <1>2, <2>1, <2>2, Upto
  <2>4. QED  BY <2>3
<1>5. \A i \in 0 .. m : i \in S
  <2> HIDE DEF S
  <2>1. QED  BY <1>2, <1>3, <1>4, Upto
<1>6. QED  BY <1>5 DEF m, n

\* So a distance stands in the table of any two words that begin with its
\* two.
LEMMA InTable ==
  ASSUME NEW L, NEW s \in Seq(L), NEW t \in Seq(L), NEW p \in Seq(L), NEW q \in Seq(L),
         Begins(s, p), Begins(t, q), NEW e, IsTable(e, p, q)
  PROVE  EditDistance(s, t) = e[Len(s)][Len(t)]
<1>1. Len(s) \in Nat /\ Len(t) \in Nat /\ Len(p) \in Nat /\ Len(q) \in Nat
  BY LenProperties
<1>2. PICK d : IsTable(d, s, t) /\ EditDistance(s, t) = d[Len(s)][Len(t)]
  BY <1>1, Tabulated
<1>3. d[Len(s)][Len(t)] = e[Len(s)][Len(t)]
  <2>1. Len(s) \in 0 .. Len(s) /\ Len(t) \in 0 .. Len(t)
    BY <1>1
  <2>2. QED  BY <1>1, <1>2, <2>1, Locality
<1>4. QED  BY <1>2, <1>3

\* Distances of words a letter longer.
LEMMA Distances ==
  ASSUME NEW L, NEW s \in Seq(L), NEW t \in Seq(L), NEW x \in L, NEW y \in L
  PROVE  /\ EditDistance(s, t) \in Nat
         /\ EditDistance(<<>>, t) = Len(t) /\ EditDistance(s, <<>>) = Len(s)
         /\ IsCell(EditDistance(Append(s, x), Append(t, y)), EditDistance(s, Append(t, y)),
                   EditDistance(Append(s, x), t), EditDistance(s, t), Cost(x, y))
<1> DEFINE m == Len(s)
           n == Len(t)
           p == Append(s, x)
           q == Append(t, y)
<1>1. m \in Nat /\ n \in Nat
  BY LenProperties
<1>2. p \in Seq(L) /\ q \in Seq(L) /\ Len(p) = m + 1 /\ Len(q) = n + 1 /\ p[m + 1] = x /\ q[n + 1] = y
  BY AppendProperties
<1>3. Begins(s, p) /\ Begins(t, q)
  BY <1>1, <1>2, AppendProperties DEF Begins
<1>4. Begins(p, p) /\ Begins(q, q) /\ Begins(<<>>, p) /\ Begins(<<>>, q)
  BY <1>1, <1>2, EmptySeq DEF Begins
<1>5. PICK e : IsTable(e, p, q)
  <2>1. Len(p) \in Nat /\ Len(q) \in Nat
    BY <1>1, <1>2
  <2> HIDE DEF p, q
  <2>2. QED  BY <2>1, Tabulated
<1>6. /\ EditDistance(s, t) = e[m][n]
      /\ EditDistance(s, q) = e[m][n + 1] /\ EditDistance(p, t) = e[m + 1][n]
      /\ EditDistance(p, q) = e[m + 1][n + 1]
      /\ EditDistance(<<>>, t) = e[0][n] /\ EditDistance(s, <<>>) = e[m][0]
  <2>1. <<>> \in Seq(L) /\ Len(<<>>) = 0
    BY EmptySeq
  <2> HIDE DEF p, q, m, n
  <2>2. EditDistance(s, t) = e[Len(s)][Len(t)] /\ EditDistance(s, q) = e[Len(s)][Len(q)]
    BY <1>2, <1>3, <1>4, <1>5, InTable
  <2>3. EditDistance(p, t) = e[Len(p)][Len(t)] /\ EditDistance(p, q) = e[Len(p)][Len(q)]
    BY <1>2, <1>3, <1>4, <1>5, InTable
  <2>4. EditDistance(<<>>, t) = e[0][Len(t)] /\ EditDistance(s, <<>>) = e[Len(s)][0]
    <3>1. ASSUME NEW z \in Seq(L), Len(z) = 0, Begins(z, p), Begins(z, q)
          PROVE  EditDistance(z, t) = e[0][Len(t)] /\ EditDistance(s, z) = e[Len(s)][0]
      <4>1. /\ s \in Seq(L) /\ t \in Seq(L) /\ p \in Seq(L) /\ q \in Seq(L)
            /\ Begins(s, p) /\ Begins(t, q) /\ IsTable(e, p, q)
            /\ z \in Seq(L) /\ Begins(z, p) /\ Begins(z, q)
        BY <1>2, <1>3, <1>5, <3>1
      <4>2. EditDistance(z, t) = e[Len(z)][Len(t)]
        BY ONLY <4>1, InTable
      <4>3. EditDistance(s, z) = e[Len(s)][Len(z)]
        BY ONLY <4>1, InTable
      <4>4. QED  BY <3>1, <4>2, <4>3
    <3>2. QED  BY <1>4, <2>1, <3>1
  <2>5. QED  BY <1>2, <2>1, <2>2, <2>3, <2>4 DEF m, n
<1>7. /\ e[m][n] \in Nat /\ e[0][n] = n /\ e[m][0] = m
      /\ IsCell(e[m + 1][n + 1], e[m][n + 1], e[m + 1][n], e[m][n], Cost(x, y))
  <2> HIDE DEF p, q, m, n
  <2>1. m + 1 \in 1 .. Len(p) /\ n + 1 \in 1 .. Len(q) /\ (m + 1) - 1 = m /\ (n + 1) - 1 = n
    BY <1>1, <1>2
  <2>2. IsCell(e[m + 1][n + 1], e[m][n + 1], e[m + 1][n], e[m][n], Cost(p[m + 1], q[n + 1]))
    BY <1>5, <2>1 DEF IsTable
  <2>3. m \in 0 .. Len(p) /\ n \in 0 .. Len(q) /\ (m = 0 \/ m \in 1 .. Len(p))
    BY <1>1, <1>2
  <2>4. e[m][n] \in Nat
    BY <1>5, <2>3, TableTyped
  <2>5. e[0][n] = n /\ e[m][0] = m
    <3>1. \A j \in 0 .. Len(q) : e[0][j] = j
      BY <1>5 DEF IsTable
    <3>2. \A i \in 1 .. Len(p) : e[i][0] = i
      BY <1>5 DEF IsTable
    <3>3. 0 \in 0 .. Len(q)
      BY <1>1, <1>2
    <3>4. QED  BY <2>3, <3>1, <3>2, <3>3
  <2>6. QED  BY <1>2, <2>2, <2>4, <2>5
<1>8. QED  BY <1>6, <1>7

-----------------------------------------------------------------------------
(*****************************************************************************)
(* Words an edit away                                                      *)
(*****************************************************************************)

\* A part of a sequence.
LEMMA PartIs ==
  ASSUME NEW L, NEW s \in Seq(L), NEW m \in 1 .. Len(s) + 1, NEW n \in 0 .. Len(s), m <= n + 1
  PROVE  /\ SubSeq(s, m, n) \in Seq(L) /\ Len(SubSeq(s, m, n)) = n + 1 - m
         /\ \A k \in 1 .. n + 1 - m : SubSeq(s, m, n)[k] = s[m + k - 1]
<1>1. Len(s) \in Nat /\ s \in [1 .. Len(s) -> L]
  BY LenProperties
<1>2. CASE m = n + 1
  <2>1. SubSeq(s, m, n) = <<>>
    BY <1>1, <1>2, SubSeqEmpty
  <2>2. QED  BY <1>1, <1>2, <2>1, EmptySeq
<1>3. CASE m <= n
  <2>1. /\ SubSeq(s, m, n) \in Seq(L) /\ Len(SubSeq(s, m, n)) = n - m + 1
        /\ \A i \in 1 .. n - m + 1 : SubSeq(s, m, n)[i] = s[m + i - 1]
    BY <1>1, <1>3, SubSeqProperties
  <2>2. QED  BY <1>1, <2>1
<1>4. QED  BY <1>1, <1>2, <1>3

\* A word without its letter i.
IsRemoved(u, s, i, L) ==
  /\ u \in Seq(L) /\ Len(u) = Len(s) - 1
  /\ \A k \in 1 .. Len(s) - 1 : u[k] = IF k < i THEN s[k] ELSE s[k + 1]

\* RemoveAt gives the word without its i-th letter.
LEMMA RemoveIs ==
  ASSUME NEW L, NEW s \in Seq(L), NEW i \in 1 .. Len(s)
  PROVE  IsRemoved(SE!RemoveAt(s, i), s, i, L)
<1> DEFINE u == SubSeq(s, 1, i - 1)
           v == SubSeq(s, i + 1, Len(s))
           n == Len(s)
<1>1. n \in Nat
  BY LenProperties
<1>2. u \in Seq(L) /\ Len(u) = i - 1 /\ \A k \in 1 .. i - 1 : u[k] = s[k]
  BY <1>1, PartIs
<1>3. v \in Seq(L) /\ Len(v) = n - i /\ \A k \in 1 .. n - i : v[k] = s[i + k]
  BY <1>1, PartIs
<1>4. SE!RemoveAt(s, i) = u \o v
  BY DEF SE!RemoveAt
<1> HIDE DEF u, v, n
<1>5. /\ u \o v \in Seq(L) /\ Len(u \o v) = n - 1
      /\ \A k \in 1 .. n - 1 : (u \o v)[k] = IF k < i THEN u[k] ELSE v[k - (i - 1)]
  <2>1. /\ u \o v \in Seq(L) /\ Len(u \o v) = Len(u) + Len(v)
        /\ \A k \in 1 .. Len(u) + Len(v) :
             (u \o v)[k] = IF k <= Len(u) THEN u[k] ELSE v[k - Len(u)]
    BY <1>2, <1>3, ConcatProperties
  <2>2. Len(u) = i - 1 /\ Len(u) + Len(v) = n - 1 /\ i \in 1 .. n
    BY <1>1, <1>2, <1>3 DEF n
  <2>3. \A k \in 1 .. n - 1 : k <= i - 1 <=> k < i
    BY <1>1
  <2>4. QED  BY <1>1, <2>1, <2>2, <2>3
<1>6. ASSUME NEW k \in 1 .. n - 1 PROVE (u \o v)[k] = IF k < i THEN s[k] ELSE s[k + 1]
  <2>1. CASE k < i
    BY <1>1, <1>2, <1>5, <2>1
  <2>2. CASE ~(k < i)
    <3>1. k - (i - 1) \in 1 .. n - i /\ i + (k - (i - 1)) = k + 1
      BY <1>1, <2>2 DEF n
    <3>2. QED  BY <1>3, <1>5, <2>2, <3>1
  <2>3. QED  BY <2>1, <2>2
<1>7. QED  BY <1>4, <1>5, <1>6 DEF n, IsRemoved

\* A word with a letter put in at place i.
IsInserted(u, s, i, y, L) ==
  /\ u \in Seq(L) /\ Len(u) = Len(s) + 1
  /\ \A k \in 1 .. Len(s) + 1 : u[k] = IF k < i THEN s[k] ELSE IF k = i THEN y ELSE s[k - 1]

\* InsertAt gives the word with the letter y at position i.
LEMMA InsertIs ==
  ASSUME NEW L, NEW s \in Seq(L), NEW i \in 1 .. Len(s) + 1, NEW y \in L
  PROVE  IsInserted(SE!InsertAt(s, i, y), s, i, y, L)
<1> DEFINE u == SubSeq(s, 1, i - 1)
           v == SubSeq(s, i, Len(s))
           n == Len(s)
           w == Append(u, y)
<1>1. n \in Nat
  BY LenProperties
<1>2. u \in Seq(L) /\ Len(u) = i - 1 /\ \A k \in 1 .. i - 1 : u[k] = s[k]
  BY <1>1, PartIs
<1>3. v \in Seq(L) /\ Len(v) = n + 1 - i /\ \A k \in 1 .. n + 1 - i : v[k] = s[i + k - 1]
  BY <1>1, PartIs
<1>4. SE!InsertAt(s, i, y) = w \o v
  <2>1. u \o <<y>> = Append(u, y)
    BY <1>2, AppendIsConcat
  <2>2. SE!InsertAt(s, i, y) = (u \o <<y>>) \o v
    BY DEF SE!InsertAt
  <2>3. QED  BY <2>1, <2>2
<1>5. w \in Seq(L) /\ Len(w) = i /\ w[i] = y /\ \A k \in 1 .. i - 1 : w[k] = s[k]
  BY <1>1, <1>2, AppendProperties
<1> HIDE DEF u, v, n, w
<1>6. /\ w \o v \in Seq(L) /\ Len(w \o v) = n + 1
      /\ \A k \in 1 .. n + 1 : (w \o v)[k] = IF k <= i THEN w[k] ELSE v[k - i]
  <2>1. /\ w \o v \in Seq(L) /\ Len(w \o v) = Len(w) + Len(v)
        /\ \A k \in 1 .. Len(w) + Len(v) :
             (w \o v)[k] = IF k <= Len(w) THEN w[k] ELSE v[k - Len(w)]
    BY <1>3, <1>5, ConcatProperties
  <2>2. Len(w) = i /\ Len(w) + Len(v) = n + 1
    BY <1>1, <1>3, <1>5 DEF n
  <2>3. QED  BY <2>1, <2>2
<1>7. ASSUME NEW k \in 1 .. n + 1
      PROVE  (w \o v)[k] = IF k < i THEN s[k] ELSE IF k = i THEN y ELSE s[k - 1]
  <2>1. CASE k <= i
    BY <1>1, <1>5, <1>6, <2>1
  <2>2. CASE i < k
    <3>1. k - i \in 1 .. n + 1 - i /\ i + (k - i) - 1 = k - 1 /\ ~(k <= i) /\ ~(k < i) /\ k # i
      BY <1>1, <2>2 DEF n
    <3>2. v[k - i] = s[k - 1] /\ (w \o v)[k] = v[k - i]
      BY <1>3, <1>6, <3>1
    <3>3. QED  BY <3>1, <3>2
  <2>3. k <= i \/ i < k
    BY <1>1 DEF n
  <2>4. QED  BY ONLY <2>1, <2>2, <2>3, Zenon
<1>8. QED  BY <1>4, <1>6, <1>7 DEF n, IsInserted

\* A word with another letter at place i.
IsReplaced(u, s, i, y, L) ==
  /\ u \in Seq(L) /\ Len(u) = Len(s)
  /\ \A k \in 1 .. Len(s) : u[k] = IF k = i THEN y ELSE s[k]

\* ReplaceAt gives the word with the letter y in place of its i-th.
LEMMA ReplaceIs ==
  ASSUME NEW L, NEW s \in Seq(L), NEW i \in 1 .. Len(s), NEW y \in L
  PROVE  IsReplaced(SE!ReplaceAt(s, i, y), s, i, y, L)
<1>1. s \in [1 .. Len(s) -> L] /\ Len(s) \in Nat /\ DOMAIN s = 1 .. Len(s)
  BY LenProperties
<1> DEFINE u == [s EXCEPT ![i] = y]
<1>2. u \in Seq(L) /\ Len(u) = Len(s) /\ \A k \in 1 .. Len(s) : u[k] = IF k = i THEN y ELSE s[k]
  BY <1>1, ExceptSeq
<1>3. u = SE!ReplaceAt(s, i, y)
  BY DEF SE!ReplaceAt
<1> HIDE DEF u
<1>4. IsReplaced(u, s, i, y, L)
  BY <1>2 DEF IsReplaced
<1>5. QED  BY <1>3, <1>4

\* The same for a word and one a letter longer.
LEMMA EditedLonger ==
  ASSUME NEW L, NEW s \in Seq(L), NEW x \in L, NEW y \in L
  PROVE  /\ SE!RemoveAt(Append(s, x), Len(s) + 1) = s
         /\ \A i \in 1 .. Len(s) : SE!RemoveAt(Append(s, x), i) = Append(SE!RemoveAt(s, i), x)
         /\ SE!InsertAt(s, Len(s) + 1, y) = Append(s, y)
         /\ \A i \in 1 .. Len(s) + 1 :
              SE!InsertAt(Append(s, x), i, y) = Append(SE!InsertAt(s, i, y), x)
         /\ SE!ReplaceAt(Append(s, x), Len(s) + 1, y) = Append(s, y)
         /\ \A i \in 1 .. Len(s) :
              SE!ReplaceAt(Append(s, x), i, y) = Append(SE!ReplaceAt(s, i, y), x)
<1> DEFINE n == Len(s)
           p == Append(s, x)
           q == Append(s, y)
<1>1. n \in Nat
  BY LenProperties
<1>2. p \in Seq(L) /\ Len(p) = n + 1 /\ p[n + 1] = x /\ \A k \in 1 .. n : p[k] = s[k]
  BY <1>1, AppendProperties
<1>3. q \in Seq(L) /\ Len(q) = n + 1 /\ q[n + 1] = y /\ \A k \in 1 .. n : q[k] = s[k]
  BY <1>1, AppendProperties
<1> HIDE DEF n, p, q
<1>4. SE!RemoveAt(p, n + 1) = s
  <2> DEFINE u == SE!RemoveAt(p, n + 1)
  <2>1. u \in Seq(L) /\ Len(u) = n /\ \A k \in 1 .. n : u[k] = p[k]
    <3>1. IsRemoved(u, p, n + 1, L)
      BY <1>1, <1>2, RemoveIs
    <3> HIDE DEF u
    <3>2. QED  BY <1>1, <1>2, <3>1 DEF IsRemoved
  <2> HIDE DEF u
  <2>2. u = s
    BY <1>1, <1>2, <2>1, SeqEqual DEF n
  <2>3. QED  BY <2>2 DEF u
<1>5. ASSUME NEW i \in 1 .. n PROVE SE!RemoveAt(p, i) = Append(SE!RemoveAt(s, i), x)
  <2> DEFINE u == SE!RemoveAt(p, i)
             r == SE!RemoveAt(s, i)
             v == Append(r, x)
  <2>1. u \in Seq(L) /\ Len(u) = n /\ \A k \in 1 .. n : u[k] = IF k < i THEN p[k] ELSE p[k + 1]
    <3>1. IsRemoved(u, p, i, L)
      BY <1>1, <1>2, RemoveIs
    <3> HIDE DEF u
    <3>2. QED  BY <1>1, <1>2, <3>1 DEF IsRemoved
  <2>2. r \in Seq(L) /\ Len(r) = n - 1 /\ \A k \in 1 .. n - 1 : r[k] = IF k < i THEN s[k] ELSE s[k + 1]
    <3>1. IsRemoved(r, s, i, L)
      BY <1>1, RemoveIs DEF n
    <3> HIDE DEF r
    <3>2. QED  BY <1>1, <1>2, <3>1 DEF IsRemoved, n
  <2>3. v \in Seq(L) /\ Len(v) = n /\ v[n] = x /\ \A k \in 1 .. n - 1 : v[k] = r[k]
    <3> HIDE DEF r
    <3>1. QED  BY <1>1, <2>2, AppendProperties
  <2> HIDE DEF u, v, r
  <2>4. ASSUME NEW k \in 1 .. n PROVE u[k] = v[k]
    <3>1. CASE k = n
      <4>1. ~(k < i) /\ k + 1 = n + 1
        BY <1>1, <3>1
      <4>2. QED  BY <1>2, <2>1, <2>3, <3>1, <4>1
    <3>2. CASE k < n
      <4>1. k \in 1 .. n - 1 /\ k + 1 \in 1 .. n
        BY <1>1, <3>2
      <4>2. QED  BY <1>2, <2>1, <2>2, <2>3, <4>1
    <3>3. QED  BY <1>1, <3>1, <3>2
  <2>5. u = v
    BY <1>1, <2>1, <2>3, <2>4, SeqEqual
  <2>6. QED  BY <2>5 DEF u, v, r
<1>6. SE!InsertAt(s, n + 1, y) = q
  <2> DEFINE u == SE!InsertAt(s, n + 1, y)
  <2>1. /\ u \in Seq(L) /\ Len(u) = n + 1
        /\ \A k \in 1 .. n + 1 : u[k] = IF k < n + 1 THEN s[k] ELSE IF k = n + 1 THEN y ELSE s[k - 1]
    <3>1. IsInserted(u, s, n + 1, y, L)
      BY <1>1, InsertIs DEF n
    <3> HIDE DEF u
    <3>2. QED  BY <1>1, <1>2, <3>1 DEF IsInserted, n
  <2> HIDE DEF u
  <2>2. \A k \in 1 .. n + 1 : u[k] = q[k]
    BY <1>1, <1>3, <2>1
  <2>3. u = q
    BY <1>1, <1>3, <2>1, <2>2, SeqEqual
  <2>4. QED  BY <2>3 DEF u
<1>7. ASSUME NEW i \in 1 .. n + 1 PROVE SE!InsertAt(p, i, y) = Append(SE!InsertAt(s, i, y), x)
  <2> DEFINE u == SE!InsertAt(p, i, y)
             r == SE!InsertAt(s, i, y)
             v == Append(r, x)
  <2>1. /\ u \in Seq(L) /\ Len(u) = n + 2
        /\ \A k \in 1 .. n + 2 : u[k] = IF k < i THEN p[k] ELSE IF k = i THEN y ELSE p[k - 1]
    <3>1. IsInserted(u, p, i, y, L)
      BY <1>1, <1>2, InsertIs
    <3> HIDE DEF u
    <3>2. QED  BY <1>1, <1>2, <3>1 DEF IsInserted
  <2>2. /\ r \in Seq(L) /\ Len(r) = n + 1
        /\ \A k \in 1 .. n + 1 : r[k] = IF k < i THEN s[k] ELSE IF k = i THEN y ELSE s[k - 1]
    <3>1. IsInserted(r, s, i, y, L)
      BY <1>1, InsertIs DEF n
    <3> HIDE DEF r
    <3>2. QED  BY <1>1, <1>2, <3>1 DEF IsInserted, n
  <2>3. v \in Seq(L) /\ Len(v) = n + 2 /\ v[n + 2] = x /\ \A k \in 1 .. n + 1 : v[k] = r[k]
    <3> HIDE DEF r
    <3>1. QED  BY <1>1, <2>2, AppendProperties
  <2> HIDE DEF u, v, r
  <2>4. ASSUME NEW k \in 1 .. n + 2 PROVE u[k] = v[k]
    <3>1. CASE k = n + 2
      <4>1. ~(k < i) /\ k # i /\ k - 1 = n + 1
        BY <1>1, <3>1
      <4>2. QED  BY <1>2, <2>1, <2>3, <3>1, <4>1
    <3>2. CASE k < n + 2
      <4>1. k \in 1 .. n + 1
        BY <1>1, <3>2
      <4>2. v[k] = IF k < i THEN s[k] ELSE IF k = i THEN y ELSE s[k - 1]
        BY <2>2, <2>3, <4>1
      <4>3. (k < i => k \in 1 .. n) /\ (k > i => k - 1 \in 1 .. n)
        BY <1>1, <4>1
      <4>4. QED  BY <1>1, <1>2, <2>1, <4>2, <4>3
    <3>3. QED  BY <1>1, <3>1, <3>2
  <2>5. u = v
    BY <1>1, <2>1, <2>3, <2>4, SeqEqual
  <2>6. QED  BY <2>5 DEF u, v, r
<1>8. SE!ReplaceAt(p, n + 1, y) = q
  <2> DEFINE u == SE!ReplaceAt(p, n + 1, y)
  <2>1. u \in Seq(L) /\ Len(u) = n + 1 /\ \A k \in 1 .. n + 1 : u[k] = IF k = n + 1 THEN y ELSE p[k]
    <3>1. IsReplaced(u, p, n + 1, y, L)
      BY <1>1, <1>2, ReplaceIs
    <3> HIDE DEF u
    <3>2. QED  BY <1>1, <1>2, <3>1 DEF IsReplaced
  <2> HIDE DEF u
  <2>2. \A k \in 1 .. n + 1 : u[k] = q[k]
    BY <1>1, <1>2, <1>3, <2>1
  <2>3. u = q
    BY <1>1, <1>3, <2>1, <2>2, SeqEqual
  <2>4. QED  BY <2>3 DEF u
<1>9. ASSUME NEW i \in 1 .. n PROVE SE!ReplaceAt(p, i, y) = Append(SE!ReplaceAt(s, i, y), x)
  <2> DEFINE u == SE!ReplaceAt(p, i, y)
             r == SE!ReplaceAt(s, i, y)
             v == Append(r, x)
  <2>1. u \in Seq(L) /\ Len(u) = n + 1 /\ \A k \in 1 .. n + 1 : u[k] = IF k = i THEN y ELSE p[k]
    <3>1. IsReplaced(u, p, i, y, L)
      BY <1>1, <1>2, ReplaceIs
    <3> HIDE DEF u
    <3>2. QED  BY <1>1, <1>2, <3>1 DEF IsReplaced
  <2>2. r \in Seq(L) /\ Len(r) = n /\ \A k \in 1 .. n : r[k] = IF k = i THEN y ELSE s[k]
    <3>1. IsReplaced(r, s, i, y, L)
      BY <1>1, ReplaceIs DEF n
    <3> HIDE DEF r
    <3>2. QED  BY <1>1, <1>2, <3>1 DEF IsReplaced, n
  <2>3. v \in Seq(L) /\ Len(v) = n + 1 /\ v[n + 1] = x /\ \A k \in 1 .. n : v[k] = r[k]
    <3> HIDE DEF r
    <3>1. QED  BY <1>1, <2>2, AppendProperties
  <2> HIDE DEF u, v, r
  <2>4. ASSUME NEW k \in 1 .. n + 1 PROVE u[k] = v[k]
    <3>1. CASE k = n + 1
      <4>1. k # i
        BY <1>1, <3>1
      <4>2. QED  BY <1>2, <2>1, <2>3, <3>1, <4>1
    <3>2. CASE k < n + 1
      <4>1. k \in 1 .. n
        BY <1>1, <3>2
      <4>2. QED  BY <1>2, <2>1, <2>2, <2>3, <4>1
    <3>3. QED  BY <1>1, <3>1, <3>2
  <2>5. u = v
    BY <1>1, <2>1, <2>3, <2>4, SeqEqual
  <2>6. QED  BY <2>5 DEF u, v, r
<1>10. QED  BY <1>4, <1>5, <1>6, <1>7, <1>8, <1>9 DEF n, p, q

\* A word is another with one letter less, more or replaced.
LEMMA EditIs ==
  ASSUME NEW s \in Seq(Letters), NEW t
  PROVE  t \in Edits(s) <=>
           \/ \E i \in 1 .. Len(s) : t = SE!RemoveAt(s, i)
           \/ \E i \in 1 .. Len(s) + 1 : \E y \in Letters : t = SE!InsertAt(s, i, y)
           \/ \E i \in 1 .. Len(s) : \E y \in Letters : t = SE!ReplaceAt(s, i, y)
<1>1. DOMAIN s = 1 .. Len(s)
  BY LenProperties
<1>2. t \in {SE!RemoveAt(s, i) : i \in DOMAIN s} <=> \E i \in 1 .. Len(s) : t = SE!RemoveAt(s, i)
  BY <1>1
<1>3. t \in {SE!InsertAt(s, i, l) : i \in 1 .. Len(s) + 1, l \in Letters} <=>
        \E i \in 1 .. Len(s) + 1 : \E y \in Letters : t = SE!InsertAt(s, i, y)
  OBVIOUS
<1>4. t \in {SE!ReplaceAt(s, i, l) : i \in DOMAIN s, l \in Letters} <=>
        \E i \in 1 .. Len(s) : \E y \in Letters : t = SE!ReplaceAt(s, i, y)
  BY <1>1
<1>5. QED  BY <1>2, <1>3, <1>4 DEF Edits

\* An edit of a word is a word.
LEMMA EditsTyped ==
  ASSUME NEW s \in Seq(Letters), NEW t \in Edits(s)
  PROVE  t \in Seq(Letters)
<1>1. CASE \E i \in 1 .. Len(s) : t = SE!RemoveAt(s, i)
  BY <1>1, RemoveIs DEF IsRemoved
<1>2. CASE \E i \in 1 .. Len(s) + 1 : \E y \in Letters : t = SE!InsertAt(s, i, y)
  BY <1>2, InsertIs DEF IsInserted
<1>3. CASE \E i \in 1 .. Len(s) : \E y \in Letters : t = SE!ReplaceAt(s, i, y)
  BY <1>3, ReplaceIs DEF IsReplaced
<1>4. QED  BY <1>1, <1>2, <1>3, EditIs

\* Edits of a word a letter longer: at its end.
LEMMA EditsAtEnd ==
  ASSUME NEW s \in Seq(Letters), NEW x \in Letters, NEW y \in Letters
  PROVE  /\ Append(s, x) \in Edits(s)
         /\ s \in Edits(Append(s, x))
         /\ Append(s, y) \in Edits(Append(s, x))
<1> DEFINE n == Len(s)
           p == Append(s, x)
<1>1. n \in Nat /\ p \in Seq(Letters) /\ Len(p) = n + 1
  BY LenProperties, AppendProperties
<1>2. SE!InsertAt(s, n + 1, x) = p /\ SE!RemoveAt(p, n + 1) = s /\ SE!ReplaceAt(p, n + 1, y) = Append(s, y)
  BY EditedLonger
<1>3. n + 1 \in 1 .. Len(s) + 1 /\ n + 1 \in 1 .. Len(p)
  BY <1>1
<1> HIDE DEF p, n
<1>4. p \in Edits(s)
  BY <1>2, <1>3, EditIs
<1>5. s \in Edits(p)
  BY <1>1, <1>2, <1>3, EditIs
<1>6. Append(s, y) \in Edits(p)
  BY <1>1, <1>2, <1>3, EditIs
<1>7. QED  BY <1>4, <1>5, <1>6 DEF p

\* Before its end.
LEMMA EditsBefore ==
  ASSUME NEW s \in Seq(Letters), NEW x \in Letters, NEW t \in Edits(s)
  PROVE  Append(t, x) \in Edits(Append(s, x))
<1> DEFINE n == Len(s)
           p == Append(s, x)
<1>1. n \in Nat /\ p \in Seq(Letters) /\ Len(p) = n + 1
  BY LenProperties, AppendProperties
<1>2. CASE \E i \in 1 .. n : t = SE!RemoveAt(s, i)
  <2>1. PICK i \in 1 .. n : t = SE!RemoveAt(s, i)
    BY <1>2
  <2>2. Append(t, x) = SE!RemoveAt(p, i)
    BY <2>1, EditedLonger
  <2>3. i \in 1 .. Len(p)
    BY <1>1
  <2> HIDE DEF p
  <2>4. Append(t, x) \in Edits(p)
    BY <1>1, <2>2, <2>3, EditIs
  <2>5. QED  BY <2>4 DEF p
<1>3. CASE \E i \in 1 .. n + 1 : \E y \in Letters : t = SE!InsertAt(s, i, y)
  <2>1. PICK i \in 1 .. n + 1, y \in Letters : t = SE!InsertAt(s, i, y)
    BY <1>3
  <2>2. Append(t, x) = SE!InsertAt(p, i, y)
    BY <2>1, EditedLonger
  <2>3. i \in 1 .. Len(p) + 1
    BY <1>1
  <2> HIDE DEF p
  <2>4. Append(t, x) \in Edits(p)
    BY <1>1, <2>2, <2>3, EditIs
  <2>5. QED  BY <2>4 DEF p
<1>4. CASE \E i \in 1 .. n : \E y \in Letters : t = SE!ReplaceAt(s, i, y)
  <2>1. PICK i \in 1 .. n, y \in Letters : t = SE!ReplaceAt(s, i, y)
    BY <1>4
  <2>2. Append(t, x) = SE!ReplaceAt(p, i, y)
    BY <2>1, EditedLonger
  <2>3. i \in 1 .. Len(p)
    BY <1>1
  <2> HIDE DEF p
  <2>4. Append(t, x) \in Edits(p)
    BY <1>1, <2>2, <2>3, EditIs
  <2>5. QED  BY <2>4 DEF p
<1>5. QED  BY <1>2, <1>3, <1>4, EditIs

\* There are no others.
LEMMA EditsOnly ==
  ASSUME NEW s \in Seq(Letters), NEW x \in Letters, NEW t \in Edits(Append(s, x))
  PROVE  \/ t = s
         \/ \E y \in Letters : t = Append(s, y)
         \/ \E y \in Letters : t = Append(Append(s, x), y)
         \/ \E u \in Edits(s) : t = Append(u, x)
<1> DEFINE n == Len(s)
           p == Append(s, x)
<1>1. n \in Nat /\ p \in Seq(Letters) /\ Len(p) = n + 1
  BY LenProperties, AppendProperties
<1>2. \/ \E i \in 1 .. n + 1 : t = SE!RemoveAt(p, i)
      \/ \E i \in 1 .. n + 2 : \E y \in Letters : t = SE!InsertAt(p, i, y)
      \/ \E i \in 1 .. n + 1 : \E y \in Letters : t = SE!ReplaceAt(p, i, y)
  <2> HIDE DEF n
  <2>1. t \in Edits(p)
    OBVIOUS
  <2>2. Len(p) + 1 = n + 2
    BY <1>1
  <2> HIDE DEF p
  <2>3. QED  BY <1>1, <2>1, <2>2, EditIs
<1>3. CASE \E i \in 1 .. n + 1 : t = SE!RemoveAt(p, i)
  <2>1. PICK i \in 1 .. n + 1 : t = SE!RemoveAt(p, i)
    BY <1>3
  <2>2. CASE i = n + 1
    BY <2>1, <2>2, EditedLonger
  <2>3. CASE i \in 1 .. n
    <3>1. t = Append(SE!RemoveAt(s, i), x)
      BY <2>1, <2>3, EditedLonger
    <3>2. SE!RemoveAt(s, i) \in Edits(s)
      BY <2>3, EditIs
    <3>3. QED  BY <3>1, <3>2
  <2>4. QED  BY <1>1, <2>2, <2>3
<1>4. CASE \E i \in 1 .. n + 2 : \E y \in Letters : t = SE!InsertAt(p, i, y)
  <2>1. PICK i \in 1 .. n + 2, y \in Letters : t = SE!InsertAt(p, i, y)
    BY <1>4
  <2>2. CASE i = n + 2
    <3>1. t = SE!InsertAt(p, Len(p) + 1, y)
      BY <1>1, <2>1, <2>2
    <3> HIDE DEF p
    <3>2. t = Append(p, y)
      BY <1>1, <3>1, EditedLonger
    <3>3. QED  BY <3>2 DEF p
  <2>3. CASE i \in 1 .. n + 1
    <3>1. t = Append(SE!InsertAt(s, i, y), x)
      BY <2>1, <2>3, EditedLonger
    <3>2. SE!InsertAt(s, i, y) \in Edits(s)
      BY <2>3, EditIs
    <3>3. QED  BY <3>1, <3>2
  <2>4. QED  BY <1>1, <2>2, <2>3
<1>5. CASE \E i \in 1 .. n + 1 : \E y \in Letters : t = SE!ReplaceAt(p, i, y)
  <2>1. PICK i \in 1 .. n + 1, y \in Letters : t = SE!ReplaceAt(p, i, y)
    BY <1>5
  <2>2. CASE i = n + 1
    BY <2>1, <2>2, EditedLonger
  <2>3. CASE i \in 1 .. n
    <3>1. t = Append(SE!ReplaceAt(s, i, y), x)
      BY <2>1, <2>3, EditedLonger
    <3>2. SE!ReplaceAt(s, i, y) \in Edits(s)
      BY <2>3, EditIs
    <3>3. QED  BY <3>1, <3>2
  <2>4. QED  BY <1>1, <2>2, <2>3
<1>6. QED  BY <1>2, <1>3, <1>4, <1>5

\* Edits of the empty word.
LEMMA EditsOfEmpty ==
  ASSUME NEW z \in Seq(Letters), Len(z) = 0, NEW t \in Edits(z)
  PROVE  \E y \in Letters : t = Append(z, y)
<1>1. 1 .. Len(z) = {}
  OBVIOUS
<1>2. CASE \E i \in 1 .. Len(z) + 1 : \E y \in Letters : t = SE!InsertAt(z, i, y)
  <2>1. PICK i \in 1 .. Len(z) + 1, y \in Letters : t = SE!InsertAt(z, i, y)
    BY <1>2
  <2>2. t = SE!InsertAt(z, Len(z) + 1, y)
    BY <2>1
  <2>3. SE!InsertAt(z, Len(z) + 1, y) = Append(z, y)
    BY ONLY z \in Seq(Letters), EditedLonger
  <2>4. QED  BY ONLY <2>2, <2>3
<1>3. CASE \E i \in 1 .. Len(z) : t = SE!RemoveAt(z, i)
  BY <1>1, <1>3
<1>4. CASE \E i \in 1 .. Len(z) : \E y \in Letters : t = SE!ReplaceAt(z, i, y)
  BY <1>1, <1>4
<1>5. \/ \E i \in 1 .. Len(z) : t = SE!RemoveAt(z, i)
      \/ \E i \in 1 .. Len(z) + 1 : \E y \in Letters : t = SE!InsertAt(z, i, y)
      \/ \E i \in 1 .. Len(z) : \E y \in Letters : t = SE!ReplaceAt(z, i, y)
  BY ONLY z \in Seq(Letters), t \in Edits(z), EditIs
<1>6. QED  BY ONLY <1>2, <1>3, <1>4, <1>5

-----------------------------------------------------------------------------
(*****************************************************************************)
(* What edit_distance and suggest_from give                                *)
(*****************************************************************************)

\* A word is within k edits of another, for k up to 2.
IsWithin(k, s, t) ==
  \/ t = s
  \/ k >= 1 /\ t \in Edits(s)
  \/ k >= 2 /\ \E u \in Edits(s) : t \in Edits(u)

\* One edit more, of either word, and a letter more in both.
LEMMA WithinMore ==
  ASSUME NEW k \in 0 .. 1, NEW s, NEW t, IsWithin(k, s, t)
  PROVE  /\ \A u \in Edits(t) : IsWithin(k + 1, s, u)
         /\ \A p : s \in Edits(p) => IsWithin(k + 1, p, t)
<1>1. ASSUME NEW u \in Edits(t) PROVE IsWithin(k + 1, s, u)
  <2>1. k + 1 >= 1
    OBVIOUS
  <2>2. CASE t = s
    BY <2>1, <2>2 DEF IsWithin
  <2>3. CASE k >= 1 /\ t \in Edits(s)
    <3>1. k + 1 >= 2
      BY <2>3
    <3>2. QED  BY <2>3, <3>1 DEF IsWithin
  <2>4. ~(k >= 2)
    OBVIOUS
  <2>5. QED  BY <2>2, <2>3, <2>4 DEF IsWithin
<1>2. ASSUME NEW p, s \in Edits(p) PROVE IsWithin(k + 1, p, t)
  <2>1. k + 1 >= 1
    OBVIOUS
  <2>2. CASE t = s
    BY <1>2, <2>1, <2>2 DEF IsWithin
  <2>3. CASE k >= 1 /\ t \in Edits(s)
    <3>1. k + 1 >= 2
      BY <2>3
    <3>2. QED  BY <1>2, <2>3, <3>1 DEF IsWithin
  <2>4. ~(k >= 2)
    OBVIOUS
  <2>5. QED  BY <2>2, <2>3, <2>4 DEF IsWithin
<1>3. QED  BY <1>1, <1>2

\* Words k edits apart stay so when the same letter is appended to both.
LEMMA WithinLonger ==
  ASSUME NEW k \in Nat, NEW s \in Seq(Letters), NEW t, NEW x \in Letters, IsWithin(k, s, t)
  PROVE  IsWithin(k, Append(s, x), Append(t, x))
<1>1. CASE t = s
  BY <1>1 DEF IsWithin
<1>2. CASE k >= 1 /\ t \in Edits(s)
  <2>1. Append(t, x) \in Edits(Append(s, x))
    BY <1>2, EditsBefore
  <2>2. QED  BY <1>2, <2>1 DEF IsWithin
<1>3. CASE k >= 2 /\ \E u \in Edits(s) : t \in Edits(u)
  <2>1. PICK u \in Edits(s) : t \in Edits(u)
    BY <1>3
  <2>2. u \in Seq(Letters)
    BY EditsTyped
  <2>3. Append(u, x) \in Edits(Append(s, x)) /\ Append(t, x) \in Edits(Append(u, x))
    BY <2>1, <2>2, EditsBefore
  <2>4. QED  BY <1>3, <2>3 DEF IsWithin
<1>4. QED  BY <1>1, <1>2, <1>3 DEF IsWithin

\* A distance of up to 2 is reached by as many edits.
InReach(s, t) == \A k \in 0 .. 2 : EditDistance(s, t) <= k => IsWithin(k, s, t)

\* If the distance is one more than that of words a letter shorter.
LEMMA ReachedByOneMore ==
  ASSUME NEW s \in Seq(Letters), NEW t \in Seq(Letters), NEW x \in Letters, NEW y \in Letters,
         EditDistance(s, t) \in Nat, InReach(s, t)
  PROVE  /\ EditDistance(s, Append(t, y)) = EditDistance(s, t) + 1 => InReach(s, Append(t, y))
         /\ EditDistance(Append(s, x), t) = EditDistance(s, t) + 1 => InReach(Append(s, x), t)
<1>1. ASSUME NEW k \in 0 .. 2, EditDistance(s, t) + 1 <= k
      PROVE  IsWithin(k, s, Append(t, y)) /\ IsWithin(k, Append(s, x), t)
  <2>1. k - 1 \in 0 .. 1 /\ k - 1 \in 0 .. 2 /\ EditDistance(s, t) <= k - 1 /\ (k - 1) + 1 = k
    BY <1>1
  <2>2. IsWithin(k - 1, s, t)
    BY <2>1 DEF InReach
  <2>3. Append(t, y) \in Edits(t) /\ s \in Edits(Append(s, x))
    BY EditsAtEnd
  <2>4. IsWithin((k - 1) + 1, s, Append(t, y)) /\ IsWithin((k - 1) + 1, Append(s, x), t)
    BY <2>1, <2>2, <2>3, WithinMore
  <2>5. QED  BY <2>1, <2>4
<1>2. QED  BY <1>1 DEF InReach

\* If it is that of words both a letter shorter, or one more if the letters
\* differ.
LEMMA ReachedByBoth ==
  ASSUME NEW s \in Seq(Letters), NEW t \in Seq(Letters), NEW x \in Letters, NEW y \in Letters,
         EditDistance(s, t) \in Nat, InReach(s, t),
         EditDistance(Append(s, x), Append(t, y)) = EditDistance(s, t) + Cost(x, y)
  PROVE  InReach(Append(s, x), Append(t, y))
<1> SUFFICES ASSUME NEW k \in 0 .. 2, EditDistance(s, t) + Cost(x, y) <= k
             PROVE  IsWithin(k, Append(s, x), Append(t, y))
  BY DEF InReach
<1>1. CASE x = y
  <2>1. IsWithin(k, s, t)
    BY <1>1 DEF InReach, Cost
  <2>2. QED  BY <1>1, <2>1, WithinLonger
<1>2. CASE x # y
  <2>1. k - 1 \in 0 .. 1 /\ k - 1 \in 0 .. 2 /\ k - 1 \in Nat /\ EditDistance(s, t) <= k - 1 /\ (k - 1) + 1 = k
    BY <1>2 DEF Cost
  <2>2. IsWithin(k - 1, s, t)
    BY <2>1 DEF InReach
  <2>3. IsWithin(k - 1, Append(s, x), Append(t, x))
    BY <2>1, <2>2, WithinLonger
  <2>4. Append(t, y) \in Edits(Append(t, x))
    BY EditsAtEnd
  <2>5. IsWithin((k - 1) + 1, Append(s, x), Append(t, y))
    BY <2>1, <2>3, <2>4, WithinMore
  <2>6. QED  BY <2>1, <2>5
<1>3. QED  BY <1>1, <1>2

\* A word at most two away in the table is that many edits away, by induction on both words.
LEMMA AllReached ==
  \A s \in Seq(Letters) : \A t \in Seq(Letters) : InReach(s, t)
<1> DEFINE S == {s \in Seq(Letters) : \A t \in Seq(Letters) : InReach(s, t)}
           z == <<>>
<1>1. z \in Seq(Letters) /\ Len(z) = 0
  BY EmptySeq
<1>2. \A s \in Seq(Letters) : EditDistance(z, s) = Len(s) /\ EditDistance(s, z) = Len(s)
  <2> TAKE s \in Seq(Letters)
  <2>1. CASE Letters = {}
    <3>1. s = <<>>
      BY <2>1, SequenceEmptyOrAppend
    <3>2. PICK d : IsTable(d, s, s) /\ EditDistance(s, s) = d[Len(s)][Len(s)]
      BY <1>1, <3>1, Tabulated
    <3>3. QED  BY <1>1, <3>1, <3>2 DEF IsTable
  <2>2. CASE Letters # {}
    BY <2>2, Distances
  <2>3. QED  BY <2>1, <2>2
<1> HIDE DEF z
<1>3. InReach(z, z)
  BY DEF InReach, IsWithin
<1>4. z \in S
  <2> DEFINE T == {t \in Seq(Letters) : InReach(z, t)}
  <2>1. z \in T
    BY <1>1, <1>3
  <2>2. ASSUME NEW t \in Seq(Letters), NEW y \in Letters, t \in T PROVE Append(t, y) \in T
    <3>1. Append(t, y) \in Seq(Letters) /\ Len(Append(t, y)) = Len(t) + 1 /\ Len(t) \in Nat
      BY AppendProperties, LenProperties
    <3>2. EditDistance(z, Append(t, y)) = EditDistance(z, t) + 1 /\ EditDistance(z, t) \in Nat
      BY <1>2, <3>1
    <3>3. InReach(z, Append(t, y))
      BY <1>1, <2>2, <3>2, ReachedByOneMore
    <3>4. QED  BY <3>1, <3>3
  <2>3. \A t \in Seq(Letters) : t \in T
    <3> HIDE DEF T
    <3>1. QED  BY <2>1, <2>2, WordInduction DEF z
  <2>4. QED  BY <1>1, <2>3
<1>5. ASSUME NEW s \in Seq(Letters), NEW x \in Letters, s \in S PROVE Append(s, x) \in S
  <2> DEFINE p == Append(s, x)
             T == {t \in Seq(Letters) : InReach(p, t)}
  <2>1. p \in Seq(Letters) /\ Len(p) = Len(s) + 1 /\ Len(s) \in Nat
    BY AppendProperties, LenProperties
  <2>2. z \in T
    <3>1. EditDistance(p, z) = EditDistance(s, z) + 1 /\ EditDistance(s, z) \in Nat /\ InReach(s, z)
      BY <1>1, <1>2, <1>5, <2>1
    <3>2. InReach(p, z)
      BY <1>1, <3>1, ReachedByOneMore
    <3>3. QED  BY <1>1, <3>2
  <2>3. ASSUME NEW t \in Seq(Letters), NEW y \in Letters, t \in T PROVE Append(t, y) \in T
    <3> DEFINE q == Append(t, y)
    <3>1. q \in Seq(Letters)
      BY AppendProperties
    <3>2. /\ EditDistance(s, t) \in Nat /\ EditDistance(s, q) \in Nat /\ EditDistance(p, t) \in Nat
          /\ EditDistance(p, q) \in {EditDistance(s, q) + 1, EditDistance(p, t) + 1,
                                     EditDistance(s, t) + Cost(x, y)}
      <4>1. IsCell(EditDistance(p, q), EditDistance(s, q), EditDistance(p, t), EditDistance(s, t), Cost(x, y))
        BY Distances
      <4> HIDE DEF p, q
      <4>2. EditDistance(s, t) \in Nat /\ EditDistance(s, q) \in Nat /\ EditDistance(p, t) \in Nat
        BY <2>1, <3>1, Distances
      <4>3. QED  BY <4>1, <4>2 DEF IsCell
    <3>3. InReach(s, t) /\ InReach(s, q) /\ InReach(p, t)
      BY <1>5, <2>3, <3>1
    <3>4. CASE EditDistance(p, q) = EditDistance(s, q) + 1
      BY <3>1, <3>2, <3>3, <3>4, ReachedByOneMore
    <3>5. CASE EditDistance(p, q) = EditDistance(p, t) + 1
      <4> HIDE DEF p
      <4>1. InReach(p, Append(t, y))
        BY <2>1, <3>2, <3>3, <3>5, ReachedByOneMore
      <4>2. QED  BY <4>1
    <3>6. CASE EditDistance(p, q) = EditDistance(s, t) + Cost(x, y)
      BY <3>2, <3>3, <3>6, ReachedByBoth
    <3>7. QED  BY <3>1, <3>2, <3>4, <3>5, <3>6
  <2>4. \A t \in Seq(Letters) : t \in T
    <3> HIDE DEF T
    <3>1. QED  BY <2>2, <2>3, WordInduction DEF z
  <2>5. QED  BY <2>1, <2>4
<1>6. \A s \in Seq(Letters) : s \in S
  <2> HIDE DEF S
  <2>1. QED  BY <1>4, <1>5, WordInduction DEF z
<1>7. QED  BY <1>6

\* The neighbours of a cell are at most one more than those of another.
AreNear(up, left, diagonal, up2, left2, diagonal2) ==
  /\ up \in Nat /\ left \in Nat /\ diagonal \in Nat
  /\ up2 \in Nat /\ left2 \in Nat /\ diagonal2 \in Nat
  /\ up <= up2 + 1 /\ left <= left2 + 1 /\ diagonal <= diagonal2 + 1

\* Then so is the cell.
LEMMA NearCells ==
  ASSUME NEW cell, NEW up, NEW left, NEW diagonal, NEW cost \in 0 .. 1,
         NEW cell2, NEW up2, NEW left2, NEW diagonal2, cell \in Nat, cell2 \in Nat,
         IsCell(cell, up, left, diagonal, cost), IsCell(cell2, up2, left2, diagonal2, cost),
         AreNear(up, left, diagonal, up2, left2, diagonal2)
  PROVE  cell <= cell2 + 1
<1>1. cell2 = up2 + 1 \/ cell2 = left2 + 1 \/ cell2 = diagonal2 + cost
  BY DEF IsCell
<1>2. cell <= up + 1 /\ cell <= left + 1 /\ cell <= diagonal + cost
  BY DEF IsCell
<1>3. QED  BY <1>1, <1>2 DEF AreNear

\* A word is no further from any other than one more than another is.
Near(t, u) == \A s \in Seq(Letters) : EditDistance(s, t) <= EditDistance(s, u) + 1

\* Distances are numbers, and those from the empty word lengths.
LEMMA DistancesTyped ==
  /\ \A s, t \in Seq(Letters) : EditDistance(s, t) \in Nat
  /\ \A s \in Seq(Letters) : EditDistance(<<>>, s) = Len(s) /\ EditDistance(s, <<>>) = Len(s)
  /\ \A s, t \in Seq(Letters) : \A x, y \in Letters :
       IsCell(EditDistance(Append(s, x), Append(t, y)), EditDistance(s, Append(t, y)),
              EditDistance(Append(s, x), t), EditDistance(s, t), Cost(x, y))
<1>1. CASE Letters # {}
  BY <1>1, Distances
<1>2. CASE Letters = {}
  <2>1. \A s \in Seq(Letters) : s = <<>>
    BY <1>2, SequenceEmptyOrAppend
  <2>2. EditDistance(<<>>, <<>>) = 0
    <3> DEFINE z == <<>>
    <3>1. Len(z) = 0
      BY EmptySeq
    <3> HIDE DEF z
    <3>2. PICK d : IsTable(d, z, z) /\ EditDistance(z, z) = d[Len(z)][Len(z)]
      BY <3>1, Tabulated
    <3>3. EditDistance(z, z) = 0
      BY <3>1, <3>2 DEF IsTable
    <3>4. QED  BY <3>3 DEF z
  <2>3. QED  BY <1>2, <2>1, <2>2, EmptySeq
<1>3. QED  BY <1>1, <1>2

\* A letter more makes a word at most one further away.
LEMMA LongerByOne ==
  ASSUME NEW s \in Seq(Letters), NEW t \in Seq(Letters), NEW x \in Letters
  PROVE  EditDistance(Append(s, x), t) <= EditDistance(s, t) + 1
<1> DEFINE p == Append(s, x)
<1>1. p \in Seq(Letters) /\ Len(p) = Len(s) + 1 /\ Len(s) \in Nat
  BY AppendProperties, LenProperties
<1>2. CASE t = <<>>
  <2> HIDE DEF p
  <2>1. EditDistance(p, t) = Len(p) /\ EditDistance(s, t) = Len(s)
    BY <1>1, <1>2, DistancesTyped
  <2>2. EditDistance(p, t) <= EditDistance(s, t) + 1
    BY <1>1, <2>1
  <2>3. QED  BY <2>2 DEF p
<1>3. CASE t # <<>>
  <2>1. PICK u \in Seq(Letters), y \in Letters : t = Append(u, y)
    BY <1>3, SequenceEmptyOrAppend
  <2>2. IsCell(EditDistance(p, t), EditDistance(s, t), EditDistance(p, u), EditDistance(s, u), Cost(x, y))
    BY <2>1, DistancesTyped
  <2>3. QED  BY <2>2 DEF IsCell
<1>4. QED  BY <1>2, <1>3

\* One letter less, more or replaced at the end.
LEMMA NearAtEnd ==
  ASSUME NEW t \in Seq(Letters), NEW y \in Letters, NEW w \in Letters
  PROVE  Near(t, Append(t, y)) /\ Near(Append(t, y), t) /\ Near(Append(t, w), Append(t, y))
<1> DEFINE q == Append(t, y)
           r == Append(t, w)
           Neighbors(s) == /\ EditDistance(s, t) <= EditDistance(s, q) + 1
                     /\ EditDistance(s, q) <= EditDistance(s, t) + 1
                     /\ EditDistance(s, r) <= EditDistance(s, q) + 1
           S == {s \in Seq(Letters) : Neighbors(s)}
           z == <<>>
<1>1. /\ q \in Seq(Letters) /\ Len(q) = Len(t) + 1 /\ Len(t) \in Nat
      /\ r \in Seq(Letters) /\ Len(r) = Len(t) + 1
  BY AppendProperties, LenProperties
<1>2. z \in S
  <2>1. z \in Seq(Letters)
    BY EmptySeq
  <2>2. EditDistance(z, t) = Len(t) /\ EditDistance(z, q) = Len(t) + 1 /\ EditDistance(z, r) = Len(t) + 1
    <3> HIDE DEF q, r
    <3>1. QED  BY <1>1, DistancesTyped
  <2> HIDE DEF q, r, z
  <2>3. QED  BY <1>1, <2>1, <2>2
<1>3. ASSUME NEW s \in Seq(Letters), NEW x \in Letters, s \in S PROVE Append(s, x) \in S
  <2> DEFINE p == Append(s, x)
  <2>1. p \in Seq(Letters)
    BY AppendProperties
  <2>2. /\ IsCell(EditDistance(p, q), EditDistance(s, q), EditDistance(p, t), EditDistance(s, t), Cost(x, y))
        /\ IsCell(EditDistance(p, r), EditDistance(s, r), EditDistance(p, t), EditDistance(s, t), Cost(x, w))
    BY DistancesTyped
  <2> HIDE DEF p, q, r
  <2>3. /\ EditDistance(p, q) \in Nat /\ EditDistance(s, q) \in Nat /\ EditDistance(p, t) \in Nat
        /\ EditDistance(s, t) \in Nat /\ EditDistance(p, r) \in Nat /\ EditDistance(s, r) \in Nat
    BY <1>1, <2>1, DistancesTyped
  <2>4. Cost(x, y) \in 0 .. 1 /\ Cost(x, w) \in 0 .. 1
    BY DEF Cost
  <2>5. EditDistance(p, t) <= EditDistance(p, q) + 1
    <3>1. EditDistance(p, t) <= EditDistance(s, t) + 1
      BY LongerByOne DEF p
    <3>2. EditDistance(p, q) \in {EditDistance(s, q) + 1, EditDistance(p, t) + 1,
                                  EditDistance(s, t) + Cost(x, y)}
      BY <2>2 DEF IsCell
    <3>3. EditDistance(s, t) <= EditDistance(s, q) + 1
      BY <1>3
    <3>4. CASE EditDistance(p, q) = EditDistance(s, q) + 1
      BY ONLY <2>3, <3>1, <3>3, <3>4
    <3>5. CASE EditDistance(p, q) = EditDistance(p, t) + 1
      BY ONLY <2>3, <3>5
    <3>6. CASE EditDistance(p, q) = EditDistance(s, t) + Cost(x, y)
      BY ONLY <2>3, <2>4, <3>1, <3>6
    <3>7. QED  BY <3>2, <3>4, <3>5, <3>6
  <2>6. EditDistance(p, q) <= EditDistance(p, t) + 1
    BY <1>3, <2>2, <2>3, <2>4 DEF IsCell
  <2>7. EditDistance(p, r) <= EditDistance(p, q) + 1
    <3>1. EditDistance(p, r) <= EditDistance(p, t) + 1 /\ EditDistance(p, r) <= EditDistance(s, r) + 1
          /\ EditDistance(p, r) <= EditDistance(s, t) + Cost(x, w)
      BY <2>2 DEF IsCell
    <3>2. EditDistance(p, q) \in {EditDistance(s, q) + 1, EditDistance(p, t) + 1,
                                  EditDistance(s, t) + Cost(x, y)}
      BY <2>2 DEF IsCell
    <3>3. EditDistance(s, r) <= EditDistance(s, q) + 1
      BY <1>3
    <3>4. CASE EditDistance(p, q) = EditDistance(s, q) + 1
      BY ONLY <2>3, <3>1, <3>3, <3>4
    <3>5. CASE EditDistance(p, q) = EditDistance(p, t) + 1
      BY ONLY <2>3, <3>1, <3>5
    <3>6. CASE EditDistance(p, q) = EditDistance(s, t) + Cost(x, y)
      BY ONLY <2>3, <2>4, <3>1, <3>6
    <3>7. QED  BY <3>2, <3>4, <3>5, <3>6
  <2>8. QED  BY <2>1, <2>5, <2>6, <2>7 DEF p
<1>4. \A s \in Seq(Letters) : s \in S
  <2> HIDE DEF S
  <2>1. QED  BY <1>2, <1>3, WordInduction DEF z
<1>5. QED  BY <1>4 DEF Near

\* A letter more in both.
LEMMA NearLonger ==
  ASSUME NEW t \in Seq(Letters), NEW u \in Seq(Letters), NEW y \in Letters, Near(t, u)
  PROVE  Near(Append(t, y), Append(u, y))
<1> DEFINE q == Append(t, y)
           r == Append(u, y)
           S == {s \in Seq(Letters) : EditDistance(s, q) <= EditDistance(s, r) + 1}
           z == <<>>
<1>1. /\ q \in Seq(Letters) /\ Len(q) = Len(t) + 1 /\ Len(t) \in Nat
      /\ r \in Seq(Letters) /\ Len(r) = Len(u) + 1 /\ Len(u) \in Nat
  BY AppendProperties, LenProperties
<1>2. z \in S
  <2>1. z \in Seq(Letters)
    BY EmptySeq
  <2>2. /\ EditDistance(z, t) = Len(t) /\ EditDistance(z, q) = Len(t) + 1
        /\ EditDistance(z, u) = Len(u) /\ EditDistance(z, r) = Len(u) + 1
    <3> HIDE DEF q, r
    <3>1. QED  BY <1>1, DistancesTyped
  <2> HIDE DEF q, r, z
  <2>3. EditDistance(z, t) <= EditDistance(z, u) + 1
    BY <2>1 DEF Near
  <2>4. QED  BY <1>1, <2>1, <2>2, <2>3
<1>3. ASSUME NEW s \in Seq(Letters), NEW x \in Letters, s \in S PROVE Append(s, x) \in S
  <2> DEFINE p == Append(s, x)
  <2>1. p \in Seq(Letters)
    BY AppendProperties
  <2>2. /\ IsCell(EditDistance(p, q), EditDistance(s, q), EditDistance(p, t), EditDistance(s, t), Cost(x, y))
        /\ IsCell(EditDistance(p, r), EditDistance(s, r), EditDistance(p, u), EditDistance(s, u), Cost(x, y))
    BY DistancesTyped
  <2> HIDE DEF p, q, r
  <2>3. /\ EditDistance(p, q) \in Nat /\ EditDistance(s, q) \in Nat /\ EditDistance(p, t) \in Nat
        /\ EditDistance(s, t) \in Nat /\ EditDistance(p, r) \in Nat /\ EditDistance(s, r) \in Nat
        /\ EditDistance(p, u) \in Nat /\ EditDistance(s, u) \in Nat
    BY <1>1, <2>1, DistancesTyped
  <2>4. Cost(x, y) \in 0 .. 1
    BY DEF Cost
  <2>5. /\ EditDistance(p, t) <= EditDistance(p, u) + 1
        /\ EditDistance(s, t) <= EditDistance(s, u) + 1
    BY <2>1 DEF Near
  <2>6. EditDistance(s, q) <= EditDistance(s, r) + 1
    BY <1>3
  <2>7. EditDistance(p, q) <= EditDistance(p, r) + 1
    <3>1. AreNear(EditDistance(s, q), EditDistance(p, t), EditDistance(s, t),
                  EditDistance(s, r), EditDistance(p, u), EditDistance(s, u))
      BY ONLY <2>3, <2>5, <2>6 DEF AreNear
    <3>2. QED  BY ONLY <2>2, <2>3, <2>4, <3>1, NearCells, Zenon
  <2>8. QED  BY <2>1, <2>7 DEF p
<1>4. \A s \in Seq(Letters) : s \in S
  <2> HIDE DEF S
  <2>1. QED  BY <1>2, <1>3, WordInduction DEF z
<1>5. QED  BY <1>4 DEF Near

\* An edit is near.
LEMMA EditsNear ==
  \A u \in Seq(Letters) : \A t \in Edits(u) : Near(t, u)
<1> DEFINE S == {u \in Seq(Letters) : \A t \in Edits(u) : Near(t, u)}
           z == <<>>
<1>1. z \in S
  <2>1. z \in Seq(Letters) /\ Len(z) = 0
    BY EmptySeq
  <2> HIDE DEF z
  <2>2. ASSUME NEW t \in Edits(z) PROVE Near(t, z)
    BY <2>1, EditsOfEmpty, NearAtEnd
  <2>3. QED  BY <2>1, <2>2
<1>2. ASSUME NEW u \in Seq(Letters), NEW x \in Letters, u \in S PROVE Append(u, x) \in S
  <2>1. Append(u, x) \in Seq(Letters)
    BY AppendProperties
  <2>2. ASSUME NEW t \in Edits(Append(u, x)) PROVE Near(t, Append(u, x))
    <3>1. CASE t = u
      BY <3>1, NearAtEnd
    <3>2. CASE \E y \in Letters : t = Append(u, y)
      BY <3>2, NearAtEnd
    <3>3. CASE \E y \in Letters : t = Append(Append(u, x), y)
      BY <2>1, <3>3, NearAtEnd
    <3>4. CASE \E v \in Edits(u) : t = Append(v, x)
      <4>1. PICK v \in Edits(u) : t = Append(v, x)
        BY <3>4
      <4>2. v \in Seq(Letters) /\ Near(v, u)
        BY <1>2, EditsTyped
      <4>3. QED  BY <4>1, <4>2, NearLonger
    <3>5. QED  BY <3>1, <3>2, <3>3, <3>4, EditsOnly
  <2>3. QED  BY <2>1, <2>2
<1>3. \A u \in Seq(Letters) : u \in S
  <2> HIDE DEF S
  <2>1. QED  BY <1>1, <1>2, WordInduction DEF z
<1>4. QED  BY <1>3

\* A word is at distance 0 from itself.
LEMMA DistanceToItself ==
  \A s \in Seq(Letters) : EditDistance(s, s) = 0
<1> DEFINE S == {s \in Seq(Letters) : EditDistance(s, s) = 0}
           z == <<>>
<1>1. z \in S
  <2>1. z \in Seq(Letters) /\ Len(z) = 0
    BY EmptySeq
  <2>2. EditDistance(z, z) = Len(z)
    BY <2>1, DistancesTyped
  <2>3. QED  BY <2>1, <2>2
<1>2. ASSUME NEW s \in Seq(Letters), NEW x \in Letters, s \in S PROVE Append(s, x) \in S
  <2> DEFINE p == Append(s, x)
  <2>1. p \in Seq(Letters)
    BY AppendProperties
  <2>2. IsCell(EditDistance(p, p), EditDistance(s, p), EditDistance(p, s), EditDistance(s, s), Cost(x, x))
    BY DistancesTyped
  <2> HIDE DEF p
  <2>3. EditDistance(p, p) \in Nat
    BY <2>1, DistancesTyped
  <2>4. EditDistance(p, p) = 0
    BY <1>2, <2>2, <2>3 DEF IsCell, Cost
  <2>5. QED  BY <2>1, <2>4 DEF p
<1>3. \A s \in Seq(Letters) : s \in S
  <2> HIDE DEF S
  <2>1. QED  BY <1>1, <1>2, WordInduction DEF z
<1>4. QED  BY <1>3

\* What edit_distance computes, up to 2: how many edits make one word of the
\* other.
THEOREM DistanceMeans ==
  ASSUME NEW s \in Seq(Letters), NEW t \in Seq(Letters), NEW k \in 0 .. 2
  PROVE  EditDistance(s, t) <= k <=> IsWithin(k, s, t)
<1>1. EditDistance(s, t) <= k => IsWithin(k, s, t)
  BY AllReached DEF InReach
<1> SUFFICES ASSUME IsWithin(k, s, t) PROVE EditDistance(s, t) <= k
  BY <1>1
<1>2. EditDistance(s, s) = 0
  BY DistanceToItself
<1>3. ASSUME NEW u \in Edits(s) PROVE u \in Seq(Letters) /\ EditDistance(s, u) <= 1
  <2>1. u \in Seq(Letters) /\ Near(u, s)
    BY EditsTyped, EditsNear
  <2>2. EditDistance(s, u) <= EditDistance(s, s) + 1
    BY <2>1 DEF Near
  <2>3. QED  BY <1>2, <2>1, <2>2
<1>4. CASE t = s
  BY <1>2, <1>4
<1>5. CASE k >= 1 /\ t \in Edits(s)
  <2>1. t \in Seq(Letters) /\ EditDistance(s, t) <= 1
    BY <1>3, <1>5
  <2>2. EditDistance(s, t) \in Nat
    BY <2>1, DistancesTyped
  <2>3. QED  BY <1>5, <2>1, <2>2
<1>6. CASE k >= 2 /\ \E u \in Edits(s) : t \in Edits(u)
  <2>1. PICK u \in Edits(s) : t \in Edits(u)
    BY <1>6
  <2>2. u \in Seq(Letters) /\ EditDistance(s, u) <= 1 /\ Near(t, u)
    BY <1>3, <2>1, EditsNear
  <2>3. EditDistance(s, t) <= EditDistance(s, u) + 1
    BY <2>2 DEF Near
  <2>4. EditDistance(s, t) \in Nat /\ EditDistance(s, u) \in Nat
    BY <2>2, DistancesTyped
  <2>5. QED  BY <1>6, <2>2, <2>3, <2>4
<1>7. QED  BY <1>1, <1>4, <1>5, <1>6 DEF IsWithin

\* A word is spelled with the letters in use.
LEMMA SpelledInLetters ==
  ASSUME NEW w \in DOMAIN Spelling
  PROVE  Spelling[w] \in Seq(Letters)
<1> DEFINE s == Spelling[w]
<1>1. s \in Seq(STRING)
  BY SuggestAssumption
<1>2. Len(s) \in Nat /\ s \in [1 .. Len(s) -> STRING] /\ DOMAIN s = 1 .. Len(s)
  BY <1>1, LenProperties
<1>3. \A i \in DOMAIN s : s[i] \in Letters
  BY DEF Letters
<1> HIDE DEF s
<1>4. s \in [1 .. Len(s) -> Letters]
  BY <1>2, <1>3
<1>5. s \in Seq(Letters)
  BY ONLY <1>2, <1>4, SeqDef
<1>6. QED  BY <1>5 DEF s

\* The keys at distance 1 are those an edit away, those at distance 2 two
\* edits away if not one.
LEMMA KeyDistances ==
  ASSUME NEW word \in DOMAIN Spelling, NEW key \in DOMAIN Spelling
  PROVE  LET s == Spelling[word]
             t == Spelling[key]
             d == EditDistance(s, t)
         IN  /\ d \in Nat
             /\ d = 1 <=> t # s /\ t \in Edits(s)
             /\ d = 2 => t # s /\ t \in EditsOfAll(Edits(s))
             /\ t # s /\ t \in EditsOfAll(Edits(s)) => d \in 1 .. 2
<1> DEFINE s == Spelling[word]
           t == Spelling[key]
           d == EditDistance(s, t)
<1>1. s \in Seq(Letters) /\ t \in Seq(Letters)
  BY SpelledInLetters
<1> HIDE DEF s, t
<1>2. d \in Nat
  BY <1>1, DistancesTyped
<1>3. d <= 0 <=> IsWithin(0, s, t)
  BY <1>1, DistanceMeans
<1>4. d <= 1 <=> IsWithin(1, s, t)
  BY <1>1, DistanceMeans
<1>5. d <= 2 <=> IsWithin(2, s, t)
  BY <1>1, DistanceMeans
<1> HIDE DEF d
<1>6. d = 0 <=> t = s
  BY <1>2, <1>3 DEF IsWithin
<1>7. d <= 1 <=> (t = s \/ t \in Edits(s))
  BY <1>4 DEF IsWithin
<1>8. d <= 2 <=> (t = s \/ t \in Edits(s) \/ t \in EditsOfAll(Edits(s)))
  BY <1>5 DEF IsWithin, EditsOfAll
<1>9. /\ d \in Nat
      /\ d = 1 <=> t # s /\ t \in Edits(s)
      /\ d = 2 => t # s /\ t \in EditsOfAll(Edits(s))
      /\ t # s /\ t \in EditsOfAll(Edits(s)) => d \in 1 .. 2
  BY <1>2, <1>6, <1>7, <1>8
<1>10. QED  BY <1>9 DEF s, t, d

\* suggest_from gives the advice it should.
THEOREM SuggestFromIsAdvice ==
  ASSUME NEW word \in DOMAIN Spelling, NEW aliases, NEW hints, NEW keys \in Seq(DOMAIN Spelling)
  PROVE  IsAdvice(SuggestFrom(word, aliases, hints, keys), word, aliases, hints, keys)
<1> DEFINE s == Spelling[word]
           D(i) == EditDistance(s, Spelling[keys[i]])
           close == {i \in DOMAIN keys : D(i) \in 1 .. 2}
           nearest == {i \in close : \A j \in close : D(i) <= D(j)}
           once == {k \in SE!ToSet(keys) : Spelling[k] \in Edits(s) \ {s}}
           twice == {k \in SE!ToSet(keys) : Spelling[k] \in EditsOfAll(Edits(s)) \ {s}}
           advice == SuggestFrom(word, aliases, hints, keys)
<1>1. advice = IF Rows(word, aliases) # {} THEN UseKey(aliases[CHOOSE w \in Rows(word, aliases) : TRUE])
               ELSE IF Rows(word, hints) # {} THEN Hint(hints[CHOOSE w \in Rows(word, hints) : TRUE])
               ELSE IF close # {} THEN UseKey(keys[Min(nearest)])
               ELSE None
  BY DEF SuggestFrom
<1>2. IsAdvice(advice, word, aliases, hints, keys) <=>
        IF Rows(word, aliases) # {} THEN advice \in {UseKey(aliases[w]) : w \in Rows(word, aliases)}
        ELSE IF Rows(word, hints) # {} THEN advice \in {Hint(hints[w]) : w \in Rows(word, hints)}
        ELSE IF once # {} THEN advice \in {UseKey(k) : k \in once}
        ELSE IF twice # {} THEN advice \in {UseKey(k) : k \in twice}
        ELSE advice = None
  BY DEF IsAdvice
<1>3. DOMAIN keys \subseteq Nat /\ \A i \in DOMAIN keys : keys[i] \in DOMAIN Spelling
  <2>1. Len(keys) \in Nat /\ keys \in [1 .. Len(keys) -> DOMAIN Spelling]
    BY LenProperties
  <2>2. QED  BY <2>1
<1>4. \A k : k \in SE!ToSet(keys) <=> \E i \in DOMAIN keys : k = keys[i]
  BY DEF SE!ToSet
<1>5. ASSUME NEW i \in DOMAIN keys
      PROVE  /\ D(i) \in Nat
             /\ D(i) = 1 <=> keys[i] \in once
             /\ D(i) = 2 => keys[i] \in twice
             /\ keys[i] \in twice => D(i) \in 1 .. 2
  <2>1. keys[i] \in DOMAIN Spelling /\ keys[i] \in SE!ToSet(keys)
    BY <1>3, <1>4
  <2>2. /\ D(i) \in Nat
        /\ D(i) = 1 <=> Spelling[keys[i]] # s /\ Spelling[keys[i]] \in Edits(s)
        /\ D(i) = 2 => Spelling[keys[i]] # s /\ Spelling[keys[i]] \in EditsOfAll(Edits(s))
        /\ Spelling[keys[i]] # s /\ Spelling[keys[i]] \in EditsOfAll(Edits(s)) => D(i) \in 1 .. 2
    BY <2>1, KeyDistances
  <2> HIDE DEF s, D
  <2>3. QED  BY <2>1, <2>2
<1>6. \A k \in once \cup twice : \E i \in DOMAIN keys : k = keys[i]
  BY <1>4
<1>7. nearest # {} => Min(nearest) \in nearest
  <2>1. nearest \in SUBSET Nat
    BY <1>3
  <2> HIDE DEF nearest
  <2>2. QED  BY <2>1, MinIs
<1> SUFFICES IsAdvice(advice, word, aliases, hints, keys)
  OBVIOUS
<1> HIDE DEF once, twice, advice, D
<1>8. CASE Rows(word, aliases) # {}
  <2> DEFINE w == CHOOSE w \in Rows(word, aliases) : TRUE
  <2>1. w \in Rows(word, aliases) /\ advice = UseKey(aliases[w])
    BY <1>1, <1>8
  <2> HIDE DEF w, close, nearest
  <2>2. advice \in {UseKey(aliases[v]) : v \in Rows(word, aliases)}
    BY ONLY <2>1
  <2>3. QED  BY ONLY <1>2, <1>8, <2>2, Zenon
<1>9. CASE Rows(word, aliases) = {} /\ Rows(word, hints) # {}
  <2> DEFINE w == CHOOSE w \in Rows(word, hints) : TRUE
  <2>1. w \in Rows(word, hints) /\ advice = Hint(hints[w])
    BY <1>1, <1>9
  <2> HIDE DEF w, close, nearest
  <2>2. advice \in {Hint(hints[v]) : v \in Rows(word, hints)}
    BY ONLY <2>1
  <2>3. QED  BY ONLY <1>2, <1>9, <2>2, Zenon
<1>10. CASE Rows(word, aliases) = {} /\ Rows(word, hints) = {} /\ once # {}
  <2>1. PICK i \in DOMAIN keys : keys[i] \in once
    BY <1>6, <1>10
  <2>2. D(i) = 1 /\ i \in close
    BY <1>5, <2>1
  <2>3. i \in nearest
    BY <1>5, <2>2
  <2> DEFINE m == Min(nearest)
  <2>4. m \in nearest
    BY <1>7, <2>3
  <2> HIDE DEF m
  <2>5. m \in DOMAIN keys /\ D(m) = 1
    BY <1>5, <2>2, <2>4
  <2>6. keys[m] \in once
    BY <1>5, <2>5
  <2>7. advice = UseKey(keys[m])
    <3>1. close # {}
      BY <2>2
    <3> HIDE DEF close, nearest
    <3>2. QED  BY <1>1, <1>10, <3>1 DEF m
  <2>8. advice \in {UseKey(k) : k \in once}
    BY ONLY <2>6, <2>7
  <2>9. QED  BY ONLY <1>2, <1>10, <2>8, Zenon
<1>11. CASE Rows(word, aliases) = {} /\ Rows(word, hints) = {} /\ once = {} /\ twice # {}
  <2>1. PICK i \in DOMAIN keys : keys[i] \in twice
    BY <1>6, <1>11
  <2>2. i \in close
    BY <1>5, <2>1
  <2>3. \A j \in close : D(j) = 2
    BY <1>5, <1>11
  <2>4. i \in nearest
    BY <2>2, <2>3
  <2> DEFINE m == Min(nearest)
  <2>5. m \in nearest
    BY <1>7, <2>4
  <2> HIDE DEF m
  <2>6. m \in DOMAIN keys /\ D(m) = 2
    BY <2>3, <2>5
  <2>7. keys[m] \in twice
    BY <1>5, <2>6
  <2>8. advice = UseKey(keys[m])
    <3>1. close # {}
      BY <2>2
    <3> HIDE DEF close, nearest
    <3>2. QED  BY <1>1, <1>11, <3>1 DEF m
  <2>9. advice \in {UseKey(k) : k \in twice}
    BY ONLY <2>7, <2>8
  <2>10. QED  BY ONLY <1>2, <1>11, <2>9, Zenon
<1>12. CASE Rows(word, aliases) = {} /\ Rows(word, hints) = {} /\ once = {} /\ twice = {}
  <2>1. close = {}
    BY <1>5, <1>12
  <2>2. advice = None
    <3> HIDE DEF close, nearest
    <3>1. QED  BY ONLY <1>1, <1>12, <2>1, Zenon
  <2>3. QED  BY ONLY <1>2, <1>12, <2>2, Zenon
<1>13. QED  BY <1>8, <1>9, <1>10, <1>11, <1>12

-----------------------------------------------------------------------------
(***************************************************************************)
(* What an accepted document is parsed to                                  *)
(***************************************************************************)

\* What All makes of outcomes, for the value built from them.
Outcome(outcomes, val) ==
  LET failed == {i \in DOMAIN outcomes : outcomes[i].is # "ok"}
  IN  IF failed = {} THEN Ok(val) ELSE outcomes[CHOOSE i \in failed : \A j \in failed : i <= j]

\* It is a value only if all of the outcomes are.
LEMMA AllOk ==
  ASSUME NEW outcomes, DOMAIN outcomes \in SUBSET Nat, NEW val, Outcome(outcomes, val).is = "ok"
  PROVE  /\ \A i \in DOMAIN outcomes : outcomes[i].is = "ok"
         /\ Outcome(outcomes, val).val = val
<1> DEFINE failed == {i \in DOMAIN outcomes : outcomes[i].is # "ok"}
           first == CHOOSE i \in failed : \A j \in failed : i <= j
<1>1. Outcome(outcomes, val) = IF failed = {} THEN Ok(val) ELSE outcomes[first]
  BY DEF Outcome
<1>2. ASSUME failed # {} PROVE first \in failed
  <2>1. failed \in SUBSET Nat
    OBVIOUS
  <2> HIDE DEF failed
  <2>2. \E i \in failed : \A j \in failed : i <= j
    BY <2>1, <1>2, Least
  <2>3. QED  BY <2>2
<1>3. failed = {}
  BY <1>1, <1>2
<1>4. QED  BY <1>1, <1>3 DEF Ok

\* Of several failures All returns the first.
LEMMA FailsAt ==
  ASSUME NEW outcomes, DOMAIN outcomes \in SUBSET Nat, NEW val,
         NEW i \in DOMAIN outcomes, outcomes[i].is # "ok",
         \A j \in DOMAIN outcomes : j < i => outcomes[j].is = "ok"
  PROVE  Outcome(outcomes, val) = outcomes[i]
<1> DEFINE failed == {j \in DOMAIN outcomes : outcomes[j].is # "ok"}
           first == CHOOSE j \in failed : \A k \in failed : j <= k
<1>1. Outcome(outcomes, val) = IF failed = {} THEN Ok(val) ELSE outcomes[first]
  BY DEF Outcome
<1>2. i \in failed /\ \A k \in failed : i <= k
  OBVIOUS
<1>3. failed \in SUBSET Nat
  OBVIOUS
<1> HIDE DEF failed
<1>4. first \in failed /\ \A k \in failed : first <= k
  BY <1>2
<1>5. first = i
  BY <1>2, <1>3, <1>4
<1>6. QED  BY <1>1, <1>2, <1>5

\* The same for one outcome.
LEMMA ThenOk ==
  ASSUME NEW outcome, NEW val, Outcome(<<outcome>>, val).is = "ok"
  PROVE  outcome.is = "ok" /\ Outcome(<<outcome>>, val).val = val
<1>1. DOMAIN <<outcome>> \in SUBSET Nat /\ 1 \in DOMAIN <<outcome>> /\ <<outcome>>[1] = outcome
  OBVIOUS
<1>2. QED  BY <1>1, AllOk

\* An accepted delivery has the parts that are written, each as parsed.
LEMMA DeliveryParsed ==
  ASSUME NEW o, ParseDeliveryFields(o).is = "ok"
  PROVE  LET d == ParseDeliveryFields(o).val
             drop == Inner(o.drop, "after")
             first == Inner(o.firstByte, "delay")
         IN  /\ \/ o.pace.is = "missing" /\ d.pace = None
                \/ /\ o.pace.is = "text" /\ ParsePaceStr(o.pace.s).is = "ok"
                   /\ d.pace = ParsePaceStr(o.pace.s).val
             /\ \/ o.drop.is = "missing" /\ d.drop = None
                \/ /\ o.drop.is # "missing" /\ drop.is = "text" /\ ParseBytesOrTime(drop.s).is = "ok"
                   /\ d.drop = ParseBytesOrTime(drop.s).val
             /\ \/ o.hang.is = "missing" /\ d.hang = None
                \/ /\ o.hang.is = "text" /\ ParseBytesOrTime(o.hang.s).is = "ok"
                   /\ d.hang = ParseBytesOrTime(o.hang.s).val
             /\ \/ o.firstByte.is = "missing" /\ d.firstByte = None
                \/ /\ o.firstByte.is # "missing" /\ first.is = "text"
                   /\ ParseDurationRange(first.s).is = "ok"
                   /\ d.firstByte = ParseDurationRange(first.s).val
<1> DEFINE drop == Inner(o.drop, "after")
           first == Inner(o.firstByte, "delay")
           p == IF o.pace.is = "missing" THEN Ok(None)
                ELSE IF o.pace.is = "text" THEN ParsePaceStr(o.pace.s) ELSE Error
           d == IF o.drop.is = "missing" THEN Ok(None)
                ELSE IF drop.is = "text" THEN ParseBytesOrTime(drop.s) ELSE Error
           h == IF o.hang.is = "missing" THEN Ok(None)
                ELSE IF o.hang.is = "text" THEN ParseBytesOrTime(o.hang.s) ELSE Error
           f == IF o.firstByte.is = "missing" THEN Ok(None)
                ELSE IF first.is = "text" THEN ParseDurationRange(first.s) ELSE Error
           outcomes == <<p, d, h, f>>
           val == Delivery(p.val, d.val, h.val, f.val)
<1>1. ParseDeliveryFields(o) = Outcome(outcomes, val)
  <2> DEFINE vals == [i \in DOMAIN outcomes |-> outcomes[i].val]
  <2>1. ParseDeliveryFields(o) = Outcome(outcomes, Delivery(vals[1], vals[2], vals[3], vals[4]))
    BY DEF ParseDeliveryFields, All, Outcome, Optional, FromText, ParseDrop, ParseHang,
           ParseFirstByte, Inner
  <2> HIDE DEF p, d, h, f
  <2>2. vals[1] = p.val /\ vals[2] = d.val /\ vals[3] = h.val /\ vals[4] = f.val
    OBVIOUS
  <2>3. QED  BY <2>1, <2>2
<1> HIDE DEF p, d, h, f
<1>2. DOMAIN outcomes \in SUBSET Nat /\ {1, 2, 3, 4} \subseteq DOMAIN outcomes
  OBVIOUS
<1>3. p.is = "ok" /\ d.is = "ok" /\ h.is = "ok" /\ f.is = "ok" /\ ParseDeliveryFields(o).val = val
  <2> HIDE DEF outcomes, val
  <2>1. (\A i \in {1, 2, 3, 4} : outcomes[i].is = "ok") /\ ParseDeliveryFields(o).val = val
    BY <1>1, <1>2, AllOk
  <2>2. QED  BY <2>1 DEF outcomes
<1>4. Error.is # "ok" /\ Ok(None).val = None
  BY DEF Error, Refused, Ok
<1>5. QED  BY <1>3, <1>4 DEF p, d, h, f, Delivery

\* So is an accepted behavior.
LEMMA BehaviorParsed ==
  ASSUME NEW o, ParseBehavior(o).is = "ok"
  PROVE  LET b == ParseBehavior(o).val
         IN  /\ \/ o.timeout.is = "missing" /\ b.timeout = None
                \/ /\ o.timeout.is = "text" /\ ParseDurationRange(o.timeout.s).is = "ok"
                   /\ b.timeout = ParseDurationRange(o.timeout.s).val
             /\ \/ o.conn.is = "missing" /\ b.conn = None
                \/ ParseConn(o.conn).is = "ok" /\ b.conn = ParseConn(o.conn).val
             /\ \/ o.rps.is = "missing" /\ b.rps = None
                \/ ParseRps(o.rps).is = "ok" /\ b.rps = ParseRps(o.rps).val
<1> DEFINE c == IF o.conn.is = "missing" THEN Ok(None) ELSE ParseConn(o.conn)
           r == IF o.rps.is = "missing" THEN Ok(None) ELSE ParseRps(o.rps)
           t == IF o.timeout.is = "missing" THEN Ok(None)
                ELSE IF o.timeout.is = "text" THEN ParseDurationRange(o.timeout.s) ELSE Error
           outcomes == <<c, r, t>>
           val == Behavior(c.val, r.val, t.val)
<1>1. ParseBehavior(o) = Outcome(outcomes, val)
  <2> DEFINE vals == [i \in DOMAIN outcomes |-> outcomes[i].val]
  <2>1. ParseBehavior(o) = Outcome(outcomes, Behavior(vals[1], vals[2], vals[3]))
    BY DEF ParseBehavior, All, Outcome, Optional, FromText
  <2> HIDE DEF c, r, t
  <2>2. vals[1] = c.val /\ vals[2] = r.val /\ vals[3] = t.val
    OBVIOUS
  <2>3. QED  BY <2>1, <2>2
<1> HIDE DEF c, r, t
<1>2. DOMAIN outcomes \in SUBSET Nat /\ {1, 2, 3} \subseteq DOMAIN outcomes
  OBVIOUS
<1>3. c.is = "ok" /\ r.is = "ok" /\ t.is = "ok" /\ ParseBehavior(o).val = val
  <2> HIDE DEF outcomes, val
  <2>1. (\A i \in {1, 2, 3} : outcomes[i].is = "ok") /\ ParseBehavior(o).val = val
    BY <1>1, <1>2, AllOk
  <2>2. QED  BY <2>1 DEF outcomes
<1>4. Error.is # "ok" /\ Ok(None).val = None
  BY DEF Error, Refused, Ok
<1>5. QED  BY <1>3, <1>4 DEF c, r, t, Behavior

\* A limit on connections is above 0, and has its answer to what is over it.
LEMMA ConnParsed ==
  ASSUME NEW field, ParseConn(field).is = "ok"
  PROVE  /\ field.is = "object" /\ field.o.max.is = "number" /\ field.o.max.n > 0
         /\ ParseConn(field).val.max = field.o.max.n % Width32
         /\ ParseConn(field).val # None
         /\ ParseOverflowAction(field.o.over).is = "ok"
         /\ ParseConn(field).val.over = ParseOverflowAction(field.o.over).val
<1> DEFINE o == field.o
           m == IF o.max.is = "number" /\ o.max.n > 0 THEN Ok(o.max) ELSE Error
           a == ParseOverflowAction(o.over)
           outcomes == <<m, a>>
           val == [is |-> "conn", max |-> m.val.n % Width32, over |-> a.val]
<1>1. field.is = "object"
  BY DEF ParseConn, FromObject, Error, Refused
<1>2. ParseConn(field) = Outcome(outcomes, val)
  <2> DEFINE vals == [i \in DOMAIN outcomes |-> outcomes[i].val]
  <2>1. ParseConn(field) =
          Outcome(outcomes, [is |-> "conn", max |-> vals[1].n % Width32, over |-> vals[2]])
    BY <1>1 DEF ParseConn, FromObject, All, Outcome, Check
  <2> HIDE DEF m, a
  <2>2. vals[1] = m.val /\ vals[2] = a.val
    OBVIOUS
  <2>3. QED  BY <2>1, <2>2
<1> HIDE DEF m, a
<1>3. DOMAIN outcomes \in SUBSET Nat /\ {1, 2} \subseteq DOMAIN outcomes
  OBVIOUS
<1>4. m.is = "ok" /\ a.is = "ok" /\ ParseConn(field).val = val
  <2> HIDE DEF outcomes, val
  <2>1. (\A i \in {1, 2} : outcomes[i].is = "ok") /\ ParseConn(field).val = val
    BY <1>2, <1>3, AllOk
  <2>2. QED  BY <2>1 DEF outcomes
<1>5. Error.is # "ok" /\ Ok(o.max).val = o.max
  BY DEF Error, Refused, Ok
<1>6. m = Ok(o.max) /\ o.max.is = "number" /\ o.max.n > 0
  BY <1>4, <1>5 DEF m
<1>7. val.max = o.max.n % Width32 /\ val.is = "conn" /\ val.over = a.val
  BY <1>5, <1>6
<1>8. QED  BY <1>1, <1>4, <1>6, <1>7 DEF None, a

\* A limit on the rate has a reply to what is over it.
LEMMA RpsParsed ==
  ASSUME NEW field, ParseRps(field).is = "ok"
  PROVE  /\ field.is = "object" /\ ParseReply(field.o.over, None).is = "ok"
         /\ ParseRps(field).val.reply = ParseReply(field.o.over, None).val
<1> DEFINE o == field.o
           m == IF o.max.is = "number" /\ o.max.n >= 0 THEN Ok(o.max) ELSE Error
           r == ParseReply(o.over, None)
           outcomes == <<m, r>>
           val == [is |-> "rps", max |-> m.val.n % Width32, reply |-> r.val]
<1>1. field.is = "object"
  BY DEF ParseRps, FromObject, Error, Refused
<1>2. ParseRps(field) = Outcome(outcomes, val)
  <2> DEFINE vals == [i \in DOMAIN outcomes |-> outcomes[i].val]
  <2>1. ParseRps(field) =
          Outcome(outcomes, [is |-> "rps", max |-> vals[1].n % Width32, reply |-> vals[2]])
    BY <1>1 DEF ParseRps, FromObject, All, Outcome, Check
  <2> HIDE DEF m, r
  <2>2. vals[1] = m.val /\ vals[2] = r.val
    OBVIOUS
  <2>3. QED  BY <2>1, <2>2
<1> HIDE DEF m, r
<1>3. DOMAIN outcomes \in SUBSET Nat /\ 2 \in DOMAIN outcomes /\ outcomes[2] = r
  OBVIOUS
<1>4. r.is = "ok" /\ ParseRps(field).val = val
  <2> HIDE DEF outcomes, val
  <2>1. QED  BY <1>2, <1>3, AllOk
<1>5. QED  BY <1>1, <1>4 DEF r

\* And so is an accepted serve.
LEMMA ServeParsed ==
  ASSUME NEW field, ParseServe(field).is = "ok"
  PROVE  /\ field.is = "object"
         /\ ParseDeliveryFields(field.o).is = "ok" /\ ParseBehavior(field.o).is = "ok"
         /\ ParseServe(field).val.delivery = ParseDeliveryFields(field.o).val
         /\ ParseServe(field).val.behavior = ParseBehavior(field.o).val
<1> DEFINE o == field.o
           k == KnownKeys(o, SuggestServeKey)
           d == ParseDeliveryFields(o)
           b == ParseBehavior(o)
           outcomes == <<k, d, b>>
           val == Serve(d.val, b.val)
<1>1. field.is = "object"
  BY DEF ParseServe, FromObject, Error, Refused
<1>2. ParseServe(field) = Outcome(outcomes, val)
  <2> DEFINE vals == [i \in DOMAIN outcomes |-> outcomes[i].val]
  <2>1. ParseServe(field) = Outcome(outcomes, Serve(vals[2], vals[3]))
    BY <1>1 DEF ParseServe, FromObject, All, Outcome
  <2> HIDE DEF k, d, b
  <2>2. vals[2] = d.val /\ vals[3] = b.val
    OBVIOUS
  <2>3. QED  BY <2>1, <2>2
<1> HIDE DEF k, d, b
<1>3. DOMAIN outcomes \in SUBSET Nat /\ {1, 2, 3} \subseteq DOMAIN outcomes
  OBVIOUS
<1>4. d.is = "ok" /\ b.is = "ok" /\ ParseServe(field).val = val
  <2> HIDE DEF outcomes, val
  <2>1. (\A i \in {1, 2, 3} : outcomes[i].is = "ok") /\ ParseServe(field).val = val
    BY <1>2, <1>3, AllOk
  <2>2. QED  BY <2>1 DEF outcomes
<1>5. QED  BY <1>1, <1>4 DEF d, b, Serve

\* A list is accepted if each of its elements is.
LEMMA RulesParsed ==
  ASSUME NEW doc, NEW base, ParseRules(doc, base).is = "ok",
         doc.is = "list" => IsList(doc.l)
  PROVE  \/ /\ doc.is = "list"
            /\ \A i \in DOMAIN doc.l : ParseRule(doc.l[i], base).is = "ok"
            /\ ParseRules(doc, base).val = [i \in DOMAIN doc.l |-> ParseRule(doc.l[i], base).val]
         \/ /\ doc.is = "object"
            /\ ParseRule(doc, base).is = "ok"
            /\ ParseRules(doc, base).val = <<ParseRule(doc, base).val>>
<1>1. CASE doc.is = "list"
  <2> DEFINE outcomes == [i \in DOMAIN doc.l |-> ParseRule(doc.l[i], base)]
             failed == {i \in DOMAIN outcomes : outcomes[i].is # "ok"}
             first == CHOOSE i \in failed : \A j \in failed : i <= j
  <2>1. ParseRules(doc, base) =
          IF failed = {} THEN Ok([i \in DOMAIN outcomes |-> outcomes[i].val]) ELSE outcomes[first]
    BY <1>1 DEF ParseRules, Each, All
  <2>2. failed \in SUBSET Nat
    BY <1>1, LenProperties DEF IsList
  <2>3. ASSUME failed # {} PROVE first \in failed
    <3>1. \E i \in failed : \A j \in failed : i <= j
      <4> HIDE DEF failed
      <4>1. QED  BY <2>2, <2>3, Least
    <3>2. QED  BY <3>1
  <2>4. failed = {}
    BY <2>1, <2>3
  <2>5. \A i \in DOMAIN doc.l : ParseRule(doc.l[i], base).is = "ok"
    BY <2>4
  <2>6. ParseRules(doc, base).val = [i \in DOMAIN doc.l |-> ParseRule(doc.l[i], base).val]
    BY <2>1, <2>4 DEF Ok
  <2>7. QED  BY <1>1, <2>5, <2>6
<1>2. CASE doc.is = "object"
  <2>1. ParseRule(doc, base).is = "ok" /\ ParseRules(doc, base).val = <<ParseRule(doc, base).val>>
    BY <1>2 DEF ParseRules, Then, All, Ok
  <2>2. QED  BY <1>2, <2>1
<1>3. CASE doc.is \notin {"list", "object"}
  BY <1>3 DEF ParseRules, Error, Refused
<1>4. QED  BY <1>1, <1>2, <1>3

\* An accepted rule has all of its parts, and each is accepted.
LEMMA RuleParsed ==
  ASSUME NEW v, NEW base, ParseRule(v, base).is = "ok"
  PROVE  LET o == v.o
             serve == IF o.serve.is = "missing" THEN Ok(DefaultServe) ELSE ParseServe(o.serve)
             chaos == IF o.chaos.is = "missing" THEN Ok(<<>>) ELSE ParseChaos(o.chaos)
             rule == ParseRule(v, base).val
         IN  /\ v.is = "object" /\ rule.source = o
             /\ ParseMatchRule(o.match).is = "ok" /\ rule.match = ParseMatchRule(o.match).val
             /\ ParseReplyStrategy(o.reply, base).is = "ok"
             /\ rule.reply = ParseReplyStrategy(o.reply, base).val
             /\ serve.is = "ok" /\ rule.delivery = serve.val.delivery
             /\ rule.behavior = serve.val.behavior
             /\ chaos.is = "ok" /\ rule.chaos = chaos.val
<1> DEFINE o == v.o
           known == KnownKeys(o, SuggestRuleKey)
           match == IF o.match.is = "missing" THEN Error ELSE ParseMatchRule(o.match)
           reply == IF o.reply.is = "missing" THEN Error ELSE ParseReplyStrategy(o.reply, base)
           serve == IF o.serve.is = "missing" THEN Ok(DefaultServe) ELSE ParseServe(o.serve)
           chaos == IF o.chaos.is = "missing" THEN Ok(<<>>) ELSE ParseChaos(o.chaos)
           outcomes == <<known, match, reply, serve, chaos>>
           rule == [match |-> match.val, reply |-> reply.val, delivery |-> serve.val.delivery,
                    behavior |-> serve.val.behavior, chaos |-> chaos.val, source |-> o]
<1>1. v.is = "object"
  BY DEF ParseRule, FromObject, Error, Refused
<1>2. ParseRule(v, base) = Outcome(outcomes, rule)
  <2> DEFINE vals == [i \in DOMAIN outcomes |-> outcomes[i].val]
  <2>1. ParseRule(v, base) =
          Outcome(outcomes, [match |-> vals[2], reply |-> vals[3], delivery |-> vals[4].delivery,
                             behavior |-> vals[4].behavior, chaos |-> vals[5], source |-> o])
    BY <1>1, ZenonT(30) DEF ParseRule, FromObject, All, Outcome, Required
  <2> HIDE DEF known, match, reply, serve, chaos
  <2>2. vals[2] = match.val /\ vals[3] = reply.val /\ vals[4] = serve.val /\ vals[5] = chaos.val
    OBVIOUS
  <2>3. QED  BY <2>1, <2>2
<1> HIDE DEF known, match, reply, serve, chaos
<1>3. DOMAIN outcomes \in SUBSET Nat /\ {2, 3, 4, 5} \subseteq DOMAIN outcomes
  OBVIOUS
<1>4. /\ match.is = "ok" /\ reply.is = "ok" /\ serve.is = "ok" /\ chaos.is = "ok"
      /\ ParseRule(v, base).val = rule
  <2> HIDE DEF outcomes, rule
  <2>1. (\A i \in {2, 3, 4, 5} : outcomes[i].is = "ok") /\ ParseRule(v, base).val = rule
    BY <1>2, <1>3, AllOk
  <2>2. QED  BY <2>1 DEF outcomes
<1>5. match = ParseMatchRule(o.match) /\ reply = ParseReplyStrategy(o.reply, base)
  BY <1>4 DEF match, reply, Error, Refused
<1>6. QED  BY <1>1, <1>4, <1>5 DEF serve, chaos

\* A rule with an unknown key, or with a serve: that has one, is refused for
\* it.
LEMMA ExtraRefused ==
  ASSUME NEW v, v.is = "object", NEW base
  PROVE  LET o == v.o
             match == IF o.match.is = "missing" THEN Error ELSE ParseMatchRule(o.match)
             reply == IF o.reply.is = "missing" THEN Error ELSE ParseReplyStrategy(o.reply, base)
         IN  /\ o.extra # NoWord => ParseRule(v, base) = Refused(SuggestRuleKey(o.extra))
             /\ /\ o.extra = NoWord /\ match.is = "ok" /\ reply.is = "ok"
                /\ o.serve.is = "object" /\ o.serve.o.extra # NoWord
                => ParseRule(v, base) = Refused(SuggestServeKey(o.serve.o.extra))
<1> DEFINE o == v.o
           known == KnownKeys(o, SuggestRuleKey)
           match == IF o.match.is = "missing" THEN Error ELSE ParseMatchRule(o.match)
           reply == IF o.reply.is = "missing" THEN Error ELSE ParseReplyStrategy(o.reply, base)
           serve == IF o.serve.is = "missing" THEN Ok(DefaultServe) ELSE ParseServe(o.serve)
           chaos == IF o.chaos.is = "missing" THEN Ok(<<>>) ELSE ParseChaos(o.chaos)
           outcomes == <<known, match, reply, serve, chaos>>
           vals == [i \in DOMAIN outcomes |-> outcomes[i].val]
           rule == [match |-> vals[2], reply |-> vals[3], delivery |-> vals[4].delivery,
                    behavior |-> vals[4].behavior, chaos |-> vals[5], source |-> o]
<1>1. ParseRule(v, base) = Outcome(outcomes, rule)
  BY DEF ParseRule, FromObject, All, Outcome, Required
<1>2. known = IF o.extra = NoWord THEN Ok(None) ELSE Refused(SuggestRuleKey(o.extra))
  BY DEF KnownKeys
<1>3. ASSUME o.serve.is = "object", o.serve.o.extra # NoWord
      PROVE  serve = Refused(SuggestServeKey(o.serve.o.extra))
  <2> DEFINE k == KnownKeys(o.serve.o, SuggestServeKey)
             d == ParseDeliveryFields(o.serve.o)
             b == ParseBehavior(o.serve.o)
             parts == <<k, d, b>>
             whole == [i \in DOMAIN parts |-> parts[i].val]
  <2>1. serve = Outcome(parts, Serve(whole[2], whole[3]))
    BY <1>3 DEF ParseServe, FromObject, All, Outcome
  <2>2. k = Refused(SuggestServeKey(o.serve.o.extra))
    BY <1>3 DEF KnownKeys
  <2> HIDE DEF k, d, b, serve
  <2>3. DOMAIN parts \in SUBSET Nat /\ 1 \in DOMAIN parts /\ parts[1] = k
    OBVIOUS
  <2>4. k.is # "ok" /\ \A j \in DOMAIN parts : ~(j < 1)
    BY <2>2 DEF Refused
  <2> DEFINE value == Serve(whole[2], whole[3])
  <2> HIDE DEF parts, value
  <2>5. Outcome(parts, value) = parts[1]
    BY <2>3, <2>4, FailsAt
  <2>6. QED  BY <2>1, <2>2, <2>3, <2>5 DEF value
<1> HIDE DEF known, match, reply, serve, chaos
<1>4. /\ DOMAIN outcomes \in SUBSET Nat /\ DOMAIN outcomes = 1 .. 5
      /\ outcomes[1] = known /\ outcomes[2] = match /\ outcomes[3] = reply /\ outcomes[4] = serve
  OBVIOUS
<1> HIDE DEF outcomes, rule
<1>5. ASSUME o.extra # NoWord PROVE ParseRule(v, base) = Refused(SuggestRuleKey(o.extra))
  <2>1. outcomes[1].is # "ok" /\ \A j \in DOMAIN outcomes : ~(j < 1)
    BY <1>2, <1>4, <1>5 DEF Refused
  <2>2. Outcome(outcomes, rule) = outcomes[1]
    BY <1>4, <2>1, FailsAt
  <2>3. QED  BY <1>1, <1>2, <1>4, <1>5, <2>2
<1>6. ASSUME o.extra = NoWord, match.is = "ok", reply.is = "ok",
             o.serve.is = "object", o.serve.o.extra # NoWord
      PROVE  ParseRule(v, base) = Refused(SuggestServeKey(o.serve.o.extra))
  <2>1. known.is = "ok"
    BY <1>2, <1>6 DEF Ok
  <2>2. serve.is # "ok"
    BY <1>3, <1>6 DEF Refused
  <2>3. \A j \in DOMAIN outcomes : j < 4 => outcomes[j].is = "ok"
    BY <1>4, <1>6, <2>1
  <2>4. Outcome(outcomes, rule) = outcomes[4]
    BY <1>4, <2>2, <2>3, FailsAt
  <2>5. QED  BY <1>1, <1>3, <1>4, <1>6, <2>4
<1>7. QED  BY <1>5, <1>6 DEF match, reply

\* A document is refused for the first rule that is not accepted.
LEMMA BlamedRefuses ==
  ASSUME NEW doc \in Documents \cup Trials, ParseRules(doc, None).is # "ok", Blamed(doc).is = "object"
  PROVE  IsRuleValue(Blamed(doc)) /\ ParseRules(doc, None) = ParseRule(Blamed(doc), None)
<1>1. CASE doc.is = "list"
  <2> DEFINE outcomes == [i \in DOMAIN doc.l |-> ParseRule(doc.l[i], None)]
             val == [i \in DOMAIN outcomes |-> outcomes[i].val]
             failed == {i \in DOMAIN doc.l : ParseRule(doc.l[i], None).is # "ok"}
             first == Min(failed)
  <2>1. ParseRules(doc, None) = Outcome(outcomes, val)
    BY <1>1 DEF ParseRules, Each, All, Outcome
  <2>2. IsList(doc.l) /\ \A i \in DOMAIN doc.l : IsRuleValue(doc.l[i])
    BY <1>1, DocumentsAssumption
  <2>3. DOMAIN doc.l \in SUBSET Nat
    BY <2>2, LenProperties DEF IsList
  <2>4. Blamed(doc) = doc.l[first]
    BY <1>1 DEF Blamed, RulesIn
  <2>5. failed # {}
    <3>1. ASSUME failed = {} PROVE Outcome(outcomes, val) = Ok(val)
      BY <3>1 DEF Outcome
    <3> HIDE DEF outcomes, val, failed
    <3>2. QED  BY <2>1, <3>1 DEF Ok
  <2>6. first \in failed /\ \A j \in failed : first <= j
    <3>1. failed \in SUBSET Nat
      BY <2>3
    <3> HIDE DEF failed
    <3>2. QED  BY <2>5, <3>1, MinIs
  <2> HIDE DEF first
  <2>7. /\ DOMAIN outcomes \in SUBSET Nat /\ first \in DOMAIN outcomes
        /\ outcomes[first] = ParseRule(doc.l[first], None) /\ outcomes[first].is # "ok"
    BY <2>3, <2>6
  <2>8. \A j \in DOMAIN outcomes : j < first => outcomes[j].is = "ok"
    BY <2>3, <2>6
  <2> HIDE DEF outcomes, val
  <2>9. Outcome(outcomes, val) = outcomes[first]
    BY <2>7, <2>8, FailsAt
  <2>10. QED  BY <2>1, <2>2, <2>4, <2>6, <2>7, <2>9
<1>2. CASE doc.is # "list"
  <2> DEFINE outcome == ParseRule(doc, None)
             failed == {i \in DOMAIN <<doc>> : ParseRule(<<doc>>[i], None).is # "ok"}
  <2>1. Blamed(doc) = <<doc>>[Min(failed)]
    BY <1>2 DEF Blamed, RulesIn
  <2>2. ASSUME outcome.is # "ok" PROVE Blamed(doc) = doc
    <3>1. failed = {1}
      BY <2>2
    <3>2. Min({1}) = 1
      <4>1. {1} \in SUBSET Nat /\ {1} # {}
        OBVIOUS
      <4>2. QED  BY <4>1, MinIs
    <3>3. QED  BY <2>1, <3>1, <3>2
  <2>3. CASE doc.is = "object"
    <3>1. ParseRules(doc, None) = Outcome(<<outcome>>, <<outcome.val>>)
      BY <2>3 DEF ParseRules, Then, All, Outcome
    <3> HIDE DEF outcome
    <3>2. ParseRules(doc, None) = outcome /\ outcome.is # "ok"
      <4>1. DOMAIN <<outcome>> = {1} /\ <<outcome>>[1] = outcome
        OBVIOUS
      <4>2. CASE outcome.is = "ok"
        <5>1. Outcome(<<outcome>>, <<outcome.val>>) = Ok(<<outcome.val>>)
          BY <4>1, <4>2 DEF Outcome
        <5>2. QED  BY <3>1, <5>1 DEF Ok
      <4>3. CASE outcome.is # "ok"
        <5>1. DOMAIN <<outcome>> \in SUBSET Nat /\ 1 \in DOMAIN <<outcome>>
              /\ \A j \in DOMAIN <<outcome>> : ~(j < 1)
          BY <4>1
        <5>2. Outcome(<<outcome>>, <<outcome.val>>) = <<outcome>>[1]
          BY <4>1, <4>3, <5>1, FailsAt
        <5>3. QED  BY <3>1, <4>1, <4>3, <5>2
      <4>4. QED  BY <4>2, <4>3
    <3>3. IsRuleValue(doc)
      BY <1>2, DocumentsAssumption
    <3>4. QED  BY <2>2, <3>2, <3>3 DEF outcome
  <2>4. CASE doc.is # "object"
    <3>1. outcome.is # "ok"
      BY <2>4 DEF ParseRule, FromObject, Error, Refused
    <3>2. QED  BY <2>2, <2>4, <3>1
  <2>5. QED  BY <2>3, <2>4
<1>3. QED  BY <1>1, <1>2

\* A sequence has replies; it and a static reply have each as parsed.
LEMMA StrategyParsed ==
  ASSUME NEW f, NEW base, ParseReplyStrategy(f, base).is = "ok",
         f.is = "list" => IsList(f.l)
  PROVE  LET reply == ParseReplyStrategy(f, base).val
         IN  /\ reply.is \in {"static", "sequence", "crud"}
             /\ reply.is = "static" =>
                  /\ f.is = "object" /\ ParseReply(f, base).is = "ok"
                  /\ reply.replies[1] = ParseReply(f, base).val
             /\ reply.is = "sequence" =>
                  /\ f.is = "list" /\ Len(reply.replies) \in Nat \ {0}
                  /\ \A i \in 1 .. Len(reply.replies) :
                       /\ i \in DOMAIN f.l /\ ParseReply(f.l[i], base).is = "ok"
                       /\ reply.replies[i] = ParseReply(f.l[i], base).val
<1>1. CASE f.is = "list"
  <2> DEFINE outcomes == [i \in DOMAIN f.l |-> ParseReply(f.l[i], base)]
             failed == {i \in DOMAIN outcomes : outcomes[i].is # "ok"}
             first == CHOOSE i \in failed : \A j \in failed : i <= j
             vals == [i \in DOMAIN outcomes |-> outcomes[i].val]
             each == IF failed = {} THEN Ok(vals) ELSE outcomes[first]
  <2>1. f.l # <<>>
    BY <1>1 DEF ParseReplyStrategy, Error, Refused
  <2>2. ParseReplyStrategy(f, base) =
          IF each.is = "ok" THEN Ok([is |-> "sequence", replies |-> each.val]) ELSE each
    <3> DEFINE one == <<each>>
               bad == {i \in DOMAIN one : one[i].is # "ok"}
    <3>1. ParseReplyStrategy(f, base) =
            IF bad = {} THEN Ok([is |-> "sequence", replies |-> [i \in DOMAIN one |-> one[i].val][1]])
            ELSE one[CHOOSE i \in bad : \A j \in bad : i <= j]
      BY <1>1, <2>1 DEF ParseReplyStrategy, Each, All, Then
    <3> HIDE DEF each
    <3>2. DOMAIN one = {1} /\ one[1] = each
      OBVIOUS
    <3>3. CASE each.is = "ok"
      BY <3>1, <3>2, <3>3
    <3>4. CASE each.is # "ok"
      <4>1. bad = {1}
        BY <3>2, <3>4
      <4>2. (CHOOSE i \in bad : \A j \in bad : i <= j) = 1
        BY <4>1
      <4>3. QED  BY <3>1, <3>2, <3>4, <4>1, <4>2
    <3>5. QED  BY <3>3, <3>4
  <2>3. each.is = "ok"
    <3> HIDE DEF each
    <3>1. QED  BY <2>2
  <2>4. failed = {}
    <3>1. failed \in SUBSET Nat
      BY <1>1, LenProperties DEF IsList
    <3>2. ASSUME failed # {} PROVE FALSE
      <4>1. \E i \in failed : \A j \in failed : i <= j
        <5> HIDE DEF failed
        <5>1. QED  BY <3>1, <3>2, Least
      <4>2. first \in failed
        BY <4>1
      <4>3. QED  BY <4>2, <3>2, <2>3
    <3>3. QED  BY <3>2
  <2>5. ParseReplyStrategy(f, base).val = [is |-> "sequence", replies |-> vals]
    <3> DEFINE sequence == [is |-> "sequence", replies |-> vals]
    <3>1. each = Ok(vals)
      BY <2>4
    <3> HIDE DEF each, vals
    <3>2. Ok(vals).val = vals
      BY DEF Ok
    <3>3. QED  BY ONLY <2>2, <2>3, <3>1, <3>2 DEF Ok
  <2>6. Len(vals) = Len(f.l)
    <3>1. vals = [i \in DOMAIN f.l |-> vals[i]]
      OBVIOUS
    <3> HIDE DEF vals
    <3>2. QED  BY <1>1, <3>1, Mapped
  <2>7. Len(f.l) \in Nat \ {0}
    BY <1>1, <2>1, EmptySeq, LenProperties DEF IsList
  <2>8. ASSUME NEW i \in 1 .. Len(f.l)
        PROVE  /\ i \in DOMAIN f.l /\ ParseReply(f.l[i], base).is = "ok"
               /\ vals[i] = ParseReply(f.l[i], base).val
    <3>1. i \in DOMAIN f.l
      BY <1>1, LenProperties DEF IsList
    <3>2. QED  BY <3>1, <2>4
  <2> HIDE DEF vals
  <2>9. QED  BY <1>1, <2>5, <2>6, <2>7, <2>8
<1>2. CASE f.is # "list"
  <2>1. f.is = "object"
    BY <1>2 DEF ParseReplyStrategy, Error, Refused
  <2>2. CASE f.o.crud.is = "missing"
    <3> DEFINE r == ParseReply(f, base)
               val == [is |-> "static", replies |-> <<r.val>>]
    <3>1. ParseReplyStrategy(f, base) = Outcome(<<r>>, val)
      BY <2>1, <2>2, <1>2 DEF ParseReplyStrategy, Then, All, Outcome
    <3>2. r.is = "ok" /\ ParseReplyStrategy(f, base).val = val
      <4> HIDE DEF r, val
      <4>1. QED  BY <3>1, ThenOk
    <3> HIDE DEF r
    <3>3. val.is = "static" /\ val.replies[1] = r.val
      OBVIOUS
    <3>4. QED  BY <2>1, <3>2, <3>3 DEF r
  <2>3. CASE f.o.crud.is # "missing"
    <3> DEFINE spec == IF f.o.crud = True THEN Ok([id |-> DefaultId, data |-> <<>>])
                       ELSE FromObject(f.o.crud, ParseCrudSpec)
               one == <<spec>>
               bad == {i \in DOMAIN one : one[i].is # "ok"}
               headers == IF f.o.h.is = "object" THEN ExpandHeaders(f.o.h.o) ELSE {}
    <3>1. ParseReplyStrategy(f, base) =
            IF bad = {} THEN Ok([is |-> "crud", spec |-> [i \in DOMAIN one |-> one[i].val][1],
                                 headers |-> headers])
            ELSE one[CHOOSE i \in bad : \A j \in bad : i <= j]
      BY <2>1, <2>3, <1>2 DEF ParseReplyStrategy, Then, All, FromObject
    <3> HIDE DEF spec, headers
    <3>2. DOMAIN one = {1} /\ one[1] = spec
      OBVIOUS
    <3>3. bad = {}
      <4>1. CASE spec.is = "ok"
        BY <3>2, <4>1
      <4>2. CASE spec.is # "ok"
        <5>1. bad = {1}
          BY <3>2, <4>2
        <5>2. (CHOOSE i \in bad : \A j \in bad : i <= j) = 1
          BY <5>1
        <5>3. QED  BY <3>1, <3>2, <4>2, <5>1, <5>2
      <4>3. QED  BY <4>1, <4>2
    <3>4. ParseReplyStrategy(f, base).val.is = "crud"
      BY <3>1, <3>3 DEF Ok
    <3>5. QED  BY <3>4
  <2>4. QED  BY <2>2, <2>3
<1>3. QED  BY <1>1, <1>2

-----------------------------------------------------------------------------
(***************************************************************************)
(* Matching                                                                *)
(***************************************************************************)

\* What paths are made of, with "/" among it for the provers.
Characters == STRING \cup {"/"}

\* Rooting and normalising a path give a path.
LEMMA PathsArePaths ==
  ASSUME NEW path \in Seq(Characters)
  PROVE  NormalizePath(path) \in Seq(Characters) /\ Rooted(path) \in Seq(Characters)
<1>1. Len(path) \in Nat /\ \A i \in 1 .. Len(path) : path[i] \in Characters
  BY LenProperties, ElementOfSeq
<1>2. SubSeq(path, 1, Len(path) - 1) \in Seq(Characters)
  BY <1>1, SubSeqProperties
<1>3. <<"/">> \in Seq(Characters)
  BY DEF Characters
<1>4. <<"/">> \o path \in Seq(Characters)
  BY <1>3, ConcatProperties
<1>5. QED  BY <1>2, <1>4 DEF NormalizePath, Rooted

\* A "/" that goes from the end of a path, or is not there, is put there.
LEMMA ClosedIsNormal ==
  ASSUME NEW path \in Seq(Characters)
  PROVE  Closed(path) = Append(NormalizePath(path), "/")
<1>1. CASE path # <<>> /\ path[Len(path)] = "/"
  <2> DEFINE n == Len(path)
             front == SubSeq(path, 1, n - 1)
  <2>1. n \in Nat \ {0} /\ \A i \in 1 .. n : path[i] \in Characters
    BY <1>1, LenProperties, EmptySeq, ElementOfSeq
  <2>2. /\ front \in Seq(Characters) /\ Len(front) = n - 1
        /\ \A i \in 1 .. n - 1 : front[i] = path[i]
    <3> DEFINE m == n - 1
    <3>1. m \in Nat /\ \A i \in 1 .. m : path[i] \in Characters
      BY <2>1
    <3>2. /\ SubSeq(path, 1, m) \in Seq(Characters) /\ Len(SubSeq(path, 1, m)) = m
          /\ \A i \in 1 .. m : SubSeq(path, 1, m)[i] = path[i]
      <4> HIDE DEF m
      <4>1. QED  BY <3>1, SubSeqProperties
    <3>3. QED  BY <3>2
  <2>3. /\ Append(front, "/") \in Seq(Characters) /\ Len(Append(front, "/")) = n
        /\ \A i \in 1 .. n : Append(front, "/")[i] = path[i]
    <3> HIDE DEF front
    <3>1. "/" \in Characters /\ path[n] = "/"
      BY <1>1 DEF Characters
    <3>2. QED  BY <2>1, <2>2, <3>1, AppendProperties
  <2>4. Append(front, "/") = path
    <3> DEFINE l == Append(front, "/")
    <3> HIDE DEF l
    <3>1. l \in Seq(Characters) /\ Len(l) = Len(path) /\ \A i \in 1 .. Len(l) : l[i] = path[i]
      BY <2>3 DEF l
    <3>2. l = path
      BY <3>1, SeqEqual
    <3>3. QED  BY <3>2 DEF l
  <2>5. QED  BY <1>1, <2>4 DEF Closed, NormalizePath
<1>2. CASE ~(path # <<>> /\ path[Len(path)] = "/")
  BY <1>2 DEF Closed, NormalizePath
<1>3. QED  BY <1>1, <1>2

\* starts_with and the "/" behind it compare by whole segments.
LEMMA UnderIsPrefix ==
  ASSUME NEW asked \in Seq(Characters), NEW own \in Seq(Characters)
  PROVE  SE!IsPrefix(Append(own, "/"), Append(asked, "/")) <=> asked = own \/ Under(asked, own)
<1> DEFINE m == Len(own)
           n == Len(asked)
           s == Append(own, "/")
           t == Append(asked, "/")
<1>1. "/" \in Characters /\ m \in Nat /\ n \in Nat
  BY LenProperties DEF Characters
<1>2. /\ s \in Seq(Characters) /\ Len(s) = m + 1 /\ s[m + 1] = "/" /\ \A i \in 1 .. m : s[i] = own[i]
      /\ t \in Seq(Characters) /\ Len(t) = n + 1 /\ t[n + 1] = "/" /\ \A i \in 1 .. n : t[i] = asked[i]
  BY <1>1, AppendProperties
<1> HIDE DEF s, t
<1>3. SE!IsPrefix(s, t) <=> m <= n /\ \A i \in 1 .. m + 1 : s[i] = t[i]
  <2>1. SE!IsPrefix(s, t) <=> Len(s) <= Len(t) /\ SubSeq(s, 1, Len(s)) = SubSeq(t, 1, Len(s))
    BY DEF SE!IsPrefix
  <2>2. ASSUME m <= n
        PROVE  SubSeq(s, 1, m + 1) = SubSeq(t, 1, m + 1) <=> \A i \in 1 .. m + 1 : s[i] = t[i]
    <3> DEFINE a == SubSeq(s, 1, m + 1)
               b == SubSeq(t, 1, m + 1)
    <3>1. /\ a \in Seq(Characters) /\ Len(a) = m + 1 /\ \A i \in 1 .. m + 1 : a[i] = s[i]
          /\ b \in Seq(Characters) /\ Len(b) = m + 1 /\ \A i \in 1 .. m + 1 : b[i] = t[i]
      BY <1>1, <1>2, <2>2, SubSeqProperties, ElementOfSeq
    <3> HIDE DEF a, b
    <3>2. a = b <=> \A i \in 1 .. m + 1 : a[i] = b[i]
      BY <1>1, <3>1, SeqEqual
    <3>3. QED  BY <3>1, <3>2 DEF a, b
  <2>3. Len(s) <= Len(t) <=> m <= n
    BY <1>1, <1>2
  <2>4. QED  BY <1>2, <2>1, <2>2, <2>3
<1>4. ASSUME SE!IsPrefix(s, t) PROVE asked = own \/ Under(asked, own)
  <2>1. m <= n /\ \A i \in 1 .. m + 1 : s[i] = t[i]
    BY <1>3, <1>4
  <2>2. \A i \in 1 .. m : own[i] = asked[i]
    BY <1>1, <1>2, <2>1
  <2>3. CASE m = n
    BY <1>1, <2>2, <2>3, SeqEqual
  <2>4. CASE m < n
    <3>1. asked[m + 1] = "/"
      BY <1>1, <1>2, <2>1, <2>4
    <3>2. SubSeq(asked, 1, m) = own
      <4> DEFINE front == SubSeq(asked, 1, m)
      <4>1. /\ front \in Seq(Characters) /\ Len(front) = m
            /\ \A i \in 1 .. m : front[i] = asked[i]
        BY <1>1, <2>4, SubSeqProperties, ElementOfSeq
      <4> HIDE DEF front
      <4>2. front = own
        BY <2>2, <4>1, SeqEqual
      <4>3. QED  BY <4>2 DEF front
    <3>3. QED  BY <2>4, <3>1, <3>2 DEF Under
  <2>5. QED  BY <1>1, <2>1, <2>3, <2>4
<1>5. ASSUME asked = own \/ Under(asked, own) PROVE SE!IsPrefix(s, t)
  <2>1. CASE asked = own
    <3>1. s = t
      BY <2>1 DEF s, t
    <3>2. QED  BY <1>1, <1>3, <2>1, <3>1
  <2>2. CASE Under(asked, own)
    <3>1. m < n /\ SubSeq(asked, 1, m) = own /\ asked[m + 1] = "/"
      BY <2>2 DEF Under
    <3>2. \A i \in 1 .. m : own[i] = asked[i]
      <4>1. \A i \in 1 .. m : SubSeq(asked, 1, m)[i] = asked[i]
        BY <1>1, <3>1, SubSeqProperties, ElementOfSeq
      <4>2. QED  BY <3>1, <4>1
    <3>3. ASSUME NEW i \in 1 .. m + 1 PROVE s[i] = t[i]
      <4>1. CASE i \in 1 .. m
        BY <1>1, <1>2, <3>1, <3>2, <4>1
      <4>2. CASE i = m + 1
        BY <1>1, <1>2, <3>1, <4>2
      <4>3. QED  BY <1>1, <4>1, <4>2
    <3>4. QED  BY <1>1, <1>3, <3>1, <3>3
  <2>3. QED  BY <1>5, <2>1, <2>2
<1>6. QED  BY <1>4, <1>5 DEF s, t

\* A rule matches what its author wrote it for.
LEMMA MatchesAsWritten ==
  ASSUME NEW v, ParseMatchRule(v).is = "ok",
         v.is = "pairs" =>
           /\ IsList(v.pairs)
           /\ \A i \in DOMAIN v.pairs : v.pairs[i].path.is = "text" => v.pairs[i].path.s \in Seq(STRING),
         NEW q, q.path \in Seq(STRING)
  PROVE  Matches(ParseMatchRule(v).val, q.method, q.path) <=> IsFor(q, v)
<1>1. CASE v.is = "text"
  BY <1>1 DEF ParseMatchRule, Check, Ok, Error, Refused, CatchAll, Matches, IsFor
<1>2. CASE v.is # "text"
  <2> DEFINE key == v.pairs[1].key
             path == v.pairs[1].path
             own == NormalizePath(Rooted(path.s))
             asked == NormalizePath(q.path)
  <2>1. v.is = "pairs" /\ Len(v.pairs) = 1
    BY <1>2 DEF ParseMatchRule, Error, Refused
  <2>2. 1 \in DOMAIN v.pairs
    BY <2>1, LenProperties DEF IsList
  <2>3. path.is = "text"
    BY <2>1 DEF ParseMatchRule, Error, Refused
  <2>4. own \in Seq(Characters) /\ asked \in Seq(Characters)
    <3>1. path.s \in Seq(Characters) /\ q.path \in Seq(Characters)
      BY <2>1, <2>2, <2>3, SeqMonotonic DEF Characters
    <3>2. QED  BY <3>1, PathsArePaths
  <2>5. SE!IsPrefix(Closed(Rooted(path.s)), Closed(q.path)) <=> asked = own \/ Under(asked, own)
    <3>1. path.s \in Seq(Characters) /\ q.path \in Seq(Characters)
      BY <2>1, <2>2, <2>3, SeqMonotonic DEF Characters
    <3>2. Closed(Rooted(path.s)) = Append(own, "/") /\ Closed(q.path) = Append(asked, "/")
      BY <3>1, PathsArePaths, ClosedIsNormal
    <3> HIDE DEF own, asked
    <3>3. QED  BY <2>4, <3>2, UnderIsPrefix
  <2>6. CASE key = AnyMethod
    <3>1. ParseMatchRule(v).val = MethodPath(None, Rooted(path.s))
      BY <2>1, <2>3, <2>6 DEF ParseMatchRule, Ok, Check
    <3>2. QED  BY <2>1, <2>5, <2>6, <3>1 DEF Matches, IsFor, MethodPath
  <2>7. CASE key # AnyMethod
    <3>1. key \in DOMAIN Shortcuts
      BY <2>1, <2>3, <2>7 DEF ParseMatchRule, Error, Refused, Check
    <3>2. ParseMatchRule(v).val = MethodPath(Some(Shortcuts[key]), Rooted(path.s))
      BY <2>1, <2>3, <2>7, <3>1 DEF ParseMatchRule, Ok, Check
    <3>3. Some(Shortcuts[key]) \in {None, Some(q.method)} <=> Shortcuts[key] = q.method
      BY DEF Some, None
    <3>4. QED  BY <2>1, <2>5, <2>7, <3>2, <3>3 DEF Matches, IsFor, MethodPath
  <2>8. QED  BY <2>6, <2>7
<1>3. QED  BY <1>1, <1>2
=============================================================================
