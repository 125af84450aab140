----------------------------- MODULE SyntaxProofs -----------------------------
(***************************************************************************)
(* Positions and the conversions between them, for every text, range and   *)
(* encoding: the line-width table converts as the text does, and the two   *)
(* directions of a conversion are inverse on the boundaries of characters. *)
(* The parents of fields, for every list of them.                          *)
(***************************************************************************)
EXTENDS Positions, FieldLevels, TLAPS, WellFoundedInduction, SequenceTheorems,
        FiniteSetTheorems

\* A set of naturals that is not empty has a least member.
LEMMA LeastOf ==
  ASSUME NEW T \in SUBSET Nat, T # {}
  PROVE  \E x \in T : \A y \in T : x <= y
<1> DEFINE R == OpToRel(<, Nat)
<1>1. IsWellFoundedOn(R, Nat)
  BY NatLessThanWellFounded
<1>2. \A x, y \in Nat : x < y => <<x, y>> \in R
  BY Zenon DEF OpToRel
<1> HIDE DEF R
<1>3. PICK x \in T : \A y \in T : ~ (<<y, x>> \in R)
  BY <1>1, WFMin
<1>4. ASSUME NEW y \in T PROVE x <= y
  <2>1. x \in Nat /\ y \in Nat
    OBVIOUS
  <2>2. ~ (y < x)
    BY <1>2, <1>3, <2>1
  <2> QED
    BY <2>1, <2>2
<1> QED
  BY <1>4

-------------------------------------------------------------------------------
(* Sums along a line.                                                        *)

\* f[i] is the sum of the first i of n numbers.
IsSum(f, n, b) == f = [i \in 0..n |-> IF i = 0 THEN 0 ELSE f[i - 1] + b[i]]

\* The equations of a sum have a solution.
LEMMA SumExists ==
  ASSUME NEW n \in Nat, NEW b \in [1..n -> Nat]
  PROVE  \E f \in [0..n -> Nat] : IsSum(f, n, b)
<1> DEFINE Summed(m) == \E f \in [0..m -> Nat] : IsSum(f, m, b)
           Bad       == {m \in 0..n : ~Summed(m)}
<1>1. Summed(0)
  <2> DEFINE f == [i \in 0..0 |-> 0]
  <2>1. f \in [0..0 -> Nat] /\ IsSum(f, 0, b)
    BY DEF IsSum
  <2> QED
    BY <2>1
<1>2. ASSUME NEW m \in 1..n, Summed(m - 1) PROVE Summed(m)
  <2>1. PICK f \in [0..(m - 1) -> Nat] : IsSum(f, m - 1, b)
    BY <1>2
  <2> DEFINE g == [i \in 0..m |-> IF i = m THEN f[m - 1] + b[m] ELSE f[i]]
  <2>2. g \in [0..m -> Nat]
    OBVIOUS
  <2>3. \A i \in 0..(m - 1) : f[i] = IF i = 0 THEN 0 ELSE f[i - 1] + b[i]
    BY <2>1 DEF IsSum
  <2>4. \A i \in 0..m : g[i] = IF i = 0 THEN 0 ELSE g[i - 1] + b[i]
    BY <2>3, SMTT(30)
  <2> HIDE DEF g
  <2>5. IsSum(g, m, b)
    BY <2>2, <2>4 DEF IsSum
  <2> QED
    BY <2>2, <2>5
<1> HIDE DEF Summed
<1>3. Bad = {}
  <2> SUFFICES ASSUME Bad # {} PROVE FALSE
    OBVIOUS
  <2>0. Bad \in SUBSET Nat /\ Bad # {}
    OBVIOUS
  <2>1. PICK m \in Bad : \A k \in Bad : m <= k
    BY <2>0, LeastOf, Zenon
  <2>2. m # 0
    BY <1>1
  <2>3. m - 1 \in 0..n /\ m - 1 \notin Bad
    BY <2>1, <2>2
  <2> QED
    BY <1>2, <2>2, <2>3
<1>4. Summed(n)
  BY <1>3
<1> QED
  BY <1>4 DEF Summed

\* The first k values of two functions are the same.
SameUpTo(k, b, c) == \A i \in 1..k : b[i] = c[i]

\* Sums of the same numbers are the same, however far they go.
LEMMA SumsAgree ==
  ASSUME NEW n \in Nat, NEW m \in Nat, NEW b, NEW c, NEW f, NEW g,
         IsSum(f, n, b), IsSum(g, m, c),
         NEW k \in Nat, k <= n, k <= m, SameUpTo(k, b, c)
  PROVE  \A i \in 0..k : f[i] = g[i]
<1> DEFINE Bad == {i \in 0..k : f[i] # g[i]}
<1>1. \A i \in 0..n : f[i] = IF i = 0 THEN 0 ELSE f[i - 1] + b[i]
  BY DEF IsSum
<1>2. \A i \in 0..m : g[i] = IF i = 0 THEN 0 ELSE g[i - 1] + c[i]
  BY DEF IsSum
<1> SUFFICES ASSUME Bad # {} PROVE FALSE
  OBVIOUS
<1>0. Bad \in SUBSET Nat /\ Bad # {}
  OBVIOUS
<1>3. PICK i \in Bad : \A j \in Bad : i <= j
  BY <1>0, LeastOf, Zenon
<1>4. i # 0
  BY <1>1, <1>2
<1>5. i - 1 \in 0..k /\ i - 1 \notin Bad
  BY <1>3, <1>4
<1>6. f[i - 1] = g[i - 1] /\ b[i] = c[i]
  BY <1>4, <1>5 DEF SameUpTo
<1> QED
  BY <1>1, <1>2, <1>4, <1>6

\* A sum of positive numbers increases.
LEMMA SumIncreases ==
  ASSUME NEW n \in Nat, NEW b \in [1..n -> Nat \ {0}],
         NEW f \in [0..n -> Nat], IsSum(f, n, b)
  PROVE  \A i, j \in 0..n : i < j => f[i] < f[j]
<1>1. \A i \in 1..n : f[i] = f[i - 1] + b[i]
  BY DEF IsSum
<1> SUFFICES ASSUME NEW i \in 0..n PROVE \A j \in 0..n : i < j => f[i] < f[j]
  OBVIOUS
<1> DEFINE Bad == {j \in 0..n : i < j /\ ~(f[i] < f[j])}
<1> SUFFICES ASSUME Bad # {} PROVE FALSE
  OBVIOUS
<1>0. Bad \in SUBSET Nat /\ Bad # {}
  OBVIOUS
<1>2. PICK j \in Bad : \A k \in Bad : j <= k
  BY <1>0, LeastOf, Zenon
<1>3. j \in 1..n /\ j - 1 \in 0..n /\ f[j - 1] < f[j]
  BY <1>1
<1>4. j - 1 \notin Bad
  BY <1>2, <1>3
<1>5. f[i] <= f[j - 1]
  BY <1>3, <1>4
<1> QED
  BY <1>3, <1>5

-------------------------------------------------------------------------------
(* Bytes and code units of a line.                                           *)

\* A line or text is written with pieces that take a byte at least.
PiecesOK(pieces) == \A p \in pieces : Bytes(p) \in Nat \ {0}

PieceBytes(line) == [i \in 1..Len(line) |-> Bytes(line[i])]
PieceUnits(line) == [i \in 1..Len(line) |-> Units(line[i])]

\* B[i] and U[i] are the bytes and the code units of the first i pieces.
Measures(B, U, line) ==
  /\ B \in [0..Len(line) -> Nat] /\ IsSum(B, Len(line), PieceBytes(line))
  /\ U \in [0..Len(line) -> Nat] /\ IsSum(U, Len(line), PieceUnits(line))

\* Every piece has bytes and units.
LEMMA PieceTypes ==
  ASSUME NEW pieces, PiecesOK(pieces), NEW line \in Seq(pieces)
  PROVE  /\ Len(line) \in Nat
         /\ PieceBytes(line) \in [1..Len(line) -> Nat \ {0}]
         /\ PieceUnits(line) \in [1..Len(line) -> Nat \ {0}]
<1>1. \A i \in 1..Len(line) : line[i] \in pieces
  OBVIOUS
<1>2. \A f \in Foreign : ForeignUnits[f] \in Nat \ {0}
  BY ForeignAssumption
<1>3. \A i \in 1..Len(line) : Units(line[i]) \in Nat \ {0}
  BY <1>1, <1>2 DEF PiecesOK, Units
<1> QED
  BY <1>1, <1>3 DEF PiecesOK, PieceBytes, PieceUnits

\* A line has its two measures.
LEMMA MeasuresExist ==
  ASSUME NEW pieces, PiecesOK(pieces), NEW line \in Seq(pieces)
  PROVE  \E B, U : Measures(B, U, line)
<1>1. /\ Len(line) \in Nat
      /\ PieceBytes(line) \in [1..Len(line) -> Nat]
      /\ PieceUnits(line) \in [1..Len(line) -> Nat]
  BY PieceTypes
<1> QED
  BY <1>1, SumExists DEF Measures

\* The equations the measures are used by.
LEMMA MeasureSteps ==
  ASSUME NEW pieces, PiecesOK(pieces), NEW line \in Seq(pieces),
         NEW B, NEW U, Measures(B, U, line)
  PROVE  /\ Len(line) \in Nat
         /\ \A i \in 0..Len(line) : B[i] \in Nat /\ U[i] \in Nat
         /\ B[0] = 0 /\ U[0] = 0
         /\ \A i \in 1..Len(line) :
              /\ Bytes(line[i]) \in Nat \ {0}
              /\ Units(line[i]) \in Nat \ {0}
              /\ B[i] = B[i - 1] + Bytes(line[i])
              /\ U[i] = U[i - 1] + Units(line[i])
         /\ \A i, j \in 0..Len(line) : i < j => B[i] < B[j] /\ U[i] < U[j]
<1>1. /\ Len(line) \in Nat
      /\ PieceBytes(line) \in [1..Len(line) -> Nat \ {0}]
      /\ PieceUnits(line) \in [1..Len(line) -> Nat \ {0}]
  BY PieceTypes
<1>2. \A i \in 0..Len(line) :
        /\ B[i] = IF i = 0 THEN 0 ELSE B[i - 1] + PieceBytes(line)[i]
        /\ U[i] = IF i = 0 THEN 0 ELSE U[i - 1] + PieceUnits(line)[i]
  BY DEF Measures, IsSum
<1>3. \A i \in 1..Len(line) :
        /\ PieceBytes(line)[i] = Bytes(line[i])
        /\ PieceUnits(line)[i] = Units(line[i])
  BY DEF PieceBytes, PieceUnits
<1>4. \A i, j \in 0..Len(line) : i < j => B[i] < B[j]
  BY <1>1, SumIncreases DEF Measures
<1>5. \A i, j \in 0..Len(line) : i < j => U[i] < U[j]
  BY <1>1, SumIncreases DEF Measures
<1>6. \A i \in 0..Len(line) : B[i] \in Nat /\ U[i] \in Nat
  BY DEF Measures
<1> HIDE DEF Measures
<1>7. \A i \in 1..Len(line) :
              /\ Bytes(line[i]) \in Nat \ {0}
              /\ Units(line[i]) \in Nat \ {0}
  BY <1>1, <1>3
<1>8. \A i \in 1..Len(line) :
              /\ B[i] = B[i - 1] + Bytes(line[i])
              /\ U[i] = U[i - 1] + Units(line[i])
  BY <1>1, <1>2, <1>3
<1>9. B[0] = 0 /\ U[0] = 0
  BY <1>1, <1>2
<1> QED
  BY <1>1, <1>4, <1>5, <1>6, <1>7, <1>8, <1>9

\* The byte length of a line, and of what is before one of its pieces.
LEMMA ByteLenIsSum ==
  ASSUME NEW pieces, PiecesOK(pieces), NEW line \in Seq(pieces),
         NEW B, IsSum(B, Len(line), PieceBytes(line))
  PROVE  ByteLen(line) = B[Len(line)]
<1> DEFINE sum[i \in 0..Len(line)] ==
             IF i = 0 THEN 0 ELSE sum[i - 1] + Bytes(line[i])
<1>1. ByteLen(line) = sum[Len(line)]
  BY DEF ByteLen
<1>2. /\ Len(line) \in Nat
      /\ PieceBytes(line) \in [1..Len(line) -> Nat]
  BY PieceTypes
<1>3. PICK f : f = [i \in 0..Len(line) |->
                      IF i = 0 THEN 0 ELSE f[i - 1] + Bytes(line[i])]
  <2>1. PICK f : IsSum(f, Len(line), PieceBytes(line))
    BY <1>2, SumExists
  <2>2. f = [i \in 0..Len(line) |->
               IF i = 0 THEN 0 ELSE f[i - 1] + PieceBytes(line)[i]]
    BY <2>1 DEF IsSum
  <2>3. \A i \in 0..Len(line) : i # 0 => PieceBytes(line)[i] = Bytes(line[i])
    BY <1>2 DEF PieceBytes
  <2> QED
    BY <2>2, <2>3
<1>4. sum = [i \in 0..Len(line) |->
               IF i = 0 THEN 0 ELSE sum[i - 1] + Bytes(line[i])]
  BY <1>3, Zenon
<1> HIDE DEF sum
<1>5. IsSum(sum, Len(line), PieceBytes(line))
  <2>1. \A i \in 0..Len(line) : i # 0 => PieceBytes(line)[i] = Bytes(line[i])
    BY <1>2 DEF PieceBytes
  <2> QED
    BY <1>4, <2>1 DEF IsSum
<1>6. sum[Len(line)] = B[Len(line)]
  <2>1. SameUpTo(Len(line), PieceBytes(line), PieceBytes(line))
    BY DEF SameUpTo
  <2> QED
    BY <1>2, <1>5, <2>1, SumsAgree
<1> QED
  BY <1>1, <1>6

\* The offset of a piece is the bytes of the pieces before it.
LEMMA OffsetIsSum ==
  ASSUME NEW pieces, PiecesOK(pieces), NEW line \in Seq(pieces),
         NEW B, NEW U, Measures(B, U, line), NEW i \in 1..(Len(line) + 1)
  PROVE  Offset(line, i) = B[i - 1]
<1> DEFINE sub == SubSeq(line, 1, i - 1)
<1>1. /\ sub \in Seq(pieces) /\ Len(sub) = i - 1
      /\ \A k \in 1..(i - 1) : sub[k] = line[k]
  <2>1. \A k \in 1..(i - 1) : line[k] \in pieces
    OBVIOUS
  <2> QED
    BY <2>1, SubSeqProperties
<1> HIDE DEF sub
<1>2. PieceBytes(sub) \in [1..(i - 1) -> Nat]
  BY <1>1, PieceTypes
<1>3. PICK f : IsSum(f, Len(sub), PieceBytes(sub))
  BY <1>1, <1>2, SumExists
<1>4. ByteLen(sub) = f[Len(sub)]
  BY <1>1, <1>3, ByteLenIsSum
<1>5. SameUpTo(i - 1, PieceBytes(sub), PieceBytes(line))
  BY <1>1 DEF PieceBytes, SameUpTo
<1>6. Len(line) \in Nat /\ IsSum(B, Len(line), PieceBytes(line))
  BY DEF Measures
<1>7. i - 1 \in Nat /\ i - 1 <= Len(line) /\ i - 1 <= i - 1
  BY <1>6
<1>8. IsSum(f, i - 1, PieceBytes(sub))
  BY <1>1, <1>3
<1>9. f[i - 1] = B[i - 1]
  BY <1>5, <1>6, <1>7, <1>8, SumsAgree
<1> QED
  BY <1>1, <1>4, <1>9 DEF Offset, sub

\* A byte of a line belongs to a piece.
LEMMA PieceHolding ==
  ASSUME NEW pieces, PiecesOK(pieces), NEW line \in Seq(pieces),
         NEW B, NEW U, Measures(B, U, line), NEW n \in 0..(B[Len(line)] - 1)
  PROVE  \E i \in 1..Len(line) : B[i - 1] <= n /\ n < B[i]
<1>1. /\ Len(line) \in Nat
      /\ \A i \in 0..Len(line) : B[i] \in Nat
      /\ B[0] = 0
  BY MeasureSteps
<1> DEFINE Beyond == {i \in 0..Len(line) : n < B[i]}
<1>2. Beyond \in SUBSET Nat /\ Beyond # {}
  <2>1. Len(line) \in Beyond
    BY <1>1
  <2> QED
    BY <2>1
<1>3. PICK i \in Beyond : \A j \in Beyond : i <= j
  BY <1>2, LeastOf, Zenon
<1>4. i # 0
  BY <1>1
<1>5. i - 1 \in 0..Len(line) /\ i - 1 \notin Beyond
  BY <1>1, <1>3, <1>4
<1> QED
  BY <1>1, <1>4, <1>5

-------------------------------------------------------------------------------
(* Code units before a byte of a line.                                       *)

\* What each piece of a line contributes to the units of its first n bytes.
PartUnits(line, B, n) ==
  [i \in 1..Len(line) |-> UnitsWithin(line[i], n - B[i - 1])]

\* The units of a part of a line are counts.
LEMMA PartTypes ==
  ASSUME NEW pieces, PiecesOK(pieces), NEW line \in Seq(pieces),
         NEW B, NEW U, Measures(B, U, line), NEW n \in Nat
  PROVE  PartUnits(line, B, n) \in [1..Len(line) -> Nat]
<1>1. /\ Len(line) \in Nat
      /\ \A i \in 0..Len(line) : B[i] \in Nat
      /\ \A i \in 1..Len(line) : /\ Bytes(line[i]) \in Nat \ {0}
                                /\ Units(line[i]) \in Nat \ {0}
  BY MeasureSteps
<1>2. \A i \in 1..Len(line) : UnitsWithin(line[i], n - B[i - 1]) \in Nat
  BY <1>1, SMTT(30) DEF UnitsWithin, NonNegative
<1> QED
  BY <1>2 DEF PartUnits

\* UnitsUpTo adds the parts up.
LEMMA UnitsUpToIsSum ==
  ASSUME NEW pieces, PiecesOK(pieces), NEW line \in Seq(pieces),
         NEW B, NEW U, Measures(B, U, line), NEW n \in Nat,
         NEW S, IsSum(S, Len(line), PartUnits(line, B, n))
  PROVE  UnitsUpTo(line, n) = S[Len(line)]
<1> DEFINE Loop(g) ==
             [i \in 0..Len(line) |->
                IF i = 0 THEN [left |-> n, units |-> 0]
                ELSE LET before == g[i - 1]
                     IN  [left  |-> before.left - Bytes(line[i]),
                          units |-> before.units
                                      + UnitsWithin(line[i], before.left)]]
           after[i \in 0..Len(line)] ==
             IF i = 0 THEN [left |-> n, units |-> 0]
             ELSE LET before == after[i - 1]
                  IN  [left  |-> before.left - Bytes(line[i]),
                       units |-> before.units
                                   + UnitsWithin(line[i], before.left)]
           f == [i \in 0..Len(line) |-> [left |-> n - B[i], units |-> S[i]]]
<1>1. UnitsUpTo(line, n) = after[Len(line)].units
  BY DEF UnitsUpTo
<1>2. /\ Len(line) \in Nat
      /\ \A i \in 0..Len(line) : B[i] \in Nat
      /\ B[0] = 0
      /\ \A i \in 1..Len(line) : /\ Bytes(line[i]) \in Nat \ {0}
                                /\ B[i] = B[i - 1] + Bytes(line[i])
  BY MeasureSteps
<1>3. /\ \A i \in 1..Len(line) :
           S[i] = S[i - 1] + UnitsWithin(line[i], n - B[i - 1])
      /\ S[0] = 0
  <2>1. \A i \in 0..Len(line) :
          S[i] = IF i = 0 THEN 0 ELSE S[i - 1] + PartUnits(line, B, n)[i]
    BY Zenon DEF IsSum
  <2>2. \A i \in 1..Len(line) :
          PartUnits(line, B, n)[i] = UnitsWithin(line[i], n - B[i - 1])
    BY Zenon DEF PartUnits
  <2>3. \A i \in 1..Len(line) : i \in 0..Len(line) /\ i # 0
    BY <1>2
  <2> QED
    BY <1>2, <2>1, <2>2, <2>3
<1>4. f = Loop(f)
  <2>1. \A i \in 1..Len(line) : i - 1 \in 0..Len(line)
    BY <1>2
  <2>2. \A i \in 1..Len(line) :
          n - B[i] = (n - B[i - 1]) - Bytes(line[i])
    BY <1>2, <2>1
  <2> QED
    BY <1>2, <1>3, <2>1, <2>2
<1>5. after = Loop(after)
  BY <1>4, Zenon
<1> HIDE DEF after, f
<1>6. \A i \in 0..Len(line) : after[i] = f[i]
  <2> DEFINE Bad == {i \in 0..Len(line) : after[i] # f[i]}
  <2>0. Bad \in SUBSET Nat
    OBVIOUS
  <2> SUFFICES ASSUME Bad # {} PROVE FALSE
    OBVIOUS
  <2>1. PICK i \in Bad : \A j \in Bad : i <= j
    BY <2>0, LeastOf, Zenon
  <2>2. i # 0
    BY <1>4, <1>5
  <2>3. i - 1 \in 0..Len(line) /\ i - 1 \notin Bad
    BY <1>2, <2>1, <2>2
  <2>4. after[i - 1] = f[i - 1]
    BY <2>3
  <2> QED
    BY <1>4, <1>5, <2>2, <2>4
<1>7. Len(line) \in 0..Len(line)
  BY <1>2
<1>8. f[Len(line)].units = S[Len(line)]
  BY <1>7 DEF f
<1> QED
  BY <1>1, <1>6, <1>7, <1>8

\* The units before a byte: those of the whole pieces before it, and one for
\* each byte of the piece it cuts.
LEMMA UnitsAt ==
  ASSUME NEW pieces, PiecesOK(pieces), NEW line \in Seq(pieces),
         NEW B, NEW U, Measures(B, U, line),
         NEW i \in 1..Len(line), NEW n \in Nat, B[i - 1] <= n, n < B[i]
  PROVE  UnitsUpTo(line, n) = U[i - 1] + (n - B[i - 1])
<1>1. /\ Len(line) \in Nat
      /\ \A k \in 0..Len(line) : B[k] \in Nat /\ U[k] \in Nat
      /\ \A k \in 1..Len(line) : /\ Bytes(line[k]) \in Nat \ {0}
                                /\ B[k] = B[k - 1] + Bytes(line[k])
      /\ \A j, k \in 0..Len(line) : j < k => B[j] < B[k]
  BY MeasureSteps
<1>2. PICK S \in [0..Len(line) -> Nat] :
        IsSum(S, Len(line), PartUnits(line, B, n))
  BY <1>1, PartTypes, SumExists
<1>3. UnitsUpTo(line, n) = S[Len(line)]
  BY <1>2, UnitsUpToIsSum
<1>4. \A k \in 1..Len(line) :
        PartUnits(line, B, n)[k]
          = IF k < i THEN PieceUnits(line)[k]
            ELSE IF k = i THEN n - B[i - 1] ELSE 0
  <2> SUFFICES ASSUME NEW k \in 1..Len(line)
               PROVE  UnitsWithin(line[k], n - B[k - 1])
                        = IF k < i THEN Units(line[k])
                          ELSE IF k = i THEN n - B[i - 1] ELSE 0
    BY Zenon DEF PartUnits, PieceUnits
  <2>0. /\ k \in 0..Len(line) /\ k - 1 \in 0..Len(line)
        /\ i \in 0..Len(line) /\ i - 1 \in 0..Len(line)
    BY <1>1
  <2>a. /\ B[k] \in Nat /\ B[k - 1] \in Nat /\ B[i] \in Nat
        /\ B[i - 1] \in Nat /\ Bytes(line[k]) \in Nat \ {0}
        /\ B[k] = B[k - 1] + Bytes(line[k])
    BY <1>1, <2>0
  <2>b. /\ k < i - 1 => B[k] < B[i - 1]
        /\ i < k - 1 => B[i] < B[k - 1]
    BY <1>1, <2>0
  <2>1. CASE k < i
    <3>1. B[k] <= B[i - 1]
      <4>1. k = i - 1 \/ k < i - 1
        BY <1>1, <2>1
      <4> QED
        BY <2>a, <2>b, <4>1
    <3>2. Bytes(line[k]) <= n - B[k - 1]
      BY <2>a, <3>1
    <3> QED
      BY <2>1, <3>2 DEF UnitsWithin
  <2>2. CASE k = i
    <3>1. ~(Bytes(line[k]) <= n - B[k - 1]) /\ ~(n - B[k - 1] < 0)
      BY <2>a, <2>2
    <3> QED
      BY <2>2, <3>1 DEF UnitsWithin, NonNegative
  <2>3. CASE k > i
    <3>1. B[i] <= B[k - 1]
      <4>1. i = k - 1 \/ i < k - 1
        BY <1>1, <2>3
      <4> QED
        BY <2>a, <2>b, <4>1
    <3>2. ~(Bytes(line[k]) <= n - B[k - 1]) /\ n - B[k - 1] < 0
      BY <2>a, <3>1
    <3> QED
      BY <2>3, <3>2 DEF UnitsWithin, NonNegative
  <2> QED
    BY <2>1, <2>2, <2>3
<1>5. \A k \in 0..Len(line) :
        S[k] = IF k = 0 THEN 0 ELSE S[k - 1] + PartUnits(line, B, n)[k]
  BY <1>2, Zenon DEF IsSum
<1>6. S[i - 1] = U[i - 1]
  <2>1. /\ i - 1 \in 0..Len(line) /\ i - 1 \in 0..(i - 1)
        /\ Len(line) \in Nat
        /\ \A k \in 1..(i - 1) : k \in 1..Len(line) /\ k < i
    BY <1>1
  <2>2. \A k \in 1..(i - 1) :
          PartUnits(line, B, n)[k] = PieceUnits(line)[k]
    BY <1>4, <2>1
  <2>3. IsSum(U, Len(line), PieceUnits(line))
    BY DEF Measures
  <2>4. \A j \in 0..(i - 1) : S[j] = U[j]
    <3> DEFINE last == i - 1
               b == PartUnits(line, B, n)
               c == PieceUnits(line)
               N == Len(line)
    <3>1. last \in Nat /\ last <= N /\ N \in Nat
      BY <2>1
    <3>2. SameUpTo(last, b, c)
      BY <2>2 DEF SameUpTo
    <3>3. IsSum(S, N, b) /\ IsSum(U, N, c)
      BY <1>2, <2>3
    <3> HIDE DEF last, b, c, N
    <3>4. \A j \in 0..last : S[j] = U[j]
      BY <3>1, <3>2, <3>3, SumsAgree
    <3> QED
      BY <3>4 DEF last
  <2> QED
    BY <2>1, <2>4
<1>7. S[i] = U[i - 1] + (n - B[i - 1])
  BY <1>1, <1>4, <1>5, <1>6
<1>8. \A k \in i..Len(line) : S[k] = S[i]
  <2> DEFINE Bad == {k \in i..Len(line) : S[k] # S[i]}
  <2>0. Bad \in SUBSET Nat
    BY <1>1
  <2> SUFFICES ASSUME Bad # {} PROVE FALSE
    OBVIOUS
  <2>1. PICK k \in Bad : \A j \in Bad : k <= j
    BY <2>0, LeastOf, Zenon
  <2>2. k > i /\ k \in 1..Len(line) /\ k \in 0..Len(line)
    BY <1>1, <2>1
  <2>3. k - 1 \in i..Len(line) /\ k - 1 \in 0..Len(line)
    BY <1>1, <2>2
  <2>5. S[k - 1] = S[i]
    <3>1. k - 1 \notin Bad
      BY <2>1, <2>2
    <3> QED
      BY <2>3, <3>1
  <2>4. S[k] = S[k - 1] + 0
    BY <1>4, <1>5, <2>2
  <2> QED
    BY <1>2, <2>1, <2>3, <2>4, <2>5
<1> QED
  BY <1>1, <1>3, <1>7, <1>8, SMTT(30)

\* The units of the whole line.
LEMMA UnitsOfAll ==
  ASSUME NEW pieces, PiecesOK(pieces), NEW line \in Seq(pieces),
         NEW B, NEW U, Measures(B, U, line)
  PROVE  UnitsUpTo(line, B[Len(line)]) = U[Len(line)]
<1> DEFINE n == B[Len(line)]
<1>1. /\ Len(line) \in Nat
      /\ \A k \in 0..Len(line) : B[k] \in Nat
      /\ \A k \in 1..Len(line) : /\ Bytes(line[k]) \in Nat \ {0}
                                /\ B[k] = B[k - 1] + Bytes(line[k])
      /\ \A j, k \in 0..Len(line) : j < k => B[j] < B[k]
  BY MeasureSteps
<1>2. n \in Nat
  BY <1>1
<1>3. PICK S \in [0..Len(line) -> Nat] :
        IsSum(S, Len(line), PartUnits(line, B, n))
  BY <1>1, <1>2, PartTypes, SumExists
<1>4. UnitsUpTo(line, n) = S[Len(line)]
  BY <1>2, <1>3, UnitsUpToIsSum
<1>5. \A k \in 1..Len(line) :
        PartUnits(line, B, n)[k] = PieceUnits(line)[k]
  <2> SUFFICES ASSUME NEW k \in 1..Len(line)
               PROVE  UnitsWithin(line[k], n - B[k - 1]) = Units(line[k])
    BY Zenon DEF PartUnits, PieceUnits
  <2>1. k \in 0..Len(line) /\ k - 1 \in 0..Len(line) /\ B[k] <= n
    BY <1>1
  <2>2. /\ Bytes(line[k]) \in Nat /\ B[k - 1] \in Nat
        /\ B[k] = B[k - 1] + Bytes(line[k])
    BY <1>1, <2>1
  <2>3. Bytes(line[k]) <= n - B[k - 1]
    BY <1>2, <2>1, <2>2
  <2> QED
    BY <2>3 DEF UnitsWithin
<1>6. S[Len(line)] = U[Len(line)]
  <2>1. IsSum(U, Len(line), PieceUnits(line))
    BY DEF Measures
  <2>2. Len(line) \in Nat /\ Len(line) \in 0..Len(line)
    BY <1>1
  <2>3. SameUpTo(Len(line), PartUnits(line, B, n), PieceUnits(line))
    BY <1>5 DEF SameUpTo
  <2>4. \A j \in 0..Len(line) : S[j] = U[j]
    BY <1>3, <2>1, <2>2, <2>3, SumsAgree
  <2> QED
    BY <2>2, <2>4
<1> QED
  BY <1>4, <1>6

\* A line of one-byte characters has a unit for each byte.
LEMMA AsciiUnits ==
  ASSUME NEW pieces, PiecesOK(pieces), NEW line \in Seq(pieces),
         \A i \in DOMAIN line : line[i] \notin Foreign,
         NEW n \in 0..ByteLen(line)
  PROVE  UnitsUpTo(line, n) = n
<1>1. PICK B, U : Measures(B, U, line)
  BY MeasuresExist
<1>2. ByteLen(line) = B[Len(line)]
  BY <1>1, ByteLenIsSum DEF Measures
<1>3. /\ Len(line) \in Nat
      /\ \A i \in 0..Len(line) : B[i] \in Nat
      /\ \A i \in 1..Len(line) : i - 1 \in 0..Len(line)
  BY <1>1, MeasureSteps
<1>4. \A i \in 0..Len(line) : U[i] = B[i]
  <2>1. \A i \in 1..Len(line) : Units(line[i]) = Bytes(line[i])
    BY DEF Units
  <2>2. SameUpTo(Len(line), PieceUnits(line), PieceBytes(line))
    BY <2>1 DEF SameUpTo, PieceUnits, PieceBytes
  <2> QED
    BY <1>1, <1>3, <2>2, SumsAgree DEF Measures
<1>5. CASE n = B[Len(line)]
  BY <1>1, <1>3, <1>4, <1>5, UnitsOfAll
<1>6. CASE n # B[Len(line)]
  <2>1. n \in Nat /\ n \in 0..(B[Len(line)] - 1)
    BY <1>2, <1>3, <1>6
  <2>2. PICK i \in 1..Len(line) : B[i - 1] <= n /\ n < B[i]
    BY <1>1, <2>1, PieceHolding
  <2>3. UnitsUpTo(line, n) = U[i - 1] + (n - B[i - 1])
    BY <1>1, <2>1, <2>2, UnitsAt
  <2> QED
    BY <1>3, <1>4, <2>1, <2>3
<1> QED
  BY <1>5, <1>6

\* The table's entry for a line converts a byte offset as the line does.
LEMMA TableColumn ==
  ASSUME NEW pieces, PiecesOK(pieces), NEW line \in Seq(pieces),
         NEW byte \in Int, NEW enc
  PROVE  LET lw == makeLineWidth(line)
             n  == Clamp(byte, lw.byteLen)
         IN  byteOffsetToCharacter(line, byte, enc)
               = IF lw.bytes = <<>> \/ enc = "utf-8" THEN n
                 ELSE UnitsUpTo(lw.bytes, n)
<1> DEFINE n == Clamp(byte, ByteLen(line))
<1>1. ByteLen(line) \in Nat
  <2>1. PICK B, U : Measures(B, U, line)
    BY MeasuresExist
  <2>2. Len(line) \in Nat /\ \A i \in 0..Len(line) : B[i] \in Nat
    BY <2>1, MeasureSteps
  <2>3. ByteLen(line) = B[Len(line)]
    BY <2>1, ByteLenIsSum DEF Measures
  <2> QED
    BY <2>2, <2>3
<1>2. n \in 0..ByteLen(line)
  BY <1>1 DEF Clamp
<1>3. makeLineWidth(line).byteLen = ByteLen(line)
  BY DEF makeLineWidth
<1>4. CASE \E i \in DOMAIN line : line[i] \in Foreign
  <2>1. makeLineWidth(line).bytes = line
    BY <1>4 DEF makeLineWidth
  <2>2. line # <<>>
    BY <1>4
  <2> QED
    BY <1>3, <2>1, <2>2 DEF byteOffsetToCharacter
<1>5. CASE \A i \in DOMAIN line : line[i] \notin Foreign
  <2>1. makeLineWidth(line).bytes = <<>>
    BY <1>5 DEF makeLineWidth
  <2>2. UnitsUpTo(line, n) = n
    BY <1>2, <1>5, AsciiUnits
  <2> QED
    BY <1>3, <2>1, <2>2 DEF byteOffsetToCharacter
<1> QED
  BY <1>4, <1>5

-------------------------------------------------------------------------------
(* Boundaries of characters.                                                 *)

\* A boundary before the end of a line is the start of a piece, or inside a
\* piece of one-byte characters.
LEMMA BoundaryHolds ==
  ASSUME NEW pieces, PiecesOK(pieces), NEW line \in Seq(pieces),
         NEW B, NEW U, Measures(B, U, line),
         NEW b \in RuneBoundaries(line), b # B[Len(line)]
  PROVE  \E i \in 1..Len(line) :
           /\ B[i - 1] <= b /\ b < B[i]
           /\ line[i] \in Foreign => b = B[i - 1]
<1>1. ByteLen(line) = B[Len(line)]
  BY ByteLenIsSum DEF Measures
<1>2. /\ Len(line) \in Nat
      /\ \A i \in 0..Len(line) : B[i] \in Nat
  BY MeasureSteps
<1>3. b \in 0..(B[Len(line)] - 1)
  BY <1>1, <1>2 DEF RuneBoundaries
<1>4. PICK i \in 1..Len(line) : B[i - 1] <= b /\ b < B[i]
  BY <1>3, PieceHolding
<1>5. ASSUME line[i] \in Foreign PROVE b = B[i - 1]
  <2>1. Offset(line, i) = B[i - 1] /\ Offset(line, i + 1) = B[i]
    <3>1. /\ i \in 1..(Len(line) + 1) /\ i + 1 \in 1..(Len(line) + 1)
          /\ (i + 1) - 1 = i
      BY <1>2
    <3> QED
      BY <3>1, OffsetIsSum
  <2>2. b \notin (Offset(line, i) + 1)..(Offset(line, i + 1) - 1)
    BY <1>5 DEF RuneBoundaries
  <2>3. B[i - 1] \in Nat /\ B[i] \in Nat
    BY <1>2
  <2> QED
    BY <1>3, <1>4, <2>1, <2>2, <2>3
<1> QED
  BY <1>4, <1>5

\* A boundary is an offset of the line.
LEMMA BoundaryTypes ==
  ASSUME NEW pieces, PiecesOK(pieces), NEW line \in Seq(pieces)
  PROVE  /\ ByteLen(line) \in Nat
         /\ RuneBoundaries(line) \subseteq 0..ByteLen(line)
         /\ 0 \in RuneBoundaries(line)
         /\ ByteLen(line) \in RuneBoundaries(line)
<1>1. PICK B, U : Measures(B, U, line)
  BY MeasuresExist
<1>2. /\ Len(line) \in Nat
      /\ \A i \in 0..Len(line) : B[i] \in Nat
      /\ \A i, j \in 0..Len(line) : i < j => B[i] < B[j]
  BY <1>1, MeasureSteps
<1>3. ByteLen(line) = B[Len(line)]
  BY <1>1, ByteLenIsSum DEF Measures
<1>4. \A i \in 1..Len(line) :
        /\ Offset(line, i) \in Nat
        /\ Offset(line, i + 1) \in Nat
        /\ Offset(line, i + 1) <= B[Len(line)]
  <2> TAKE i \in 1..Len(line)
  <2>1. /\ i \in 1..(Len(line) + 1) /\ i + 1 \in 1..(Len(line) + 1)
        /\ (i + 1) - 1 = i /\ i - 1 \in 0..Len(line) /\ i \in 0..Len(line)
        /\ i = Len(line) \/ i < Len(line)
    BY <1>2
  <2>2. Offset(line, i) = B[i - 1] /\ Offset(line, i + 1) = B[i]
    BY <1>1, <2>1, OffsetIsSum
  <2>3. Len(line) \in 0..Len(line)
    BY <1>2
  <2> QED
    BY <1>2, <2>1, <2>2, <2>3
<1>5. ByteLen(line) \in Nat
  BY <1>2, <1>3
<1>6. \A i \in {k \in DOMAIN line : line[k] \in Foreign} :
        /\ 0 \notin (Offset(line, i) + 1)..(Offset(line, i + 1) - 1)
        /\ ByteLen(line)
             \notin (Offset(line, i) + 1)..(Offset(line, i + 1) - 1)
  BY <1>3, <1>4, <1>5
<1> QED
  BY <1>5, <1>6 DEF RuneBoundaries

\* The units before a boundary are between those before its piece and those
\* with it.
LEMMA BoundaryUnits ==
  ASSUME NEW pieces, PiecesOK(pieces), NEW line \in Seq(pieces),
         NEW B, NEW U, Measures(B, U, line), NEW i \in 1..Len(line),
         NEW b \in Nat, B[i - 1] <= b, b < B[i],
         line[i] \in Foreign => b = B[i - 1]
  PROVE  /\ UnitsUpTo(line, b) = U[i - 1] + (b - B[i - 1])
         /\ UnitsUpTo(line, b) \in Nat
         /\ UnitsUpTo(line, b) < U[i]
<1>1. /\ B[i - 1] \in Nat /\ B[i] \in Nat /\ U[i - 1] \in Nat
      /\ Bytes(line[i]) \in Nat /\ Units(line[i]) \in Nat \ {0}
      /\ B[i] = B[i - 1] + Bytes(line[i])
      /\ U[i] = U[i - 1] + Units(line[i])
  <2>1. i - 1 \in 0..Len(line) /\ i \in 0..Len(line)
    BY MeasureSteps
  <2> QED
    BY <2>1, MeasureSteps
<1>2. UnitsUpTo(line, b) = U[i - 1] + (b - B[i - 1])
  BY UnitsAt
<1>3. CASE line[i] \in Foreign
  <2>1. b = B[i - 1]
    BY <1>3
  <2>2. UnitsUpTo(line, b) = U[i - 1]
    BY <1>1, <1>2, <2>1
  <2> QED
    BY <1>1, <1>2, <2>2
<1>4. CASE line[i] \notin Foreign
  <2>1. Units(line[i]) = Bytes(line[i])
    BY <1>4 DEF Units
  <2> QED
    BY <1>1, <1>2, <2>1
<1> QED
  BY <1>3, <1>4

\* A later boundary has more units before it.
LEMMA UnitsIncrease ==
  ASSUME NEW pieces, PiecesOK(pieces), NEW line \in Seq(pieces),
         NEW b \in RuneBoundaries(line), NEW c \in RuneBoundaries(line), b < c
  PROVE  /\ UnitsUpTo(line, b) \in Nat /\ UnitsUpTo(line, c) \in Nat
         /\ UnitsUpTo(line, b) < UnitsUpTo(line, c)
<1>1. PICK B, U : Measures(B, U, line)
  BY MeasuresExist
<1>2. /\ Len(line) \in Nat
      /\ \A i \in 0..Len(line) : B[i] \in Nat /\ U[i] \in Nat
      /\ \A i, j \in 0..Len(line) : i < j => B[i] < B[j] /\ U[i] < U[j]
  BY <1>1, MeasureSteps
<1>3. ByteLen(line) = B[Len(line)]
  BY <1>1, ByteLenIsSum DEF Measures
<1>4. b \in Nat /\ c \in Nat /\ c <= B[Len(line)] /\ B[Len(line)] \in Nat
  BY <1>2, <1>3, BoundaryTypes
<1>5. PICK i \in 1..Len(line) : /\ B[i - 1] <= b /\ b < B[i]
                                /\ line[i] \in Foreign => b = B[i - 1]
  BY <1>1, <1>4, BoundaryHolds
<1>6. /\ UnitsUpTo(line, b) = U[i - 1] + (b - B[i - 1])
      /\ UnitsUpTo(line, b) \in Nat
      /\ UnitsUpTo(line, b) < U[i]
  BY <1>1, <1>4, <1>5, BoundaryUnits
<1>7. /\ i \in 0..Len(line) /\ i - 1 \in 0..Len(line)
      /\ Len(line) \in 0..Len(line)
  BY <1>2
<1>8. CASE c = B[Len(line)]
  <2>1. UnitsUpTo(line, c) = U[Len(line)]
    BY <1>1, <1>8, UnitsOfAll
  <2>2. U[i] <= U[Len(line)]
    <3>1. i = Len(line) \/ i < Len(line)
      BY <1>2
    <3> QED
      BY <1>2, <1>7, <3>1
  <2> QED
    BY <1>2, <1>6, <1>7, <2>1, <2>2
<1>9. CASE c # B[Len(line)]
  <2>1. PICK j \in 1..Len(line) : /\ B[j - 1] <= c /\ c < B[j]
                                  /\ line[j] \in Foreign => c = B[j - 1]
    BY <1>1, <1>9, BoundaryHolds
  <2>2. /\ UnitsUpTo(line, c) = U[j - 1] + (c - B[j - 1])
        /\ UnitsUpTo(line, c) \in Nat
    BY <1>1, <1>4, <2>1, BoundaryUnits
  <2>3. j \in 0..Len(line) /\ j - 1 \in 0..Len(line)
    BY <1>2
  <2>4. /\ B[i] \in Nat /\ B[i - 1] \in Nat /\ B[j - 1] \in Nat
        /\ B[j] \in Nat /\ U[i] \in Nat /\ U[i - 1] \in Nat
        /\ U[j - 1] \in Nat
    BY <1>2, <1>7, <2>3
  <2>5. CASE i = j
    BY <1>4, <1>6, <2>2, <2>4, <2>5
  <2>6. CASE i < j
    <3>1. i = j - 1 \/ i < j - 1
      BY <2>6
    <3>2. i < j - 1 => U[i] < U[j - 1]
      BY <1>2, <1>7, <2>3
    <3>3. U[i] <= U[j - 1]
      BY <2>4, <3>1, <3>2
    <3>4. UnitsUpTo(line, c) >= U[j - 1]
      BY <1>4, <2>1, <2>2, <2>4
    <3> QED
      BY <1>6, <2>2, <2>4, <3>3, <3>4
  <2>7. CASE j < i
    <3>1. j = i - 1 \/ j < i - 1
      BY <2>7
    <3>2. B[j] <= B[i - 1]
      BY <1>2, <1>7, <2>3, <2>4, <3>1, SMTT(30)
    <3> QED
      BY <1>4, <1>5, <2>1, <2>4, <3>2
  <2> QED
    BY <2>5, <2>6, <2>7
<1> QED
  BY <1>8, <1>9

\* characterToByteOffset is the inverse of byteOffsetToCharacter on the
\* boundaries of a line, as position.go says of the two.
LEMMA ColumnsInvert ==
  ASSUME NEW pieces, PiecesOK(pieces), NEW line \in Seq(pieces),
         NEW enc, NEW b \in RuneBoundaries(line)
  PROVE  characterToByteOffset(line, byteOffsetToCharacter(line, b, enc), enc)
           = b
<1> DEFINE ch == byteOffsetToCharacter(line, b, enc)
<1>1. /\ ByteLen(line) \in Nat /\ b \in 0..ByteLen(line)
      /\ RuneBoundaries(line) \subseteq 0..ByteLen(line)
      /\ 0 \in RuneBoundaries(line)
  BY BoundaryTypes
<1>2. Clamp(b, ByteLen(line)) = b
  BY <1>1 DEF Clamp
<1>3. CASE enc = "utf-8"
  <2>1. ch = b
    BY <1>2, <1>3 DEF byteOffsetToCharacter
  <2> QED
    BY <1>2, <1>3, <2>1 DEF characterToByteOffset
<1>4. CASE enc # "utf-8"
  <2>1. ch = UnitsUpTo(line, b)
    BY <1>2, <1>4 DEF byteOffsetToCharacter
  <2>2. \A c \in RuneBoundaries(line) :
          c < b => /\ UnitsUpTo(line, c) \in Nat /\ UnitsUpTo(line, b) \in Nat
                   /\ UnitsUpTo(line, c) < UnitsUpTo(line, b)
    BY UnitsIncrease
  <2>3. \A c \in RuneBoundaries(line) :
          b < c => /\ UnitsUpTo(line, c) \in Nat /\ UnitsUpTo(line, b) \in Nat
                   /\ UnitsUpTo(line, b) < UnitsUpTo(line, c)
    BY UnitsIncrease
  <2>4. CASE b = 0
    <3>1. UnitsUpTo(line, 0) = 0
      <4>1. PICK B, U : Measures(B, U, line)
        BY MeasuresExist
      <4>2. Len(line) \in Nat /\ B[0] = 0 /\ U[0] = 0
        BY <4>1, MeasureSteps
      <4>3. CASE B[Len(line)] = 0
        <5>1. Len(line) = 0
          <6>1. \A i, j \in 0..Len(line) : i < j => B[i] < B[j]
            BY <4>1, MeasureSteps
          <6>2. ~(0 < Len(line))
            BY <4>2, <4>3, <6>1
          <6> QED
            BY <4>2, <6>2
        <5>2. UnitsUpTo(line, B[Len(line)]) = U[Len(line)]
          BY <4>1, UnitsOfAll
        <5> QED
          BY <4>2, <5>1, <5>2
      <4>4. CASE B[Len(line)] # 0
        <5>1. PICK i \in 1..Len(line) : /\ B[i - 1] <= 0 /\ 0 < B[i]
                                        /\ line[i] \in Foreign => 0 = B[i - 1]
          BY <1>1, <4>1, <4>4, BoundaryHolds
        <5>2. UnitsUpTo(line, 0) = U[i - 1] + (0 - B[i - 1])
          BY <4>1, <5>1, UnitsAt
        <5>3. i = 1
          <6>1. \A k \in 1..Len(line) : k - 1 \in 0..Len(line)
            BY <4>2
          <6>2. /\ \A k, j \in 0..Len(line) : k < j => B[k] < B[j]
                /\ \A k \in 0..Len(line) : B[k] \in Nat
            BY <4>1, MeasureSteps
          <6>3. 0 < i - 1 => B[0] < B[i - 1]
            BY <4>2, <6>1, <6>2
          <6> QED
            BY <4>2, <5>1, <6>1, <6>2, <6>3
        <5> QED
          BY <4>2, <5>2, <5>3
      <4> QED
        BY <4>3, <4>4
    <3> QED
      BY <1>4, <2>1, <2>4, <3>1 DEF characterToByteOffset
  <2>5. CASE b # 0
    <3> DEFINE reached == {c \in RuneBoundaries(line) :
                             UnitsUpTo(line, c) >= ch}
    <3>1. UnitsUpTo(line, b) \in Nat /\ ch > 0
      BY <1>1, <2>1, <2>2, <2>5
    <3>2. b \in reached
      BY <2>1, <3>1
    <3>3. \A c \in reached : b <= c
      BY <1>1, <2>1, <2>2, <3>1
    <3>4. (CHOOSE c \in reached : \A d \in reached : c <= d) = b
      <4>1. \A c \in reached : (\A d \in reached : c <= d) => c = b
        BY <1>1, <3>2, <3>3
      <4> QED
        BY <3>2, <3>3, <4>1
    <3>5. characterToByteOffset(line, ch, enc)
            = CHOOSE c \in reached : \A d \in reached : c <= d
      <4>1. ~(ch =< 0) /\ ~(reached = {})
        <5>1. ch \in Nat
          BY <2>1, <3>1
        <5> QED
          BY <3>1, <3>2, <5>1
      <4> HIDE DEF ch
      <4> QED
        BY <1>4, <4>1, Zenon DEF characterToByteOffset
    <3> QED
      BY <3>4, <3>5
  <2> QED
    BY <2>4, <2>5
<1> QED
  BY <1>3, <1>4

-------------------------------------------------------------------------------
(* Lines of a text.                                                          *)

\* A set of numbers with a bound has a greatest member.
LEMMA GreatestOf ==
  ASSUME NEW N \in Nat, NEW T \in SUBSET (1..N), T # {}
  PROVE  \E x \in T : \A y \in T : y <= x
<1> DEFINE Bounds == {k \in 0..N : \A y \in T : y <= k}
<1>1. Bounds \in SUBSET Nat /\ Bounds # {}
  <2>1. N \in Bounds
    OBVIOUS
  <2> QED
    BY <2>1
<1>2. PICK x \in Bounds : \A k \in Bounds : x <= k
  BY <1>1, LeastOf, Zenon
<1>3. x \in T
  <2> SUFFICES ASSUME x \notin T PROVE FALSE
    OBVIOUS
  <2>1. \A y \in T : y \in 1..N /\ y <= x /\ y # x
    BY <1>2
  <2>2. \A y \in T : y <= x - 1
    BY <1>2, <2>1
  <2>3. x - 1 \in 0..N
    <3>1. x \in 0..N
      BY <1>2
    <3>2. PICK y \in T : y \in 1..N /\ y <= x
      BY <2>1
    <3> QED
      BY <3>1, <3>2
  <2>4. x - 1 \in Bounds
    BY <2>2, <2>3
  <2> QED
    BY <1>2, <2>4
<1> QED
  BY <1>2, <1>3

\* Among the members of a finite set of indices there is one behind any number
\* of others.
LEMMA NthExists ==
  ASSUME NEW N \in Nat, NEW S \in SUBSET (1..N),
         NEW n \in Nat, n < Cardinality(S)
  PROVE  \E i \in S : Cardinality({j \in S : j < i}) = n
<1> DEFINE Under(i) == {j \in S : j < i}
<1>0. \A y \in S : y \in Nat
  OBVIOUS
<1>1. IsFiniteSet(1..N)
  BY FS_Interval
<1>2. \A T \in SUBSET S : IsFiniteSet(T) /\ Cardinality(T) \in Nat
  BY <1>1, FS_Subset, FS_CardinalityType
<1>3. \A T \in SUBSET S : \A x \in T :
        Cardinality(T \ {x}) = Cardinality(T) - 1
  BY <1>2, FS_RemoveElement
<1> DEFINE Enough == {i \in S : Cardinality(Under(i)) >= n}
<1>4. Enough # {}
  <2>1. S # {}
    BY FS_EmptySet
  <2>2. PICK m \in S : \A y \in S : y <= m
    BY <2>1, GreatestOf, Zenon
  <2>3. Under(m) = S \ {m}
    <3>1. \A y \in S : y < m <=> y # m
      BY <1>0, <2>2
    <3> QED
      BY <3>1, Zenon
  <2>4. Cardinality(Under(m)) >= n
    <3>1. Cardinality(S \ {m}) = Cardinality(S) - 1 /\ Cardinality(S) \in Nat
      BY <1>2, <1>3
    <3> QED
      BY <2>3, <3>1
  <2> QED
    BY <2>4
<1>5. Enough \in SUBSET Nat
  BY <1>0, Zenon
<1>6. PICK i \in Enough : \A k \in Enough : i <= k
  BY <1>4, <1>5, LeastOf, Zenon
<1>7. Cardinality(Under(i)) = n
  <2> SUFFICES ASSUME Cardinality(Under(i)) # n PROVE FALSE
    OBVIOUS
  <2>1. Under(i) \in SUBSET S /\ Under(i) \in SUBSET (1..N)
    OBVIOUS
  <2>2. Cardinality(Under(i)) \in Nat /\ Cardinality(Under(i)) > n
    BY <1>2, <1>6, <2>1
  <2>3. Under(i) # {}
    <3> HIDE DEF Under
    <3> QED
      BY <2>2, FS_EmptySet
  <2>4. PICK m \in Under(i) : \A y \in Under(i) : y <= m
    <3> HIDE DEF Under
    <3> QED
      BY <2>1, <2>3, GreatestOf, Zenon
  <2>5. Under(m) = Under(i) \ {m}
    <3>1. \A y \in S : y < m <=> y < i /\ y # m
      BY <1>0, <1>6, <2>4
    <3> QED
      BY <3>1, Zenon
  <2>6. Cardinality(Under(m)) = Cardinality(Under(i)) - 1
    BY <1>3, <2>1, <2>5
  <2>7. m \in Enough /\ m < i
    BY <2>2, <2>4, <2>6
  <2> QED
    BY <1>6, <2>7
<1> QED
  BY <1>6, <1>7

\* Every text has a line.
LEMMA LineCountType ==
  ASSUME NEW pieces, NEW text \in Seq(pieces)
  PROVE  /\ Len(text) \in Nat /\ LFs(text) \in SUBSET (1..Len(text))
         /\ Cardinality(LFs(text)) \in Nat /\ LineCount(text) \in Nat \ {0}
<1>1. Len(text) \in Nat /\ LFs(text) \in SUBSET (1..Len(text))
  BY DEF LFs
<1>2. IsFiniteSet(LFs(text))
  <2>1. IsFiniteSet(1..Len(text))
    BY <1>1, FS_Interval
  <2> QED
    BY <1>1, <2>1, FS_Subset
<1>3. Cardinality(LFs(text)) \in Nat
  BY <1>2, FS_CardinalityType
<1> QED
  BY <1>1, <1>3 DEF LineCount

\* A line is written with the pieces of its text.
LEMMA LineType ==
  ASSUME NEW pieces, NEW text \in Seq(pieces), NEW n \in Int
  PROVE  lineAt(text, n) \in Seq(pieces)
<1> DEFINE under(i)  == Cardinality({j \in LFs(text) : j < i})
           ends      == {i \in LFs(text) : under(i) = n}
           starts    == {i \in LFs(text) : under(i) = n - 1}
           start     == IF n = 0 THEN 1 ELSE 1 + CHOOSE i \in starts : TRUE
           whole(e)  == SubSeq(text, start, e)
<1>1. /\ Len(text) \in Nat /\ LFs(text) \in SUBSET (1..Len(text))
      /\ Cardinality(LFs(text)) \in Nat
      /\ LineCount(text) = Cardinality(LFs(text)) + 1
  BY LineCountType DEF LineCount
<1>2. CASE n \notin 0..(LineCount(text) - 1)
  BY <1>2 DEF lineAt
<1>3. CASE n \in 0..(LineCount(text) - 1)
  <2>1. start \in 1..(Len(text) + 1)
    <3>1. CASE n = 0
      BY <1>1, <3>1
    <3>2. CASE n # 0
      <4>1. n - 1 \in Nat /\ n - 1 < Cardinality(LFs(text))
        BY <1>1, <1>3, <3>2
      <4>2. \E i \in LFs(text) : under(i) = n - 1
        BY <1>1, <4>1, NthExists
      <4>3. (CHOOSE i \in starts : TRUE) \in starts
        BY <4>2
      <4>4. (CHOOSE i \in starts : TRUE) \in 1..Len(text)
        BY <1>1, <4>3
      <4> HIDE DEF starts
      <4> QED
        BY <1>1, <3>2, <4>4
    <3> QED
      BY <3>1, <3>2
  <2> HIDE DEF start
  <2>2. \A e \in 0..Len(text) : whole(e) \in Seq(pieces)
    <3> TAKE e \in 0..Len(text)
    <3>1. start \in Int /\ e \in Int /\ \A i \in start..e : text[i] \in pieces
      BY <1>1, <2>1
    <3> QED
      BY <3>1, SubSeqProperties
  <2>3. \A line \in Seq(pieces) : WithoutCR(line) \in Seq(pieces)
    <3> TAKE line \in Seq(pieces)
    <3>1. CASE line # <<>> /\ line[Len(line)] = "CR"
      <4>1. /\ Len(line) - 1 \in Int
            /\ \A i \in 1..(Len(line) - 1) : line[i] \in pieces
        OBVIOUS
      <4>2. SubSeq(line, 1, Len(line) - 1) \in Seq(pieces)
        BY <4>1, SubSeqProperties
      <4> QED
        BY <3>1, <4>2 DEF WithoutCR
    <3>2. CASE ~(line # <<>> /\ line[Len(line)] = "CR")
      BY <3>2 DEF WithoutCR
    <3> QED
      BY <3>1, <3>2
  <2>4. lineAt(text, n) = IF ends = {} THEN whole(Len(text))
                          ELSE WithoutCR(whole((CHOOSE i \in ends : TRUE) - 1))
    BY <1>3, Zenon DEF lineAt, start
  <2>5. CASE ends = {}
    BY <1>1, <2>2, <2>4, <2>5
  <2>6. CASE ends # {}
    <3>1. (CHOOSE i \in ends : TRUE) \in ends
      BY <2>6
    <3>2. (CHOOSE i \in ends : TRUE) - 1 \in 0..Len(text)
      BY <1>1, <3>1
    <3> HIDE DEF ends, whole
    <3> QED
      BY <2>2, <2>3, <2>4, <2>6, <3>2
  <2> QED
    BY <2>5, <2>6
<1> QED
  BY <1>2, <1>3

-------------------------------------------------------------------------------
(* The line-width table.                                                     *)

ModelPositions == [line : Int, column : Int]
ModelRanges == [start : ModelPositions, end : ModelPositions]

\* The empty line beyond the last one has no columns.
LEMMA EmptyLine ==
  ASSUME NEW byte \in Int, NEW enc
  PROVE  byteOffsetToCharacter(<<>>, byte, enc) = 0
<1>1. PiecesOK({}) /\ <<>> \in Seq({}) /\ Len(<<>>) = 0
  BY DEF PiecesOK
<1>2. ByteLen(<<>>) = 0
  <2>1. PICK B, U : Measures(B, U, <<>>)
    BY <1>1, MeasuresExist
  <2>2. B[0] = 0
    BY <1>1, <2>1, MeasureSteps
  <2>3. ByteLen(<<>>) = B[Len(<<>>)]
    BY <1>1, <2>1, ByteLenIsSum DEF Measures
  <2> QED
    BY <1>1, <2>2, <2>3
<1>3. Clamp(byte, 0) = 0
  BY DEF Clamp
<1>4. UnitsUpTo(<<>>, 0) = 0
  <2>1. 0 \in 0..ByteLen(<<>>) /\ \A i \in DOMAIN <<>> : <<>>[i] \notin Foreign
    BY <1>2
  <2> QED
    BY <1>1, <2>1, AsciiUnits
<1> QED
  BY <1>2, <1>3, <1>4 DEF byteOffsetToCharacter

\* codeUnit on the table of a text is byteOffsetToCharacter on its line.
LEMMA TableCodeUnit ==
  ASSUME NEW pieces, PiecesOK(pieces), NEW text \in Seq(pieces),
         NEW line \in Nat, NEW byte \in Int, NEW enc
  PROVE  codeUnit(buildLineWidthTable(text), line, byte, enc)
           = byteOffsetToCharacter(lineAt(text, line), byte, enc)
<1> DEFINE table == buildLineWidthTable(text)
<1>1. LineCount(text) \in Nat
  BY LineCountType
<1>2. /\ Len(table) = LineCount(text)
      /\ \A n \in 1..LineCount(text) :
           table[n] = makeLineWidth(lineAt(text, n - 1))
  BY <1>1 DEF buildLineWidthTable
<1> HIDE DEF table
<1>3. CASE line \in 0..(LineCount(text) - 1)
  <2>1. table[line + 1] = makeLineWidth(lineAt(text, line))
    <3>1. line + 1 \in 1..LineCount(text) /\ (line + 1) - 1 = line
      BY <1>1, <1>3
    <3> QED
      BY <1>2, <3>1
  <2>2. lineAt(text, line) \in Seq(pieces)
    BY LineType
  <2>3. codeUnit(table, line, byte, enc)
          = LET lw == makeLineWidth(lineAt(text, line))
                n  == Clamp(byte, lw.byteLen)
            IN  IF lw.bytes = <<>> \/ enc = "utf-8" THEN n
                ELSE UnitsUpTo(lw.bytes, n)
    BY <1>2, <1>3, <2>1, Zenon DEF codeUnit
  <2> QED
    BY <2>2, <2>3, TableColumn DEF table
<1>4. CASE line \notin 0..(LineCount(text) - 1)
  <2>1. lineAt(text, line) = <<>>
    BY <1>4 DEF lineAt
  <2>2. codeUnit(table, line, byte, enc) = 0
    BY <1>2, <1>4, Zenon DEF codeUnit
  <2> QED
    BY <2>1, <2>2, EmptyLine DEF table
<1> QED
  BY <1>3, <1>4

\* A range converted by the line-width table of a text is the range converted by
\* the text, wherever it points and in either encoding: the guarantee
\* linewidth.go gives of codeUnit and ProtocolRange.
THEOREM TableConvertsAsText ==
  ASSUME NEW pieces, PiecesOK(pieces), NEW text \in Seq(pieces),
         NEW r \in ModelRanges, NEW enc
  PROVE  protocolRange(buildLineWidthTable(text), r, enc)
           = toProtocolRange(r, text, enc)
<1>1. /\ r.start.line \in Int /\ r.start.column \in Int
      /\ r.end.line \in Int /\ r.end.column \in Int
  BY DEF ModelRanges, ModelPositions
<1>2. \A n \in Int : NonNegative(n) \in Nat
  BY DEF NonNegative
<1>3. \A line, byte \in Int :
        codeUnit(buildLineWidthTable(text), NonNegative(line),
                 NonNegative(byte), enc)
          = byteOffsetToCharacter(lineAt(text, NonNegative(line)),
                                  NonNegative(byte), enc)
  BY <1>2, TableCodeUnit
<1>4. /\ r.start.line - 1 \in Int /\ r.start.column - 1 \in Int
      /\ r.end.line - 1 \in Int
  BY <1>1
<1> QED
  BY <1>1, <1>3, <1>4, Zenon
     DEF protocolRange, toProtocolRange, modelPositionToProtocol

-------------------------------------------------------------------------------
(* Positions there and back, and the order of the ends of a range.           *)

\* A position of a text on the boundary of a character.
OnBoundary(pos, text) ==
  /\ pos.line \in 1..LineCount(text)
  /\ pos.column - 1 \in RuneBoundaries(lineAt(text, pos.line - 1))

\* What the server tells a client of a position, told back, is the position.
THEOREM PositionsReturn ==
  ASSUME NEW pieces, PiecesOK(pieces), NEW text \in Seq(pieces),
         NEW pos \in ModelPositions, OnBoundary(pos, text), NEW enc
  PROVE  fromProtocolPosition(modelPositionToProtocol(pos, text, enc),
                              text, enc)
           = pos
<1> DEFINE line == lineAt(text, pos.line - 1)
           b    == pos.column - 1
<1>1. pos.line \in Int /\ pos.column \in Int
  BY DEF ModelPositions
<1>2. line \in Seq(pieces)
  <2>1. pos.line - 1 \in Int
    BY <1>1
  <2> QED
    BY <2>1, LineType
<1>3. NonNegative(pos.line - 1) = pos.line - 1
  BY <1>1, LineCountType DEF OnBoundary, NonNegative
<1> HIDE DEF line
<1>4. b \in RuneBoundaries(line) /\ b \in Nat
  <2>1. b \in RuneBoundaries(line)
    BY DEF OnBoundary, line
  <2>2. /\ ByteLen(line) \in Nat
        /\ RuneBoundaries(line) \subseteq 0..ByteLen(line)
    BY <1>2, BoundaryTypes
  <2> QED
    BY <2>1, <2>2
<1>5. NonNegative(b) = b
  BY <1>4 DEF NonNegative
<1>6. modelPositionToProtocol(pos, text, enc)
        = At(pos.line - 1, byteOffsetToCharacter(line, b, enc))
  BY <1>3, <1>5, Zenon DEF modelPositionToProtocol, line
<1>7. characterToByteOffset(line, byteOffsetToCharacter(line, b, enc), enc) = b
  BY <1>2, <1>4, ColumnsInvert
<1>8. fromProtocolPosition(modelPositionToProtocol(pos, text, enc), text, enc)
        = Pos((pos.line - 1) + 1, b + 1)
  <2> DEFINE ch == byteOffsetToCharacter(line, b, enc)
  <2> HIDE DEF ch
  <2>1. /\ At(pos.line - 1, ch).line = pos.line - 1
        /\ At(pos.line - 1, ch).character = ch
    BY DEF At
  <2>2. characterToByteOffset(line, ch, enc) = b
    BY <1>7 DEF ch
  <2>3. fromProtocolPosition(At(pos.line - 1, ch), text, enc)
          = Pos((pos.line - 1) + 1, b + 1)
    BY <2>1, <2>2, Zenon DEF fromProtocolPosition, line
  <2> QED
    BY <1>6, <2>3 DEF ch
<1> QED
  BY <1>1, <1>8 DEF Pos, ModelPositions

\* Two boundaries a byte apart are a code unit apart.
LEMMA UnitOfOneByte ==
  ASSUME NEW pieces, PiecesOK(pieces), NEW line \in Seq(pieces),
         NEW b \in RuneBoundaries(line), b + 1 \in RuneBoundaries(line)
  PROVE  UnitsUpTo(line, b + 1) = UnitsUpTo(line, b) + 1
<1>1. PICK B, U : Measures(B, U, line)
  BY MeasuresExist
<1>2. ByteLen(line) = B[Len(line)]
  BY <1>1, ByteLenIsSum DEF Measures
<1>3. /\ Len(line) \in Nat
      /\ \A i \in 0..Len(line) : B[i] \in Nat /\ U[i] \in Nat
      /\ \A i \in 1..Len(line) : /\ Bytes(line[i]) \in Nat \ {0}
                                /\ Units(line[i]) \in Nat \ {0}
                                /\ B[i] = B[i - 1] + Bytes(line[i])
                                /\ U[i] = U[i - 1] + Units(line[i])
  BY <1>1, MeasureSteps
<1>4. b \in Nat /\ B[Len(line)] \in Nat /\ b # B[Len(line)]
  BY <1>2, <1>3, BoundaryTypes
<1>5. PICK i \in 1..Len(line) : /\ B[i - 1] <= b /\ b < B[i]
                                /\ line[i] \in Foreign => b = B[i - 1]
  BY <1>1, <1>4, BoundaryHolds
<1>6. /\ i \in 0..Len(line) /\ i - 1 \in 0..Len(line)
      /\ B[i] \in Nat /\ B[i - 1] \in Nat /\ U[i] \in Nat /\ U[i - 1] \in Nat
      /\ B[i] = B[i - 1] + Bytes(line[i]) /\ U[i] = U[i - 1] + Units(line[i])
      /\ Bytes(line[i]) \in Nat
  BY <1>3
<1>7. line[i] \notin Foreign
  <2> SUFFICES ASSUME line[i] \in Foreign PROVE FALSE
    OBVIOUS
  <2>1. b = B[i - 1]
    BY <1>5
  <2>2. Bytes(line[i]) = ForeignBytes[line[i]]
    BY ForeignAssumption DEF Bytes
  <2>3. B[i] > b + 1
    <3>1. ForeignBytes[line[i]] \in 2..4
      BY ForeignAssumption
    <3> QED
      BY <1>4, <1>6, <2>1, <2>2, <3>1, SMTT(30)
  <2>4. Offset(line, i) = B[i - 1] /\ Offset(line, i + 1) = B[i]
    <3>1. /\ i \in 1..(Len(line) + 1) /\ i + 1 \in 1..(Len(line) + 1)
          /\ (i + 1) - 1 = i
      BY <1>3
    <3> QED
      BY <1>1, <3>1, OffsetIsSum
  <2>5. b + 1 \notin (Offset(line, i) + 1)..(Offset(line, i + 1) - 1)
    BY DEF RuneBoundaries
  <2> QED
    BY <1>4, <1>6, <2>1, <2>3, <2>4, <2>5, SMTT(30)
<1>8. Units(line[i]) = Bytes(line[i])
  BY <1>7 DEF Units
<1>9. UnitsUpTo(line, b) = U[i - 1] + (b - B[i - 1])
  BY <1>1, <1>4, <1>5, UnitsAt
<1> DEFINE m == b + 1
<1>10. m \in Nat /\ B[i - 1] <= m /\ (m < B[i] \/ m = B[i])
  BY <1>4, <1>5, <1>6
<1>11. U[i] = U[i - 1] + (B[i] - B[i - 1])
  BY <1>6, <1>8
<1> HIDE DEF m
<1>12. UnitsUpTo(line, m) = U[i - 1] + (m - B[i - 1])
  <2>1. CASE m < B[i]
    BY <1>1, <1>10, <2>1, UnitsAt
  <2>2. CASE m = B[i] /\ i = Len(line)
    <3>1. UnitsUpTo(line, m) = U[i]
      BY <1>1, <2>2, UnitsOfAll
    <3> QED
      BY <1>11, <2>2, <3>1
  <2>3. CASE m = B[i] /\ i # Len(line)
    <3> DEFINE k == i + 1
    <3>1. k \in 1..Len(line) /\ k - 1 = i /\ k \in 0..Len(line)
      BY <1>3, <2>3
    <3>2. B[k - 1] <= m /\ m < B[k]
      <4>1. /\ Bytes(line[k]) \in Nat \ {0}
            /\ B[k] = B[i] + Bytes(line[k])
        BY <1>3, <3>1
      <4> QED
        BY <1>6, <2>3, <3>1, <4>1
    <3> HIDE DEF k
    <3>3. UnitsUpTo(line, m) = U[k - 1] + (m - B[k - 1])
      BY <1>1, <1>10, <3>1, <3>2, UnitsAt
    <3>4. UnitsUpTo(line, m) = U[i] + (m - B[i])
      BY <3>1, <3>3
    <3> QED
      BY <1>6, <1>10, <1>11, <2>3, <3>4
  <2> QED
    BY <1>10, <2>1, <2>2, <2>3
<1>13. m = b + 1
  BY DEF m
<1>14. UnitsUpTo(line, m) = UnitsUpTo(line, b) + 1
  <2>1. m - B[i - 1] = (b - B[i - 1]) + 1
    BY <1>4, <1>6, <1>13, SMTT(30)
  <2>2. b - B[i - 1] \in Int /\ U[i - 1] \in Nat
    BY <1>4, <1>6
  <2>3. UnitsUpTo(line, m) = U[i - 1] + ((b - B[i - 1]) + 1)
    BY <1>12, <2>1, Zenon
  <2> DEFINE x == b - B[i - 1]
             y == U[i - 1]
  <2>4. x \in Int /\ y \in Nat
    BY <2>2
  <2> HIDE DEF x, y
  <2>5. y + (x + 1) = (y + x) + 1
    BY <2>4
  <2> QED
    BY <1>9, <2>3, <2>5, Zenon DEF x, y
<1> QED
  BY <1>13, <1>14, Zenon

\* Columns keep the order of boundaries.
LEMMA ColumnsIncrease ==
  ASSUME NEW pieces, PiecesOK(pieces), NEW line \in Seq(pieces), NEW enc,
         NEW b \in RuneBoundaries(line), NEW c \in RuneBoundaries(line), b < c
  PROVE  /\ byteOffsetToCharacter(line, b, enc) \in Nat
         /\ byteOffsetToCharacter(line, c, enc) \in Nat
         /\ byteOffsetToCharacter(line, b, enc)
              < byteOffsetToCharacter(line, c, enc)
<1>1. /\ b \in Nat /\ Clamp(b, ByteLen(line)) = b
      /\ c \in Nat /\ Clamp(c, ByteLen(line)) = c
  BY BoundaryTypes DEF Clamp
<1>2. CASE enc = "utf-8"
  BY <1>1, <1>2 DEF byteOffsetToCharacter
<1>3. CASE enc # "utf-8"
  <2>1. /\ UnitsUpTo(line, b) \in Nat /\ UnitsUpTo(line, c) \in Nat
        /\ UnitsUpTo(line, b) < UnitsUpTo(line, c)
    BY UnitsIncrease
  <2> QED
    BY <1>1, <1>3, <2>1 DEF byteOffsetToCharacter
<1> QED
  BY <1>2, <1>3

\* A column between those of two boundaries, of which the later is behind a
\* character of one byte, leads to a byte between them.
LEMMA ColumnBetween ==
  ASSUME NEW pieces, PiecesOK(pieces), NEW line \in Seq(pieces), NEW enc,
         NEW b \in RuneBoundaries(line), NEW e \in RuneBoundaries(line),
         b <= e, e + 1 \in RuneBoundaries(line),
         NEW ch \in Nat, byteOffsetToCharacter(line, b, enc) <= ch,
         ch < byteOffsetToCharacter(line, e + 1, enc)
  PROVE  /\ characterToByteOffset(line, ch, enc) \in Nat
         /\ b <= characterToByteOffset(line, ch, enc)
         /\ characterToByteOffset(line, ch, enc) <= e
<1>1. /\ ByteLen(line) \in Nat
      /\ RuneBoundaries(line) \subseteq 0..ByteLen(line)
      /\ 0 \in RuneBoundaries(line)
  BY BoundaryTypes
<1>2. \A c \in RuneBoundaries(line) :
        /\ c \in Nat /\ c <= ByteLen(line) /\ Clamp(c, ByteLen(line)) = c
  BY <1>1 DEF Clamp
<1>3. b \in Nat /\ e \in Nat /\ e + 1 <= ByteLen(line)
  BY <1>2
<1>4. CASE enc = "utf-8"
  <2>1. b <= ch /\ ch < e + 1
    BY <1>2, <1>4 DEF byteOffsetToCharacter
  <2>2. Clamp(ch, ByteLen(line)) = ch
    BY <1>1, <1>3, <2>1 DEF Clamp
  <2> QED
    BY <1>3, <1>4, <2>1, <2>2 DEF characterToByteOffset
<1>5. CASE enc # "utf-8"
  <2>1. UnitsUpTo(line, b) <= ch /\ ch < UnitsUpTo(line, e + 1)
    BY <1>2, <1>5 DEF byteOffsetToCharacter
  <2>2. /\ UnitsUpTo(line, e + 1) = UnitsUpTo(line, e) + 1
        /\ UnitsUpTo(line, e) \in Nat
    <3>1. e < e + 1
      BY <1>3
    <3> QED
      BY <3>1, UnitOfOneByte, UnitsIncrease
  <2>3. UnitsUpTo(line, e) >= ch
    BY <2>1, <2>2
  <2>4. \A c \in RuneBoundaries(line) :
          c < b => /\ UnitsUpTo(line, c) \in Nat /\ UnitsUpTo(line, b) \in Nat
                   /\ UnitsUpTo(line, c) < UnitsUpTo(line, b)
    BY UnitsIncrease
  <2>5. CASE ch <= 0
    <3>1. b = 0
      BY <1>1, <1>3, <2>1, <2>4, <2>5
    <3>2. characterToByteOffset(line, ch, enc) = 0
      BY <1>5, <2>5 DEF characterToByteOffset
    <3> QED
      BY <1>3, <3>1, <3>2
  <2>6. CASE ~(ch <= 0)
    <3> DEFINE reached == {c \in RuneBoundaries(line) :
                             UnitsUpTo(line, c) >= ch}
    <3>1. e \in reached /\ reached \in SUBSET Nat
      BY <1>2, <2>3
    <3>2. \E c \in reached : \A d \in reached : c <= d
      <4>1. reached # {}
        BY <3>1
      <4> HIDE DEF reached
      <4> QED
        BY <3>1, <4>1, LeastOf
    <3> DEFINE c == CHOOSE c \in reached : \A d \in reached : c <= d
    <3>3. c \in reached /\ \A d \in reached : c <= d
      BY <3>2
    <3>4. characterToByteOffset(line, ch, enc) = c
      <4>1. ~(reached = {})
        BY <3>1
      <4> QED
        BY <1>5, <2>6, <4>1, Zenon DEF characterToByteOffset
    <3> HIDE DEF c
    <3>5. c <= e /\ c \in Nat
      BY <3>1, <3>3
    <3>6. c \in RuneBoundaries(line) /\ UnitsUpTo(line, c) >= ch
      BY <3>3
    <3>7. ~(c < b)
      BY <2>1, <2>4, <3>6
    <3> QED
      BY <1>3, <3>4, <3>5, <3>7
  <2> QED
    BY <2>5, <2>6
<1> QED
  BY <1>4, <1>5

\* A range of one line, as the analyzer makes them of a token or a statement: it
\* starts with a character and its last byte is a character of its own.
SpansLine(r, text) ==
  /\ r.start.line = r.end.line /\ r.start.column <= r.end.column
  /\ OnBoundary(r.start, text) /\ OnBoundary(r.end, text)
  /\ OnBoundary(Pos(r.end.line, r.end.column + 1), text)

\* The parts of such a range: its line, the offsets of its first and its last
\* byte there, and what the client is shown of it.
PartsOf(r, text, enc, line, b, e) ==
  /\ b <= e /\ e + 1 \in RuneBoundaries(line) /\ b \in Nat /\ e \in Nat
  /\ r.start = Pos(r.start.line, b + 1)
  /\ r.end = Pos(r.start.line, e + 1)
  /\ r.start.line \in Int
  /\ lineAt(text, r.start.line - 1) = line
  /\ r.start # r.end =>
       toProtocolRange(r, text, enc)
         = Span(At(r.start.line - 1, byteOffsetToCharacter(line, b, enc)),
                At(r.start.line - 1, byteOffsetToCharacter(line, e + 1, enc)))

\* Every range of one line has such parts.
LEMMA SpanParts ==
  ASSUME NEW pieces, PiecesOK(pieces), NEW text \in Seq(pieces), NEW enc,
         NEW r \in ModelRanges, SpansLine(r, text)
  PROVE  \E line \in Seq(pieces) : \E b, e \in RuneBoundaries(line) :
           PartsOf(r, text, enc, line, b, e)
<1> DEFINE n    == r.start.line
           line == lineAt(text, n - 1)
           b    == r.start.column - 1
           e    == r.end.column - 1
<1>1. /\ r.start \in ModelPositions /\ r.end \in ModelPositions
      /\ n \in Int /\ r.start.column \in Int /\ r.end.column \in Int
      /\ r.end.line = n /\ n \in 1..LineCount(text)
  BY DEF ModelRanges, ModelPositions, SpansLine, OnBoundary
<1>2. n - 1 \in Int /\ NonNegative(n - 1) = n - 1
  BY <1>1, LineCountType DEF NonNegative
<1>3. line \in Seq(pieces)
  BY <1>2, LineType
<1>4. /\ b \in RuneBoundaries(line) /\ e \in RuneBoundaries(line)
      /\ e + 1 \in RuneBoundaries(line)
  <2>1. r.start.column - 1 \in RuneBoundaries(lineAt(text, r.start.line - 1))
    BY DEF SpansLine, OnBoundary
  <2>2. r.end.column - 1 \in RuneBoundaries(lineAt(text, r.end.line - 1))
    BY DEF SpansLine, OnBoundary
  <2>3. /\ Pos(r.end.line, r.end.column + 1).line = r.end.line
        /\ Pos(r.end.line, r.end.column + 1).column = r.end.column + 1
    BY DEF Pos
  <2>4. (r.end.column + 1) - 1 \in RuneBoundaries(lineAt(text, r.end.line - 1))
    BY <2>3 DEF SpansLine, OnBoundary
  <2>5. (r.end.column + 1) - 1 = e + 1
    BY <1>1
  <2> QED
    BY <1>1, <2>1, <2>2, <2>4, <2>5
<1> HIDE DEF line
<1>5. b \in Nat /\ e \in Nat
  BY <1>3, <1>4, BoundaryTypes
<1>6. b <= e
  BY <1>1 DEF SpansLine
<1>7. /\ r.start = Pos(n, b + 1)
      /\ r.end = Pos(n, e + 1)
  BY <1>1 DEF Pos, ModelPositions
<1>8. NonNegative(b) = b /\ NonNegative(r.end.column) = e + 1
  BY <1>1, <1>5 DEF NonNegative
<1>9. modelPositionToProtocol(r.start, text, enc)
        = At(n - 1, byteOffsetToCharacter(line, b, enc))
  BY <1>2, <1>8, Zenon DEF modelPositionToProtocol, line
<1>10. r.start # r.end =>
         toProtocolRange(r, text, enc)
           = Span(At(n - 1, byteOffsetToCharacter(line, b, enc)),
                  At(n - 1, byteOffsetToCharacter(line, e + 1, enc)))
  BY <1>1, <1>2, <1>8, <1>9, Zenon DEF toProtocolRange, line
<1>11. line = lineAt(text, n - 1)
  BY DEF line
<1>12. PartsOf(r, text, enc, line, b, e)
  <2> HIDE DEF b, e
  <2> QED
    BY <1>1, <1>4, <1>5, <1>6, <1>7, <1>10, <1>11, Zenon DEF PartsOf
<1> HIDE DEF b, e, n
<1> QED
  BY <1>3, <1>4, <1>12, Zenon

\* A range of several bytes on one line is shown to the client as a range that
\* starts before it ends.
THEOREM RangesStayRanges ==
  ASSUME NEW pieces, PiecesOK(pieces), NEW text \in Seq(pieces),
         NEW r \in ModelRanges, SpansLine(r, text), r.start # r.end, NEW enc
  PROVE  LET shown == toProtocolRange(r, text, enc)
         IN  /\ shown.start.line = shown.end.line
             /\ shown.start.character < shown.end.character
<1>1. PICK line \in Seq(pieces) : \E b, e \in RuneBoundaries(line) :
        PartsOf(r, text, enc, line, b, e)
  BY SpanParts, Zenon
<1>2. PICK b, e \in RuneBoundaries(line) : PartsOf(r, text, enc, line, b, e)
  BY <1>1, Zenon
<1> DEFINE from == byteOffsetToCharacter(line, b, enc)
           to   == byteOffsetToCharacter(line, e + 1, enc)
<1>3. from < to
  <2>1. b \in Nat /\ e \in Nat /\ b < e + 1 /\ e + 1 \in RuneBoundaries(line)
    BY <1>2 DEF PartsOf
  <2> QED
    BY <1>2, <2>1, ColumnsIncrease
<1> HIDE DEF from, to
<1>4. toProtocolRange(r, text, enc)
        = Span(At(r.start.line - 1, from), At(r.start.line - 1, to))
  BY <1>2, Zenon DEF PartsOf, from, to
<1> QED
  BY <1>3, <1>4 DEF Span, At

\* A click on any column of the range a client was shown is a position inside
\* the range it was shown for.
THEOREM ClicksFallInside ==
  ASSUME NEW pieces, PiecesOK(pieces), NEW text \in Seq(pieces),
         NEW r \in ModelRanges, SpansLine(r, text), r.start # r.end, NEW enc,
         NEW ch \in Nat,
         toProtocolRange(r, text, enc).start.character <= ch,
         ch < toProtocolRange(r, text, enc).end.character
  PROVE  rangeContains(r, fromProtocolPosition(At(r.start.line - 1, ch),
                                               text, enc))
<1>1. PICK line \in Seq(pieces) : \E b, e \in RuneBoundaries(line) :
        PartsOf(r, text, enc, line, b, e)
  BY SpanParts, Zenon
<1>2. PICK b, e \in RuneBoundaries(line) : PartsOf(r, text, enc, line, b, e)
  BY <1>1, Zenon
<1> DEFINE n    == r.start.line
           from == byteOffsetToCharacter(line, b, enc)
           to   == byteOffsetToCharacter(line, e + 1, enc)
           back == characterToByteOffset(line, ch, enc)
<1>3. /\ r.start = Pos(n, b + 1) /\ r.end = Pos(n, e + 1) /\ n \in Int
      /\ lineAt(text, n - 1) = line /\ b \in Nat /\ e \in Nat
      /\ b <= e /\ e + 1 \in RuneBoundaries(line)
  BY <1>2, Zenon DEF PartsOf
<1>4. from <= ch /\ ch < to
  <2> HIDE DEF from, to
  <2>1. toProtocolRange(r, text, enc) = Span(At(n - 1, from), At(n - 1, to))
    BY <1>2, Zenon DEF PartsOf, from, to
  <2> QED
    BY <2>1 DEF Span, At
<1>5. back \in Nat /\ b <= back /\ back <= e
  BY <1>3, <1>4, ColumnBetween
<1>6. fromProtocolPosition(At(n - 1, ch), text, enc)
        = Pos((n - 1) + 1, back + 1)
  <2>1. At(n - 1, ch).line = n - 1 /\ At(n - 1, ch).character = ch
    BY DEF At
  <2> HIDE DEF n
  <2> QED
    BY <1>3, <2>1, Zenon DEF fromProtocolPosition
<1> HIDE DEF back, from, to
<1>7. (n - 1) + 1 = n
  BY <1>3
<1>8. fromProtocolPosition(At(n - 1, ch), text, enc) = Pos(n, back + 1)
  BY <1>6, <1>7
<1> HIDE DEF n
<1>9. rangeContains(r, Pos(n, back + 1))
  BY <1>3, <1>5 DEF rangeContains, Before, Pos
<1> QED
  BY <1>8, <1>9 DEF n


-------------------------------------------------------------------------------
(* The owners of fields.                                                     *)

Leveled(fields) == \A i \in 1..Len(fields) : fields[i].level \in Nat

\* A field may still have children until one comes whose level is not greater.
Open(fields, j) ==
  \A i \in (j + 1)..Len(fields) : fields[j].level < fields[i].level

\* The stack holds the open fields, in their order.
StackOK(fields, stack) ==
  /\ stack \in Seq(1..Len(fields))
  /\ \A a, b \in 1..Len(stack) : a < b => stack[a] < stack[b]
  /\ \A a \in 1..Len(stack) : Open(fields, stack[a])
  /\ \A j \in 1..Len(fields) :
       Open(fields, j) => \E a \in 1..Len(stack) : stack[a] = j

\* What is left of the stack is the part up to the last field that passes.
LEMMA PoppedParts ==
  ASSUME NEW S, NEW stack \in Seq(S), NEW passing \in SUBSET (1..Len(stack))
  PROVE  \E m \in 0..Len(stack) :
           /\ PoppedTo(stack, passing) = SubSeq(stack, 1, m)
           /\ m = 0 <=> passing = {}
           /\ m # 0 => m \in passing
           /\ \A n \in passing : n <= m
<1>1. CASE passing = {}
  <2>1. PoppedTo(stack, passing) = <<>> /\ SubSeq(stack, 1, 0) = <<>>
    BY <1>1 DEF PoppedTo
  <2>2. 0 \in 0..Len(stack)
    OBVIOUS
  <2>3. /\ PoppedTo(stack, passing) = SubSeq(stack, 1, 0)
        /\ 0 = 0 <=> passing = {}
        /\ 0 # 0 => 0 \in passing
        /\ \A n \in passing : n <= 0
    BY <1>1, <2>1, Zenon
  <2> QED
    BY <2>2, <2>3, Zenon
<1>2. CASE passing # {}
  <2>1. Len(stack) \in Nat
    OBVIOUS
  <2>2. \E m \in passing : \A n \in passing : n <= m
    BY <1>2, <2>1, GreatestOf
  <2> DEFINE m == CHOOSE m \in passing : \A n \in passing : n <= m
  <2>3. m \in passing /\ \A n \in passing : n <= m
    BY <2>2
  <2>4. PoppedTo(stack, passing) = SubSeq(stack, 1, m)
    BY <1>2 DEF PoppedTo
  <2> HIDE DEF m
  <2>5. m \in 1..Len(stack)
    BY <2>3
  <2> QED
    BY <1>2, <2>3, <2>4, <2>5
<1> QED
  BY <1>1, <1>2

\* One turn of the loop: the rest of the stack ends in the owner of the field
\* that is added, and with it holds the open fields again.
LEMMA FieldStep ==
  ASSUME NEW F, NEW fields \in Seq(F), NEW f \in F, Leveled(Append(fields, f)),
         NEW stack, StackOK(fields, stack)
  PROVE  LET above == Pushed(fields, stack, f.level)
             more  == Append(fields, f)
         IN  /\ ParentUnder(above) = OwnerOf(more, Len(more))
             /\ StackOK(more, Append(above, Len(more)))
<1> DEFINE n       == Len(fields)
           more    == Append(fields, f)
           passing == {m \in DOMAIN stack : fields[stack[m]].level < f.level}
           above   == Pushed(fields, stack, f.level)
<1>1. /\ n \in Nat /\ Len(more) = n + 1 /\ more[n + 1] = f
      /\ \A i \in 1..n : more[i] = fields[i]
  OBVIOUS
<1>2. /\ \A i \in 1..n : fields[i].level \in Nat
      /\ f.level \in Nat
  BY <1>1 DEF Leveled
<1>3. /\ stack \in Seq(1..n) /\ Len(stack) \in Nat
      /\ \A a \in 1..Len(stack) : stack[a] \in 1..n
      /\ \A a, b \in 1..Len(stack) : a < b => stack[a] < stack[b]
      /\ \A a \in 1..Len(stack) :
           \A i \in (stack[a] + 1)..n : fields[stack[a]].level < fields[i].level
      /\ \A j \in 1..n :
           (\A i \in (j + 1)..n : fields[j].level < fields[i].level)
             => \E a \in 1..Len(stack) : stack[a] = j
  BY DEF StackOK, Open
<1>4. PICK m \in 0..Len(stack) :
        /\ above = SubSeq(stack, 1, m)
        /\ m = 0 <=> passing = {}
        /\ m # 0 => m \in passing
        /\ \A k \in passing : k <= m
  <2>1. passing \in SUBSET (1..Len(stack))
    BY <1>3
  <2>2. above = PoppedTo(stack, passing)
    BY DEF Pushed
  <2> HIDE DEF passing, above
  <2> QED
    BY <1>3, <2>1, <2>2, PoppedParts
<1>5. /\ above \in Seq(1..n) /\ Len(above) = m
      /\ \A a \in 1..m : above[a] = stack[a]
  BY <1>3, <1>4
<1>6. \A a \in 1..m : fields[stack[a]].level < f.level
  <2> SUFFICES ASSUME NEW a \in 1..m PROVE fields[stack[a]].level < f.level
    OBVIOUS
  <2>1. m \in 1..Len(stack) /\ a \in 1..Len(stack)
        /\ fields[stack[m]].level < f.level
    BY <1>3, <1>4
  <2>2. CASE a = m
    BY <2>1, <2>2
  <2>3. CASE a # m
    <3>1. stack[a] < stack[m] /\ stack[a] \in 1..n /\ stack[m] \in 1..n
      BY <1>3, <2>1, <2>3
    <3>2. stack[m] \in (stack[a] + 1)..n
      BY <1>1, <3>1
    <3>3. fields[stack[a]].level < fields[stack[m]].level
      BY <1>3, <2>1, <3>2
    <3>4. fields[stack[a]].level \in Nat /\ fields[stack[m]].level \in Nat
      BY <1>2, <3>1
    <3> DEFINE low == fields[stack[a]].level
               top == fields[stack[m]].level
               own == f.level
    <3>5. low \in Nat /\ top \in Nat /\ own \in Nat /\ low < top /\ top < own
      BY <1>2, <2>1, <3>3, <3>4
    <3> HIDE DEF low, top, own
    <3>6. low < own
      BY <3>5
    <3> QED
      BY <3>6 DEF low, own
  <2> QED
    BY <2>2, <2>3
<1>7. ASSUME NEW a \in (m + 1)..Len(stack)
      PROVE  f.level <= fields[stack[a]].level
  <2>1. a \in 1..Len(stack) /\ a \notin passing
    BY <1>3, <1>4
  <2> QED
    BY <1>2, <1>3, <2>1
<1> HIDE DEF above, more, passing
\* A field with a smaller level is on the stack, or behind one there that has.
<1>8. ASSUME NEW j \in 1..n, fields[j].level < f.level
      PROVE  m # 0 /\ j <= stack[m]
  <2> DEFINE Low == {i \in j..n : fields[i].level < f.level}
  <2>1. PICK k \in Low : \A i \in Low : i <= k
    <3>1. j \in Low /\ Low \in SUBSET (1..n) /\ n \in Nat
      BY <1>1, <1>8
    <3> HIDE DEF Low
    <3> QED
      BY <3>1, GreatestOf
  <2>2. k \in j..n /\ k \in 1..n /\ fields[k].level < f.level
    BY <1>1, <2>1
  <2>3. \A i \in (k + 1)..n : fields[k].level < fields[i].level
    <3> SUFFICES ASSUME NEW i \in (k + 1)..n
                 PROVE  fields[k].level < fields[i].level
      OBVIOUS
    <3>1. i \in 1..n /\ i \in j..n /\ i \notin Low
      BY <1>1, <2>1, <2>2
    <3> DEFINE here == fields[k].level
               next == fields[i].level
               own  == f.level
    <3>2. here \in Nat /\ next \in Nat /\ own \in Nat
      BY <1>2, <2>2, <3>1
    <3>3. here < own /\ ~ (next < own)
      BY <2>2, <3>1
    <3> HIDE DEF here, next, own
    <3>4. here < next
      BY <3>2, <3>3
    <3> QED
      BY <3>4 DEF here, next
  <2>4. PICK a \in 1..Len(stack) : stack[a] = k
    BY <1>3, <2>2, <2>3
  <2>5. a <= m
    <3> SUFFICES ASSUME ~ (a <= m) PROVE FALSE
      OBVIOUS
    <3>1. a \in (m + 1)..Len(stack)
      BY <1>3, <1>4
    <3> QED
      BY <1>2, <1>7, <2>2, <2>4, <3>1
  <2>6. m \in 1..Len(stack) /\ (a = m \/ stack[a] < stack[m])
    BY <1>3, <1>4, <2>5
  <2> QED
    BY <1>1, <1>3, <2>2, <2>4, <2>6
<1>9. ParentUnder(above) = OwnerOf(more, n + 1)
  <2> DEFINE Above == {j \in 1..n : fields[j].level < f.level}
  <2>1. Above = {j \in 1..((n + 1) - 1) : more[j].level < more[n + 1].level}
    BY <1>1
  <2>2. CASE m = 0
    <3>1. Above = {} /\ above = <<>>
      BY <1>5, <1>8, <2>2
    <3> QED
      BY <2>1, <3>1 DEF ParentUnder, OwnerOf
  <2>3. CASE m # 0
    <3>1. m \in 1..Len(stack) /\ m \in 1..m
      BY <1>4, <2>3
    <3>2. stack[m] \in Above /\ \A i \in Above : i <= stack[m]
      BY <1>3, <1>6, <1>8, <3>1
    <3>3. above # <<>> /\ above[Len(above)] = stack[m]
      BY <1>5, <2>3, <3>1
    <3>4. \A j \in Above : (\A i \in Above : i <= j) => j = stack[m]
      BY <1>1, <1>3, <3>1, <3>2
    <3>5. OwnerOf(more, n + 1)
            = IF Above = {} THEN 0
              ELSE CHOOSE j \in Above : \A i \in Above : i <= j
      <4> DEFINE Earlier == {j \in 1..((n + 1) - 1) :
                               more[j].level < more[n + 1].level}
      <4>1. OwnerOf(more, n + 1)
              = IF Earlier = {} THEN 0
                ELSE CHOOSE j \in Earlier : \A i \in Earlier : i <= j
        BY Zenon DEF OwnerOf
      <4> HIDE DEF Earlier
      <4>2. Earlier = Above
        BY <2>1 DEF Earlier
      <4> QED
        BY <4>1, <4>2
    <3> HIDE DEF Above
    <3>6. (CHOOSE j \in Above : \A i \in Above : i <= j) = stack[m]
      BY <3>2, <3>4
    <3> QED
      BY <3>2, <3>3, <3>5, <3>6 DEF ParentUnder
  <2> QED
    BY <2>2, <2>3
<1>10. StackOK(more, Append(above, n + 1))
  <2> DEFINE new == Append(above, n + 1)
  <2>1. /\ new \in Seq(1..(n + 1)) /\ Len(new) = m + 1
        /\ new[m + 1] = n + 1 /\ \A a \in 1..m : new[a] = stack[a]
    BY <1>1, <1>4, <1>5
  <2> HIDE DEF new
  <2>2. ASSUME NEW a \in 1..(m + 1), NEW b \in 1..(m + 1), a < b
        PROVE  new[a] < new[b]
    <3>1. a \in 1..m /\ a \in 1..Len(stack) /\ stack[a] \in 1..n
      BY <1>3, <1>4, <2>2
    <3>2. CASE b = m + 1
      BY <1>1, <2>1, <3>1, <3>2
    <3>3. CASE b # m + 1
      BY <1>3, <1>4, <2>1, <2>2, <3>1, <3>3
    <3> QED
      BY <3>2, <3>3
  <2>3. ASSUME NEW a \in 1..(m + 1) PROVE Open(more, new[a])
    <3>1. CASE a = m + 1
      BY <1>1, <2>1, <3>1 DEF Open
    <3>2. CASE a # m + 1
      <4>0. a \in 1..m /\ a \in 1..Len(stack)
        <5>1. m \in Nat /\ Len(stack) \in Nat /\ m <= Len(stack)
          BY <1>3, <1>4
        <5> QED
          BY <3>2, <5>1
      <4>1. /\ a \in 1..m /\ a \in 1..Len(stack) /\ stack[a] \in 1..n
            /\ new[a] = stack[a]
        BY <1>3, <2>1, <4>0
      <4>2. ASSUME NEW i \in (stack[a] + 1)..(n + 1)
            PROVE  more[stack[a]].level < more[i].level
        <5>1. more[stack[a]] = fields[stack[a]]
          BY <1>1, <4>1
        <5>2. CASE i = n + 1
          BY <1>1, <1>6, <4>1, <5>1, <5>2
        <5>3. CASE i # n + 1
          <6>1. i \in (stack[a] + 1)..n /\ i \in 1..n
            BY <1>1, <4>1, <4>2, <5>3
          <6> QED
            BY <1>1, <1>3, <4>1, <5>1, <6>1
        <5> QED
          BY <5>2, <5>3
      <4> QED
        BY <1>1, <4>1, <4>2 DEF Open
    <3> QED
      BY <3>1, <3>2
  <2>4. ASSUME NEW j \in 1..(n + 1), Open(more, j)
        PROVE  \E a \in 1..(m + 1) : new[a] = j
    <3>1. CASE j = n + 1
      BY <1>4, <2>1, <3>1
    <3>2. CASE j # n + 1
      <4>1. j \in 1..n
        BY <1>1, <3>2
      <4>2. fields[j].level < f.level
            /\ \A i \in (j + 1)..n : fields[j].level < fields[i].level
        BY <1>1, <2>4, <4>1 DEF Open
      <4>3. PICK a \in 1..Len(stack) : stack[a] = j
        BY <1>3, <4>1, <4>2
      <4>4. a <= m
        <5> SUFFICES ASSUME ~ (a <= m) PROVE FALSE
          OBVIOUS
        <5>1. a \in (m + 1)..Len(stack)
          BY <1>3, <1>4
        <5> QED
          BY <1>2, <1>7, <4>1, <4>2, <4>3, <5>1
      <4>5. a \in 1..m /\ a \in 1..(m + 1)
        BY <1>3, <1>4, <4>4
      <4> QED
        BY <2>1, <4>3, <4>5
    <3> QED
      BY <3>1, <3>2
  <2> QED
    BY <1>1, <2>1, <2>2, <2>3, <2>4 DEF StackOK, new
<1> QED
  BY <1>1, <1>9, <1>10 DEF above, more

\* The stacks of the loop over a list of fields, the k-th after k of them.
StacksOf(fields, stacks) ==
  /\ stacks[0] = <<>>
  /\ \A k \in 1..Len(fields) :
       stacks[k] = Append(Pushed(SubSeq(fields, 1, k - 1), stacks[k - 1],
                                 fields[k].level), k)

\* The first fields of a list, one by one.
LEMMA FrontGrows ==
  ASSUME NEW F, NEW fields \in Seq(F), Leveled(fields),
         NEW i \in 1..Len(fields)
  PROVE  LET front == SubSeq(fields, 1, i - 1)
             more  == Append(front, fields[i])
         IN  /\ front \in Seq(F) /\ fields[i] \in F
             /\ SubSeq(fields, 1, i) = more /\ Len(more) = i
             /\ Leveled(more)
             /\ \A j \in 1..i : more[j] = fields[j]
<1> DEFINE n     == i - 1
           front == SubSeq(fields, 1, n)
           f     == fields[i]
<1>1. i \in Nat /\ n \in 0..Len(fields) /\ n \in Nat /\ n + 1 = i
  OBVIOUS
<1>2. /\ front \in Seq(F) /\ f \in F /\ Len(front) = n
      /\ \A j \in 1..n : front[j] = fields[j]
  BY <1>1
<1>3. /\ SubSeq(fields, 1, i) \in Seq(F) /\ Len(SubSeq(fields, 1, i)) = i
      /\ \A j \in 1..i : SubSeq(fields, 1, i)[j] = fields[j]
  BY <1>1
<1>4. /\ Append(front, f) \in Seq(F) /\ Len(Append(front, f)) = i
      /\ \A j \in 1..n : Append(front, f)[j] = front[j]
      /\ Append(front, f)[i] = f
  <2> HIDE DEF front, f, n
  <2> QED
    BY <1>1, <1>2
<1>5. \A j \in 1..i : Append(front, f)[j] = fields[j]
  <2> SUFFICES ASSUME NEW j \in 1..i PROVE Append(front, f)[j] = fields[j]
    OBVIOUS
  <2>1. CASE j = i
    BY <1>4, <2>1
  <2>2. CASE j # i
    <3>1. j \in 1..n
      BY <1>1, <2>2
    <3> QED
      BY <1>2, <1>4, <3>1
  <2> QED
    BY <2>1, <2>2
<1>6. SubSeq(fields, 1, i) = Append(front, f)
  <2> HIDE DEF front, f, n
  <2> QED
    BY <1>3, <1>4, <1>5, SeqEqual
<1>7. Leveled(Append(front, f))
  <2>1. \A j \in 1..i : fields[j].level \in Nat
    BY <1>1 DEF Leveled
  <2> HIDE DEF front, f
  <2> QED
    BY <1>4, <1>5, <2>1 DEF Leveled
<1> QED
  BY <1>2, <1>4, <1>5, <1>6, <1>7

\* After any number of fields the stack holds the open ones of them.
LEMMA StacksHold ==
  ASSUME NEW F, NEW fields \in Seq(F), Leveled(fields),
         NEW stacks, StacksOf(fields, stacks),
         NEW k \in 0..Len(fields)
  PROVE  StackOK(SubSeq(fields, 1, k), stacks[k])
<1> DEFINE Bad == {i \in 0..Len(fields) :
                     ~ StackOK(SubSeq(fields, 1, i), stacks[i])}
<1>1. SUFFICES ASSUME Bad # {} PROVE FALSE
  OBVIOUS
<1>2. PICK i \in Bad : \A j \in Bad : i <= j
  <2>1. Bad \in SUBSET Nat
    OBVIOUS
  <2> HIDE DEF Bad
  <2> QED
    BY <1>1, <2>1, LeastOf, Zenon
<1>3. i \in 0..Len(fields) /\ ~ StackOK(SubSeq(fields, 1, i), stacks[i])
  OBVIOUS
<1>4. i # 0
  <2>1. StackOK(SubSeq(fields, 1, 0), <<>>)
    <3>1. SubSeq(fields, 1, 0) = <<>> /\ Len(<<>>) = 0
      OBVIOUS
    <3>2. <<>> \in Seq(1..0) /\ 1..0 = {}
      OBVIOUS
    <3> QED
      BY <3>1, <3>2 DEF StackOK
  <2> QED
    BY <1>3, <2>1 DEF StacksOf
<1> DEFINE n     == i - 1
           front == SubSeq(fields, 1, n)
           f     == fields[i]
<1>5. /\ i \in 1..Len(fields) /\ n \in 0..Len(fields) /\ n \in Nat /\ n + 1 = i
      /\ n < i
  BY <1>3, <1>4
<1>6. n \notin Bad
  <2> HIDE DEF Bad
  <2> QED
    BY <1>2, <1>5
<1>7. StackOK(front, stacks[n])
  BY <1>5, <1>6
<1>8. /\ front \in Seq(F) /\ f \in F
      /\ SubSeq(fields, 1, i) = Append(front, f) /\ Len(Append(front, f)) = i
      /\ Leveled(Append(front, f))
  BY <1>5, FrontGrows
<1>9. stacks[i] = Append(Pushed(front, stacks[n], f.level), i)
  BY <1>5 DEF StacksOf
<1> HIDE DEF front, f, n
<1>10. StackOK(Append(front, f), Append(Pushed(front, stacks[n], f.level), i))
  BY <1>7, <1>8, FieldStep
<1> QED
  BY <1>3, <1>8, <1>9, <1>10

\* parser.go, parseDataFields and parseMap: popping a stack finds the parent of
\* every field, the nearest field before it with a smaller level.
THEOREM OwnersAreNearest ==
  ASSUME NEW F, NEW fields \in Seq(F), Leveled(fields),
         NEW stacks, StacksOf(fields, stacks),
         NEW k \in 1..Len(fields)
  PROVE  ParentUnder(Pushed(SubSeq(fields, 1, k - 1), stacks[k - 1],
                            fields[k].level))
           = OwnerOf(fields, k)
<1> DEFINE front == SubSeq(fields, 1, k - 1)
           f     == fields[k]
           more  == Append(front, f)
<1>1. /\ front \in Seq(F) /\ f \in F /\ Leveled(more) /\ Len(more) = k
      /\ \A j \in 1..k : more[j] = fields[j]
  BY FrontGrows
<1>2. StackOK(front, stacks[k - 1])
  <2>1. k - 1 \in 0..Len(fields)
    OBVIOUS
  <2> QED
    BY <2>1, StacksHold
<1> HIDE DEF front, f
<1>3. ParentUnder(Pushed(front, stacks[k - 1], f.level))
        = OwnerOf(more, k)
  BY <1>1, <1>2, FieldStep
<1>4. OwnerOf(more, k) = OwnerOf(fields, k)
  <2> DEFINE Earlier(list) == {j \in 1..(k - 1) : list[j].level < list[k].level}
  <2>1. Earlier(more) = Earlier(fields)
    <3> HIDE DEF more
    <3>1. \A j \in 1..(k - 1) : j \in 1..k
      OBVIOUS
    <3>2. k \in 1..k
      OBVIOUS
    <3> QED
      BY <1>1, <3>1, <3>2
  <2>2. \A list : OwnerOf(list, k)
                   = IF Earlier(list) = {} THEN 0
                     ELSE CHOOSE j \in Earlier(list) :
                            \A i \in Earlier(list) : i <= j
    BY Zenon DEF OwnerOf
  <2> HIDE DEF Earlier
  <2> QED
    BY <2>1, <2>2
<1> QED
  BY <1>3, <1>4 DEF front, f
===============================================================================
