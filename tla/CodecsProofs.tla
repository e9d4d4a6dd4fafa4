---------------------------- MODULE CodecsProofs ----------------------------
(***************************************************************************)
(* Of the algorithms of Codecs, base64 and the way of a frame into a row,  *)
(* and what any proof about their loops rests on.  A loop is a function    *)
(* that is defined from its own earlier values; that it exists, and that   *)
(* an invariant of its passes holds at its end, follows here from the      *)
(* least number that would contradict it.                                  *)
(***************************************************************************)
EXTENDS Codecs, FiniteSetTheorems, SequenceTheorems, WellFoundedInduction, TLAPS

\* The order that the least number is of.
Less == {p \in Nat \X Nat : p[1] < p[2]}

\* A set of numbers that is not empty has a least one: what induction over a text, or
\* over the passes of a loop, comes down to here.
LEMMA LeastNumber ==
  ASSUME NEW T, T \subseteq Nat, T # {}
  PROVE  \E n \in T : \A m \in T : n <= m
<1>1. IsWellFoundedOn(Less, Nat)
  BY NatLessThanWellFounded DEF OpToRel, Less
<1>2. \E n \in T : \A m \in T : <<m, n>> \notin Less
  BY <1>1, WFMin, Zenon
<1>3. ASSUME NEW m \in Nat, NEW n \in Nat, <<m, n>> \notin Less
      PROVE  n <= m
  BY <1>3 DEF Less
<1> QED
  BY <1>2, <1>3

\* Induction over the passes of a loop that ends.
LEMMA Induction ==
  ASSUME NEW n \in Nat, NEW T, 0 \in T, \A k \in 1..n : k - 1 \in T => k \in T
  PROVE  \A k \in 0..n : k \in T
<1> SUFFICES ASSUME NEW x \in 0..n, x \notin T
             PROVE  FALSE
  OBVIOUS
<1> DEFINE U == (0..n) \ T
<1>1. U \subseteq Nat /\ U # {}
  OBVIOUS
<1>2. PICK k \in U : \A m \in U : k <= m
  BY <1>1, LeastNumber, Zenon
<1>3. k \in 1..n
  OBVIOUS
<1>4. k - 1 \in T
  BY <1>2, <1>3
<1> QED
  BY <1>3, <1>4

\* g[k] is the state of a loop after k passes, each of which is an application of F.
IsRun(g, F, start, n) ==
  /\ g[0] = start
  /\ \A k \in 1..n : g[k] = F[<<g[k - 1], k>>]

\* The function that a loop defines exists: the state after each of its passes, if a
\* pass leads from states to states.
LEMMA LoopRuns ==
  ASSUME NEW S, NEW start \in S, NEW n \in Nat, NEW F \in [S \X (1..n) -> S]
  PROVE  \E g \in [0..n -> S] : IsRun(g, F, start, n)
<1> DEFINE Runs(m) == \E g \in [0..m -> S] :
                        g = [k \in 0..m |-> IF k = 0 THEN start ELSE F[<<g[k - 1], k>>]]
           T == {m \in 0..n : Runs(m)}
<1>1. 0 \in T
  <2> DEFINE g == [k \in 0..0 |-> start]
  <2>1. g = [k \in 0..0 |-> IF k = 0 THEN start ELSE F[<<g[k - 1], k>>]]
    OBVIOUS
  <2>2. g \in [0..0 -> S]
    OBVIOUS
  <2> HIDE DEF g
  <2> QED
    BY <2>1, <2>2
<1>2. ASSUME NEW m \in 1..n, m - 1 \in T
      PROVE  m \in T
  <2>1. PICK g \in [0..(m - 1) -> S] :
          g = [k \in 0..(m - 1) |-> IF k = 0 THEN start ELSE F[<<g[k - 1], k>>]]
    BY <1>2
  <2> DEFINE h == [k \in 0..m |-> IF k < m THEN g[k] ELSE F[<<g[m - 1], m>>]]
  <2>2. h \in [0..m -> S]
    OBVIOUS
  <2>3. ASSUME NEW k \in 0..m
        PROVE  h[k] = IF k = 0 THEN start ELSE F[<<h[k - 1], k>>]
    <3>1. CASE k = m
      BY <3>1
    <3>2. CASE k < m
      <4>1. h[k] = g[k] /\ (k # 0 => h[k - 1] = g[k - 1])
        BY <3>2
      <4>2. k \in 0..(m - 1)
        BY <3>2
      <4> HIDE DEF h
      <4> QED
        BY <2>1, <4>1, <4>2
    <3> QED
      BY <3>1, <3>2
  <2> HIDE DEF h
  <2>4. h = [k \in 0..m |-> IF k = 0 THEN start ELSE F[<<h[k - 1], k>>]]
    BY <2>2, <2>3
  <2>5. Runs(m)
    BY <2>2, <2>4
  <2> HIDE DEF Runs
  <2> QED
    BY <2>5
<1>3. n \in T
  <2> HIDE DEF T
  <2> QED
    BY <1>1, <1>2, Induction
<1>4. PICK g \in [0..n -> S] :
        g = [k \in 0..n |-> IF k = 0 THEN start ELSE F[<<g[k - 1], k>>]]
  BY <1>3
<1>5. g[0] = start /\ \A k \in 1..n : g[k] = F[<<g[k - 1], k>>]
  BY <1>4
<1> QED
  BY <1>5 DEF IsRun

-----------------------------------------------------------------------------
(***************************************************************************)
(* Positions in a text, and stretches of it.                               *)
(***************************************************************************)

\* Counting the members of a set of positions, one position at a time.
LEMMA UpToSteps ==
  ASSUME NEW n \in Nat, NEW S, S \subseteq 1..n
  PROVE  /\ IsFiniteSet(S) /\ Cardinality(S) \in Nat
         /\ UpTo(S, 0) = {} /\ UpTo(S, n) = S
         /\ \A i \in 0..n : IsFiniteSet(UpTo(S, i)) /\ Cardinality(UpTo(S, i)) \in Nat
         /\ \A i \in 1..n : Cardinality(UpTo(S, i)) =
              Cardinality(UpTo(S, i - 1)) + (IF i \in S THEN 1 ELSE 0)
<1>0. \A j \in S : j \in 1..n
  OBVIOUS
<1>1. IsFiniteSet(S) /\ Cardinality(S) \in Nat
  <2>1. IsFiniteSet(1..n)
    BY FS_Interval
  <2>2. S \in SUBSET (1..n)
    OBVIOUS
  <2> QED
    BY <2>1, <2>2, FS_Subset, FS_CardinalityType
<1>2. UpTo(S, 0) = {} /\ UpTo(S, n) = S
  <2>1. \A j \in S : ~(j <= 0) /\ j <= n
    BY <1>0
  <2> QED
    BY <2>1, Zenon DEF UpTo
<1>3. ASSUME NEW i \in 0..n
      PROVE  IsFiniteSet(UpTo(S, i)) /\ Cardinality(UpTo(S, i)) \in Nat
  <2>1. UpTo(S, i) \in SUBSET S
    BY DEF UpTo
  <2> QED
    BY <1>1, <2>1, FS_Subset, FS_CardinalityType
<1>4. ASSUME NEW i \in 1..n
      PROVE  Cardinality(UpTo(S, i)) =
               Cardinality(UpTo(S, i - 1)) + (IF i \in S THEN 1 ELSE 0)
  <2>1. i - 1 \in 0..n
    OBVIOUS
  <2>2. UpTo(S, i) = IF i \in S THEN UpTo(S, i - 1) \cup {i} ELSE UpTo(S, i - 1)
    <3>1. \A j \in S : j <= i <=> j <= i - 1 \/ j = i
      BY <1>0
    <3> QED
      BY <3>1 DEF UpTo
  <2>3. i \notin UpTo(S, i - 1)
    BY DEF UpTo
  <2>4. IsFiniteSet(UpTo(S, i - 1)) /\ Cardinality(UpTo(S, i - 1)) \in Nat
    BY <1>3, <2>1
  <2>5. Cardinality(UpTo(S, i - 1) \cup {i}) = Cardinality(UpTo(S, i - 1)) + 1
    BY <2>3, <2>4, FS_AddElement
  <2> QED
    BY <2>2, <2>4, <2>5
<1> QED
  BY <1>1, <1>2, <1>3, <1>4

\* Each count up to the last is reached.
LEMMA NthExists ==
  ASSUME NEW n \in Nat, NEW S, S \subseteq 1..n, NEW k \in 1..Cardinality(S)
  PROVE  \E i \in S : Cardinality(UpTo(S, i)) = k
<1> DEFINE T == {i \in 0..n : Cardinality(UpTo(S, i)) >= k}
<1>0. /\ Cardinality(S) \in Nat /\ UpTo(S, n) = S
      /\ \A i \in 0..n : Cardinality(UpTo(S, i)) \in Nat
      /\ \A i \in 1..n : Cardinality(UpTo(S, i)) =
           Cardinality(UpTo(S, i - 1)) + (IF i \in S THEN 1 ELSE 0)
  BY UpToSteps, Zenon
<1>1. n \in T
  BY <1>0
<1>2. PICK i \in T : \A j \in T : i <= j
  <2>1. T \subseteq Nat /\ T # {}
    BY <1>1
  <2> HIDE DEF T
  <2> QED
    BY <2>1, LeastNumber
<1>3. i # 0
  <2>1. Cardinality(UpTo(S, 0)) = 0
    BY UpToSteps, FS_EmptySet
  <2> QED
    BY <2>1
<1>4. i \in 1..n /\ i - 1 \in 0..n
  BY <1>3
<1>5. Cardinality(UpTo(S, i - 1)) < k
  <2>1. i - 1 \notin T
    BY <1>2, <1>4
  <2> QED
    BY <2>1, <1>4, <1>0
<1>6. Cardinality(UpTo(S, i)) = Cardinality(UpTo(S, i - 1)) + (IF i \in S THEN 1 ELSE 0)
  BY <1>0, <1>4
<1> QED
  BY <1>0, <1>4, <1>5, <1>6

\* A later member has a higher count.
LEMMA UpToGrows ==
  ASSUME NEW n \in Nat, NEW S, S \subseteq 1..n, NEW i \in S, NEW j \in S, i < j
  PROVE  /\ Cardinality(UpTo(S, i)) \in Nat /\ Cardinality(UpTo(S, j)) \in Nat
         /\ Cardinality(UpTo(S, i)) < Cardinality(UpTo(S, j))
<1>0. i \in 0..n /\ j \in 0..n /\ \A m \in S : m \in Int
  OBVIOUS
<1>1. UpTo(S, i) \in SUBSET UpTo(S, j) /\ j \in UpTo(S, j) /\ j \notin UpTo(S, i)
  <2>1. j <= j /\ ~(j <= i) /\ \A m \in S : m <= i => m <= j
    BY <1>0
  <2> QED
    BY <2>1, Zenon DEF UpTo
<1>2. /\ IsFiniteSet(UpTo(S, j))
      /\ Cardinality(UpTo(S, i)) \in Nat /\ Cardinality(UpTo(S, j)) \in Nat
  BY <1>0, UpToSteps
<1>3. UpTo(S, i) # UpTo(S, j)
  BY <1>1
<1> QED
  BY <1>1, <1>2, <1>3, FS_Subset

\* The k-th member is the one and only whose count is k.
LEMMA NthIs ==
  ASSUME NEW n \in Nat, NEW S, S \subseteq 1..n, NEW k \in 1..Cardinality(S)
  PROVE  /\ Nth(S, k) \in S
         /\ Cardinality(UpTo(S, Nth(S, k))) = k
         /\ \A i \in S : Cardinality(UpTo(S, i)) = k => i = Nth(S, k)
<1>1. Nth(S, k) \in S /\ Cardinality(UpTo(S, Nth(S, k))) = k
  BY NthExists DEF Nth
<1>2. ASSUME NEW i \in S, Cardinality(UpTo(S, i)) = k
      PROVE  i = Nth(S, k)
  <2> DEFINE m == Nth(S, k)
  <2>0. m \in S /\ Cardinality(UpTo(S, m)) = k
    BY <1>1
  <2> HIDE DEF m
  <2>1. ~(i < m) /\ ~(m < i)
    <3>1. \A a, b \in S : a < b => /\ Cardinality(UpTo(S, a)) \in Nat
                                   /\ Cardinality(UpTo(S, a)) < Cardinality(UpTo(S, b))
      BY UpToGrows
    <3> QED
      BY <1>2, <2>0, <3>1
  <2>2. i \in Int /\ m \in Int
    BY <2>0
  <2>3. i = m
    BY <2>1, <2>2
  <2> QED
    BY <2>3 DEF m
<1> QED
  BY <1>1, <1>2

\* The least of some numbers.
LEMMA MinIs ==
  ASSUME NEW S, S \subseteq Nat, S # {}
  PROVE  Min(S) \in S /\ \A m \in S : Min(S) <= m
<1>1. \E n \in S : \A m \in S : n <= m
  BY LeastNumber
<1> QED
  BY <1>1 DEF Min

\* It is the only one of them that is no greater than any.
LEMMA LeastIs ==
  ASSUME NEW S, S \subseteq Nat, NEW m \in S, \A n \in S : m <= n
  PROVE  Min(S) = m
<1>1. \E n \in S : \A k \in S : n <= k
  OBVIOUS
<1>2. Min(S) \in S /\ \A k \in S : Min(S) <= k
  BY <1>1 DEF Min
<1> DEFINE k == Min(S)
<1> HIDE DEF k
<1>3. k \in S /\ k <= m /\ m <= k
  BY <1>2 DEF k
<1>4. k = m
  <2>1. k \in Nat /\ m \in Nat
    BY <1>3
  <2> QED
    BY <1>3, <2>1
<1> QED
  BY <1>4 DEF k

\* A stretch of a text.
LEMMA SubSeqIs ==
  ASSUME NEW T, NEW text \in Seq(T), NEW i \in 1..(Len(text) + 1),
         NEW j \in Int, j <= Len(text), i <= j + 1
  PROVE  /\ SubSeq(text, i, j) \in Seq(T)
         /\ Len(SubSeq(text, i, j)) = j - i + 1
         /\ \A k \in 1..(j - i + 1) : SubSeq(text, i, j)[k] = text[i + k - 1]
<1>0. Len(text) \in Nat /\ i \in Int
  OBVIOUS
<1>1. \A k \in i..j : text[k] \in T
  BY <1>0, ElementOfSeq
<1>2. /\ SubSeq(text, i, j) \in Seq(T)
      /\ Len(SubSeq(text, i, j)) = IF i <= j THEN j - i + 1 ELSE 0
      /\ \A k \in 1..(j - i + 1) : SubSeq(text, i, j)[k] = text[i + k - 1]
  BY <1>0, <1>1, SubSeqProperties
<1> QED
  BY <1>0, <1>2

-----------------------------------------------------------------------------
(***************************************************************************)
(* Bits, bytes and characters.                                             *)
(***************************************************************************)

\* The powers that the two codes need.
LEMMA Powers ==
  /\ 2^0 = 1 /\ 2^1 = 2 /\ 2^2 = 4 /\ 2^3 = 8 /\ 2^4 = 16 /\ 2^5 = 32 /\ 2^6 = 64 /\ 2^7 = 128
  /\ 2^8 = 256 /\ 2^16 = 65536 /\ 64^0 = 1 /\ 64^1 = 64 /\ 64^2 = 4096 /\ 64^3 = 262144
  BY SMT

\* The bits of a byte.
LEMMA EightBits ==
  ASSUME NEW x \in Byte
  PROVE  /\ BitOf(x, 8, 0) = (x \div 128) % 2
         /\ BitOf(x, 8, 1) = (x \div 64) % 2
         /\ BitOf(x, 8, 2) = (x \div 32) % 2
         /\ BitOf(x, 8, 3) = (x \div 16) % 2
         /\ BitOf(x, 8, 4) = (x \div 8) % 2
         /\ BitOf(x, 8, 5) = (x \div 4) % 2
         /\ BitOf(x, 8, 6) = (x \div 2) % 2
         /\ BitOf(x, 8, 7) = x % 2
         /\ \A n \in 0..7 : BitOf(x, 8, n) \in 0..1
<1> USE DEF Byte
<1>1. /\ 8 - 1 - 0 = 7 /\ 8 - 1 - 1 = 6 /\ 8 - 1 - 2 = 5 /\ 8 - 1 - 3 = 4
      /\ 8 - 1 - 4 = 3 /\ 8 - 1 - 5 = 2 /\ 8 - 1 - 6 = 1 /\ 8 - 1 - 7 = 0 /\ x \div 1 = x
  OBVIOUS
<1>2. /\ BitOf(x, 8, 0) = (x \div 128) % 2
      /\ BitOf(x, 8, 1) = (x \div 64) % 2
      /\ BitOf(x, 8, 2) = (x \div 32) % 2
      /\ BitOf(x, 8, 3) = (x \div 16) % 2
      /\ BitOf(x, 8, 4) = (x \div 8) % 2
      /\ BitOf(x, 8, 5) = (x \div 4) % 2
      /\ BitOf(x, 8, 6) = (x \div 2) % 2
      /\ BitOf(x, 8, 7) = x % 2
  BY <1>1, Powers DEF BitOf
<1>3. ASSUME NEW n \in 0..7
      PROVE  BitOf(x, 8, n) \in 0..1
  <2>1. n = 0 \/ n = 1 \/ n = 2 \/ n = 3 \/ n = 4 \/ n = 5 \/ n = 6 \/ n = 7
    OBVIOUS
  <2> QED
    BY <1>2, <2>1
<1> QED
  BY <1>2, <1>3

\* Six bits make a character, and are the bits of it.
LEMMA SixBits ==
  ASSUME NEW a \in 0..1, NEW b \in 0..1, NEW c \in 0..1,
         NEW d \in 0..1, NEW e \in 0..1, NEW f \in 0..1,
         NEW x, x = 32 * a + 16 * b + 8 * c + 4 * d + 2 * e + f
  PROVE  /\ x \in 0..63
         /\ BitOf(x, 6, 0) = a /\ BitOf(x, 6, 1) = b /\ BitOf(x, 6, 2) = c
         /\ BitOf(x, 6, 3) = d /\ BitOf(x, 6, 4) = e /\ BitOf(x, 6, 5) = f
<1>1. /\ 6 - 1 - 0 = 5 /\ 6 - 1 - 1 = 4 /\ 6 - 1 - 2 = 3 /\ 6 - 1 - 3 = 2
      /\ 6 - 1 - 4 = 1 /\ 6 - 1 - 5 = 0 /\ x \in 0..63 /\ x \div 1 = x
  OBVIOUS
<1>2. /\ (x \div 32) % 2 = a /\ (x \div 16) % 2 = b /\ (x \div 8) % 2 = c
      /\ (x \div 4) % 2 = d /\ (x \div 2) % 2 = e /\ x % 2 = f
  OBVIOUS
<1> QED
  BY <1>1, <1>2, Powers DEF BitOf

\* A byte is the sum of its bits.
LEMMA SumOfEight ==
  ASSUME NEW x \in Byte
  PROVE  x = 128 * BitOf(x, 8, 0) + 64 * BitOf(x, 8, 1) + 32 * BitOf(x, 8, 2)
             + 16 * BitOf(x, 8, 3) + 8 * BitOf(x, 8, 4) + 4 * BitOf(x, 8, 5)
             + 2 * BitOf(x, 8, 6) + BitOf(x, 8, 7)
<1> USE DEF Byte
<1>1. x = 128 * ((x \div 128) % 2) + 64 * ((x \div 64) % 2)
          + 32 * ((x \div 32) % 2) + 16 * ((x \div 16) % 2)
          + 8 * ((x \div 8) % 2) + 4 * ((x \div 4) % 2) + 2 * ((x \div 2) % 2) + (x % 2)
  OBVIOUS
<1> QED
  BY <1>1, EightBits

\* What six, four or two of its bits make, from either end.
LEMMA ByteParts ==
  ASSUME NEW x \in Byte
  PROVE  /\ x \div 4 = 32 * BitOf(x, 8, 0) + 16 * BitOf(x, 8, 1) + 8 * BitOf(x, 8, 2)
              + 4 * BitOf(x, 8, 3) + 2 * BitOf(x, 8, 4) + BitOf(x, 8, 5)
         /\ x % 4 = 2 * BitOf(x, 8, 6) + BitOf(x, 8, 7)
         /\ x \div 16 = 8 * BitOf(x, 8, 0) + 4 * BitOf(x, 8, 1) + 2 * BitOf(x, 8, 2)
              + BitOf(x, 8, 3)
         /\ x % 16 = 8 * BitOf(x, 8, 4) + 4 * BitOf(x, 8, 5) + 2 * BitOf(x, 8, 6)
              + BitOf(x, 8, 7)
         /\ x \div 64 = 2 * BitOf(x, 8, 0) + BitOf(x, 8, 1)
         /\ x % 64 = 32 * BitOf(x, 8, 2) + 16 * BitOf(x, 8, 3) + 8 * BitOf(x, 8, 4)
              + 4 * BitOf(x, 8, 5) + 2 * BitOf(x, 8, 6) + BitOf(x, 8, 7)
<1> USE DEF Byte
<1>1. x \div 4 = 32 * ((x \div 128) % 2) + 16 * ((x \div 64) % 2) + 8 * ((x \div 32) % 2)
             + 4 * ((x \div 16) % 2) + 2 * ((x \div 8) % 2) + ((x \div 4) % 2)
  OBVIOUS
<1>2. x % 4 = 2 * ((x \div 2) % 2) + (x % 2)
  OBVIOUS
<1>3. x \div 16 = 8 * ((x \div 128) % 2) + 4 * ((x \div 64) % 2) + 2 * ((x \div 32) % 2)
             + ((x \div 16) % 2)
  OBVIOUS
<1>4. x % 16 = 8 * ((x \div 8) % 2) + 4 * ((x \div 4) % 2) + 2 * ((x \div 2) % 2)
             + (x % 2)
  OBVIOUS
<1>5. x \div 64 = 2 * ((x \div 128) % 2) + ((x \div 64) % 2)
  OBVIOUS
<1>6. x % 64 = 32 * ((x \div 32) % 2) + 16 * ((x \div 16) % 2) + 8 * ((x \div 8) % 2)
             + 4 * ((x \div 4) % 2) + 2 * ((x \div 2) % 2) + (x % 2)
  OBVIOUS
<1> QED
  BY <1>1, <1>2, <1>3, <1>4, <1>5, <1>6, EightBits

\* Three bytes as a number.
Word(a, b, c) == a * 2^16 + b * 2^8 + c

\* Digit n of a number in base 64, from the lowest.
Digit(w, n) == (w \div 64^n) % 64

\* The four digits of three bytes.
LEMMA FourDigits ==
  ASSUME NEW a \in Byte, NEW b \in Byte, NEW c \in Byte
  PROVE  /\ Digit(Word(a, b, c), 3) = a \div 4
         /\ Digit(Word(a, b, c), 2) = 16 * (a % 4) + (b \div 16)
         /\ Digit(Word(a, b, c), 1) = 4 * (b % 16) + (c \div 64)
         /\ Digit(Word(a, b, c), 0) = c % 64
<1> USE DEF Byte
<1> DEFINE w == Word(a, b, c)
<1>1. w = a * 65536 + b * 256 + c
  BY Powers DEF Word
<1> HIDE DEF w
<1>2. (w \div 262144) % 64 = a \div 4
  BY <1>1
<1>3. (w \div 4096) % 64 = 16 * (a % 4) + (b \div 16)
  <2>1. w \div 4096 = 16 * a + (b \div 16)
    BY <1>1
  <2>2. /\ b \div 16 \in 0..15 /\ a \div 4 \in 0..63 /\ a % 4 \in 0..3
        /\ a = 4 * (a \div 4) + (a % 4)
    OBVIOUS
  <2> QED
    BY <2>1, <2>2
<1>4. (w \div 64) % 64 = 4 * (b % 16) + (c \div 64)
  BY <1>1
<1>5. w % 64 = c % 64 /\ w \div 1 = w
  BY <1>1
<1> QED
  BY <1>2, <1>3, <1>4, <1>5, Powers DEF w, Digit

-----------------------------------------------------------------------------
\* The bits of some bytes, in the order that the encoder reads them.
Stream(bytes) ==
  [n \in Nat |-> IF n < 8 * Len(bytes) THEN BitOf(bytes[n \div 8 + 1], 8, n % 8) ELSE 0]

\* It is of bits, those of the bytes and then zeros.
LEMMA StreamType ==
  ASSUME NEW bytes \in Seq(Byte)
  PROVE  /\ Stream(bytes) \in [Nat -> 0..1]
         /\ \A n \in Nat : n >= 8 * Len(bytes) => Stream(bytes)[n] = 0
         /\ \A n \in Nat : n < 8 * Len(bytes) =>
              Stream(bytes)[n] = BitOf(bytes[n \div 8 + 1], 8, n % 8)
<1>1. Len(bytes) \in Nat /\ \A i \in 1..Len(bytes) : bytes[i] \in Byte
  BY LenProperties, ElementOfSeq
<1>2. ASSUME NEW n \in Nat, n < 8 * Len(bytes)
      PROVE  BitOf(bytes[n \div 8 + 1], 8, n % 8) \in 0..1
  <2>1. n \div 8 + 1 \in 1..Len(bytes) /\ n % 8 \in 0..7
    BY <1>1, <1>2
  <2> DEFINE x == bytes[n \div 8 + 1]
             i == n % 8
  <2>2. x \in Byte /\ i \in 0..7
    BY <1>1, <2>1
  <2> HIDE DEF x, i
  <2>3. BitOf(x, 8, i) \in 0..1
    BY <2>2, EightBits
  <2> QED
    BY <2>3 DEF x, i
<1>3. \A n \in Nat : n >= 8 * Len(bytes) => ~(n < 8 * Len(bytes))
  BY <1>1
<1>4. 0 \in 0..1
  OBVIOUS
<1> QED
  BY <1>2, <1>3, <1>4, Zenon DEF Stream

\* What six bits make.
Six(s, i) == 32 * s[i] + 16 * s[i + 1] + 8 * s[i + 2] + 4 * s[i + 3] + 2 * s[i + 4] + s[i + 5]

\* The first c of six bits.
PartOfSix(s, i, c) ==
  (IF c > 0 THEN 32 * s[i] ELSE 0) + (IF c > 1 THEN 16 * s[i + 1] ELSE 0)
  + (IF c > 2 THEN 8 * s[i + 2] ELSE 0) + (IF c > 3 THEN 4 * s[i + 3] ELSE 0)
  + (IF c > 4 THEN 2 * s[i + 4] ELSE 0) + (IF c > 5 THEN s[i + 5] ELSE 0)

\* One more bit of a character.
LEMMA PartsOfSix ==
  ASSUME NEW s \in [Nat -> 0..1], NEW i \in Nat
  PROVE  /\ PartOfSix(s, i, 0) = 0 /\ PartOfSix(s, i, 6) = Six(s, i)
         /\ \A c \in 0..6 : PartOfSix(s, i, c) \in Nat
         /\ \A c \in 0..5 : PartOfSix(s, i, c + 1) = PartOfSix(s, i, c) + s[i + c] * 2^(5 - c)
<1>1. /\ s[i] \in 0..1 /\ s[i + 1] \in 0..1 /\ s[i + 2] \in 0..1
      /\ s[i + 3] \in 0..1 /\ s[i + 4] \in 0..1 /\ s[i + 5] \in 0..1
  OBVIOUS
<1>2. PartOfSix(s, i, 0) = 0 /\ PartOfSix(s, i, 6) = Six(s, i)
  BY <1>1 DEF PartOfSix, Six
<1>3. \A c \in 0..6 : PartOfSix(s, i, c) \in Nat
  BY <1>1 DEF PartOfSix
<1>4. ASSUME NEW c \in 0..5
      PROVE  PartOfSix(s, i, c + 1) = PartOfSix(s, i, c) + s[i + c] * 2^(5 - c)
  <2>1. /\ PartOfSix(s, i, 1) = PartOfSix(s, i, 0) + 32 * s[i]
        /\ PartOfSix(s, i, 2) = PartOfSix(s, i, 1) + 16 * s[i + 1]
        /\ PartOfSix(s, i, 3) = PartOfSix(s, i, 2) + 8 * s[i + 2]
        /\ PartOfSix(s, i, 4) = PartOfSix(s, i, 3) + 4 * s[i + 3]
        /\ PartOfSix(s, i, 5) = PartOfSix(s, i, 4) + 2 * s[i + 4]
        /\ PartOfSix(s, i, 6) = PartOfSix(s, i, 5) + s[i + 5]
    BY <1>1 DEF PartOfSix
  <2>2. CASE c = 0
    <3>1. c + 1 = 1 /\ 5 - c = 5 /\ i + c = i
      BY <2>2
    <3> QED
      BY <2>1, <2>2, <3>1, <1>1, Powers
  <2>3. CASE c = 1
    <3>1. c + 1 = 2 /\ 5 - c = 4 /\ i + c = i + 1
      BY <2>3
    <3> QED
      BY <2>1, <2>3, <3>1, <1>1, Powers
  <2>4. CASE c = 2
    <3>1. c + 1 = 3 /\ 5 - c = 3 /\ i + c = i + 2
      BY <2>4
    <3> QED
      BY <2>1, <2>4, <3>1, <1>1, Powers
  <2>5. CASE c = 3
    <3>1. c + 1 = 4 /\ 5 - c = 2 /\ i + c = i + 3
      BY <2>5
    <3> QED
      BY <2>1, <2>5, <3>1, <1>1, Powers
  <2>6. CASE c = 4
    <3>1. c + 1 = 5 /\ 5 - c = 1 /\ i + c = i + 4
      BY <2>6
    <3> QED
      BY <2>1, <2>6, <3>1, <1>1, Powers
  <2>7. CASE c = 5
    <3>1. c + 1 = 6 /\ 5 - c = 0 /\ i + c = i + 5
      BY <2>7
    <3> QED
      BY <2>1, <2>7, <3>1, <1>1, Powers
  <2> QED
    BY <2>2, <2>3, <2>4, <2>5, <2>6, <2>7
<1> QED
  BY <1>2, <1>3, <1>4

\* What eight bits make.
Eight(s, i) ==
  128 * s[i] + 64 * s[i + 1] + 32 * s[i + 2] + 16 * s[i + 3]
  + 8 * s[i + 4] + 4 * s[i + 5] + 2 * s[i + 6] + s[i + 7]

\* The first c of eight bits.
PartOfEight(s, i, c) ==
  (IF c > 0 THEN 128 * s[i] ELSE 0) + (IF c > 1 THEN 64 * s[i + 1] ELSE 0)
  + (IF c > 2 THEN 32 * s[i + 2] ELSE 0) + (IF c > 3 THEN 16 * s[i + 3] ELSE 0)
  + (IF c > 4 THEN 8 * s[i + 4] ELSE 0) + (IF c > 5 THEN 4 * s[i + 5] ELSE 0)
  + (IF c > 6 THEN 2 * s[i + 6] ELSE 0)

\* One more bit of a byte.
LEMMA PartsOfEight ==
  ASSUME NEW s \in [Nat -> 0..1], NEW i \in Nat
  PROVE  /\ PartOfEight(s, i, 0) = 0
         /\ PartOfEight(s, i, 7) + s[i + 7] * 2^0 = Eight(s, i)
         /\ \A c \in 0..7 : PartOfEight(s, i, c) \in Nat
         /\ \A c \in 0..6 : PartOfEight(s, i, c + 1) = PartOfEight(s, i, c) + s[i + c] * 2^(7 - c)
<1>1. /\ s[i] \in 0..1 /\ s[i + 1] \in 0..1 /\ s[i + 2] \in 0..1 /\ s[i + 3] \in 0..1
      /\ s[i + 4] \in 0..1 /\ s[i + 5] \in 0..1 /\ s[i + 6] \in 0..1 /\ s[i + 7] \in 0..1
  OBVIOUS
<1>2. /\ PartOfEight(s, i, 0) = 0
      /\ PartOfEight(s, i, 7) + s[i + 7] * 2^0 = Eight(s, i)
  BY <1>1, Powers DEF PartOfEight, Eight
<1>3. \A c \in 0..7 : PartOfEight(s, i, c) \in Nat
  BY <1>1 DEF PartOfEight
<1>4. ASSUME NEW c \in 0..6
      PROVE  PartOfEight(s, i, c + 1) = PartOfEight(s, i, c) + s[i + c] * 2^(7 - c)
  <2>1. /\ PartOfEight(s, i, 1) = PartOfEight(s, i, 0) + 128 * s[i]
        /\ PartOfEight(s, i, 2) = PartOfEight(s, i, 1) + 64 * s[i + 1]
        /\ PartOfEight(s, i, 3) = PartOfEight(s, i, 2) + 32 * s[i + 2]
        /\ PartOfEight(s, i, 4) = PartOfEight(s, i, 3) + 16 * s[i + 3]
        /\ PartOfEight(s, i, 5) = PartOfEight(s, i, 4) + 8 * s[i + 4]
        /\ PartOfEight(s, i, 6) = PartOfEight(s, i, 5) + 4 * s[i + 5]
        /\ PartOfEight(s, i, 7) = PartOfEight(s, i, 6) + 2 * s[i + 6]
    BY <1>1 DEF PartOfEight
  <2>2. CASE c = 0
    <3>1. c + 1 = 1 /\ 7 - c = 7 /\ i + c = i
      BY <2>2
    <3> QED
      BY <2>1, <2>2, <3>1, <1>1, Powers
  <2>3. CASE c = 1
    <3>1. c + 1 = 2 /\ 7 - c = 6 /\ i + c = i + 1
      BY <2>3
    <3> QED
      BY <2>1, <2>3, <3>1, <1>1, Powers
  <2>4. CASE c = 2
    <3>1. c + 1 = 3 /\ 7 - c = 5 /\ i + c = i + 2
      BY <2>4
    <3> QED
      BY <2>1, <2>4, <3>1, <1>1, Powers
  <2>5. CASE c = 3
    <3>1. c + 1 = 4 /\ 7 - c = 4 /\ i + c = i + 3
      BY <2>5
    <3> QED
      BY <2>1, <2>5, <3>1, <1>1, Powers
  <2>6. CASE c = 4
    <3>1. c + 1 = 5 /\ 7 - c = 3 /\ i + c = i + 4
      BY <2>6
    <3> QED
      BY <2>1, <2>6, <3>1, <1>1, Powers
  <2>7. CASE c = 5
    <3>1. c + 1 = 6 /\ 7 - c = 2 /\ i + c = i + 5
      BY <2>7
    <3> QED
      BY <2>1, <2>7, <3>1, <1>1, Powers
  <2>8. CASE c = 6
    <3>1. c + 1 = 7 /\ 7 - c = 1 /\ i + c = i + 6
      BY <2>8
    <3> QED
      BY <2>1, <2>8, <3>1, <1>1, Powers
  <2> QED
    BY <2>2, <2>3, <2>4, <2>5, <2>6, <2>7, <2>8
<1> QED
  BY <1>2, <1>3, <1>4

-----------------------------------------------------------------------------
(***************************************************************************)
(* base64_encode.                                                          *)
(***************************************************************************)

\* The states of the encoder: characters, the one begun, and how many bits it has.
EncodeState == [out : Seq(Nat), index : Nat, count : 0..6]

\* The bit that a pass of the encoder reads.
LEMMA StreamAt ==
  ASSUME NEW bytes \in Seq(Byte), NEW k \in 1..(8 * Len(bytes))
  PROVE  /\ k - 1 \in Nat /\ Stream(bytes)[k - 1] \in 0..1
         /\ BitOf(bytes[(k - 1) \div 8 + 1], 8, (k - 1) % 8) = Stream(bytes)[k - 1]
<1>1. Len(bytes) \in Nat
  BY LenProperties
<1>2. k - 1 \in Nat /\ k - 1 < 8 * Len(bytes)
  BY <1>1
<1> QED
  BY <1>2, StreamType

\* A bit at its place is a number.
LEMMA PowerType ==
  ASSUME NEW bit \in 0..1, NEW c \in 0..7
  PROVE  bit * 2^c \in Nat
<1> DEFINE p == 2^c
<1>1. p \in Nat
  <2>1. c = 0 \/ c = 1 \/ c = 2 \/ c = 3 \/ c = 4 \/ c = 5 \/ c = 6 \/ c = 7
    OBVIOUS
  <2>2. /\ 2^0 \in Nat /\ 2^1 \in Nat /\ 2^2 \in Nat /\ 2^3 \in Nat
        /\ 2^4 \in Nat /\ 2^5 \in Nat /\ 2^6 \in Nat /\ 2^7 \in Nat
    BY Powers
  <2> QED
    BY <2>1, <2>2, Zenon
<1> HIDE DEF p
<1>2. bit * p \in Nat
  BY <1>1
<1> QED
  BY <1>2 DEF p

\* A pass leads from states to states.
LEMMA EncodeType ==
  ASSUME NEW bytes \in Seq(Byte), NEW k \in 1..(8 * Len(bytes)), NEW st \in EncodeState
  PROVE  EncodeBit(bytes, st, k) \in EncodeState
<1> DEFINE bit == BitOf(bytes[(k - 1) \div 8 + 1], 8, (k - 1) % 8)
           c == IF st.count = 6 THEN 0 ELSE st.count
           index == IF st.count = 6 THEN 0 ELSE st.index
           out == IF st.count = 6 THEN Append(st.out, st.index) ELSE st.out
<1>1. /\ st.count \in 0..6 /\ st.index \in Nat /\ st.out \in Seq(Nat)
      /\ bit \in 0..1
  BY StreamAt DEF EncodeState
<1>2. c \in 0..5 /\ c + 1 \in 0..6 /\ index \in Nat
  BY <1>1
<1>3. out \in Seq(Nat)
  BY <1>1, AppendProperties
<1>4. EncodeBit(bytes, st, k) =
        [out |-> out, index |-> index + bit * 2^(5 - c), count |-> c + 1]
  BY DEF EncodeBit
<1> HIDE DEF bit, c, index, out
<1>5. index + bit * 2^(5 - c) \in Nat
  <2> DEFINE d == 5 - c
  <2>1. d \in 0..7
    BY <1>2
  <2> HIDE DEF d
  <2>2. bit * 2^d \in Nat
    BY <1>1, <2>1, PowerType
  <2>3. index + bit * 2^d \in Nat
    BY <1>2, <2>2
  <2> QED
    BY <2>3 DEF d
<1> QED
  BY <1>2, <1>3, <1>4, <1>5 DEF EncodeState

\* After k bits: the digits that are complete, and the part of the next.
EncodeInv(s, st, k) ==
  /\ k = 6 * Len(st.out) + st.count
  /\ st.count = 0 => k = 0
  /\ st.index = PartOfSix(s, 6 * Len(st.out), st.count)
  /\ \A j \in 1..Len(st.out) : st.out[j] = Six(s, 6 * (j - 1))

\* A pass of the encoder keeps that.
LEMMA EncodeStep ==
  ASSUME NEW bytes \in Seq(Byte), NEW s, s = Stream(bytes), NEW k \in 1..(8 * Len(bytes)),
         NEW st \in EncodeState, EncodeInv(s, st, k - 1)
  PROVE  EncodeInv(s, EncodeBit(bytes, st, k), k)
<1> DEFINE new == EncodeBit(bytes, st, k)
           bit == s[k - 1]
           n == Len(st.out)
           c == IF st.count = 6 THEN 0 ELSE st.count
           m == IF st.count = 6 THEN n + 1 ELSE n
           index == IF st.count = 6 THEN 0 ELSE st.index
           out == IF st.count = 6 THEN Append(st.out, st.index) ELSE st.out
           i == 6 * m
<1>1. /\ s \in [Nat -> 0..1] /\ k - 1 \in Nat /\ bit \in 0..1
      /\ BitOf(bytes[(k - 1) \div 8 + 1], 8, (k - 1) % 8) = bit
  BY StreamAt, StreamType
<1>2. /\ st.out \in Seq(Nat) /\ st.index \in Nat /\ st.count \in 0..6
      /\ k - 1 = 6 * n + st.count
      /\ st.index = PartOfSix(s, 6 * n, st.count)
      /\ \A j \in 1..n : st.out[j] = Six(s, 6 * (j - 1))
  BY DEF EncodeState, EncodeInv
<1>3. n \in Nat
  BY <1>2, LenProperties
<1>4. new = [out |-> out, index |-> index + bit * 2^(5 - c), count |-> c + 1]
  BY <1>1 DEF EncodeBit
<1>5. new.out = out /\ new.index = index + bit * 2^(5 - c) /\ new.count = c + 1
  BY <1>4
<1>6. c \in 0..5 /\ i \in Nat /\ k - 1 = i + c
  BY <1>2, <1>3
<1>7. index = PartOfSix(s, i, c)
  <2>1. CASE st.count = 6
    BY <1>1, <1>6, <2>1, PartsOfSix
  <2>2. CASE st.count # 6
    BY <1>2, <2>2
  <2> QED
    BY <2>1, <2>2
<1>8. Len(out) = m /\ \A j \in 1..m : out[j] = Six(s, 6 * (j - 1))
  <2>1. CASE st.count = 6
    <3>1. /\ Len(out) = n + 1 /\ out[n + 1] = st.index
          /\ \A j \in 1..n : out[j] = st.out[j]
      BY <1>2, <2>1, AppendProperties
    <3>2. st.index = Six(s, 6 * n)
      <4>1. 6 * n \in Nat
        BY <1>3
      <4> QED
        BY <1>1, <1>2, <2>1, <4>1, PartsOfSix
    <3> HIDE DEF n, out
    <3>3. ASSUME NEW j \in 1..(n + 1)
          PROVE  out[j] = Six(s, 6 * (j - 1))
      <4>1. CASE j = n + 1
        <5>1. j - 1 = n
          BY <1>3, <4>1
        <5> QED
          BY <3>1, <3>2, <4>1, <5>1
      <4>2. CASE j # n + 1
        <5>1. j \in 1..n
          BY <1>3, <4>2
        <5> QED
          BY <1>2, <3>1, <5>1
      <4> QED
        BY <4>1, <4>2
    <3> QED
      BY <2>1, <3>1, <3>3
  <2>2. CASE st.count # 6
    BY <1>2, <2>2
  <2> QED
    BY <2>1, <2>2
<1> HIDE DEF c, i, index, out, bit, new
<1>9. PartOfSix(s, i, c + 1) = index + bit * 2^(5 - c)
  <2>1. bit = s[i + c]
    BY <1>6 DEF bit
  <2>2. PartOfSix(s, i, c + 1) = PartOfSix(s, i, c) + s[i + c] * 2^(5 - c)
    BY <1>1, <1>6, PartsOfSix
  <2> QED
    BY <1>7, <2>1, <2>2
<1>10. k = i + (c + 1) /\ c + 1 # 0
  BY <1>6
<1> HIDE DEF m
<1>11. EncodeInv(s, new, k)
  BY <1>5, <1>8, <1>9, <1>10 DEF EncodeInv, i
<1> QED
  BY <1>11 DEF new

\* So the encoder passes through states,
LEMMA EncodingRuns ==
  ASSUME NEW bytes \in Seq(Byte), NEW n \in Nat, n = 8 * Len(bytes),
         NEW S, S = Encoding(bytes)
  PROVE  /\ S \in [0..n -> EncodeState]
         /\ S[0] = [out |-> <<>>, index |-> 0, count |-> 0]
         /\ \A k \in 1..n : S[k] = EncodeBit(bytes, S[k - 1], k)
<1> DEFINE start == [out |-> <<>>, index |-> 0, count |-> 0]
           F == [p \in EncodeState \X (1..n) |-> EncodeBit(bytes, p[1], p[2])]
<1>1. start \in EncodeState
  BY DEF EncodeState
<1>2. \A st \in EncodeState, k \in 1..n : EncodeBit(bytes, st, k) \in EncodeState
  BY EncodeType
<1>3. F \in [EncodeState \X (1..n) -> EncodeState]
  BY <1>2
<1>4. \A st \in EncodeState, k \in 1..n : F[<<st, k>>] = EncodeBit(bytes, st, k)
  OBVIOUS
<1> HIDE DEF F, start
<1>5. PICK g \in [0..n -> EncodeState] : IsRun(g, F, start, n)
  BY <1>1, <1>3, LoopRuns, Zenon
<1>6. g[0] = start /\ \A k \in 1..n : g[k] = F[<<g[k - 1], k>>]
  BY <1>5 DEF IsRun
<1>7. ASSUME NEW k \in 1..n
      PROVE  g[k] = EncodeBit(bytes, g[k - 1], k)
  <2>1. g[k - 1] \in EncodeState
    BY <1>5
  <2> QED
    BY <1>4, <1>6, <2>1, Zenon
<1>8. g = [k \in 0..n |-> IF k = 0 THEN start ELSE EncodeBit(bytes, g[k - 1], k)]
  BY <1>5, <1>6, <1>7
<1>9. S = [k \in 0..n |-> IF k = 0 THEN start ELSE EncodeBit(bytes, S[k - 1], k)]
  BY <1>8 DEF Encoding, start
<1>10. S[0] = start /\ \A k \in 1..n : S[k] = EncodeBit(bytes, S[k - 1], k)
  BY <1>9
<1>11. \A k \in 0..n : S[k] \in EncodeState
  <2> DEFINE T == {k \in Nat : S[k] \in EncodeState}
  <2>1. 0 \in T
    BY <1>1, <1>10
  <2>2. \A k \in 1..n : k - 1 \in T => k \in T
    BY <1>2, <1>10
  <2> HIDE DEF T
  <2>3. \A k \in 0..n : k \in T
    BY <2>1, <2>2, Induction
  <2> QED
    BY <2>3 DEF T
<1>12. S \in [0..n -> EncodeState]
  BY <1>9, <1>11
<1> QED
  BY <1>10, <1>12 DEF start

\* and has all bits in its characters at the end.
LEMMA EncodingEnds ==
  ASSUME NEW bytes \in Seq(Byte), NEW n \in Nat, n = 8 * Len(bytes),
         NEW end, end = Encoding(bytes)[n], NEW s, s = Stream(bytes)
  PROVE  end \in EncodeState /\ EncodeInv(s, end, n)
<1>1. PICK S : S = Encoding(bytes)
  OBVIOUS
<1>2. /\ S \in [0..n -> EncodeState]
      /\ S[0] = [out |-> <<>>, index |-> 0, count |-> 0]
      /\ \A k \in 1..n : S[k] = EncodeBit(bytes, S[k - 1], k)
  BY <1>1, EncodingRuns
<1> DEFINE T == {k \in 0..n : EncodeInv(s, S[k], k)}
<1>3. 0 \in T
  <2>1. PartOfSix(s, 0, 0) = 0
    BY DEF PartOfSix
  <2> QED
    BY <1>2, <2>1 DEF EncodeInv
<1>4. ASSUME NEW k \in 1..n, k - 1 \in T
      PROVE  k \in T
  <2>1. S[k - 1] \in EncodeState /\ EncodeInv(s, S[k - 1], k - 1)
    BY <1>2, <1>4
  <2>2. EncodeInv(s, EncodeBit(bytes, S[k - 1], k), k)
    BY <2>1, EncodeStep
  <2> QED
    BY <1>2, <2>2
<1>5. n \in T
  <2> HIDE DEF T
  <2>1. \A k \in 0..n : k \in T
    BY <1>3, <1>4, Induction
  <2> QED
    BY <2>1
<1> QED
  BY <1>1, <1>2, <1>5

\* How many characters n bytes take, without and with the padding.
LEMMA DigitsOf ==
  ASSUME NEW N \in Nat
  PROVE  /\ (4 * N + 2) \div 3 \in Nat
         /\ 6 * ((4 * N + 2) \div 3) >= 8 * N /\ 6 * ((4 * N + 2) \div 3) < 8 * N + 6
         /\ (4 * N + 2) \div 3 + (3 - ((((4 * N + 2) \div 3) + 3) % 4)) = 4 * ((N + 2) \div 3)
         /\ 3 - ((((4 * N + 2) \div 3) + 3) % 4) \in 0..3
         /\ \A g \in Nat, d \in 0..3 : g < (N + 2) \div 3 =>
              (3 * g + d > N <=> 4 * g + d + 1 > (4 * N + 2) \div 3)
<1> DEFINE h == N \div 3
           r == N % 3
<1>1. h \in Nat /\ r \in 0..2 /\ N = 3 * h + r
  OBVIOUS
<1> HIDE DEF h, r
<1>2. (4 * N + 2) \div 3 = 4 * h + (IF r = 0 THEN 0 ELSE r + 1)
  BY <1>1
<1>3. (N + 2) \div 3 = h + (IF r = 0 THEN 0 ELSE 1)
  BY <1>1
<1>4. (((4 * N + 2) \div 3) + 3) % 4 = IF r = 0 THEN 3 ELSE r
  BY <1>1, <1>2
<1>5. \A g \in Nat, d \in 0..3 : g < (N + 2) \div 3 =>
              (3 * g + d > N <=> 4 * g + d + 1 > (4 * N + 2) \div 3)
  BY <1>1, <1>2, <1>3
<1>6. /\ (4 * N + 2) \div 3 \in Nat
      /\ 6 * ((4 * N + 2) \div 3) >= 8 * N /\ 6 * ((4 * N + 2) \div 3) < 8 * N + 6
  BY <1>1, <1>2
<1>7. (4 * N + 2) \div 3 + (3 - ((((4 * N + 2) \div 3) + 3) % 4)) = 4 * ((N + 2) \div 3)
  BY <1>1, <1>2, <1>3, <1>4
<1>8. 3 - ((((4 * N + 2) \div 3) + 3) % 4) \in 0..3
  BY <1>1, <1>4
<1> QED
  BY <1>5, <1>6, <1>7, <1>8

\* A character that lacks only zeros is complete.
LEMMA PartAtEnd ==
  ASSUME NEW s \in [Nat -> 0..1], NEW i \in Nat, NEW c \in 1..6,
         \A n \in Nat : n >= i + c => s[n] = 0
  PROVE  PartOfSix(s, i, c) = Six(s, i)
<1>1. /\ s[i] \in 0..1 /\ s[i + 1] \in 0..1 /\ s[i + 2] \in 0..1
      /\ s[i + 3] \in 0..1 /\ s[i + 4] \in 0..1 /\ s[i + 5] \in 0..1
  OBVIOUS
<1>2. /\ c <= 1 => s[i + 1] = 0
      /\ c <= 2 => s[i + 2] = 0
      /\ c <= 3 => s[i + 3] = 0
      /\ c <= 4 => s[i + 4] = 0
      /\ c <= 5 => s[i + 5] = 0
  OBVIOUS
<1> QED
  BY <1>1, <1>2 DEF PartOfSix, Six

\* The character that is not yet complete is the last.
LEMMA LastDigit ==
  ASSUME NEW N \in Nat, NEW m \in Nat, NEW c \in 1..6, 6 * m + c = 8 * N
  PROVE  m + 1 = (4 * N + 2) \div 3
  OBVIOUS

\* The characters before the padding.
DataChars(bytes) ==
  LET end == Encoding(bytes)[8 * Len(bytes)]
  IN IF end.count = 0 THEN end.out ELSE Append(end.out, end.index)

\* They are the bits of the bytes, six in each, the last filled up with zeros.
LEMMA CharsAre ==
  ASSUME NEW bytes \in Seq(Byte), NEW s, s = Stream(bytes),
         NEW chars, chars = DataChars(bytes)
  PROVE  /\ chars \in Seq(Nat) /\ Len(chars) = (4 * Len(bytes) + 2) \div 3
         /\ \A j \in 1..Len(chars) : chars[j] = Six(s, 6 * (j - 1))
<1> DEFINE N == Len(bytes)
           n == 8 * N
           end == Encoding(bytes)[n]
           m == Len(end.out)
<1>0. N \in Nat /\ n \in Nat /\ n = 8 * N
  BY LenProperties
<1>1. end \in EncodeState /\ EncodeInv(s, end, n) /\ N \in Nat
  <2>1. end = Encoding(bytes)[n]
    OBVIOUS
  <2> HIDE DEF end, n
  <2> QED
    BY <1>0, <2>1, EncodingEnds
<1>6. chars = IF end.count = 0 THEN end.out ELSE Append(end.out, end.index)
  BY DEF DataChars
<1> HIDE DEF end, n
<1>2. /\ end.out \in Seq(Nat) /\ end.index \in Nat /\ end.count \in 0..6
      /\ n = 6 * m + end.count
      /\ end.count = 0 => n = 0
      /\ end.index = PartOfSix(s, 6 * m, end.count)
      /\ \A j \in 1..m : end.out[j] = Six(s, 6 * (j - 1))
  BY <1>1 DEF EncodeState, EncodeInv
<1>3. m \in Nat
  BY <1>2, LenProperties
<1>4. CASE end.count = 0
  <2>1. m = 0 /\ N = 0 /\ (4 * N + 2) \div 3 = 0
    BY <1>0, <1>1, <1>2, <1>3, <1>4
  <2> QED
    BY <1>2, <1>4, <1>6, <2>1
<1>5. CASE end.count # 0
  <2> DEFINE c == end.count
             i == 6 * m
  <2>1. c \in 1..6 /\ i \in Nat /\ i + c = 8 * N
    BY <1>0, <1>1, <1>2, <1>3, <1>5
  <2>2. m + 1 = (4 * N + 2) \div 3
    <3> HIDE DEF c, m, N
    <3>1. 6 * m + c = 8 * N
      BY <2>1
    <3> HIDE DEF i
    <3> QED
      BY <1>1, <1>3, <2>1, <3>1, LastDigit
  <2>3. /\ chars \in Seq(Nat) /\ Len(chars) = m + 1 /\ chars[m + 1] = end.index
        /\ \A j \in 1..m : chars[j] = end.out[j]
    BY <1>2, <1>5, <1>6, AppendProperties
  <2>4. end.index = Six(s, i)
    <3>1. s \in [Nat -> 0..1] /\ \A k \in Nat : k >= i + c => s[k] = 0
      BY <1>1, <2>1, StreamType
    <3>2. end.index = PartOfSix(s, i, c)
      BY <1>2
    <3> HIDE DEF i, c
    <3> QED
      BY <2>1, <3>1, <3>2, PartAtEnd
  <2> HIDE DEF m, c
  <2>5. ASSUME NEW j \in 1..(m + 1)
        PROVE  chars[j] = Six(s, 6 * (j - 1))
    <3>1. CASE j = m + 1
      <4>1. j - 1 = m
        BY <1>3, <3>1
      <4> QED
        BY <2>3, <2>4, <3>1, <4>1
    <3>2. CASE j # m + 1
      <4>1. j \in 1..m
        BY <1>3, <3>2
      <4> QED
        BY <1>2, <2>3, <4>1
    <3> QED
      BY <3>1, <3>2
  <2> QED
    BY <2>2, <2>3, <2>5
<1> QED
  BY <1>4, <1>5

\* And so for what base64_encode returns: with the padding it has L characters.
LEMMA EncodeIs ==
  ASSUME NEW bytes \in Seq(Byte), NEW s, s = Stream(bytes),
         NEW D \in Nat, D = (4 * Len(bytes) + 2) \div 3,
         NEW L \in Nat, L = 4 * ((Len(bytes) + 2) \div 3)
  PROVE  /\ Encode(bytes) \in Seq(Nat) /\ Len(Encode(bytes)) = L
         /\ D \in 0..L /\ 6 * D >= 8 * Len(bytes) /\ 6 * D < 8 * Len(bytes) + 6
         /\ \A j \in 1..D : Encode(bytes)[j] = Six(s, 6 * (j - 1))
         /\ \A j \in (D + 1)..L : Encode(bytes)[j] = Pad
<1> DEFINE N == Len(bytes)
           n == 8 * Len(bytes)
           chars == DataChars(bytes)
           p == 3 - ((Len(chars) + 3) % 4)
           pads == [k \in 1..p |-> Pad]
<1>1. N \in Nat /\ n \in Nat
  BY LenProperties
<1>2. /\ chars \in Seq(Nat) /\ Len(chars) = (4 * Len(bytes) + 2) \div 3
      /\ \A j \in 1..Len(chars) : chars[j] = Six(s, 6 * (j - 1))
  BY CharsAre
<1>3. Encode(bytes) = chars \o pads
  BY DEF Encode, DataChars
<1> HIDE DEF chars
<1>4. /\ 6 * D >= 8 * N /\ 6 * D < 8 * N + 6
      /\ D + (3 - ((D + 3) % 4)) = L /\ 3 - ((D + 3) % 4) \in 0..3
  BY <1>1, DigitsOf
<1>5. Len(chars) = D /\ p = 3 - ((D + 3) % 4)
  BY <1>2
<1>6. p \in 0..3 /\ D + p = L
  BY <1>4, <1>5
<1> HIDE DEF p
<1>7. pads \in Seq(Nat) /\ Len(pads) = p /\ \A k \in 1..p : pads[k] = Pad
  BY <1>6 DEF Pad
<1> HIDE DEF pads
<1>8. /\ chars \o pads \in Seq(Nat) /\ Len(chars \o pads) = D + p
      /\ \A j \in 1..(D + p) : (chars \o pads)[j] = IF j <= D THEN chars[j] ELSE pads[j - D]
  <2>1. /\ chars \o pads \in Seq(Nat) /\ Len(chars \o pads) = Len(chars) + Len(pads)
        /\ \A j \in 1..(Len(chars) + Len(pads)) :
             (chars \o pads)[j] = IF j <= Len(chars) THEN chars[j] ELSE pads[j - Len(chars)]
    BY <1>2, <1>7, ConcatProperties
  <2> QED
    BY <1>5, <1>7, <2>1
<1>9. ASSUME NEW j \in 1..D
      PROVE  Encode(bytes)[j] = Six(s, 6 * (j - 1))
  <2>1. j \in 1..(D + p) /\ j <= D /\ j \in 1..Len(chars)
    BY <1>5, <1>6
  <2> QED
    BY <1>2, <1>3, <1>8, <2>1, Zenon
<1>10. ASSUME NEW j \in (D + 1)..L
       PROVE  Encode(bytes)[j] = Pad
  <2>1. j \in 1..(D + p) /\ ~(j <= D) /\ j - D \in 1..p
    BY <1>6
  <2> QED
    BY <1>3, <1>7, <1>8, <2>1, Zenon
<1>11. D \in 0..L
  BY <1>6
<1> QED
  BY <1>3, <1>4, <1>6, <1>8, <1>9, <1>10, <1>11

\* Zero has no bits.
LEMMA NoBits ==
  ASSUME NEW b \in 0..7
  PROVE  BitOf(0, 8, b) = 0
<1>1. 0 \in Byte /\ 0 \div 128 = 0 /\ 0 \div 64 = 0 /\ 0 \div 32 = 0 /\ 0 \div 16 = 0
      /\ 0 \div 8 = 0 /\ 0 \div 4 = 0 /\ 0 \div 2 = 0 /\ 0 % 2 = 0
  BY DEF Byte
<1>2. /\ BitOf(0, 8, 0) = 0 /\ BitOf(0, 8, 1) = 0 /\ BitOf(0, 8, 2) = 0 /\ BitOf(0, 8, 3) = 0
      /\ BitOf(0, 8, 4) = 0 /\ BitOf(0, 8, 5) = 0 /\ BitOf(0, 8, 6) = 0 /\ BitOf(0, 8, 7) = 0
  BY <1>1, EightBits
<1>3. b = 0 \/ b = 1 \/ b = 2 \/ b = 3 \/ b = 4 \/ b = 5 \/ b = 6 \/ b = 7
  OBVIOUS
<1> QED
  BY <1>2, <1>3

\* A byte, and zero after the last, as RFC 4648 fills up.
ByteAt(bytes, i) == IF i <= Len(bytes) THEN bytes[i] ELSE 0

\* The eight bits from i on are those of x.
IsByte(s, i, x) ==
  /\ s[i] = BitOf(x, 8, 0) /\ s[i + 1] = BitOf(x, 8, 1)
  /\ s[i + 2] = BitOf(x, 8, 2) /\ s[i + 3] = BitOf(x, 8, 3)
  /\ s[i + 4] = BitOf(x, 8, 4) /\ s[i + 5] = BitOf(x, 8, 5)
  /\ s[i + 6] = BitOf(x, 8, 6) /\ s[i + 7] = BitOf(x, 8, 7)

\* The bits of the stream, by bytes.
LEMMA BitsOfByte ==
  ASSUME NEW bytes \in Seq(Byte), NEW i \in Nat
  PROVE  /\ ByteAt(bytes, i + 1) \in Byte
         /\ IsByte(Stream(bytes), 8 * i, ByteAt(bytes, i + 1))
<1> DEFINE s == Stream(bytes)
           x == ByteAt(bytes, i + 1)
<1>1. Len(bytes) \in Nat /\ \A j \in 1..Len(bytes) : bytes[j] \in 0..255
  BY LenProperties, ElementOfSeq DEF Byte
<1>2. x \in Byte
  BY <1>1 DEF ByteAt, Byte
<1>3. ASSUME NEW b \in 0..7
      PROVE  s[8 * i + b] = BitOf(x, 8, b)
  <2> DEFINE n == 8 * i + b
  <2>1. n \in Nat /\ n \div 8 = i /\ n % 8 = b
    OBVIOUS
  <2> HIDE DEF n
  <2>2. CASE i + 1 <= Len(bytes)
    <3>1. n < 8 * Len(bytes)
      BY <1>1, <2>2 DEF n
    <3>2. s[n] = BitOf(bytes[n \div 8 + 1], 8, n % 8)
      BY <2>1, <3>1, StreamType
    <3>3. s[n] = BitOf(x, 8, b)
      BY <2>1, <2>2, <3>2 DEF ByteAt
    <3> QED
      BY <3>3 DEF n
  <2>3. CASE ~(i + 1 <= Len(bytes))
    <3>1. n >= 8 * Len(bytes)
      BY <1>1, <2>3 DEF n
    <3>2. s[n] = 0
      BY <2>1, <3>1, StreamType
    <3>3. x = 0
      BY <2>3 DEF ByteAt
    <3>4. s[n] = BitOf(x, 8, b)
      BY <3>2, <3>3, NoBits
    <3> QED
      BY <3>4 DEF n
  <2> QED
    BY <2>2, <2>3
<1>4. 8 * i + 0 = 8 * i
  OBVIOUS
<1> HIDE DEF s, x
<1>5. IsByte(s, 8 * i, x)
  BY <1>3, <1>4 DEF IsByte
<1> QED
  BY <1>2, <1>5 DEF s, x

\* Streams of bits.
Bits == [Nat -> 0..1]

\* The digits of three bytes are their bits, six in each.
LEMMA DigitsOfWord ==
  ASSUME NEW s \in Bits, NEW i \in Nat, NEW a \in Byte, NEW b \in Byte, NEW c \in Byte,
         IsByte(s, i, a), IsByte(s, i + 8, b), IsByte(s, i + 16, c)
  PROVE  /\ Digit(Word(a, b, c), 3) = Six(s, i)
         /\ Digit(Word(a, b, c), 2) = Six(s, i + 6)
         /\ Digit(Word(a, b, c), 1) = Six(s, i + 12)
         /\ Digit(Word(a, b, c), 0) = Six(s, i + 18)
<1>1. /\ s[i] = BitOf(a, 8, 0)
      /\ s[i + 1] = BitOf(a, 8, 1)
      /\ s[i + 2] = BitOf(a, 8, 2)
      /\ s[i + 3] = BitOf(a, 8, 3)
      /\ s[i + 4] = BitOf(a, 8, 4)
      /\ s[i + 5] = BitOf(a, 8, 5)
      /\ s[i + 6] = BitOf(a, 8, 6)
      /\ s[i + 7] = BitOf(a, 8, 7)
  BY DEF IsByte
<1>2. /\ s[i + 8] = BitOf(b, 8, 0)
      /\ s[i + 9] = BitOf(b, 8, 1)
      /\ s[i + 10] = BitOf(b, 8, 2)
      /\ s[i + 11] = BitOf(b, 8, 3)
      /\ s[i + 12] = BitOf(b, 8, 4)
      /\ s[i + 13] = BitOf(b, 8, 5)
      /\ s[i + 14] = BitOf(b, 8, 6)
      /\ s[i + 15] = BitOf(b, 8, 7)
  BY DEF IsByte
<1>3. /\ s[i + 16] = BitOf(c, 8, 0)
      /\ s[i + 17] = BitOf(c, 8, 1)
      /\ s[i + 18] = BitOf(c, 8, 2)
      /\ s[i + 19] = BitOf(c, 8, 3)
      /\ s[i + 20] = BitOf(c, 8, 4)
      /\ s[i + 21] = BitOf(c, 8, 5)
      /\ s[i + 22] = BitOf(c, 8, 6)
      /\ s[i + 23] = BitOf(c, 8, 7)
  BY DEF IsByte
<1>4. \A x \in Byte : \A n \in 0..7 : BitOf(x, 8, n) \in 0..1
  BY EightBits
<1>5. Six(s, i) = a \div 4
  BY <1>1, ByteParts DEF Six
<1>6. Six(s, i + 6) = 16 * (a % 4) + (b \div 16)
  <2>1. a % 4 = 2 * s[i + 6] + s[i + 7]
    BY <1>1, ByteParts
  <2>2. b \div 16 = 8 * s[i + 8] + 4 * s[i + 9] + 2 * s[i + 10] + s[i + 11]
    BY <1>2, ByteParts
  <2>3. s[i + 6] \in Int /\ s[i + 7] \in Int /\ s[i + 8] \in Int /\ s[i + 9] \in Int
        /\ s[i + 10] \in Int /\ s[i + 11] \in Int
    BY <1>1, <1>2, <1>4
  <2>4. Six(s, i + 6) = 32 * s[i + 6] + 16 * s[i + 7] + 8 * s[i + 8]
                        + 4 * s[i + 9] + 2 * s[i + 10] + s[i + 11]
    BY DEF Six
  <2>5. 16 * (a % 4) = 32 * s[i + 6] + 16 * s[i + 7]
    BY <2>1, <2>3
  <2> DEFINE p == 16 * (a % 4)
             q == b \div 16
  <2>6. p = 32 * s[i + 6] + 16 * s[i + 7]
    BY <2>5
  <2>7. q = 8 * s[i + 8] + 4 * s[i + 9] + 2 * s[i + 10] + s[i + 11]
    BY <2>2
  <2> HIDE DEF p, q
  <2>8. Six(s, i + 6) = p + q
    BY <2>4, <2>6, <2>7 DEF Bits
  <2> QED
    BY <2>8 DEF p, q
<1>7. Six(s, i + 12) = 4 * (b % 16) + (c \div 64)
  <2>1. b % 16 = 8 * s[i + 12] + 4 * s[i + 13] + 2 * s[i + 14] + s[i + 15]
    BY <1>2, ByteParts
  <2>2. c \div 64 = 2 * s[i + 16] + s[i + 17]
    BY <1>3, ByteParts
  <2>3. s[i + 12] \in Int /\ s[i + 13] \in Int /\ s[i + 14] \in Int /\ s[i + 15] \in Int
        /\ s[i + 16] \in Int /\ s[i + 17] \in Int
    BY <1>2, <1>3, <1>4
  <2>4. Six(s, i + 12) = 32 * s[i + 12] + 16 * s[i + 13] + 8 * s[i + 14]
                         + 4 * s[i + 15] + 2 * s[i + 16] + s[i + 17]
    BY DEF Six
  <2> QED
    BY <2>1, <2>2, <2>3, <2>4
<1>8. Six(s, i + 18) = c % 64
  <2>1. c % 64 = 32 * s[i + 18] + 16 * s[i + 19] + 8 * s[i + 20]
                 + 4 * s[i + 21] + 2 * s[i + 22] + s[i + 23]
    BY <1>3, ByteParts
  <2> QED
    BY <2>1 DEF Six
<1>9. Digit(Word(a, b, c), 3) = a \div 4
  BY FourDigits, Zenon
<1>10. Digit(Word(a, b, c), 2) = 16 * (a % 4) + (b \div 16)
  BY FourDigits, Zenon
<1>11. Digit(Word(a, b, c), 1) = 4 * (b % 16) + (c \div 64)
  BY FourDigits, Zenon
<1>12. Digit(Word(a, b, c), 0) = c % 64
  BY FourDigits, Zenon
<1> QED
  BY <1>5, <1>6, <1>7, <1>8, <1>9, <1>10, <1>11, <1>12, Zenon

\* So the digits of RFC 4648 are the bits of the bytes too,
LEMMA RefDigit ==
  ASSUME NEW bytes \in Seq(Byte), NEW g \in Nat, NEW w,
         w = Word(ByteAt(bytes, 3 * g + 1), ByteAt(bytes, 3 * g + 2), ByteAt(bytes, 3 * g + 3)),
         NEW d \in 0..3
  PROVE  Digit(w, 3 - d) = Six(Stream(bytes), 6 * (4 * g + d))
<1> DEFINE s == Stream(bytes)
           i == 24 * g
           a == ByteAt(bytes, 3 * g + 1)
           b == ByteAt(bytes, 3 * g + 2)
           c == ByteAt(bytes, 3 * g + 3)
<1>1. /\ 3 * g \in Nat /\ 3 * g + 1 \in Nat /\ 3 * g + 2 \in Nat /\ i \in Nat
      /\ 8 * (3 * g) = i /\ 8 * (3 * g + 1) = i + 8 /\ 8 * (3 * g + 2) = i + 16
      /\ 3 * g + 1 + 1 = 3 * g + 2 /\ 3 * g + 2 + 1 = 3 * g + 3
  OBVIOUS
<1>2. IsByte(s, i, a) /\ a \in Byte
  BY <1>1, BitsOfByte
<1>3. IsByte(s, i + 8, b) /\ b \in Byte
  BY <1>1, BitsOfByte
<1>4. IsByte(s, i + 16, c) /\ c \in Byte
  BY <1>1, BitsOfByte
<1>5. w = Word(a, b, c)
  OBVIOUS
<1>12. i \in Nat /\ s \in Bits
  BY StreamType DEF Bits
<1> HIDE DEF s, i, a, b, c
<1>6. Digit(Word(a, b, c), 3) = Six(s, i)
  BY <1>12, <1>2, <1>3, <1>4, DigitsOfWord, SMT
<1>9. Digit(Word(a, b, c), 2) = Six(s, i + 6)
  BY <1>12, <1>2, <1>3, <1>4, DigitsOfWord, SMT
<1>10. Digit(Word(a, b, c), 1) = Six(s, i + 12)
  BY <1>12, <1>2, <1>3, <1>4, DigitsOfWord, SMT
<1>11. Digit(Word(a, b, c), 0) = Six(s, i + 18)
  BY <1>12, <1>2, <1>3, <1>4, DigitsOfWord, SMT
<1>7. /\ d = 0 => 3 - d = 3 /\ 6 * (4 * g + d) = i
      /\ d = 1 => 3 - d = 2 /\ 6 * (4 * g + d) = i + 6
      /\ d = 2 => 3 - d = 1 /\ 6 * (4 * g + d) = i + 12
      /\ d = 3 => 3 - d = 0 /\ 6 * (4 * g + d) = i + 18
      /\ d = 0 \/ d = 1 \/ d = 2 \/ d = 3
  BY DEF i
<1>8. Digit(w, 3 - d) = Six(s, 6 * (4 * g + d))
  BY <1>5, <1>6, <1>7, <1>9, <1>10, <1>11, Zenon
<1> QED
  BY <1>8 DEF s

\* and the same characters come out.
LEMMA EncodeAsRef ==
  ASSUME NEW bytes \in Seq(Byte)
  PROVE  Encode(bytes) = RefEncode(bytes)
<1> DEFINE s == Stream(bytes)
           N == Len(bytes)
           D == (4 * N + 2) \div 3
           L == 4 * ((N + 2) \div 3)
           Ref(j) == RefEncode(bytes)[j]
<1>1. N \in Nat
  BY LenProperties
<1>2. D \in Nat /\ L \in Nat
  BY <1>1
<1>3. /\ Encode(bytes) \in Seq(Nat) /\ Len(Encode(bytes)) = L
      /\ D \in 0..L
      /\ \A j \in 1..D : Encode(bytes)[j] = Six(s, 6 * (j - 1))
      /\ \A j \in (D + 1)..L : Encode(bytes)[j] = Pad
  <2> HIDE DEF s
  <2>1. s = Stream(bytes)
    BY DEF s
  <2> QED
    BY <1>2, <2>1, EncodeIs
<1>4. ASSUME NEW j \in 1..L
      PROVE  RefEncode(bytes)[j] = Encode(bytes)[j]
  <2> DEFINE g == (j - 1) \div 4
             d == (j - 1) % 4
             w == Word(ByteAt(bytes, 3 * g + 1), ByteAt(bytes, 3 * g + 2), ByteAt(bytes, 3 * g + 3))
  <2>1. RefEncode(bytes)[j] = IF 3 * g + d > N THEN Pad ELSE Digit(w, 3 - d)
    BY <1>1 DEF RefEncode, Word, ByteAt, Digit
  <2>2. g \in Nat /\ d \in 0..3 /\ j = 4 * g + d + 1 /\ j - 1 = 4 * g + d /\ g < (N + 2) \div 3
    BY <1>1
  <2>3. Digit(w, 3 - d) = Six(s, 6 * (j - 1))
    <3>1. w = Word(ByteAt(bytes, 3 * g + 1), ByteAt(bytes, 3 * g + 2), ByteAt(bytes, 3 * g + 3))
      OBVIOUS
    <3> HIDE DEF w, g, d
    <3>2. Digit(w, 3 - d) = Six(s, 6 * (4 * g + d))
      BY <2>2, <3>1, RefDigit
    <3> QED
      BY <2>2, <3>2
  <2> HIDE DEF w, g, d
  <2>4. 3 * g + d > N <=> j > D
    BY <1>1, <2>2, DigitsOf
  <2>5. j \in 1..D \/ j \in (D + 1)..L
    BY <1>2
  <2>6. CASE j \in 1..D
    <3>1. ~(j > D)
      BY <1>2, <2>6
    <3> QED
      BY <1>3, <2>1, <2>3, <2>4, <2>6, <3>1
  <2>7. CASE j \in (D + 1)..L
    <3>1. j > D
      BY <1>2, <2>7
    <3> QED
      BY <1>3, <2>1, <2>4, <2>7, <3>1
  <2> QED
    BY <2>5, <2>6, <2>7
<1>5. DOMAIN RefEncode(bytes) = 1..L /\ RefEncode(bytes) = [j \in 1..L |-> RefEncode(bytes)[j]]
  BY DEF RefEncode
<1>6. Encode(bytes) = [j \in 1..L |-> Encode(bytes)[j]]
  BY <1>3, LenProperties
<1> HIDE DEF L
<1> QED
  BY <1>4, <1>5, <1>6

-----------------------------------------------------------------------------
(***************************************************************************)
(* base64_decode.                                                          *)
(***************************************************************************)

\* A character that holds six bits of a stream.
LEMMA SixType ==
  ASSUME NEW s \in Bits, NEW i \in Nat
  PROVE  /\ Six(s, i) \in 0..63
         /\ \A b \in 0..5 : BitOf(Six(s, i), 6, b) = s[i + b]
<1>1. /\ s[i] \in 0..1 /\ s[i + 1] \in 0..1 /\ s[i + 2] \in 0..1
      /\ s[i + 3] \in 0..1 /\ s[i + 4] \in 0..1 /\ s[i + 5] \in 0..1 /\ i + 0 = i
  BY DEF Bits
<1> DEFINE x == Six(s, i)
<1>2. x = 32 * s[i] + 16 * s[i + 1] + 8 * s[i + 2] + 4 * s[i + 3] + 2 * s[i + 4] + s[i + 5]
  BY DEF Six
<1> HIDE DEF x
<1>3. /\ x \in 0..63
      /\ BitOf(x, 6, 0) = s[i] /\ BitOf(x, 6, 1) = s[i + 1] /\ BitOf(x, 6, 2) = s[i + 2]
      /\ BitOf(x, 6, 3) = s[i + 3] /\ BitOf(x, 6, 4) = s[i + 4] /\ BitOf(x, 6, 5) = s[i + 5]
  BY <1>1, <1>2, SixBits
<1>4. ASSUME NEW b \in 0..5
      PROVE  BitOf(x, 6, b) = s[i + b]
  <2>1. b = 0 \/ b = 1 \/ b = 2 \/ b = 3 \/ b = 4 \/ b = 5
    OBVIOUS
  <2> QED
    BY <1>1, <1>3, <2>1
<1> QED
  BY <1>3, <1>4 DEF x

\* Digits that hold the bits of a stream, six each.
AreDigits(data, s) == \A j \in 1..Len(data) : data[j] = Six(s, 6 * (j - 1))

\* The states of the decoder: bytes, and the one begun.
DecodeState == [out : Seq(Nat), byte : Nat]

\* The bit that a pass of the decoder reads.
LEMMA DigitBit ==
  ASSUME NEW s \in Bits, NEW data \in Seq(Nat), AreDigits(data, s),
         NEW k \in 1..(6 * Len(data))
  PROVE  BitOf(data[(k - 1) \div 6 + 1], 6, (k - 1) % 6) = s[k - 1]
<1> DEFINE j == (k - 1) \div 6
           b == (k - 1) % 6
<1>1. Len(data) \in Nat
  BY LenProperties
<1>2. /\ j \in Nat /\ j + 1 \in 1..Len(data) /\ b \in 0..5 /\ 6 * j + b = k - 1
      /\ j + 1 - 1 = j /\ 6 * j \in Nat
  BY <1>1
<1> HIDE DEF j, b
<1>3. data[j + 1] = Six(s, 6 * j)
  BY <1>2 DEF AreDigits
<1>4. BitOf(data[j + 1], 6, b) = s[k - 1]
  BY <1>2, <1>3, SixType
<1> QED
  BY <1>4 DEF j, b

\* A pass leads from states to states.
LEMMA DecodeType ==
  ASSUME NEW s \in Bits, NEW data \in Seq(Nat), AreDigits(data, s),
         NEW k \in 1..(6 * Len(data)), NEW st \in DecodeState
  PROVE  DecodeBit(data, st, k) \in DecodeState
<1> DEFINE bit == BitOf(data[(k - 1) \div 6 + 1], 6, (k - 1) % 6)
           c == (k - 1) % 8
           d == 7 - c
           byte == st.byte + bit * 2^d
<1>1. bit \in 0..1 /\ Len(data) \in Nat
  <2>1. Len(data) \in Nat /\ bit = s[k - 1]
    BY LenProperties, DigitBit
  <2>2. k - 1 \in Nat
    BY <2>1
  <2> QED
    BY <2>1, <2>2 DEF Bits
<1>2. c \in 0..7 /\ d \in 0..7
  BY <1>1
<1>3. /\ DecodeBit(data, st, k) =
           IF k % 8 = 0 THEN [out |-> Append(st.out, byte), byte |-> 0]
           ELSE [st EXCEPT !.byte = byte]
  BY DEF DecodeBit
<1> HIDE DEF bit, d
<1>4. byte \in Nat
  <2>1. bit * 2^d \in Nat
    BY <1>1, <1>2, PowerType
  <2>2. st.byte \in Nat
    BY DEF DecodeState
  <2> QED
    BY <2>1, <2>2
<1> HIDE DEF byte
<1>5. Append(st.out, byte) \in Seq(Nat)
  BY <1>4, AppendProperties DEF DecodeState
<1>6. [out |-> Append(st.out, byte), byte |-> 0] \in DecodeState
  BY <1>5 DEF DecodeState
<1>7. [st EXCEPT !.byte = byte] \in DecodeState
  BY <1>4 DEF DecodeState
<1> QED
  BY <1>3, <1>6, <1>7

\* After k bits: the bytes that are complete, and the part of the next.
DecodeInv(s, st, k) ==
  /\ k >= 8 * Len(st.out) /\ k < 8 * Len(st.out) + 8
  /\ st.byte = PartOfEight(s, 8 * Len(st.out), k - 8 * Len(st.out))
  /\ \A j \in 1..Len(st.out) : st.out[j] = Eight(s, 8 * (j - 1))

\* Eight bits make a number.
LEMMA EightType ==
  ASSUME NEW s \in [Nat -> 0..1], NEW i \in Nat
  PROVE  Eight(s, i) \in Nat
<1>1. /\ s[i] \in 0..1 /\ s[i + 1] \in 0..1 /\ s[i + 2] \in 0..1 /\ s[i + 3] \in 0..1
      /\ s[i + 4] \in 0..1 /\ s[i + 5] \in 0..1 /\ s[i + 6] \in 0..1 /\ s[i + 7] \in 0..1
  OBVIOUS
<1> QED
  BY <1>1 DEF Eight

\* Where in its byte a bit is.
LEMMA Remainder ==
  ASSUME NEW k \in Nat, NEW n \in Nat, k - 1 >= 8 * n, k - 1 < 8 * n + 8
  PROVE  /\ (k - 1) % 8 \in 0..7
         /\ k - 1 - 8 * n = (k - 1) % 8
         /\ k - 1 = 8 * n + ((k - 1) % 8)
         /\ k % 8 = 0 <=> (k - 1) % 8 = 7
<1>1. PICK e \in 0..7 : k = 8 * n + e + 1
  <2>1. k - 1 - 8 * n \in 0..7 /\ k = 8 * n + (k - 1 - 8 * n) + 1
    OBVIOUS
  <2> QED
    BY <2>1
<1>2. (8 * n + e) % 8 = e /\ k - 1 = 8 * n + e /\ k - 1 - 8 * n = e
  BY <1>1
<1>3. k % 8 = 0 <=> e = 7
  BY <1>1
<1> QED
  BY <1>2, <1>3

\* A pass of the decoder keeps that.
LEMMA DecodeStep ==
  ASSUME NEW s \in Bits, NEW data \in Seq(Nat), AreDigits(data, s),
         NEW k \in 1..(6 * Len(data)), NEW st \in DecodeState, DecodeInv(s, st, k - 1)
  PROVE  DecodeInv(s, DecodeBit(data, st, k), k)
<1> DEFINE new == DecodeBit(data, st, k)
           bit == BitOf(data[(k - 1) \div 6 + 1], 6, (k - 1) % 6)
           n == Len(st.out)
           i == 8 * n
           c == (k - 1) % 8
           byte == st.byte + bit * 2^(7 - c)
<1>1. Len(data) \in Nat /\ k \in Nat /\ st.out \in Seq(Nat) /\ n \in Nat /\ i \in Nat
  BY LenProperties DEF DecodeState
<1>2. bit = s[k - 1] /\ s \in [Nat -> 0..1]
  BY DigitBit DEF Bits
<1>3. /\ k - 1 >= i /\ k - 1 < i + 8
      /\ st.byte = PartOfEight(s, i, k - 1 - i)
      /\ \A j \in 1..n : st.out[j] = Eight(s, 8 * (j - 1))
  BY DEF DecodeInv
<1>4. c \in 0..7 /\ k - 1 - i = c /\ k - 1 = i + c /\ (k % 8 = 0 <=> c = 7)
  <2>1. k \in Nat /\ n \in Nat /\ k - 1 >= 8 * n /\ k - 1 < 8 * n + 8
    BY <1>1, <1>3
  <2> HIDE DEF n
  <2> QED
    BY <2>1, Remainder
<1>5. new = IF k % 8 = 0 THEN [out |-> Append(st.out, byte), byte |-> 0]
            ELSE [st EXCEPT !.byte = byte]
  BY DEF DecodeBit
<1> HIDE DEF bit, c, new, byte
<1>6. byte = PartOfEight(s, i, c) + s[i + c] * 2^(7 - c)
  BY <1>2, <1>3, <1>4 DEF byte
<1>7. CASE c = 7
  <2>1. byte = Eight(s, i)
    <3>1. 7 - c = 0 /\ i + c = i + 7
      BY <1>7
    <3> HIDE DEF i
    <3> QED
      BY <1>1, <1>2, <1>6, <1>7, <3>1, PartsOfEight
  <2>2. new.out = Append(st.out, byte) /\ new.byte = 0
    BY <1>4, <1>5, <1>7
  <2>3. byte \in Nat
    <3>1. i \in Nat
      BY <1>1
    <3> HIDE DEF i
    <3>2. Eight(s, i) \in Nat
      BY <1>2, <3>1, EightType
    <3> QED
      BY <2>1, <3>2
  <2>4. /\ Len(new.out) = n + 1 /\ new.out[n + 1] = byte
        /\ \A j \in 1..n : new.out[j] = st.out[j]
    BY <1>1, <2>2, <2>3, AppendProperties
  <2>5. ASSUME NEW j \in 1..(n + 1)
        PROVE  new.out[j] = Eight(s, 8 * (j - 1))
    <3> HIDE DEF n
    <3>1. CASE j = n + 1
      <4>1. 8 * (j - 1) = i
        BY <1>1, <3>1
      <4> QED
        BY <2>1, <2>4, <3>1, <4>1
    <3>2. CASE j # n + 1
      <4>1. j \in 1..n
        BY <1>1, <3>2
      <4> QED
        BY <1>3, <2>4, <4>1
    <3> QED
      BY <3>1, <3>2
  <2>6. /\ 8 * (n + 1) = k /\ k - 8 * (n + 1) = 0 /\ k < 8 * (n + 1) + 8 /\ k >= 8 * (n + 1)
    BY <1>1, <1>4, <1>7
  <2>7. PartOfEight(s, 8 * (n + 1), 0) = 0
    BY DEF PartOfEight
  <2>8. /\ k >= 8 * Len(new.out) /\ k < 8 * Len(new.out) + 8
        /\ k - 8 * Len(new.out) = 0
    BY <2>4, <2>6
  <2>9. DecodeInv(s, new, k)
    BY <2>2, <2>4, <2>5, <2>6, <2>7, <2>8 DEF DecodeInv
  <2> QED
    BY <2>9 DEF new
<1>8. CASE c # 7
  <2>1. c \in 0..6 /\ k = i + (c + 1) /\ k - i = c + 1 /\ k >= i /\ k < i + 8
    <3> HIDE DEF i
    <3> QED
      BY <1>1, <1>4, <1>8
  <2>2. new.out = st.out /\ new.byte = byte
    BY <1>4, <1>5, <1>8 DEF DecodeState
  <2>3. byte = PartOfEight(s, i, c + 1)
    <3> HIDE DEF i
    <3> QED
      BY <1>1, <1>2, <1>6, <2>1, PartsOfEight
  <2>4. DecodeInv(s, new, k)
    BY <1>3, <2>1, <2>2, <2>3 DEF DecodeInv
  <2> QED
    BY <2>4 DEF new
<1> QED
  BY <1>7, <1>8

\* So the decoder passes through states,
LEMMA DecodingRuns ==
  ASSUME NEW s \in Bits, NEW data \in Seq(Nat), AreDigits(data, s),
         NEW n \in Nat, n = 6 * Len(data), NEW S, S = Decoding(data)
  PROVE  /\ S \in [0..n -> DecodeState]
         /\ S[0] = [out |-> <<>>, byte |-> 0]
         /\ \A k \in 1..n : S[k] = DecodeBit(data, S[k - 1], k)
<1> DEFINE start == [out |-> <<>>, byte |-> 0]
           F == [p \in DecodeState \X (1..n) |-> DecodeBit(data, p[1], p[2])]
<1>1. start \in DecodeState
  BY DEF DecodeState
<1>2. \A st \in DecodeState, k \in 1..n : DecodeBit(data, st, k) \in DecodeState
  BY DecodeType
<1>3. F \in [DecodeState \X (1..n) -> DecodeState]
  BY <1>2
<1>4. \A st \in DecodeState, k \in 1..n : F[<<st, k>>] = DecodeBit(data, st, k)
  OBVIOUS
<1> HIDE DEF F, start
<1>5. PICK g \in [0..n -> DecodeState] : IsRun(g, F, start, n)
  BY <1>1, <1>3, LoopRuns, Zenon
<1>6. g[0] = start /\ \A k \in 1..n : g[k] = F[<<g[k - 1], k>>]
  BY <1>5 DEF IsRun
<1>7. ASSUME NEW k \in 1..n
      PROVE  g[k] = DecodeBit(data, g[k - 1], k)
  <2>1. g[k - 1] \in DecodeState
    BY <1>5
  <2> QED
    BY <1>4, <1>6, <2>1, Zenon
<1>8. g = [k \in 0..n |-> IF k = 0 THEN start ELSE DecodeBit(data, g[k - 1], k)]
  BY <1>5, <1>6, <1>7
<1>9. S = [k \in 0..n |-> IF k = 0 THEN start ELSE DecodeBit(data, S[k - 1], k)]
  BY <1>8 DEF Decoding, start
<1>10. S[0] = start /\ \A k \in 1..n : S[k] = DecodeBit(data, S[k - 1], k)
  <2> DEFINE G(k) == IF k = 0 THEN start ELSE DecodeBit(data, S[k - 1], k)
  <2>1. S = [k \in 0..n |-> G(k)]
    BY <1>9
  <2>2. G(0) = start /\ \A k \in 1..n : G(k) = DecodeBit(data, S[k - 1], k)
    OBVIOUS
  <2> HIDE DEF G
  <2>3. S[0] = G(0) /\ \A k \in 1..n : S[k] = G(k)
    BY <2>1
  <2> QED
    BY <2>2, <2>3
<1>11. \A k \in 0..n : S[k] \in DecodeState
  <2> DEFINE T == {k \in Nat : S[k] \in DecodeState}
  <2>1. 0 \in T
    BY <1>1, <1>10
  <2>2. \A k \in 1..n : k - 1 \in T => k \in T
    BY <1>2, <1>10
  <2> HIDE DEF T
  <2>3. \A k \in 0..n : k \in T
    BY <2>1, <2>2, Induction
  <2> QED
    BY <2>3 DEF T
<1>12. S \in [0..n -> DecodeState]
  BY <1>9, <1>11
<1> QED
  BY <1>10, <1>12 DEF start

\* and has all bits but those of an incomplete byte in its bytes at the end.
LEMMA DecodingEnds ==
  ASSUME NEW s \in Bits, NEW data \in Seq(Nat), AreDigits(data, s),
         NEW n \in Nat, n = 6 * Len(data), NEW end, end = Decoding(data)[n]
  PROVE  end \in DecodeState /\ DecodeInv(s, end, n)
<1>1. PICK S : S = Decoding(data)
  OBVIOUS
<1>2. /\ S \in [0..n -> DecodeState]
      /\ S[0] = [out |-> <<>>, byte |-> 0]
      /\ \A k \in 1..n : S[k] = DecodeBit(data, S[k - 1], k)
  BY <1>1, DecodingRuns
<1> DEFINE T == {k \in 0..n : DecodeInv(s, S[k], k)}
<1>3. 0 \in T
  <2>1. PartOfEight(s, 0, 0) = 0
    BY DEF PartOfEight
  <2> QED
    BY <1>2, <2>1 DEF DecodeInv
<1>4. ASSUME NEW k \in 1..n, k - 1 \in T
      PROVE  k \in T
  <2>1. S[k - 1] \in DecodeState /\ DecodeInv(s, S[k - 1], k - 1)
    BY <1>2, <1>4
  <2>2. DecodeInv(s, DecodeBit(data, S[k - 1], k), k)
    BY <2>1, DecodeStep
  <2> QED
    BY <1>2, <2>2
<1>5. n \in T
  <2> HIDE DEF T
  <2>1. \A k \in 0..n : k \in T
    BY <1>3, <1>4, Induction
  <2> QED
    BY <2>1
<1> QED
  BY <1>1, <1>2, <1>5

\* The bits of a byte make the byte.
LEMMA EightIsByte ==
  ASSUME NEW s, NEW i, NEW x \in Byte, IsByte(s, i, x)
  PROVE  Eight(s, i) = x
<1>1. x = 128 * BitOf(x, 8, 0) + 64 * BitOf(x, 8, 1) + 32 * BitOf(x, 8, 2)
          + 16 * BitOf(x, 8, 3) + 8 * BitOf(x, 8, 4) + 4 * BitOf(x, 8, 5)
          + 2 * BitOf(x, 8, 6) + BitOf(x, 8, 7)
  BY SumOfEight
<1>2. /\ s[i] = BitOf(x, 8, 0) /\ s[i + 1] = BitOf(x, 8, 1)
      /\ s[i + 2] = BitOf(x, 8, 2) /\ s[i + 3] = BitOf(x, 8, 3)
      /\ s[i + 4] = BitOf(x, 8, 4) /\ s[i + 5] = BitOf(x, 8, 5)
      /\ s[i + 6] = BitOf(x, 8, 6) /\ s[i + 7] = BitOf(x, 8, 7)
  BY DEF IsByte
<1> QED
  BY <1>1, <1>2, Zenon DEF Eight

\* Characters that hold the bits of some bytes, and less than a byte of zeros more.
LEMMA BackToBytes ==
  ASSUME NEW bytes \in Seq(Byte), NEW data \in Seq(Nat), AreDigits(data, Stream(bytes)),
         NEW n \in Nat, n = 6 * Len(data), n >= 8 * Len(bytes), n < 8 * Len(bytes) + 8
  PROVE  Decoding(data)[n].out = bytes
<1> DEFINE s == Stream(bytes)
           end == Decoding(data)[n]
           out == end.out
<1>1. s \in Bits /\ Len(bytes) \in Nat /\ \A j \in 1..Len(bytes) : bytes[j] \in Byte
  BY StreamType, LenProperties, ElementOfSeq DEF Bits
<1>2. end \in DecodeState /\ DecodeInv(s, end, n)
  <2>1. end = Decoding(data)[n]
    OBVIOUS
  <2> HIDE DEF end, s
  <2>2. AreDigits(data, s)
    BY DEF s
  <2> QED
    BY <1>1, <2>1, <2>2, DecodingEnds
<1> HIDE DEF end, s
<1>3. /\ out \in Seq(Nat) /\ Len(out) \in Nat /\ n >= 8 * Len(out) /\ n < 8 * Len(out) + 8
      /\ \A j \in 1..Len(out) : out[j] = Eight(s, 8 * (j - 1))
  BY <1>2, LenProperties DEF DecodeState, DecodeInv
<1> HIDE DEF out
<1>4. Len(out) = Len(bytes)
  BY <1>1, <1>3
<1>5. ASSUME NEW j \in 1..Len(bytes)
      PROVE  out[j] = bytes[j]
  <2> DEFINE i == j - 1
  <2>1. i \in Nat /\ i + 1 = j /\ j <= Len(bytes)
    BY <1>1
  <2>2. ByteAt(bytes, j) = bytes[j] /\ bytes[j] \in Byte
    BY <1>1, <2>1 DEF ByteAt
  <2> HIDE DEF i
  <2>3. IsByte(s, 8 * i, bytes[j])
    <3>1. IsByte(s, 8 * i, ByteAt(bytes, i + 1))
      BY <2>1, BitsOfByte DEF s
    <3> QED
      BY <2>1, <2>2, <3>1
  <2>4. Eight(s, 8 * i) = bytes[j]
    BY <2>2, <2>3, EightIsByte, Zenon
  <2>5. out[j] = Eight(s, 8 * (j - 1))
    BY <1>3, <1>4
  <2> QED
    BY <2>4, <2>5 DEF i
<1>6. out = bytes
  <2>1. out = [j \in 1..Len(bytes) |-> out[j]]
    BY <1>3, <1>4, LenProperties
  <2>2. bytes = [j \in 1..Len(bytes) |-> bytes[j]]
    BY LenProperties
  <2> QED
    BY <1>5, <2>1, <2>2
<1> QED
  BY <1>6 DEF out, end

\* The padding is what follows the first D characters, and the first to stop at.
LEMMA Padding ==
  ASSUME NEW chars \in Seq(Nat), NEW L \in Nat, L = Len(chars), NEW D \in 0..L,
         \A j \in 1..D : chars[j] < Pad, \A j \in (D + 1)..L : chars[j] = Pad
  PROVE  /\ Cardinality(Positions(chars, Pad)) = L - D
         /\ D = L => Stops(chars) = {}
         /\ D # L => /\ Stops(chars) # {}
                     /\ Min(Stops(chars)) = D + 1 /\ chars[D + 1] = Pad
<1>0. Pad \in Int
  BY DEF Pad
<1>1. Positions(chars, Pad) = (D + 1)..L
  <2>1. DOMAIN chars = 1..L
    BY LenProperties
  <2>2. ASSUME NEW j \in 1..L
        PROVE  chars[j] = Pad <=> j \in (D + 1)..L
    <3>1. j \in 1..D \/ j \in (D + 1)..L
      OBVIOUS
    <3>2. ~(j \in 1..D /\ j \in (D + 1)..L)
      OBVIOUS
    <3> QED
      BY <3>1, <3>2
  <2>3. \A j \in (D + 1)..L : j \in 1..L
    OBVIOUS
  <2> QED
    BY <2>1, <2>2, <2>3, Zenon DEF Positions
<1>4. Stops(chars) = (D + 1)..L
  <2>1. DOMAIN chars = 1..L
    BY LenProperties
  <2>2. ASSUME NEW j \in 1..L
        PROVE  chars[j] >= Pad <=> j \in (D + 1)..L
    <3>1. chars[j] \in Nat
      BY ElementOfSeq
    <3>2. j \in 1..D \/ j \in (D + 1)..L
      OBVIOUS
    <3>3. ~(j \in 1..D /\ j \in (D + 1)..L)
      OBVIOUS
    <3> QED
      BY <1>0, <3>1, <3>2, <3>3
  <2>3. \A j \in (D + 1)..L : j \in 1..L
    OBVIOUS
  <2> QED
    BY <2>1, <2>2, <2>3, Zenon DEF Stops
<1>5. D = L => (D + 1)..L = {}
  OBVIOUS
<1>6. D # L => (D + 1)..L # {} /\ chars[D + 1] = Pad
  <2>1. D # L => D + 1 \in (D + 1)..L
    OBVIOUS
  <2> QED
    BY <2>1
<1>2. Cardinality((D + 1)..L) = L - D
  <2> DEFINE m == D + 1
  <2>1. m \in Int /\ L \in Int /\ (m > L => L - D = 0) /\ L - m + 1 = L - D
    OBVIOUS
  <2> HIDE DEF m
  <2>2. Cardinality(m..L) = IF m > L THEN 0 ELSE L - m + 1
    BY <2>1, FS_Interval
  <2> QED
    BY <2>1, <2>2 DEF m
<1>3. ASSUME D # L
      PROVE  Min((D + 1)..L) = D + 1
  <2> DEFINE S == (D + 1)..L
             m == D + 1
  <2>1. S \subseteq Nat /\ m \in S /\ \A k \in S : m <= k
    BY <1>3
  <2> HIDE DEF S, m
  <2>2. Min(S) = m
    BY <2>1, LeastIs
  <2> QED
    BY <2>2 DEF S, m
<1> QED
  BY <1>1, <1>2, <1>3, <1>4, <1>5, <1>6

\* What base64_decode allocates holds the bytes, unless there is one.
LEMMA SizeIsEnough ==
  ASSUME NEW N \in Nat, NEW D \in Nat, D = (4 * N + 2) \div 3
  PROVE  3 * ((D * 8) \div 24) >= N \/ N = 1
<1> DEFINE h == N \div 3
           r == N % 3
<1>1. h \in Nat /\ r \in 0..2 /\ N = 3 * h + r
  OBVIOUS
<1> HIDE DEF h, r
<1>2. D = 4 * h + (IF r = 0 THEN 0 ELSE r + 1)
  BY <1>1
<1> QED
  BY <1>1, <1>2

\* For any bytes: base64_encode is that of RFC 4648, and base64_decode undoes it,
\* refuses none of it, and stays within what it allocates unless it is a single byte
\* (base64_encode.h, base64_decode.h).
THEOREM Base64IsRFC4648 ==
  ASSUME NEW bytes \in Seq(Byte)
  PROVE  /\ Encode(bytes) = RefEncode(bytes)
         /\ Decode(Encode(bytes)).bytes = bytes
         /\ Decode(Encode(bytes)).size >= Len(bytes) \/ Len(bytes) = 1
         /\ ~Decode(Encode(bytes)).refused
<1> DEFINE s == Stream(bytes)
           N == Len(bytes)
           D == (4 * N + 2) \div 3
           L == 4 * ((N + 2) \div 3)
           chars == Encode(bytes)
           data == IF D = L THEN chars ELSE SubSeq(chars, 1, D)
<1>1. N \in Nat
  BY LenProperties
<1>2. D \in Nat /\ L \in Nat
  BY <1>1
<1>3. /\ chars \in Seq(Nat) /\ Len(chars) = L
      /\ D \in 0..L /\ 6 * D >= 8 * N /\ 6 * D < 8 * N + 6
      /\ \A j \in 1..D : chars[j] = Six(s, 6 * (j - 1))
      /\ \A j \in (D + 1)..L : chars[j] = Pad
  <2> HIDE DEF s
  <2>1. s = Stream(bytes)
    BY DEF s
  <2> QED
    BY <1>2, <2>1, EncodeIs
<1>4. s \in Bits
  BY StreamType DEF Bits
<1>5. 3 * ((D * 8) \div 24) >= N \/ N = 1
  BY <1>1, <1>2, SizeIsEnough
<1> HIDE DEF s, N, D, L, chars
<1>6. \A j \in 1..D : chars[j] < Pad
  <2>1. ASSUME NEW j \in 1..D
        PROVE  chars[j] < Pad
    <3>1. 6 * (j - 1) \in Nat
      BY <1>2
    <3>2. Six(s, 6 * (j - 1)) \in 0..63
      BY <1>4, <3>1, SixType
    <3>3. \A x \in 0..63 : x < Pad
      BY DEF Pad
    <3>4. chars[j] \in 0..63
      BY <1>3, <3>2, Zenon
    <3> QED
      BY <3>3, <3>4
  <2> QED
    BY <2>1
<1>7. /\ Cardinality(Positions(chars, Pad)) = L - D
      /\ D = L => Stops(chars) = {}
      /\ D # L => /\ Stops(chars) # {}
                  /\ Min(Stops(chars)) = D + 1 /\ chars[D + 1] = Pad
  <2>1. chars \in Seq(Nat) /\ L = Len(chars) /\ L \in Nat /\ D \in 0..L
    BY <1>2, <1>3
  <2>2. \A j \in (D + 1)..L : chars[j] = Pad
    BY <1>3
  <2> QED
    BY <1>6, <2>1, <2>2, Padding, Zenon
<1>8. data \in Seq(Nat) /\ Len(data) = D /\ AreDigits(data, s)
  <2>1. CASE D = L
    BY <1>3, <2>1 DEF AreDigits
  <2>2. CASE D # L
    <3>1. /\ SubSeq(chars, 1, D) \in Seq(Nat) /\ Len(SubSeq(chars, 1, D)) = D - 1 + 1
          /\ \A k \in 1..(D - 1 + 1) : SubSeq(chars, 1, D)[k] = chars[1 + k - 1]
      <4>1. 1 \in 1..(Len(chars) + 1) /\ D \in Int /\ D <= Len(chars) /\ 1 <= D + 1
        BY <1>2, <1>3
      <4> QED
        BY <1>3, <4>1, SubSeqIs
    <3>2. D - 1 + 1 = D /\ \A k \in 1..D : 1 + k - 1 = k
      BY <1>2
    <3>3. \A k \in 1..D : SubSeq(chars, 1, D)[k] = Six(s, 6 * (k - 1))
      BY <1>3, <3>1, <3>2
    <3> QED
      BY <2>2, <3>1, <3>2, <3>3 DEF AreDigits
  <2> QED
    BY <2>1, <2>2
<1>9. Decode(chars) = [size |-> 3 * ((D * 8) \div 24), bytes |-> Decoding(data)[6 * Len(data)].out,
                       refused |-> FALSE]
  <2>1. L - (L - D) = D
    BY <1>2
  <2>2. data = IF Stops(chars) = {} THEN chars
               ELSE SubSeq(chars, 1, Min(Stops(chars)) - 1)
    <3>1. CASE D = L
      BY <1>7, <3>1, Zenon
    <3>2. CASE D # L
      <4>1. Min(Stops(chars)) - 1 = D
        <5> DEFINE m == Min(Stops(chars))
        <5>1. m = D + 1
          BY <1>7, <3>2, Zenon
        <5> HIDE DEF m
        <5>2. m - 1 = D
          BY <1>2, <5>1
        <5> QED
          BY <5>2 DEF m
      <4>2. Stops(chars) # {} /\ data = SubSeq(chars, 1, D)
        BY <1>7, <3>2, Zenon
      <4> QED
        BY <4>1, <4>2, Zenon
    <3> QED
      BY <3>1, <3>2
  <2>3. (Stops(chars) # {} /\ chars[Min(Stops(chars))] # Pad) = FALSE
    <3>1. CASE D = L
      BY <1>7, <3>1, Zenon
    <3>2. CASE D # L
      BY <1>7, <3>2, Zenon
    <3> QED
      BY <3>1, <3>2
  <2> HIDE DEF data
  <2> QED
    BY <1>3, <1>7, <2>1, <2>2, <2>3, Zenon DEF Decode
<1> HIDE DEF data
<1>10. Decoding(data)[6 * Len(data)].out = bytes
  <2> DEFINE n == 6 * Len(data)
  <2>1. n \in Nat /\ n >= 8 * Len(bytes) /\ n < 8 * Len(bytes) + 8
    BY <1>1, <1>2, <1>3, <1>8 DEF N
  <2>2. AreDigits(data, Stream(bytes)) /\ n = 6 * Len(data)
    BY <1>8 DEF s
  <2> HIDE DEF n
  <2>3. Decoding(data)[n].out = bytes
    BY <1>8, <2>1, <2>2, BackToBytes
  <2> QED
    BY <2>3 DEF n
<1>11. Encode(bytes) = RefEncode(bytes)
  BY EncodeAsRef
<1> QED
  BY <1>5, <1>9, <1>10, <1>11 DEF chars, N

-----------------------------------------------------------------------------
(***************************************************************************)
(* From a frame to a row.                                                  *)
(***************************************************************************)

\* What transform_bytes makes of two bytes.
LEMMA HighAndLow ==
  ASSUME NEW high \in Byte, NEW low \in Byte
  PROVE  /\ TransformBytes(high, low) = 256 * high + low
         /\ DecodedAsInt16(TransformBytes(high, low)) \/ high >= 128
         /\ TransformBytes(high, low) % 256 = low
<1>1. 2^16 = 65536 /\ 2^15 = 32768
  BY SMT
<1> QED
  BY <1>1 DEF TransformBytes, DecodedAsInt16, Byte

\* A byte more makes the sum larger by it, as long as there is room.
LEMMA AddedIs ==
  ASSUME NEW sum \in Nat, NEW byte \in Byte
  PROVE  /\ Added(sum, byte) \in Nat
         /\ sum <= 65000 => Added(sum, byte) = sum + byte
<1>1. 2^16 = 65536
  BY SMT
<1> QED
  BY <1>1, SMT DEF Added, Byte

\* So the function that sums up exists,
LEMMA ChecksumRuns ==
  ASSUME NEW frame \in [1..FrameSize -> Byte], NEW n \in Nat, n = FrameSize - 2,
         NEW C, C = Checksum(frame)
  PROVE  /\ C \in [0..n -> Nat]
         /\ C[0] = 0
         /\ \A k \in 1..n : C[k] = Added(C[k - 1], frame[k])
<1> DEFINE F == [p \in Nat \X (1..n) |-> Added(p[1], frame[p[2]])]
<1>1. \A k \in 1..n : frame[k] \in Byte
  BY DEF FrameSize
<1>2. ASSUME NEW sum \in Nat, NEW k \in 1..n
      PROVE  Added(sum, frame[k]) \in Nat
  <2>1. frame[k] \in Byte
    BY <1>1
  <2> QED
    BY <2>1, AddedIs
<1>3. F \in [Nat \X (1..n) -> Nat]
  BY <1>2
<1>4. \A sum \in Nat, k \in 1..n : F[<<sum, k>>] = Added(sum, frame[k])
  OBVIOUS
<1> HIDE DEF F
<1>5. PICK g \in [0..n -> Nat] : IsRun(g, F, 0, n)
  BY <1>3, LoopRuns
<1>6. g[0] = 0 /\ \A k \in 1..n : g[k] = F[<<g[k - 1], k>>]
  BY <1>5 DEF IsRun
<1>7. ASSUME NEW k \in 1..n
      PROVE  g[k] = Added(g[k - 1], frame[k])
  <2>1. g[k - 1] \in Nat
    BY <1>5
  <2> QED
    BY <1>4, <1>6, <2>1, Zenon
<1>8. g = [k \in 0..n |-> IF k = 0 THEN 0 ELSE Added(g[k - 1], frame[k])]
  BY <1>5, <1>6, <1>7
<1>9. C = [k \in 0..n |-> IF k = 0 THEN 0 ELSE Added(C[k - 1], frame[k])]
  BY <1>8 DEF Checksum
<1>10. C[0] = 0 /\ \A k \in 1..n : C[k] = Added(C[k - 1], frame[k])
  BY <1>9
<1>11. \A k \in 0..n : C[k] \in Nat
  <2> DEFINE T == {k \in Nat : C[k] \in Nat}
  <2>1. 0 \in T
    BY <1>10
  <2>2. ASSUME NEW k \in 1..n, k - 1 \in T
        PROVE  k \in T
    <3>1. C[k] = Added(C[k - 1], frame[k]) /\ C[k - 1] \in Nat
      BY <1>10, <2>2
    <3>2. Added(C[k - 1], frame[k]) \in Nat
      BY <1>2, <3>1
    <3>3. k \in Nat
      OBVIOUS
    <3> QED
      BY <3>1, <3>2, <3>3
  <2> HIDE DEF T
  <2>3. \A k \in 0..n : k \in T
    BY <2>1, <2>2, Induction
  <2> QED
    BY <2>3 DEF T
<1> QED
  BY <1>9, <1>10, <1>11

\* C[k] is the sum of the first k of some bytes.
Sums(C, bytes, n) ==
  /\ C \in [0..n -> Nat] /\ C[0] = 0
  /\ \A k \in 1..n : C[k] = C[k - 1] + bytes[k]

\* A byte is a small number.
LEMMA ByteIs ==
  ASSUME NEW byte \in Byte
  PROVE  byte \in Nat /\ byte <= 255
BY DEF Byte

\* and what it gives is the sum of the bytes, for which 16 bits are enough.
LEMMA SumsAreExact ==
  ASSUME NEW n \in Nat, n <= 30, NEW frame, \A k \in 1..n : frame[k] \in Byte,
         NEW C \in [0..n -> Nat], C[0] = 0,
         \A k \in 1..n : C[k] = Added(C[k - 1], frame[k])
  PROVE  Sums(C, frame, n)
<1> DEFINE T == {k \in Nat : C[k] <= 255 * k}
<1>1. 0 \in T
  OBVIOUS
<1>2. ASSUME NEW k \in 1..n, k - 1 \in T
      PROVE  k \in T /\ C[k] = C[k - 1] + frame[k]
  <2>1. C[k - 1] \in Nat /\ C[k - 1] <= 255 * (k - 1) /\ k <= 30
    BY <1>2
  <2>2. frame[k] \in Byte /\ C[k] = Added(C[k - 1], frame[k])
    OBVIOUS
  <2>3. C[k - 1] <= 65000
    BY <2>1
  <2>4. C[k] = C[k - 1] + frame[k]
    BY <2>1, <2>2, <2>3, AddedIs
  <2>5. frame[k] \in Nat /\ frame[k] <= 255
    BY <2>2, ByteIs
  <2>6. C[k - 1] + frame[k] <= 255 * k
    BY <2>1, <2>5
  <2> QED
    BY <2>4, <2>6
<1> HIDE DEF T
<1>3. \A k \in 1..n : k - 1 \in T => k \in T
  BY <1>2
<1>4. \A k \in 0..n : k \in T
  BY <1>1, <1>3, Induction
<1>5. \A k \in 1..n : C[k] = C[k - 1] + frame[k]
  BY <1>2, <1>4
<1> QED
  BY <1>5 DEF Sums

\* Two sums go on as they were as long as the bytes are the same.
LEMMA SumsGoOn ==
  ASSUME NEW n \in Nat, NEW frame, NEW other, NEW C, NEW D,
         Sums(C, frame, n), Sums(D, other, n), NEW k \in 1..n,
         frame[k] \in Nat, other[k] \in Nat
  PROVE  /\ C[n] \in Nat /\ D[n] \in Nat
         /\ D[k] - C[k] = (D[k - 1] - C[k - 1]) + (other[k] - frame[k])
<1>1. /\ C[k] = C[k - 1] + frame[k] /\ D[k] = D[k - 1] + other[k]
      /\ C[k - 1] \in Nat /\ D[k - 1] \in Nat /\ C[n] \in Nat /\ D[n] \in Nat
  BY DEF Sums
<1> QED
  BY <1>1

\* What one altered byte makes of the sum.
DifferBy(C, D, frame, other, n, i) ==
  D[n] - C[n] = IF i \in 1..n THEN other[i] - frame[i] ELSE 0

\* From an altered byte on the sums differ by as much as it does.
LEMMA SumsDiffer ==
  ASSUME NEW n \in Nat, NEW frame, NEW other, NEW i \in Nat,
         \A k \in 1..n : frame[k] \in Nat /\ other[k] \in Nat,
         \A k \in 1..n : k # i => other[k] = frame[k],
         NEW C, NEW D, Sums(C, frame, n), Sums(D, other, n)
  PROVE  DifferBy(C, D, frame, other, n, i)
<1> DEFINE Difference(k) == IF i \in 1..k THEN other[i] - frame[i] ELSE 0
           T == {k \in Nat : D[k] - C[k] = Difference(k)}
<1>1. 0 \in T
  BY DEF Sums
<1>2. ASSUME NEW k \in 1..n, k - 1 \in T
      PROVE  k \in T
  <2>1. D[k] - C[k] = Difference(k - 1) + (other[k] - frame[k])
    BY <1>2, SumsGoOn
  <2>2. CASE k = i
    <3>1. Difference(k - 1) = 0 /\ Difference(k) = other[k] - frame[k]
      BY <2>2
    <3> HIDE DEF Difference
    <3>2. D[k] - C[k] = Difference(k)
      BY <2>1, <3>1
    <3> QED
      BY <3>2
  <2>3. CASE k # i
    <3>1. Difference(k - 1) = Difference(k) /\ Difference(k) \in Int
      <4>1. i \in 1..k <=> i \in 1..(k - 1)
        BY <2>3
      <4>2. i \in 1..k => other[i] - frame[i] \in Int
        OBVIOUS
      <4> QED
        BY <4>1, <4>2
    <3>2. other[k] - frame[k] = 0
      BY <2>3
    <3> HIDE DEF Difference
    <3>3. D[k] - C[k] = Difference(k)
      BY <2>1, <3>1, <3>2
    <3> QED
      BY <3>3
  <2> QED
    BY <2>2, <2>3
<1> HIDE DEF T
<1>3. \A k \in 1..n : k - 1 \in T => k \in T
  BY <1>2
<1>4. \A k \in 0..n : k \in T
  BY <1>1, <1>3, Induction
<1>5. n \in T
  BY <1>4
<1> QED
  BY <1>5 DEF T, DifferBy

\* Whence the checksum of a frame is the sum of its bytes.
LEMMA SumsOf ==
  ASSUME NEW frame \in [1..FrameSize -> Byte]
  PROVE  Sums(Checksum(frame), frame, FrameSize - 2)
<1> DEFINE n == FrameSize - 2
           C == Checksum(frame)
<1>1. n \in Nat /\ n <= 30 /\ \A k \in 1..n : k \in 1..FrameSize
  BY DEF FrameSize
<1>2. \A k \in 1..n : frame[k] \in Byte
  BY <1>1
<1> HIDE DEF n, C
<1>3. /\ C \in [0..n -> Nat] /\ C[0] = 0
      /\ \A k \in 1..n : C[k] = Added(C[k - 1], frame[k])
  BY <1>1, ChecksumRuns DEF n, C
<1>4. Sums(C, frame, n)
  BY <1>1, <1>2, <1>3, SumsAreExact
<1> QED
  BY <1>4 DEF n, C

\* Whatever frame validates, with one byte altered it does not: the checksum does
\* not wrap around, and any byte that differs makes a difference (pms5003.c).
THEOREM AlteredByteIsFound ==
  ASSUME NEW frame \in [1..FrameSize -> Byte], ValidateData(frame) = 0,
         NEW i \in 1..FrameSize, NEW byte \in Byte, byte # frame[i]
  PROVE  ValidateData([frame EXCEPT ![i] = byte]) # 0
<1> DEFINE other == [frame EXCEPT ![i] = byte]
           n == FrameSize - 2
           C == Checksum(frame)
           D == Checksum(other)
<1> SUFFICES ASSUME ValidateData(other) = 0
             PROVE  FALSE
  OBVIOUS
<1>1. /\ n \in Nat /\ n + 1 \in 1..FrameSize /\ n + 2 = FrameSize /\ n + 2 \in 1..FrameSize
      /\ \A k \in 1..n : k \in 1..FrameSize
  BY DEF FrameSize
<1>2. other \in [1..FrameSize -> Byte] /\ other[i] = byte
      /\ \A k \in 1..FrameSize : k # i => other[k] = frame[k]
  OBVIOUS
<1> HIDE DEF other
<1>3. /\ C[n] - TransformBytes(frame[n + 1], frame[n + 2]) = 0
      /\ D[n] - TransformBytes(other[n + 1], other[n + 2]) = 0
  <2>1. 31 = n + 1 /\ 32 = n + 2 /\ -1 # 0
    BY DEF FrameSize
  <2> HIDE DEF n
  <2>2. ASSUME NEW valid, ValidateData(valid) = 0
        PROVE  Checksum(valid)[n] - TransformBytes(valid[n + 1], valid[n + 2]) = 0
    BY <2>1, <2>2, Zenon DEF ValidateData, n
  <2> QED
    BY <2>2
<1> HIDE DEF n, C, D
<1>4. D[n] - C[n] = IF i \in 1..n THEN other[i] - frame[i] ELSE 0
  <2>1. Sums(C, frame, n) /\ Sums(D, other, n)
    BY <1>2, SumsOf DEF C, D, n
  <2>2. \A k \in 1..n : frame[k] \in Nat /\ other[k] \in Nat
    BY <1>1, <1>2, ByteIs
  <2>3. \A k \in 1..n : k # i => other[k] = frame[k]
    BY <1>1, <1>2
  <2>4. i \in Nat
    BY <1>1
  <2>5. n \in Nat
    BY <1>1
  <2>6. DifferBy(C, D, frame, other, n, i)
    BY <2>1, <2>2, <2>3, <2>4, <2>5, SumsDiffer, Zenon
  <2> QED
    BY <2>6 DEF DifferBy
<1>5. C[n] \in Nat /\ D[n] \in Nat
  <2>1. Sums(C, frame, n) /\ Sums(D, other, n)
    BY <1>2, SumsOf DEF C, D, n
  <2>2. n \in 0..n
    BY <1>1
  <2> QED
    BY <2>1, <2>2 DEF Sums
<1>6. /\ TransformBytes(frame[n + 1], frame[n + 2]) = 256 * frame[n + 1] + frame[n + 2]
      /\ TransformBytes(other[n + 1], other[n + 2]) = 256 * other[n + 1] + other[n + 2]
  <2>1. /\ frame[n + 1] \in Byte /\ frame[n + 2] \in Byte
        /\ other[n + 1] \in Byte /\ other[n + 2] \in Byte
    BY <1>1, <1>2
  <2> QED
    BY <2>1, HighAndLow
<1>7. /\ frame[n + 1] \in Nat /\ frame[n + 2] \in Nat /\ frame[n + 2] <= 255
      /\ other[n + 1] \in Nat /\ other[n + 2] \in Nat /\ other[n + 2] <= 255
      /\ frame[i] \in Nat /\ other[i] \in Nat /\ other[i] # frame[i]
  BY <1>1, <1>2, ByteIs
<1>8. /\ C[n] = 256 * frame[n + 1] + frame[n + 2]
      /\ D[n] = 256 * other[n + 1] + other[n + 2]
  <2>1. \A h, l \in Nat : 256 * h + l \in Nat
    BY SMT
  <2>2. /\ 256 * frame[n + 1] + frame[n + 2] \in Nat
        /\ 256 * other[n + 1] + other[n + 2] \in Nat
    BY <1>7, <2>1
  <2> QED
    BY <1>3, <1>5, <1>6, <2>2
<1>9. CASE i \in 1..n
  <2>1. other[n + 1] = frame[n + 1] /\ other[n + 2] = frame[n + 2]
    BY <1>1, <1>2, <1>9
  <2>2. D[n] - C[n] = 0
    BY <1>5, <1>8, <2>1
  <2> QED
    BY <1>4, <1>7, <1>9, <2>2
<1>10. CASE i \notin 1..n
  <2>1. i = n + 1 \/ i = n + 2
    BY <1>1, <1>10
  <2>2. D[n] = C[n]
    BY <1>4, <1>5, <1>10
  <2>3. i = n + 1 => other[n + 2] = frame[n + 2]
    BY <1>1, <1>2
  <2>4. i = n + 2 => other[n + 1] = frame[n + 1]
    BY <1>1, <1>2
  <2> QED
    BY <1>7, <1>8, <2>1, <2>2, <2>3, <2>4
<1> QED
  BY <1>9, <1>10

\* Whatever the frame and the length of the name, a row tells what the sensor
\* measured, and only large values and names without an end are refused (utils.c,
\* dto.h, main.go).
THEOREM RowsAreMeasured ==
  ASSUME NEW frame \in [1..FrameSize -> Byte], NEW length \in Nat
  PROVE  RowIsMeasured(length, frame)
<1>1. ASSUME NEW m \in 1..3
      PROVE  /\ High(frame, m) \in Byte /\ Low(frame, m) \in Byte
             /\ Measurement(frame)[m] = TransformBytes(High(frame, m), Low(frame, m))
  <2>1. 2*m + 3 \in 1..FrameSize /\ 2*m + 4 \in 1..FrameSize
    BY DEF FrameSize
  <2> QED
    BY <2>1 DEF High, Low, Measurement
<1>2. ASSUME NEW m \in 1..3
      PROVE  /\ Measurement(frame)[m] = 256 * High(frame, m) + Low(frame, m)
             /\ DecodedAsInt16(Measurement(frame)[m]) \/ High(frame, m) >= 128
             /\ Measurement(frame)[m] % 256 = Low(frame, m)
  BY <1>1, HighAndLow
<1>3. Following(frame, 1) = Low(frame, 1)
  BY <1>2 DEF Following
<1>4. Overrun(length, frame) => length = NameSize /\ Low(frame, 1) # 0
  BY <1>3 DEF Overrun
<1>5. \A m \in 1..3 : ~DecodedAsInt16(Measurement(frame)[m]) => High(frame, m) >= 128
  BY <1>2
<1>6. CASE Accepted(length, frame)
  BY <1>2, <1>6 DEF RowIsMeasured
<1>7. CASE ~Accepted(length, frame)
  BY <1>4, <1>5, <1>7 DEF RowIsMeasured, Accepted
<1> QED
  BY <1>6, <1>7
=============================================================================
