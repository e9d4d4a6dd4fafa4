----------------------------- MODULE FormProofs -----------------------------
(***************************************************************************)
(* Of the algorithms of Codecs, those of the C server that read a query    *)
(* and a form, for texts of any length and tokens; and so the properties   *)
(* of MCCodecs for all of its inputs, whatever their bounds.               *)
(***************************************************************************)
EXTENDS CodecsProofs, MCCodecs

\* The cuts of a text are its separators, in their order, between its beginning and
\* its end.
LEMMA CutsAreOrdered ==
  ASSUME NEW T, NEW text \in Seq(T), NEW sep, NEW n, n = Cardinality(Positions(text, sep))
  PROVE  /\ n \in Nat
         /\ Cut(text, sep, 0) = 0 /\ Cut(text, sep, n + 1) = Len(text) + 1
         /\ \A k \in 0..(n + 1) : Cut(text, sep, k) \in 0..(Len(text) + 1)
         /\ \A k \in 1..n : Cut(text, sep, k) \in Positions(text, sep)
         /\ \A j, k \in 0..(n + 1) : j < k => Cut(text, sep, j) < Cut(text, sep, k)
         /\ \A i \in Positions(text, sep) : \E k \in 1..n : Cut(text, sep, k) = i
<1> DEFINE S == Positions(text, sep)
           L == Len(text)
<1>1. L \in Nat /\ S \subseteq 1..L
  BY DEF Positions
<1>2. /\ n = Cardinality(S) /\ n \in Nat /\ IsFiniteSet(S)
      /\ \A i \in 0..L : IsFiniteSet(UpTo(S, i)) /\ Cardinality(UpTo(S, i)) \in Nat
  BY <1>1, UpToSteps
<1>3. /\ Cut(text, sep, 0) = 0 /\ Cut(text, sep, n + 1) = L + 1
      /\ \A k \in 1..n : Cut(text, sep, k) = Nth(S, k)
  BY <1>2 DEF Cut
<1> HIDE DEF S, L
<1>4. \A k \in 1..n : /\ Nth(S, k) \in S /\ Nth(S, k) \in 1..L
                      /\ Cardinality(UpTo(S, Nth(S, k))) = k
  BY <1>1, <1>2, NthIs
<1>5. ASSUME NEW a \in 1..n, NEW b \in 1..n, a < b
      PROVE  Nth(S, a) < Nth(S, b)
  <2> DEFINE i == Nth(S, a)
             j == Nth(S, b)
  <2>2. /\ i \in S /\ i \in Int /\ Cardinality(UpTo(S, i)) = a
        /\ j \in S /\ j \in Int /\ Cardinality(UpTo(S, j)) = b
    BY <1>4
  <2> HIDE DEF i, j
  <2>3. \A x, y \in S : x < y => Cardinality(UpTo(S, x)) < Cardinality(UpTo(S, y))
    BY <1>1, UpToGrows
  <2>4. ~(j < i) /\ i # j
    BY <1>5, <2>2, <2>3
  <2>5. i < j
    BY <2>2, <2>4
  <2> QED
    BY <2>5 DEF i, j
<1>6. ASSUME NEW i \in S
      PROVE  \E k \in 1..n : Nth(S, k) = i
  <2> DEFINE k == Cardinality(UpTo(S, i))
  <2>1. i \in 1..L /\ k \in Nat
    BY <1>1, <1>2
  <2>2. k \in 1..n
    <3>1. UpTo(S, i) \in SUBSET S /\ i \in UpTo(S, i)
      BY <2>1 DEF UpTo
    <3>2. IsFiniteSet(S) /\ IsFiniteSet(UpTo(S, i))
      BY <1>2, <2>1
    <3>3. k <= n
      BY <3>1, <3>2, <1>2, FS_Subset
    <3>4. k # 0
      BY <3>1, <3>2, FS_EmptySet
    <3> QED
      BY <2>1, <3>3, <3>4, <1>2
  <2>3. i = Nth(S, k)
    BY <1>1, <1>2, <2>2, NthIs
  <2> QED
    BY <2>2, <2>3
<1>7. \A k \in 0..(n + 1) : Cut(text, sep, k) \in 0..(L + 1)
  <2>1. \A k \in 0..(n + 1) : k = 0 \/ k = n + 1 \/ k \in 1..n
    BY <1>2
  <2> QED
    BY <1>1, <1>3, <1>4, <2>1
<1>8. ASSUME NEW j \in 0..(n + 1), NEW k \in 0..(n + 1), j < k
      PROVE  Cut(text, sep, j) < Cut(text, sep, k)
  <2>0. /\ j = 0 \/ j \in 1..n
        /\ k = n + 1 \/ k \in 1..n
    BY <1>2, <1>8
  <2>1. CASE j \in 1..n /\ k \in 1..n
    BY <1>3, <1>5, <1>8, <2>1
  <2>2. CASE j = 0 /\ k \in 1..n
    BY <1>3, <1>4, <2>2
  <2>3. CASE j = 0 /\ k = n + 1
    BY <1>1, <1>3, <2>3
  <2>4. CASE j \in 1..n /\ k = n + 1
    <3>1. Nth(S, j) \in 1..L
      BY <1>4, <2>4
    <3> QED
      BY <1>1, <1>3, <2>4, <3>1
  <2> QED
    BY <2>0, <2>1, <2>2, <2>3, <2>4
<1> QED
  BY <1>2, <1>3, <1>4, <1>6, <1>7, <1>8 DEF S, L

-----------------------------------------------------------------------------
\* A name that begins a stretch of a text.
LEMMA PrefixAt ==
  ASSUME NEW T, NEW text \in Seq(T), NEW name \in Seq(T),
         NEW i \in 0..Len(text), NEW e \in (i + 1)..(Len(text) + 1)
  PROVE  IsPrefix(name, SubSeq(text, i + 1, e - 1)) <=>
           /\ i + Len(name) <= e - 1
           /\ \A j \in 1..Len(name) : name[j] = text[i + j]
<1> DEFINE part == SubSeq(text, i + 1, e - 1)
           n == Len(name)
<1>0. n \in Nat /\ Len(text) \in Nat /\ i \in Int /\ e \in Int
  OBVIOUS
<1>1. /\ part \in Seq(T) /\ Len(part) = e - 1 - i
      /\ \A j \in 1..(e - 1 - i) : part[j] = text[i + j]
  <2>1. \A j \in (i + 1)..(e - 1) : text[j] \in T
    BY ElementOfSeq
  <2>2. /\ part \in Seq(T)
        /\ Len(part) = IF i + 1 <= e - 1 THEN e - 1 - (i + 1) + 1 ELSE 0
        /\ \A j \in 1..(e - 1 - (i + 1) + 1) : part[j] = text[i + 1 + j - 1]
    BY <2>1, <1>0, SubSeqProperties
  <2>3. \A j \in Int : i + 1 + j - 1 = i + j
    OBVIOUS
  <2> QED
    BY <2>2, <2>3
<1>2. SubSeq(name, 1, n) = name
  BY SubSeqFull
<1> HIDE DEF part, n
<1>3. ASSUME n <= Len(part)
      PROVE  /\ SubSeq(part, 1, n) \in Seq(T) /\ Len(SubSeq(part, 1, n)) = n
             /\ \A j \in 1..n : SubSeq(part, 1, n)[j] = part[j]
  <2>1. \A j \in 1..n : part[j] \in T
    BY <1>0, <1>1, <1>3, ElementOfSeq
  <2>2. /\ SubSeq(part, 1, n) \in Seq(T)
        /\ Len(SubSeq(part, 1, n)) = IF 1 <= n THEN n - 1 + 1 ELSE 0
        /\ \A j \in 1..(n - 1 + 1) : SubSeq(part, 1, n)[j] = part[1 + j - 1]
    <3>1. 1 \in Int /\ n \in Int
      BY <1>0
    <3> QED
      BY <2>1, <3>1, SubSeqProperties
  <2>3. n - 1 + 1 = n /\ \A j \in Int : 1 + j - 1 = j
    BY <1>0
  <2>4. (IF 1 <= n THEN n - 1 + 1 ELSE 0) = n
    BY <1>0
  <2> QED
    BY <2>2, <2>3, <2>4
<1>4. CASE n <= Len(part)
  <2>1. SubSeq(part, 1, n) = name <=> \A j \in 1..n : part[j] = name[j]
    BY <1>3, <1>4, SeqEqual DEF n
  <2> QED
    BY <1>0, <1>1, <1>4, <2>1 DEF IsPrefix, part, n
<1>5. CASE ~(n <= Len(part))
  BY <1>0, <1>1, <1>5 DEF IsPrefix, part, n
<1> QED
  BY <1>4, <1>5

-----------------------------------------------------------------------------
\* The states of the search for a parameter.
SearchState == [start : Nat, len : Nat, seen : BOOLEAN, done : BOOLEAN]

\* A token of the search leads from states to states.
LEMMA LookAtType ==
  ASSUME NEW endpoint, NEW name, NEW st \in SearchState, NEW i \in Nat
  PROVE  LookAt(endpoint, name, st, i) \in SearchState
<1>1. [st EXCEPT !.done = TRUE] \in SearchState
  BY DEF SearchState
<1>2. [st EXCEPT !.len = @ + 1] \in SearchState
  BY DEF SearchState
<1>3. ASSUME NEW from \in Nat, NEW b \in BOOLEAN
      PROVE  [st EXCEPT !.start = from, !.seen = b] \in SearchState
  BY DEF SearchState
<1>4. (st.seen \/ endpoint[i] = "?") \in BOOLEAN
  OBVIOUS
<1>5. (IF StartsAt(endpoint, name, st.seen, i) THEN i + 1 ELSE 0) \in Nat
  OBVIOUS
<1> QED
  BY <1>1, <1>2, <1>3, <1>4, <1>5 DEF LookAt

\* So the search passes through states.
LEMMA SearchRuns ==
  ASSUME NEW endpoint, NEW name, NEW L \in Nat, L = Len(endpoint),
         NEW S, S = Search(endpoint, name)
  PROVE  /\ S \in [0..L -> SearchState]
         /\ S[0] = StartOfSearch
         /\ \A i \in 1..L : S[i] = LookAt(endpoint, name, S[i - 1], i)
<1> DEFINE F == [p \in SearchState \X (1..L) |-> LookAt(endpoint, name, p[1], p[2])]
<1>1. F \in [SearchState \X (1..L) -> SearchState]
  BY LookAtType
<1>2. \A st \in SearchState, i \in 1..L : F[<<st, i>>] = LookAt(endpoint, name, st, i)
  OBVIOUS
<1> HIDE DEF F
<1>3. StartOfSearch \in SearchState
  BY DEF StartOfSearch, SearchState
<1>4. PICK g \in [0..L -> SearchState] : IsRun(g, F, StartOfSearch, L)
  BY <1>1, <1>3, LoopRuns, Zenon
<1>5. /\ g[0] = StartOfSearch
      /\ \A k \in 1..L : g[k] = F[<<g[k - 1], k>>]
  BY <1>4 DEF IsRun
<1>6. ASSUME NEW k \in 1..L
      PROVE  g[k] = LookAt(endpoint, name, g[k - 1], k)
  <2>1. g[k - 1] \in SearchState
    BY <1>4
  <2> QED
    BY <1>2, <1>5, <2>1, Zenon
<1>7. g = [k \in 0..L |-> IF k = 0 THEN StartOfSearch
                          ELSE LookAt(endpoint, name, g[k - 1], k)]
  BY <1>4, <1>5, <1>6
<1>8. S = [k \in 0..L |-> IF k = 0 THEN StartOfSearch
                          ELSE LookAt(endpoint, name, S[k - 1], k)]
  BY <1>7 DEF Search
<1>9. /\ S[0] = StartOfSearch
      /\ \A k \in 1..L : S[k] = LookAt(endpoint, name, S[k - 1], k)
  BY <1>8
<1>10. \A k \in 0..L : S[k] = g[k]
  <2> DEFINE T == {k \in Nat : S[k] = g[k]}
  <2>1. 0 \in T
    BY <1>5, <1>9
  <2>2. \A k \in 1..L : k - 1 \in T => k \in T
    BY <1>6, <1>9
  <2> HIDE DEF T
  <2>3. \A k \in 0..L : k \in T
    BY <2>1, <2>2, Induction
  <2> QED
    BY <2>3 DEF T
<1>11. S \in [0..L -> SearchState]
  BY <1>4, <1>8, <1>10
<1> QED
  BY <1>9, <1>11

-----------------------------------------------------------------------------
\* A parameter begins after the first ?, and after every & from there on.
Begins(endpoint, i) ==
  IF \E j \in 1..(i - 1) : endpoint[j] = "?" THEN endpoint[i] = "&" ELSE endpoint[i] = "?"

\* A parameter whose beginning is the name.
Hit(endpoint, name, i) ==
  Begins(endpoint, i) /\ IsPrefix(name, SubSeq(endpoint, i + 1, Len(endpoint)))

\* The invariant of the search: before a hit no parameter began with the name, and
\* after it the first hit is where the value begins, which is read up to i or ended.
SearchInv(endpoint, name, st, i) ==
  /\ st.start = 0 =>
       /\ st.len = 0 /\ ~st.done
       /\ st.seen <=> \E j \in 1..i : endpoint[j] = "?"
       /\ \A j \in 1..i : ~Hit(endpoint, name, j)
  /\ st.start > 0 =>
       /\ st.start - 1 \in 1..i /\ Hit(endpoint, name, st.start - 1)
       /\ \A j \in 1..(st.start - 2) : ~Hit(endpoint, name, j)
       /\ \A j \in st.start..(st.start + st.len - 1) : endpoint[j] # "&"
       /\ IF st.done THEN st.start + st.len <= i /\ endpoint[st.start + st.len] = "&"
          ELSE st.start + st.len = i + 1

\* A token of the search keeps that.
LEMMA SearchStep ==
  ASSUME NEW endpoint, NEW name, NEW st \in SearchState, NEW i \in Nat \ {0},
         SearchInv(endpoint, name, st, i - 1),
         NEW new, new = LookAt(endpoint, name, st, i)
  PROVE  SearchInv(endpoint, name, new, i)
<1>0. st.start \in Nat /\ st.len \in Nat /\ st.seen \in BOOLEAN /\ st.done \in BOOLEAN
  BY DEF SearchState
<1>1. CASE st.done
  <2>1. new = st /\ st.start > 0
    BY <1>0, <1>1 DEF LookAt, SearchInv
  <2> QED
    BY <1>0, <1>1, <2>1 DEF SearchInv
<1>2. CASE ~st.done /\ st.start > 0 /\ endpoint[i] = "&"
  <2>1. new = [st EXCEPT !.done = TRUE]
    BY <1>2 DEF LookAt
  <2>2. new.start = st.start /\ new.len = st.len /\ new.done = TRUE
    BY <2>1 DEF SearchState
  <2> QED
    BY <1>0, <1>2, <2>2 DEF SearchInv
<1>3. CASE ~st.done /\ st.start > 0 /\ endpoint[i] # "&"
  <2>1. new = [st EXCEPT !.len = @ + 1]
    BY <1>3 DEF LookAt
  <2>2. new.start = st.start /\ new.len = st.len + 1 /\ new.done = FALSE
    BY <1>3, <2>1 DEF SearchState
  <2> QED
    BY <1>0, <1>3, <2>2 DEF SearchInv
<1>4. CASE ~st.done /\ st.start = 0
  <2>1. new = [st EXCEPT !.start = IF StartsAt(endpoint, name, st.seen, i) THEN i + 1 ELSE 0,
                         !.seen = @ \/ endpoint[i] = "?"]
    BY <1>4 DEF LookAt
  <2>2. /\ new.start = IF StartsAt(endpoint, name, st.seen, i) THEN i + 1 ELSE 0
        /\ new.seen <=> st.seen \/ endpoint[i] = "?"
        /\ new.len = st.len /\ new.done = FALSE
    BY <1>4, <2>1 DEF SearchState
  <2>3. /\ st.len = 0
        /\ st.seen <=> \E j \in 1..(i - 1) : endpoint[j] = "?"
        /\ \A j \in 1..(i - 1) : ~Hit(endpoint, name, j)
    BY <1>4 DEF SearchInv
  <2>4. StartsAt(endpoint, name, st.seen, i) <=> Hit(endpoint, name, i)
    BY <2>3 DEF StartsAt, Hit, Begins
  <2>5. CASE StartsAt(endpoint, name, st.seen, i)
    <3>1. new.start = i + 1 /\ new.len = 0 /\ ~new.done
      BY <2>2, <2>3, <2>5
    <3> QED
      BY <2>3, <2>4, <2>5, <3>1 DEF SearchInv
  <2>6. CASE ~StartsAt(endpoint, name, st.seen, i)
    <3>1. new.start = 0 /\ new.len = 0 /\ ~new.done
      BY <2>2, <2>3, <2>6
    <3>2. \A j \in 1..i : ~Hit(endpoint, name, j)
      BY <2>3, <2>4, <2>6
    <3>3. new.seen <=> \E j \in 1..i : endpoint[j] = "?"
      <4>1. \A j \in 1..i : j = i \/ j \in 1..(i - 1)
        OBVIOUS
      <4>2. i \in 1..i /\ \A j \in 1..(i - 1) : j \in 1..i
        OBVIOUS
      <4> QED
        BY <2>2, <2>3, <4>1, <4>2
    <3> QED
      BY <3>1, <3>2, <3>3 DEF SearchInv
  <2> QED
    BY <2>5, <2>6
<1> QED
  BY <1>0, <1>1, <1>2, <1>3, <1>4

\* So it holds at the end of the endpoint.
LEMMA SearchEnds ==
  ASSUME NEW endpoint, NEW name, NEW L \in Nat, L = Len(endpoint),
         NEW st, st = Search(endpoint, name)[L]
  PROVE  st \in SearchState /\ SearchInv(endpoint, name, st, L)
<1>1. PICK S : S = Search(endpoint, name)
  OBVIOUS
<1>2. /\ S \in [0..L -> SearchState]
      /\ S[0] = StartOfSearch
      /\ \A i \in 1..L : S[i] = LookAt(endpoint, name, S[i - 1], i)
  BY <1>1, SearchRuns
<1> DEFINE T == {i \in 0..L : SearchInv(endpoint, name, S[i], i)}
<1>3. 0 \in T
  <2>1. SearchInv(endpoint, name, StartOfSearch, 0)
    BY DEF SearchInv, StartOfSearch
  <2> QED
    BY <1>2, <2>1
<1>4. ASSUME NEW i \in 1..L, i - 1 \in T
      PROVE  i \in T
  <2>1. S[i - 1] \in SearchState /\ SearchInv(endpoint, name, S[i - 1], i - 1)
    BY <1>2, <1>4
  <2>2. i \in Nat \ {0} /\ S[i] = LookAt(endpoint, name, S[i - 1], i)
    BY <1>2
  <2>3. SearchInv(endpoint, name, S[i], i)
    BY <2>1, <2>2, SearchStep
  <2> QED
    BY <2>3
<1> HIDE DEF T
<1>5. L \in T
  <2>1. \A i \in 0..L : i \in T
    BY <1>3, <1>4, Induction
  <2> QED
    BY <2>1
<1> QED
  BY <1>1, <1>2, <1>5 DEF T

\* A stretch of a stretch.
LEMMA SubSeqTwice ==
  ASSUME NEW T, NEW text \in Seq(T), NEW i \in 1..(Len(text) + 1),
         NEW j \in Int, j <= Len(text), i <= j + 1,
         NEW m \in 1..(j - i + 2), NEW n \in Int, n <= j - i + 1, m <= n + 1
  PROVE  SubSeq(SubSeq(text, i, j), m, n) = SubSeq(text, i + m - 1, i + n - 1)
<1> DEFINE part == SubSeq(text, i, j)
<1>0. Len(text) \in Nat /\ i \in Int /\ m \in Int
  OBVIOUS
<1>1. /\ part \in Seq(T) /\ Len(part) = j - i + 1
      /\ \A k \in 1..(j - i + 1) : part[k] = text[i + k - 1]
  BY SubSeqIs
<1>2. /\ SubSeq(text, i + m - 1, i + n - 1) \in Seq(T)
      /\ Len(SubSeq(text, i + m - 1, i + n - 1)) = n - m + 1
      /\ \A k \in 1..(n - m + 1) :
            SubSeq(text, i + m - 1, i + n - 1)[k] = text[i + m + k - 2]
  <2>1. /\ i + m - 1 \in 1..(Len(text) + 1) /\ i + n - 1 \in Int
        /\ i + n - 1 <= Len(text) /\ i + m - 1 <= i + n - 1 + 1
    BY <1>0
  <2> DEFINE a == i + m - 1
             b == i + n - 1
  <2>2. /\ SubSeq(text, a, b) \in Seq(T)
        /\ Len(SubSeq(text, a, b)) = b - a + 1
        /\ \A k \in 1..(b - a + 1) : SubSeq(text, a, b)[k] = text[a + k - 1]
    <3> HIDE DEF a, b
    <3>1. a \in 1..(Len(text) + 1) /\ b \in Int /\ b <= Len(text) /\ a <= b + 1
      BY <2>1 DEF a, b
    <3> QED
      BY <3>1, SubSeqIs
  <2>3. b - a + 1 = n - m + 1 /\ \A k \in Int : a + k - 1 = i + m + k - 2
    BY <1>0
  <2> HIDE DEF a, b
  <2>4. /\ SubSeq(text, a, b) \in Seq(T)
        /\ Len(SubSeq(text, a, b)) = n - m + 1
        /\ \A k \in 1..(n - m + 1) : SubSeq(text, a, b)[k] = text[i + m + k - 2]
    BY <2>2, <2>3
  <2> QED
    BY <2>4 DEF a, b
<1> HIDE DEF part
<1>3. /\ SubSeq(part, m, n) \in Seq(T)
      /\ Len(SubSeq(part, m, n)) = n - m + 1
      /\ \A k \in 1..(n - m + 1) : SubSeq(part, m, n)[k] = part[m + k - 1]
  <2>1. m \in 1..(Len(part) + 1) /\ n <= Len(part)
    BY <1>1
  <2> QED
    BY <1>1, <2>1, SubSeqIs
<1>4. \A k \in 1..(n - m + 1) : m + k - 1 \in 1..(j - i + 1) /\ i + (m + k - 1) - 1 = i + m + k - 2
  BY <1>0
<1>5. \A k \in 1..(n - m + 1) : SubSeq(part, m, n)[k] = SubSeq(text, i + m - 1, i + n - 1)[k]
  BY <1>1, <1>2, <1>3, <1>4
<1>6. SubSeq(part, m, n) = SubSeq(text, i + m - 1, i + n - 1)
  BY <1>2, <1>3, <1>5, SeqEqual
<1> QED
  BY <1>6 DEF part

\* The parameters of an endpoint: k begins after b[k] and ends before e[k].
AreParams(endpoint, params, m, b, e) ==
  /\ DOMAIN params = 1..m
  /\ \A k \in 1..m :
       /\ params[k] = SubSeq(endpoint, b[k] + 1, e[k] - 1)
       /\ b[k] < e[k] /\ Begins(endpoint, b[k])
       /\ e[k] = Len(endpoint) + 1 \/ endpoint[e[k]] = "&"
       /\ \A j \in (b[k] + 1)..(e[k] - 1) : endpoint[j] # "&"
  /\ \A j, k \in 1..m : j < k => b[j] < b[k]
  /\ \A i \in 1..Len(endpoint) : Begins(endpoint, i) => \E k \in 1..m : b[k] = i

\* The parts of the query are the parameters of the endpoint.
LEMMA QueryParams ==
  ASSUME NEW T, NEW endpoint \in Seq(T), NEW L \in Nat, L = Len(endpoint),
         NEW q \in 1..L, endpoint[q] = "?", \A j \in 1..(q - 1) : endpoint[j] # "?",
         NEW params, params = Split(SubSeq(endpoint, q + 1, L), "&")
  PROVE  \E m \in Nat \ {0} : \E b, e \in [1..m -> 1..(L + 1)] :
           AreParams(endpoint, params, m, b, e)
<1> DEFINE query == SubSeq(endpoint, q + 1, L)
           amps == Positions(query, "&")
           n == Cardinality(amps)
           C(k) == Cut(query, "&", k)
<1>1. /\ query \in Seq(T) /\ Len(query) = L - q
      /\ \A i \in 1..(L - q) : query[i] = endpoint[q + i]
  <2>1. q + 1 \in 1..(Len(endpoint) + 1) /\ L \in Int /\ L <= Len(endpoint) /\ q + 1 <= L + 1
    OBVIOUS
  <2>2. /\ query \in Seq(T) /\ Len(query) = L - (q + 1) + 1
        /\ \A i \in 1..(L - (q + 1) + 1) : query[i] = endpoint[q + 1 + i - 1]
    BY <2>1, SubSeqIs
  <2>3. L - (q + 1) + 1 = L - q /\ \A i \in Int : q + 1 + i - 1 = q + i
    OBVIOUS
  <2> QED
    BY <2>2, <2>3
<1> HIDE DEF query
<1>2. /\ n \in Nat
      /\ C(0) = 0 /\ C(n + 1) = L - q + 1
      /\ \A k \in 0..(n + 1) : C(k) \in 0..(L - q + 1)
      /\ \A k \in 1..n : C(k) \in amps
      /\ \A j, k \in 0..(n + 1) : j < k => C(j) < C(k)
      /\ \A i \in amps : \E k \in 1..n : C(k) = i
  BY <1>1, CutsAreOrdered
<1>3. \A i : i \in amps <=> i \in 1..(L - q) /\ endpoint[q + i] = "&"
  BY <1>1 DEF Positions
<1>4. /\ DOMAIN params = 1..(n + 1)
      /\ \A k \in 1..(n + 1) : params[k] = SubSeq(query, C(k - 1) + 1, C(k) - 1)
  BY DEF Split, query
<1> HIDE DEF C, n, amps
<1> DEFINE b == [k \in 1..(n + 1) |-> q + C(k - 1)]
           e == [k \in 1..(n + 1) |-> q + C(k)]
<1>5. ASSUME NEW k \in 1..(n + 1)
      PROVE  /\ C(k - 1) \in 0..(L - q) /\ C(k) \in 1..(L - q + 1) /\ C(k - 1) < C(k)
             /\ b[k] = q + C(k - 1) /\ e[k] = q + C(k)
             /\ b[k] \in 1..L /\ e[k] \in 1..(L + 1) /\ b[k] < e[k]
  <2>1. k - 1 \in 0..(n + 1) /\ k \in 0..(n + 1) /\ k - 1 < k
    BY <1>2
  <2>2. C(k - 1) \in 0..(L - q + 1) /\ C(k) \in 0..(L - q + 1) /\ C(k - 1) < C(k)
    BY <1>2, <2>1
  <2> QED
    BY <2>2
<1>5a. n + 1 \in Nat \ {0} /\ b \in [1..(n + 1) -> 1..(L + 1)] /\ e \in [1..(n + 1) -> 1..(L + 1)]
  <2>1. n + 1 \in Nat \ {0}
    BY <1>2
  <2>2. \A k \in 1..(n + 1) : q + C(k - 1) \in 1..(L + 1) /\ q + C(k) \in 1..(L + 1)
    BY <1>5
  <2> QED
    BY <2>1, <2>2
<1> HIDE DEF b, e
<1>6. ASSUME NEW k \in 1..(n + 1)
      PROVE  params[k] = SubSeq(endpoint, b[k] + 1, e[k] - 1)
  <2>0. PICK c \in 0..(L - q), d \in 1..(L - q + 1) :
          c = C(k - 1) /\ d = C(k) /\ c < d /\ b[k] = q + c /\ e[k] = q + d
    BY <1>5
  <2> DEFINE i == c + 1
             j == d - 1
  <2>1. /\ i \in 1..(L - (q + 1) + 2) /\ j \in Int
        /\ j <= L - (q + 1) + 1 /\ i <= j + 1
    BY <2>0
  <2>5. q + 1 + i - 1 = b[k] + 1
    BY <2>0
  <2>6. q + 1 + j - 1 = e[k] - 1
    BY <2>0
  <2>2. q + 1 \in 1..(Len(endpoint) + 1) /\ L \in Int /\ L <= Len(endpoint) /\ q + 1 <= L + 1
    OBVIOUS
  <2> HIDE DEF i, j
  <2>3. SubSeq(query, i, j) = SubSeq(endpoint, q + 1 + i - 1, q + 1 + j - 1)
    BY <2>1, <2>2, SubSeqTwice DEF query
  <2>4. params[k] = SubSeq(query, i, j)
    BY <1>4, <2>0 DEF i, j
  <2> QED
    BY <2>3, <2>4, <2>5, <2>6
<1>7. ASSUME NEW k \in 1..(n + 1)
      PROVE  Begins(endpoint, b[k])
  <2>1. CASE k = 1
    <3>1. b[k] = q
      BY <1>2, <1>5, <2>1
    <3> QED
      BY <3>1 DEF Begins
  <2>2. CASE k # 1
    <3>1. k - 1 \in 1..n
      BY <1>2, <2>2
    <3>2. C(k - 1) \in 1..(L - q) /\ endpoint[q + C(k - 1)] = "&"
      BY <1>2, <1>3, <3>1
    <3>3. endpoint[b[k]] = "&" /\ q \in 1..(b[k] - 1)
      BY <1>5, <3>2
    <3> QED
      BY <3>3 DEF Begins
  <2> QED
    BY <2>1, <2>2
<1>8. ASSUME NEW k \in 1..(n + 1)
      PROVE  e[k] = L + 1 \/ endpoint[e[k]] = "&"
  <2>1. CASE k = n + 1
    BY <1>2, <1>5, <2>1
  <2>2. CASE k # n + 1
    <3>1. k \in 1..n
      BY <1>2, <2>2
    <3> QED
      BY <1>2, <1>3, <1>5, <3>1
  <2> QED
    BY <2>1, <2>2
<1>9. ASSUME NEW k \in 1..(n + 1), NEW j \in (b[k] + 1)..(e[k] - 1)
      PROVE  endpoint[j] # "&"
  <2>1. SUFFICES ASSUME endpoint[j] = "&"
                 PROVE  FALSE
    OBVIOUS
  <2>0. /\ b[k] = q + C(k - 1) /\ e[k] = q + C(k) /\ C(k - 1) \in 0..(L - q)
        /\ C(k) \in 1..(L - q + 1)
    BY <1>5
  <2>2. j - q \in 1..(L - q) /\ q + (j - q) = j /\ C(k - 1) < j - q /\ j - q < C(k)
    BY <2>0
  <2>3. PICK i \in 1..n : C(i) = j - q
    BY <1>2, <1>3, <2>1, <2>2
  <2>4. i \in 0..(n + 1) /\ k \in 0..(n + 1) /\ k - 1 \in 0..(n + 1)
    BY <1>2
  <2>5. C(i) \in Int /\ C(k - 1) \in Int /\ C(k) \in Int
    BY <1>2, <2>4
  <2>6. ~(i < k - 1) /\ i # k - 1
    BY <1>2, <2>2, <2>3, <2>4, <2>5
  <2>7. ~(k < i) /\ i # k
    BY <1>2, <2>2, <2>3, <2>4, <2>5
  <2> QED
    BY <1>2, <2>6, <2>7
<1>10. ASSUME NEW j \in 1..(n + 1), NEW k \in 1..(n + 1), j < k
       PROVE  b[j] < b[k]
  <2>1. j - 1 \in 0..(n + 1) /\ k - 1 \in 0..(n + 1) /\ j - 1 < k - 1
    BY <1>2, <1>10
  <2>2. C(j - 1) < C(k - 1)
    BY <1>2, <2>1
  <2>3. b[j] = q + C(j - 1) /\ b[k] = q + C(k - 1) /\ C(j - 1) \in Int /\ C(k - 1) \in Int
    BY <1>5
  <2> QED
    BY <2>2, <2>3
<1>11. ASSUME NEW i \in 1..L, Begins(endpoint, i)
       PROVE  \E k \in 1..(n + 1) : b[k] = i
  <2>1. CASE i = q
    <3>1. 1 \in 1..(n + 1) /\ b[1] = q
      BY <1>2, <1>5
    <3> QED
      BY <2>1, <3>1
  <2>2. CASE i # q
    <3>1. endpoint[i] = "&" /\ i > q
      BY <1>11, <2>2 DEF Begins
    <3>2. i - q \in 1..(L - q) /\ q + (i - q) = i
      BY <3>1
    <3>3. PICK k \in 1..n : C(k) = i - q
      BY <1>2, <1>3, <3>1, <3>2
    <3>4. k + 1 \in 1..(n + 1) /\ k + 1 - 1 = k
      BY <1>2
    <3>5. b[k + 1] = i
      BY <1>5, <3>2, <3>3, <3>4
    <3> QED
      BY <3>4, <3>5
  <2> QED
    BY <2>1, <2>2
<1>12. /\ DOMAIN params = 1..(n + 1)
       /\ \A k \in 1..(n + 1) :
            /\ params[k] = SubSeq(endpoint, b[k] + 1, e[k] - 1)
            /\ b[k] < e[k] /\ Begins(endpoint, b[k])
            /\ e[k] = L + 1 \/ endpoint[e[k]] = "&"
            /\ \A j \in (b[k] + 1)..(e[k] - 1) : endpoint[j] # "&"
       /\ \A j, k \in 1..(n + 1) : j < k => b[j] < b[k]
       /\ \A i \in 1..L : Begins(endpoint, i) => \E k \in 1..(n + 1) : b[k] = i
  BY <1>4, <1>5, <1>6, <1>7, <1>8, <1>9, <1>10, <1>11
<1> USE <1>5a
<1> WITNESS n + 1 \in Nat \ {0}
<1> WITNESS b \in [1..(n + 1) -> 1..(L + 1)], e \in [1..(n + 1) -> 1..(L + 1)]
<1> QED
  BY <1>12 DEF AreParams

\* A name that begins the rest of the endpoint begins the parameter.
LEMMA PrefixInParam ==
  ASSUME NEW T, NEW endpoint \in Seq(T), NEW name \in Seq(T),
         \A j \in 1..Len(name) : name[j] # "&",
         NEW b \in 0..Len(endpoint), NEW e \in (b + 1)..(Len(endpoint) + 1),
         e = Len(endpoint) + 1 \/ endpoint[e] = "&"
  PROVE  /\ IsPrefix(name, SubSeq(endpoint, b + 1, e - 1)) <=>
              IsPrefix(name, SubSeq(endpoint, b + 1, Len(endpoint)))
         /\ IsPrefix(name, SubSeq(endpoint, b + 1, e - 1)) => b + Len(name) <= e - 1
<1> DEFINE L == Len(endpoint)
<1>0. L \in Nat /\ Len(name) \in Nat /\ L + 1 - 1 = L
  OBVIOUS
<1>1. IsPrefix(name, SubSeq(endpoint, b + 1, e - 1)) <=>
        /\ b + Len(name) <= e - 1
        /\ \A j \in 1..Len(name) : name[j] = endpoint[b + j]
  BY PrefixAt
<1>2. IsPrefix(name, SubSeq(endpoint, b + 1, L)) <=>
        /\ b + Len(name) <= L
        /\ \A j \in 1..Len(name) : name[j] = endpoint[b + j]
  <2>1. L + 1 \in (b + 1)..(L + 1)
    BY <1>0
  <2> DEFINE f == L + 1
  <2>2. f \in (b + 1)..(Len(endpoint) + 1)
    BY <2>1
  <2> HIDE DEF f
  <2>3. IsPrefix(name, SubSeq(endpoint, b + 1, f - 1)) <=>
          /\ b + Len(name) <= f - 1
          /\ \A j \in 1..Len(name) : name[j] = endpoint[b + j]
    BY <2>2, PrefixAt
  <2>4. f - 1 = L
    BY <1>0 DEF f
  <2> QED
    BY <2>3, <2>4
<1>3. ASSUME b + Len(name) <= L, \A j \in 1..Len(name) : name[j] = endpoint[b + j]
      PROVE  b + Len(name) <= e - 1
  <2>1. SUFFICES ASSUME b + Len(name) > e - 1
                 PROVE  FALSE
    BY <1>0
  <2>2. e - b \in 1..Len(name) /\ b + (e - b) = e /\ e # L + 1
    BY <1>0, <1>3, <2>1
  <2> QED
    BY <1>3, <2>2
<1> QED
  BY <1>0, <1>1, <1>2, <1>3

\* The parameter p from h to f is the first with the name.
IsFirst(endpoint, name, h, f, p) ==
  /\ Hit(endpoint, name, h) /\ \A i \in 1..(h - 1) : ~Hit(endpoint, name, i)
  /\ f = Len(endpoint) + 1 \/ endpoint[f] = "&"
  /\ \A j \in (h + 1)..(f - 1) : endpoint[j] # "&"
  /\ p = SubSeq(endpoint, h + 1, f - 1)
  /\ IsPrefix(name, p) /\ h + Len(name) <= f - 1

\* The parameter of the first hit is what is extracted.
LEMMA FirstIsExtracted ==
  ASSUME NEW T, NEW endpoint \in Seq(T), NEW name \in Seq(T), name # <<>>,
         NEW h \in 1..Len(endpoint), NEW f \in (h + 1)..(Len(endpoint) + 1),
         NEW p, IsFirst(endpoint, name, h, f, p)
  PROVE  ExtractParam(endpoint, name) =
           IF p = name THEN Crashes ELSE Found(SubSeq(p, Len(name) + 2, Len(p)))
<1> USE DEF IsFirst
<1> DEFINE L == Len(endpoint)
           n == Len(name)
           end == Search(endpoint, name)[L]
           start == end.start
           len == end.len
<1>0. L \in Nat /\ n \in Nat /\ n > 0 /\ h \in 1..L /\ f \in (h + 1)..(L + 1)
  OBVIOUS
<1>1. end \in SearchState /\ SearchInv(endpoint, name, end, L)
  BY <1>0, SearchEnds
<1>2. start \in Nat /\ len \in Nat
  BY <1>1 DEF SearchState
<1>3. ExtractParam(endpoint, name) =
        IF start = 0 \/ len = 0 THEN Missing
        ELSE IF len - (n + 1) < 0 THEN Crashes
        ELSE Found(SubSeq(endpoint, start + n + 1, start + n + 1 + (len - (n + 1)) - 1))
  BY DEF ExtractParam
<1>4. start > 0
  BY <1>0, <1>1, <1>2 DEF SearchInv
<1>5. /\ start - 1 \in 1..L /\ Hit(endpoint, name, start - 1)
      /\ \A j \in 1..(start - 2) : ~Hit(endpoint, name, j)
      /\ \A j \in start..(start + len - 1) : endpoint[j] # "&"
      /\ IF end.done THEN start + len <= L /\ endpoint[start + len] = "&"
         ELSE start + len = L + 1
  BY <1>1, <1>4 DEF SearchInv
<1> HIDE DEF L, n, end, start, len
<1>6. start = h + 1
  <2>1. ~(start - 1 \in 1..(h - 1)) /\ ~(h \in 1..(start - 2))
    BY <1>5
  <2> QED
    BY <1>0, <1>2, <1>5, <2>1
<1>7. start + len = f
  <2>1. ~(start + len < f)
    BY <1>0, <1>2, <1>5, <1>6 DEF L
  <2>2. ~(f < start + len)
    BY <1>0, <1>2, <1>5, <1>6 DEF L
  <2> QED
    BY <1>0, <1>2, <2>1, <2>2
<1>8. len = f - 1 - h
  BY <1>0, <1>2, <1>6, <1>7
<1>9. p \in Seq(T) /\ Len(p) = len
  <2>1. h + 1 \in 1..(Len(endpoint) + 1) /\ f - 1 \in Int /\ f - 1 <= Len(endpoint)
        /\ h + 1 <= f - 1 + 1
    BY <1>0 DEF L
  <2>2. /\ SubSeq(endpoint, h + 1, f - 1) \in Seq(T)
        /\ Len(SubSeq(endpoint, h + 1, f - 1)) = f - 1 - (h + 1) + 1
    BY <2>1, SubSeqIs
  <2>3. f - 1 - (h + 1) + 1 = len
    BY <1>0, <1>8
  <2> QED
    BY <2>2, <2>3
<1>10. n <= len
  BY <1>0, <1>8 DEF n
<1>11. CASE len = n
  <2>1. SubSeq(name, 1, n) = name /\ SubSeq(p, 1, n) = p
    BY <1>9, <1>11, SubSeqFull DEF n
  <2>2. p = name
    BY <2>1 DEF IsPrefix, n
  <2>3. ExtractParam(endpoint, name) = Crashes
    BY <1>0, <1>2, <1>3, <1>4, <1>11
  <2> QED
    BY <2>2, <2>3
<1>12. CASE len # n
  <2>1. len > n /\ p # name
    BY <1>0, <1>2, <1>9, <1>10, <1>12 DEF n
  <2>2. SubSeq(p, n + 2, len) = SubSeq(endpoint, h + n + 2, h + len)
    <3> DEFINE i == h + 1
               j == f - 1
               m == n + 2
    <3>1. /\ i \in 1..(Len(endpoint) + 1) /\ j \in Int /\ j <= Len(endpoint)
          /\ i <= j + 1
      BY <1>0 DEF L
    <3>2. /\ m \in 1..(j - i + 2) /\ len \in Int
          /\ len <= j - i + 1 /\ m <= len + 1
      BY <1>0, <1>2, <1>8, <2>1
    <3>4. i + m - 1 = h + n + 2 /\ i + len - 1 = h + len
      BY <1>0, <1>2
    <3>5. p = SubSeq(endpoint, i, j) /\ m = n + 2
      OBVIOUS
    <3> HIDE DEF i, j, m
    <3>3. SubSeq(SubSeq(endpoint, i, j), m, len)
            = SubSeq(endpoint, i + m - 1, i + len - 1)
      BY <3>1, <3>2, SubSeqTwice
    <3> QED
      BY <3>3, <3>4, <3>5
  <2>3. /\ start + n + 1 = h + n + 2
        /\ start + n + 1 + (len - (n + 1)) - 1 = h + len
    BY <1>0, <1>2, <1>6
  <2>4. ExtractParam(endpoint, name) = Found(SubSeq(endpoint, h + n + 2, h + len))
    <3>1. ~(len - (n + 1) < 0) /\ len # 0 /\ start # 0
      BY <1>0, <1>2, <1>4, <2>1
    <3> QED
      BY <1>3, <2>3, <3>1
  <2> QED
    BY <1>9, <2>1, <2>2, <2>4 DEF n
<1> QED
  BY <1>11, <1>12

\* Without a hit nothing is.
LEMMA NoHitIsMissing ==
  ASSUME NEW T, NEW endpoint \in Seq(T), NEW name,
         \A i \in 1..Len(endpoint) : ~Hit(endpoint, name, i)
  PROVE  ExtractParam(endpoint, name) = Missing
<1> DEFINE L == Len(endpoint)
           end == Search(endpoint, name)[L]
<1>0. L \in Nat
  OBVIOUS
<1>1. end \in SearchState /\ SearchInv(endpoint, name, end, L)
  BY <1>0, SearchEnds
<1>2. end.start \in Nat
  BY <1>1 DEF SearchState
<1>3. end.start = 0
  BY <1>0, <1>1, <1>2 DEF SearchInv
<1> QED
  BY <1>3 DEF ExtractParam

\* What is extracted from parameters.
FirstOf(name, params) ==
  LET hits == {k \in DOMAIN params : IsPrefix(name, params[k])}
  IN IF hits = {} THEN Missing
     ELSE LET p == params[Min(hits)]
          IN IF p = name THEN Crashes ELSE Found(SubSeq(p, Len(name) + 2, Len(p)))

\* So it is the first parameter that begins with the name.
LEMMA ParamOf ==
  ASSUME NEW T, NEW endpoint \in Seq(T), NEW name \in Seq(T), name # <<>>,
         \A j \in 1..Len(name) : name[j] # "&",
         NEW m \in Nat, NEW params,
         NEW b \in [1..m -> 1..(Len(endpoint) + 1)],
         NEW e \in [1..m -> 1..(Len(endpoint) + 1)],
         AreParams(endpoint, params, m, b, e)
  PROVE  ExtractParam(endpoint, name) = FirstOf(name, params)
<1> DEFINE hits == {k \in 1..m : IsPrefix(name, params[k])}
<1>4. FirstOf(name, params) =
        IF hits = {} THEN Missing
        ELSE LET p == params[Min(hits)]
             IN IF p = name THEN Crashes ELSE Found(SubSeq(p, Len(name) + 2, Len(p)))
  <2>1. DOMAIN params = 1..m
    BY DEF AreParams
  <2> QED
    BY <2>1 DEF FirstOf
<1> USE DEF AreParams
<1>0. Len(endpoint) \in Nat
  OBVIOUS
<1>1. ASSUME NEW k \in 1..m
      PROVE  /\ k \in hits <=> Hit(endpoint, name, b[k])
             /\ k \in hits => b[k] + Len(name) <= e[k] - 1
             /\ b[k] \in 1..Len(endpoint) /\ e[k] \in (b[k] + 1)..(Len(endpoint) + 1)
  <2> DEFINE i == b[k]
             j == e[k]
  <2>1. /\ i \in 0..Len(endpoint) /\ j \in (i + 1)..(Len(endpoint) + 1) /\ i # 0
        /\ j = Len(endpoint) + 1 \/ endpoint[j] = "&"
        /\ params[k] = SubSeq(endpoint, i + 1, j - 1) /\ Begins(endpoint, i)
    BY <1>0
  <2>2. k \in hits <=> IsPrefix(name, params[k])
    OBVIOUS
  <2> HIDE DEF i, j
  <2>3. /\ IsPrefix(name, SubSeq(endpoint, i + 1, j - 1)) <=>
              IsPrefix(name, SubSeq(endpoint, i + 1, Len(endpoint)))
        /\ IsPrefix(name, SubSeq(endpoint, i + 1, j - 1)) => i + Len(name) <= j - 1
    BY <2>1, PrefixInParam
  <2>4. i \in 1..Len(endpoint)
    BY <1>0, <2>1
  <2> QED
    BY <2>1, <2>2, <2>3, <2>4 DEF Hit, i, j
<1>2. CASE hits = {}
  <2>1. ASSUME NEW i \in 1..Len(endpoint), Hit(endpoint, name, i)
        PROVE  FALSE
    <3>1. PICK k \in 1..m : b[k] = i
      BY <2>1, Zenon DEF Hit
    <3> QED
      BY <1>1, <1>2, <2>1, <3>1
  <2> QED
    <3>1. \A i \in 1..Len(endpoint) : ~Hit(endpoint, name, i)
      BY <2>1
    <3>2. ExtractParam(endpoint, name) = Missing
      BY <3>1, NoHitIsMissing, Zenon
    <3> HIDE DEF hits
    <3> QED
      BY <1>2, <1>4, <3>2, Zenon
<1>3. CASE hits # {}
  <2>1. hits \subseteq Nat
    OBVIOUS
  <2>2. Min(hits) \in hits /\ \A k \in hits : Min(hits) <= k
    BY <1>3, <2>1, MinIs
  <2>3. PICK k \in 1..m : k = Min(hits)
    BY <2>2
  <2> DEFINE h == b[k]
             f == e[k]
             p == params[k]
  <2>4. /\ h \in 1..Len(endpoint) /\ f \in (h + 1)..(Len(endpoint) + 1)
        /\ Hit(endpoint, name, h) /\ h + Len(name) <= f - 1
    BY <1>1, <2>2, <2>3
  <2>5. /\ f = Len(endpoint) + 1 \/ endpoint[f] = "&"
        /\ \A j \in (h + 1)..(f - 1) : endpoint[j] # "&"
        /\ p = SubSeq(endpoint, h + 1, f - 1)
    OBVIOUS
  <2>6. IsPrefix(name, p)
    BY <2>2, <2>3
  <2>7. ASSUME NEW i \in 1..(h - 1), Hit(endpoint, name, i)
        PROVE  FALSE
    <3>0. i \in 1..Len(endpoint)
      BY <1>0, <2>4
    <3>1. PICK l \in 1..m : b[l] = i
      BY <2>7, <3>0, Zenon DEF Hit
    <3>2. l \in hits
      BY <1>1, <2>7, <3>1
    <3>3. k <= l
      BY <2>2, <2>3, <3>2
    <3>4. k = l \/ b[k] < b[l]
      BY <3>3
    <3>5. h \in Int /\ i < h /\ i \in Int
      BY <2>4
    <3>6. h = i \/ h < i
      BY <3>1, <3>4
    <3> HIDE DEF h
    <3> QED
      BY <3>5, <3>6
  <2>9. \A i \in 1..(h - 1) : ~Hit(endpoint, name, i)
    BY <2>7
  <2>10. IsFirst(endpoint, name, h, f, p)
    BY <2>4, <2>5, <2>6, <2>9 DEF IsFirst
  <2> HIDE DEF h, f, p, AreParams
  <2>8. ExtractParam(endpoint, name) =
          IF p = name THEN Crashes ELSE Found(SubSeq(p, Len(name) + 2, Len(p)))
    BY <2>4, <2>10, FirstIsExtracted
  <2>11. p = params[Min(hits)]
    BY <2>3 DEF p
  <2> QED
    BY <1>3, <1>4, <2>8, <2>11, Zenon
<1> QED
  BY <1>2, <1>3

\* For texts of any length and a name without &: extract_query_param finds the first
\* parameter that begins with the name, and ends the process if that is all there
\* is of it (_utils.c).
THEOREM ParamIsInQuery ==
  ASSUME NEW T, NEW endpoint \in Seq(T), NEW name \in Seq(T), name # <<>>,
         \A j \in 1..Len(name) : name[j] # "&"
  PROVE  ExtractParam(endpoint, name) = RefExtractParam(endpoint, name)
<1> DEFINE L == Len(endpoint)
           marks == Positions(endpoint, "?")
<1>0. L \in Nat /\ \A i : i \in marks <=> i \in 1..L /\ endpoint[i] = "?"
  BY DEF Positions
<1>1. CASE marks = {}
  <2>1. \A i \in 1..L : ~Begins(endpoint, i)
    BY <1>0, <1>1 DEF Begins
  <2>2. ExtractParam(endpoint, name) = Missing
    BY <2>1, NoHitIsMissing DEF Hit
  <2> QED
    BY <1>1, <2>2 DEF RefExtractParam
<1>2. CASE marks # {}
  <2>1. marks \subseteq Nat
    BY <1>0
  <2>2. Min(marks) \in marks /\ \A i \in marks : Min(marks) <= i
    BY <1>2, <2>1, MinIs
  <2> DEFINE q == Min(marks)
             params == Split(SubSeq(endpoint, q + 1, L), "&")
  <2>3. /\ q \in 1..L /\ endpoint[q] = "?"
        /\ \A j \in 1..(q - 1) : endpoint[j] # "?"
    BY <1>0, <2>2
  <2>4. RefExtractParam(endpoint, name) = FirstOf(name, params)
    BY <1>2 DEF RefExtractParam, FirstOf
  <2> HIDE DEF q, params
  <2>5. \E m \in Nat \ {0} : \E b, e \in [1..m -> 1..(L + 1)] :
           AreParams(endpoint, params, m, b, e)
    BY <1>0, <2>3, QueryParams DEF params
  <2>6. PICK m \in Nat \ {0} : \E b, e \in [1..m -> 1..(L + 1)] :
                                  AreParams(endpoint, params, m, b, e)
    BY <2>5, Zenon
  <2>9. PICK b \in [1..m -> 1..(L + 1)], e \in [1..m -> 1..(L + 1)] :
          AreParams(endpoint, params, m, b, e)
    BY <2>6, Zenon
  <2>8. ExtractParam(endpoint, name) = FirstOf(name, params)
    BY <2>9, ParamOf
  <2> QED
    BY <2>4, <2>8
<1> QED
  BY <1>1, <1>2

-----------------------------------------------------------------------------
(***************************************************************************)
(* Names and values, as they grow.                                         *)
(***************************************************************************)

\* One more position after all others.
LEMMA NthExtends ==
  ASSUME NEW n \in Nat, NEW S, S \subseteq 1..n
  PROVE  /\ Cardinality(S) \in Nat /\ Cardinality(S \cup {n + 1}) = Cardinality(S) + 1
         /\ \A k \in 1..Cardinality(S) : Nth(S \cup {n + 1}, k) = Nth(S, k) /\ Nth(S, k) \in S
         /\ Nth(S \cup {n + 1}, Cardinality(S) + 1) = n + 1
<1> DEFINE m == n + 1
           U == S \cup {m}
           c == Cardinality(S)
<1>1. /\ IsFiniteSet(S) /\ c \in Nat /\ m \notin S
      /\ U \subseteq 1..m /\ m \in Nat
  <2>1. IsFiniteSet(S) /\ c \in Nat
    BY UpToSteps
  <2> QED
    BY <2>1
<1>2. Cardinality(U) = c + 1
  BY <1>1, FS_AddElement
<1>3. \A i \in S : UpTo(U, i) = UpTo(S, i)
  <2>1. \A i \in S : ~(m <= i)
    OBVIOUS
  <2> QED
    BY <2>1, Zenon DEF UpTo
<1>4. m \in U /\ \A i \in S : i \in U
  OBVIOUS
<1> HIDE DEF m, U
<1>5. UpTo(U, m) = U
  BY <1>1, UpToSteps
<1>6. \A k \in 1..Cardinality(U) : \A i \in U : Cardinality(UpTo(U, i)) = k => i = Nth(U, k)
  BY <1>1, NthIs
<1>7. ASSUME NEW k \in 1..c
      PROVE  Nth(U, k) = Nth(S, k) /\ Nth(S, k) \in S
  <2>1. Nth(S, k) \in S /\ Cardinality(UpTo(S, Nth(S, k))) = k
    BY NthIs
  <2>2. k \in 1..Cardinality(U)
    BY <1>1, <1>2
  <2>3. Nth(S, k) \in U /\ Cardinality(UpTo(U, Nth(S, k))) = k
    BY <1>3, <1>4, <2>1, Zenon
  <2> QED
    BY <1>6, <2>1, <2>2, <2>3, Zenon
<1>8. Nth(U, c + 1) = m
  <2>1. c + 1 \in 1..Cardinality(U)
    BY <1>1, <1>2
  <2> QED
    BY <1>2, <1>4, <1>5, <1>6, <2>1, Zenon
<1> QED
  BY <1>1, <1>2, <1>7, <1>8 DEF m, U

\* What one more token does to the tokens at some positions.
ChosenOf(longer, text, t, S) ==
  /\ Chosen(longer, S) = Chosen(text, S)
  /\ Chosen(longer, S \cup {Len(text) + 1}) = Append(Chosen(text, S), t)

\* What one more position adds to the tokens that are chosen.
LEMMA ChosenGrows ==
  ASSUME NEW T, NEW text \in Seq(T), NEW t \in T, NEW S, S \subseteq 1..Len(text)
  PROVE  /\ Chosen(text, S) \in Seq(T)
         /\ ChosenOf(Append(text, t), text, t, S)
<1> DEFINE longer == Append(text, t)
           n == Len(text)
           c == Cardinality(S)
           U == S \cup {n + 1}
<1>1. /\ n \in Nat /\ longer[n + 1] = t /\ \A i \in 1..n : longer[i] = text[i] /\ text[i] \in T
  BY AppendProperties, LenProperties, ElementOfSeq
<1>2. /\ c \in Nat /\ Cardinality(U) = c + 1
      /\ \A k \in 1..c : Nth(U, k) = Nth(S, k) /\ Nth(S, k) \in S
      /\ Nth(U, c + 1) = n + 1
  BY <1>1, NthExtends
<1>3. \A i \in S : i \in 1..n
  OBVIOUS
<1> HIDE DEF n, U, longer
<1>4. Chosen(text, S) = [k \in 1..c |-> text[Nth(S, k)]] /\ Chosen(text, S) \in [1..c -> T]
  BY <1>1, <1>2, <1>3 DEF Chosen
<1>5. Chosen(longer, S) = [k \in 1..c |-> longer[Nth(S, k)]]
  BY DEF Chosen
<1>6. Chosen(longer, U) = [k \in 1..(c + 1) |-> longer[Nth(U, k)]]
  BY <1>2 DEF Chosen
<1> HIDE DEF c
<1>7. Chosen(text, S) \in Seq(T) /\ Len(Chosen(text, S)) = c
  BY <1>2, <1>4
<1>8. Chosen(longer, S) = Chosen(text, S)
  BY <1>1, <1>2, <1>3, <1>4, <1>5
<1>9. Chosen(longer, U) = Append(Chosen(text, S), t)
  <2> DEFINE C == Chosen(text, S)
  <2>1. Append(C, t) = [k \in 1..(c + 1) |-> IF k = c + 1 THEN t ELSE C[k]]
    <3>1. /\ Append(C, t) \in Seq(T) /\ Len(Append(C, t)) = c + 1
          /\ Append(C, t)[c + 1] = t /\ \A k \in 1..c : Append(C, t)[k] = C[k]
      BY <1>7, AppendProperties
    <3> DEFINE A == Append(C, t)
    <3>2. DOMAIN A = 1..(c + 1) /\ A = [k \in 1..(c + 1) |-> A[k]]
      BY <3>1, LenProperties
    <3>3. \A k \in 1..(c + 1) : A[k] = IF k = c + 1 THEN t ELSE C[k]
      <4>1. \A k \in 1..(c + 1) : k = c + 1 \/ k \in 1..c
        BY <1>2
      <4> QED
        BY <3>1, <4>1
    <3> HIDE DEF A
    <3>4. A = [k \in 1..(c + 1) |-> IF k = c + 1 THEN t ELSE C[k]]
      BY <3>2, <3>3
    <3> QED
      BY <3>4 DEF A
  <2>2. ASSUME NEW k \in 1..(c + 1)
        PROVE  longer[Nth(U, k)] = IF k = c + 1 THEN t ELSE C[k]
    <3>1. CASE k = c + 1
      BY <1>1, <1>2, <3>1
    <3>2. CASE k # c + 1
      <4>1. k \in 1..c
        BY <1>2, <3>2
      <4>2. C[k] = text[Nth(S, k)]
        BY <1>4, <4>1
      <4> QED
        BY <1>1, <1>2, <1>3, <3>2, <4>1, <4>2
    <3> QED
      BY <3>1, <3>2
  <2> HIDE DEF C
  <2>3. Chosen(longer, U) = Append(C, t)
    BY <1>6, <2>1, <2>2
  <2> QED
    BY <2>3 DEF C
<1> QED
  BY <1>7, <1>8, <1>9 DEF U, n, longer, ChosenOf

\* The first cut is the first separator, or the end.
LEMMA FirstCut ==
  ASSUME NEW T, NEW text \in Seq(T), NEW sep
  PROVE  /\ Cut(text, sep, 1) \in 1..(Len(text) + 1)
         /\ \A i \in 1..Len(text) : i < Cut(text, sep, 1) => text[i] # sep
         /\ Cut(text, sep, 1) <= Len(text) => text[Cut(text, sep, 1)] = sep
<1> DEFINE n == Cardinality(Positions(text, sep))
           c == Cut(text, sep, 1)
<1>1. /\ n \in Nat
      /\ Cut(text, sep, 0) = 0 /\ Cut(text, sep, n + 1) = Len(text) + 1
      /\ \A k \in 0..(n + 1) : Cut(text, sep, k) \in 0..(Len(text) + 1)
      /\ \A k \in 1..n : Cut(text, sep, k) \in Positions(text, sep)
      /\ \A j, k \in 0..(n + 1) : j < k => Cut(text, sep, j) < Cut(text, sep, k)
      /\ \A i \in Positions(text, sep) : \E k \in 1..n : Cut(text, sep, k) = i
  BY CutsAreOrdered
<1>2. Len(text) \in Nat /\ DOMAIN text = 1..Len(text)
  BY LenProperties
<1> HIDE DEF n
<1>3. c \in 0..(Len(text) + 1) /\ 0 < c
  BY <1>1
<1>4. ASSUME NEW i \in 1..Len(text), i < c, text[i] = sep
      PROVE  FALSE
  <2>1. i \in Positions(text, sep)
    BY <1>2, <1>4 DEF Positions
  <2>2. PICK k \in 1..n : Cut(text, sep, k) = i
    BY <1>1, <2>1
  <2>3. k = 1 \/ 1 < k
    OBVIOUS
  <2>4. 1 < k => c < i
    BY <1>1, <2>2
  <2>5. ~(c < i)
    BY <1>3, <1>4
  <2> QED
    BY <1>4, <2>2, <2>3, <2>4, <2>5
<1>5. c <= Len(text) => text[c] = sep
  <2>1. CASE n = 0
    BY <1>1, <1>2, <2>1
  <2>2. CASE n # 0
    <3>1. c \in Positions(text, sep)
      BY <1>1, <2>2
    <3> QED
      BY <3>1 DEF Positions
  <2> QED
    BY <2>1, <2>2
<1>6. c \in 1..(Len(text) + 1)
  BY <1>2, <1>3
<1> QED
  BY <1>4, <1>5, <1>6

\* A parameter has an =.
HasValue(param) == Cut(param, "=", 1) <= Len(param)

\* What one more token does to the first =.
LEMMA FirstCutGrows ==
  ASSUME NEW T, NEW p \in Seq(T), NEW t \in T, NEW longer, longer = Append(p, t),
         NEW c, c = Cut(p, "=", 1)
  PROVE  Cut(longer, "=", 1) =
           IF c <= Len(p) THEN c ELSE IF t = "=" THEN Len(p) + 1 ELSE Len(p) + 2
<1> DEFINE n == Len(p)
           d == Cut(longer, "=", 1)
<1>1. /\ n \in Nat /\ longer \in Seq(T) /\ Len(longer) = n + 1 /\ longer[n + 1] = t
      /\ \A i \in 1..n : longer[i] = p[i]
  BY AppendProperties, LenProperties
<1>2. /\ c \in 1..(n + 1) /\ \A i \in 1..n : i < c => p[i] # "="
      /\ c <= n => p[c] = "="
  BY FirstCut
<1>3. /\ d \in 1..(n + 1 + 1) /\ \A i \in 1..(n + 1) : i < d => longer[i] # "="
      /\ d <= n + 1 => longer[d] = "="
  BY <1>1, FirstCut
<1> HIDE DEF n, d
<1>4. CASE c <= n
  <2>1. c \in 1..n /\ longer[c] = "="
    BY <1>1, <1>2, <1>4
  <2>2. ~(c < d)
    BY <1>1, <1>3, <2>1
  <2>3. ~(d < c)
    <3>1. d < c => d \in 1..n
      BY <1>1, <1>3, <2>1
    <3> QED
      BY <1>1, <1>2, <1>3, <3>1
  <2> QED
    BY <1>3, <1>4, <2>1, <2>2, <2>3 DEF n, d
<1>5. CASE ~(c <= n)
  <2>1. \A i \in 1..n : longer[i] # "="
    BY <1>1, <1>2, <1>5
  <2>2. d > n
    <3>1. d <= n => d \in 1..n
      BY <1>1, <1>3
    <3> QED
      BY <1>1, <1>3, <2>1, <3>1
  <2>3. d = n + 1 \/ d = n + 2
    BY <1>1, <1>3, <2>2
  <2>4. t = "=" => d = n + 1
    BY <1>1, <1>3, <2>3
  <2>5. t # "=" => d = n + 2
    BY <1>1, <1>3, <2>3
  <2> QED
    BY <1>5, <2>4, <2>5 DEF n, d
<1> QED
  BY <1>4, <1>5

\* The beginnings of a text stay when a token is added.
LEMMA PrefixGrows ==
  ASSUME NEW T, NEW p \in Seq(T), NEW t \in T, NEW longer, longer = Append(p, t),
         NEW m \in 0..Len(p)
  PROVE  /\ SubSeq(p, 1, m) \in Seq(T)
         /\ SubSeq(longer, 1, m) = SubSeq(p, 1, m)
         /\ SubSeq(longer, 1, Len(p) + 1) = longer /\ SubSeq(p, 1, Len(p)) = p
<1> DEFINE n == Len(p)
<1>1. /\ n \in Nat /\ longer \in Seq(T) /\ Len(longer) = n + 1
      /\ \A i \in 1..n : longer[i] = p[i]
  BY AppendProperties, LenProperties
<1>2. SubSeq(p, 1, m) = [i \in 1..m |-> p[i]] /\ SubSeq(p, 1, m) \in Seq(T)
  OBVIOUS
<1>3. SubSeq(longer, 1, m) = [i \in 1..m |-> longer[i]]
  BY <1>1
<1>4. \A i \in 1..m : i \in 1..n
  OBVIOUS
<1>5. SubSeq(p, 1, n) = p
  OBVIOUS
<1> HIDE DEF n
<1>6. SubSeq(longer, 1, n + 1) = longer
  BY <1>1
<1> QED
  BY <1>1, <1>2, <1>3, <1>4, <1>5, <1>6 DEF n

\* Of no token there is no name and no value.
LEMMA NothingRead ==
  /\ NameOf(<<>>) = <<>> /\ ValueOf(<<>>) = <<>> /\ ~HasValue(<<>>)
<1>1. <<>> \in Seq({}) /\ Len(<<>>) = 0 /\ DOMAIN <<>> = {}
  OBVIOUS
<1>2. Cut(<<>>, "=", 1) \in 1..(0 + 1)
  BY <1>1, FirstCut
<1>3. Cut(<<>>, "=", 1) = 1
  BY <1>2
<1>4. NameOf(<<>>) = <<>>
  BY <1>3 DEF NameOf
<1>5. ValueOf(<<>>) = <<>>
  <2>1. {i \in DOMAIN <<>> : i > Cut(<<>>, "=", 1) /\ <<>>[i] # "="} = {}
    BY <1>1
  <2>2. Cardinality({}) = 0
    BY FS_EmptySet
  <2>3. Chosen(<<>>, {}) = [k \in 1..0 |-> <<>>[Nth({}, k)]]
    BY <2>2 DEF Chosen
  <2>4. [k \in 1..0 |-> <<>>[Nth({}, k)]] = <<>>
    OBVIOUS
  <2> QED
    BY <2>1, <2>3, <2>4 DEF ValueOf
<1>6. ~HasValue(<<>>)
  BY <1>1, <1>3 DEF HasValue
<1> QED
  BY <1>4, <1>5, <1>6

\* What the next token does to the name and the value of a parameter.
PartsOf(longer, p, t) ==
  /\ NameOf(longer) = IF t # "=" /\ ~HasValue(p) THEN Append(NameOf(p), t) ELSE NameOf(p)
  /\ ValueOf(longer) = IF t # "=" /\ HasValue(p) THEN Append(ValueOf(p), t) ELSE ValueOf(p)
  /\ HasValue(longer) <=> t = "=" \/ HasValue(p)

\* So the name and the value grow as parseInsertPMS5003Body reads them.
LEMMA PartsGrow ==
  ASSUME NEW T, NEW p \in Seq(T), NEW t \in T, NEW longer, longer = Append(p, t)
  PROVE  /\ NameOf(p) \in Seq(T) /\ ValueOf(p) \in Seq(T)
         /\ PartsOf(longer, p, t)
<1> DEFINE n == Len(p)
           c == Cut(p, "=", 1)
           d == Cut(longer, "=", 1)
           V == {i \in DOMAIN p : i > c /\ p[i] # "="}
           W == {i \in DOMAIN longer : i > d /\ longer[i] # "="}
<1>1. /\ n \in Nat /\ longer \in Seq(T) /\ Len(longer) = n + 1 /\ longer[n + 1] = t
      /\ \A i \in 1..n : longer[i] = p[i]
      /\ DOMAIN p = 1..n /\ DOMAIN longer = 1..(n + 1)
  BY AppendProperties, LenProperties
<1>2. c \in 1..(n + 1)
  BY FirstCut
<1>3. d = IF c <= n THEN c ELSE IF t = "=" THEN n + 1 ELSE n + 2
  BY FirstCutGrows
<1>4. /\ NameOf(p) = SubSeq(p, 1, c - 1) /\ NameOf(longer) = SubSeq(longer, 1, d - 1)
      /\ ValueOf(p) = Chosen(p, V) /\ ValueOf(longer) = Chosen(longer, W)
      /\ HasValue(p) <=> c <= n
      /\ HasValue(longer) <=> d <= n + 1
  BY <1>1 DEF NameOf, ValueOf, HasValue
<1>5. V \subseteq 1..Len(p)
  OBVIOUS
<1>6. /\ c <= n /\ t = "=" => W = V
      /\ c <= n /\ t # "=" => W = V \cup {n + 1}
      /\ ~(c <= n) => W = {} /\ V = {}
  <2> HIDE DEF n, c, d
  <2>1. \A i : i \in V <=> i \in 1..n /\ i > c /\ p[i] # "="
    BY <1>1
  <2>2. \A i : i \in W <=> i \in 1..(n + 1) /\ i > d /\ longer[i] # "="
    BY <1>1
  <2> HIDE DEF V, W
  <2>3. \A i : i \in 1..(n + 1) <=> i \in 1..n \/ i = n + 1
    BY <1>1
  <2>4. n + 1 \notin 1..n
    BY <1>1
  <2>5. CASE c <= n /\ t = "="
    <3>1. d = c
      BY <1>3, <2>5
    <3>2. \A i : i \in W <=> i \in V
      BY <1>1, <2>1, <2>2, <2>3, <2>5, <3>1, Zenon
    <3> QED
      BY <2>5, <3>2
  <2>6. CASE c <= n /\ t # "="
    <3>1. d = c /\ n + 1 > c
      BY <1>1, <1>2, <1>3, <2>6
    <3>2. \A i : i \in W <=> i \in V \/ i = n + 1
      BY <1>1, <2>1, <2>2, <2>3, <2>6, <3>1, Zenon
    <3> QED
      BY <2>6, <3>2
  <2>7. CASE ~(c <= n)
    <3>1. c = n + 1 /\ d >= n + 1 /\ d \in Nat
      BY <1>1, <1>2, <1>3, <2>7
    <3>2. \A i : i \notin V
      BY <1>1, <2>1, <3>1
    <3>3. \A i : i \notin W
      BY <1>1, <2>2, <3>1
    <3> QED
      BY <2>7, <3>2, <3>3
  <2> QED
    BY <2>5, <2>6, <2>7
<1>7. /\ Chosen(p, V) \in Seq(T) /\ Chosen(longer, V) = Chosen(p, V)
      /\ Chosen(longer, V \cup {n + 1}) = Append(Chosen(p, V), t)
  <2> HIDE DEF V
  <2>1. Chosen(p, V) \in Seq(T) /\ ChosenOf(Append(p, t), p, t, V)
    BY <1>5, ChosenGrows
  <2> QED
    BY <2>1, Zenon DEF ChosenOf
<1> HIDE DEF V, W
<1>8. /\ SubSeq(p, 1, c - 1) \in Seq(T)
      /\ SubSeq(longer, 1, c - 1) = SubSeq(p, 1, c - 1)
      /\ SubSeq(longer, 1, n + 1) = longer /\ SubSeq(p, 1, n) = p
  <2> DEFINE m == c - 1
  <2>1. m \in 0..Len(p)
    BY <1>1, <1>2
  <2> HIDE DEF m
  <2>2. /\ SubSeq(p, 1, m) \in Seq(T)
        /\ SubSeq(longer, 1, m) = SubSeq(p, 1, m)
        /\ SubSeq(longer, 1, n + 1) = longer /\ SubSeq(p, 1, n) = p
    BY <2>1, PrefixGrows
  <2> QED
    BY <2>2 DEF m
<1> HIDE DEF n, c, d
<1>9. CASE c <= n
  <2>1. d = c /\ d <= n + 1
    BY <1>1, <1>2, <1>3, <1>9
  <2>2. NameOf(longer) = NameOf(p) /\ HasValue(p) /\ HasValue(longer)
    BY <1>4, <1>8, <1>9, <2>1, Zenon
  <2>3. ValueOf(longer) = IF t # "=" THEN Append(ValueOf(p), t) ELSE ValueOf(p)
    BY <1>4, <1>6, <1>7, <1>9
  <2> QED
    BY <1>4, <1>7, <1>8, <2>2, <2>3 DEF PartsOf
<1>10. CASE ~(c <= n)
  <2>1. /\ c - 1 = n
        /\ t = "=" => d = c /\ d <= n + 1
        /\ t # "=" => d - 1 = n + 1 /\ ~(d <= n + 1)
    BY <1>1, <1>2, <1>3, <1>10
  <2>2. ~HasValue(p) /\ (HasValue(longer) <=> t = "=")
    BY <1>4, <1>10, <2>1
  <2>3. ValueOf(longer) = ValueOf(p)
    BY <1>4, <1>6, <1>7, <1>10
  <2>4. NameOf(longer) = IF t # "=" THEN Append(NameOf(p), t) ELSE NameOf(p)
    <3>1. CASE t = "="
      BY <1>4, <1>8, <2>1, <3>1, Zenon
    <3>2. CASE t # "="
      BY <1>4, <1>8, <2>1, <3>2, Zenon
    <3> QED
      BY <3>1, <3>2
  <2> QED
    BY <1>4, <1>7, <1>8, <2>2, <2>3, <2>4 DEF PartsOf
<1> QED
  BY <1>9, <1>10

-----------------------------------------------------------------------------
(***************************************************************************)
(* Parameters, as they are read.                                           *)
(***************************************************************************)

\* The first field that a name begins.
LEMMA FieldOfIs ==
  ASSUME NEW param
  PROVE  /\ FieldsOf(NameOf(param)) \subseteq DOMAIN Fields /\ DOMAIN Fields = 1..5
         /\ FieldsOf(NameOf(param)) = {} => FieldOf(param) = {}
         /\ FieldsOf(NameOf(param)) # {} => FieldOf(param) = {Min(FieldsOf(NameOf(param)))}
<1> DEFINE S == FieldsOf(NameOf(param))
<1>1. DOMAIN Fields = 1..5
  BY DEF Fields
<1>2. S \subseteq DOMAIN Fields
  BY DEF FieldsOf
<1>3. FieldOf(param) = {f \in S : \A g \in S : f <= g}
  BY DEF FieldOf
<1> HIDE DEF S
<1>4. S = {} => FieldOf(param) = {}
  BY <1>3
<1>5. ASSUME S # {}
      PROVE  FieldOf(param) = {Min(S)}
  <2>1. S \subseteq Nat
    BY <1>1, <1>2
  <2> DEFINE m == Min(S)
  <2>2. m \in S /\ \A g \in S : m <= g
    BY <1>5, <2>1, MinIs
  <2> HIDE DEF m
  <2>3. \A f \in S : (\A g \in S : f <= g) <=> f = m
    <3>1. ASSUME NEW f \in S, \A g \in S : f <= g
          PROVE  f = m
      <4>1. f \in Nat /\ m \in Nat /\ f <= m /\ m <= f
        BY <2>1, <2>2, <3>1
      <4> QED
        BY <4>1
    <3> QED
      BY <2>2, <3>1
  <2>4. FieldOf(param) = {m}
    BY <1>3, <2>2, <2>3
  <2> QED
    BY <2>4 DEF m
<1> QED
  BY <1>1, <1>2, <1>4, <1>5 DEF S

-----------------------------------------------------------------------------
\* The parameters among the first c that are read, and what comes of them.
ReadUpTo(params, c) == {k \in 1..c : \A j \in 1..k : FieldOf(params[j]) # {}}

\* What field f has of the first c parameters: the value of the latest that is of it.
ValuesAfter(params, c, f) ==
  {Converted(f, ValueOf(params[k])) :
     k \in Latest({k \in ReadUpTo(params, c) : f \in FieldOf(params[k])})}

\* All fields.
FieldsAfter(params, c) == [f \in DOMAIN Fields |-> ValuesAfter(params, c, f)]

\* The numbers among them.
Numbers(params, c) ==
  {k \in ReadUpTo(params, c) : \A f \in FieldOf(params[k]) : Fields[f].type # "text"}

\* The length of a value, and how much of it strtol takes.
Size(params, k) == Len(ValueOf(params[k]))
TakenOf(params, k) == Taken(ValueOf(params[k]))

\* From l on, the parameters whose values reach as far as strtol went in l; and
\* whether the last of them goes on.
Reaching(params, c, l) ==
  {k \in ReadUpTo(params, c) : k >= l /\ Size(params, k) >= TakenOf(params, l)}
GoesOn(params, c, l) ==
  \E k \in Latest(Reaching(params, c, l)) : Size(params, k) > TakenOf(params, l)

\* What is left after the latest number.
LeftAfter(params, c) == {GoesOn(params, c, l) : l \in Latest(Numbers(params, c))}

\* A parameter after all others is the latest.
LEMMA LatestIs ==
  ASSUME NEW c \in Nat, NEW S, S \subseteq 1..c
  PROVE  Latest(S \cup {c + 1}) = {c + 1}
<1>1. \A k \in S : k <= c + 1 /\ ~(c + 1 <= k)
  OBVIOUS
<1>2. c + 1 <= c + 1
  OBVIOUS
<1> DEFINE m == c + 1
<1>3. \A k \in S : k <= m /\ ~(m <= k)
  BY <1>1
<1>4. m <= m
  BY <1>2
<1> HIDE DEF m
<1>5. Latest(S \cup {m}) = {m}
  BY <1>3, <1>4, Zenon DEF Latest
<1> QED
  BY <1>5 DEF m

\* The parameters are read up to one that is of no field.
LEMMA ReadOn ==
  ASSUME NEW params, NEW c \in Nat
  PROVE  /\ ReadUpTo(params, c) \subseteq 1..c
         /\ ReadUpTo(params, c) = 1..c /\ FieldOf(params[c + 1]) # {}
              => ReadUpTo(params, c + 1) = 1..(c + 1)
         /\ ReadUpTo(params, c) # 1..c \/ FieldOf(params[c + 1]) = {}
              => /\ ReadUpTo(params, c + 1) = ReadUpTo(params, c)
                 /\ ReadUpTo(params, c + 1) # 1..(c + 1)
<1> DEFINE Is(j) == FieldOf(params[j]) # {}
<1>1. \A d \in Nat : ReadUpTo(params, d) = {k \in 1..d : \A j \in 1..k : Is(j)}
  BY DEF ReadUpTo
<1>2. c \in Nat /\ c + 1 \in Nat
  OBVIOUS
<1> HIDE DEF Is
<1>3. ReadUpTo(params, c) \subseteq 1..c
  BY <1>1
<1>4. ASSUME ReadUpTo(params, c) = 1..c, Is(c + 1)
      PROVE  ReadUpTo(params, c + 1) = 1..(c + 1)
  <2>1. \A j \in 1..c : Is(j)
    <3>1. \A j \in 1..c : j \in 1..j
      OBVIOUS
    <3>2. \A k \in 1..c : k \in ReadUpTo(params, c)
      BY <1>4
    <3> QED
      BY <1>1, <3>1, <3>2
  <2>2. \A j \in 1..(c + 1) : Is(j)
    <3>1. \A j \in 1..(c + 1) : j \in 1..c \/ j = c + 1
      OBVIOUS
    <3> QED
      BY <1>4, <2>1, <3>1
  <2>3. \A k \in 1..(c + 1) : \A j \in 1..k : j \in 1..(c + 1)
    OBVIOUS
  <2>4. \A k \in 1..(c + 1) : \A j \in 1..k : Is(j)
    BY <2>2, <2>3
  <2> QED
    BY <1>1, <1>2, <2>4
<1>5. ASSUME ReadUpTo(params, c) # 1..c \/ ~Is(c + 1)
      PROVE  /\ ReadUpTo(params, c + 1) = ReadUpTo(params, c)
             /\ ReadUpTo(params, c + 1) # 1..(c + 1)
  <2>1. \E j \in 1..(c + 1) : ~Is(j)
    <3>1. CASE ~Is(c + 1)
      <4>1. c + 1 \in 1..(c + 1)
        OBVIOUS
      <4> QED
        BY <3>1, <4>1
    <3>2. CASE ReadUpTo(params, c) # 1..c
      <4>1. PICK k \in 1..c : k \notin ReadUpTo(params, c)
        BY <1>3, <3>2
      <4>2. PICK j \in 1..k : ~Is(j)
        BY <1>1, <4>1
      <4>3. j \in 1..(c + 1)
        BY <4>1, <4>2
      <4> QED
        BY <4>2, <4>3
    <3> QED
      BY <1>5, <3>1, <3>2
  <2>2. c + 1 \notin ReadUpTo(params, c + 1)
    BY <1>1, <1>2, <2>1
  <2>3. \A k : k \in 1..(c + 1) <=> k \in 1..c \/ k = c + 1
    OBVIOUS
  <2>4. \A k : k \in ReadUpTo(params, c + 1) <=> k \in ReadUpTo(params, c)
    <3>1. c + 1 \notin 1..c
      OBVIOUS
    <3> QED
      BY <1>1, <1>2, <2>2, <2>3, <3>1
  <2>5. c + 1 \in 1..(c + 1)
    OBVIOUS
  <2> QED
    BY <2>2, <2>4, <2>5
<1> QED
  BY <1>3, <1>4, <1>5 DEF Is

\* One more parameter that is read.
LEMMA OneMoreRead ==
  ASSUME NEW params, NEW c \in Nat, ReadUpTo(params, c) = 1..c,
         NEW f \in DOMAIN Fields, FieldOf(params[c + 1]) = {f}
  PROVE  /\ ReadUpTo(params, c + 1) = 1..(c + 1)
         /\ FieldsAfter(params, c + 1) =
              [FieldsAfter(params, c) EXCEPT ![f] = {Converted(f, ValueOf(params[c + 1]))}]
         /\ Latest(Numbers(params, c + 1)) =
              IF Fields[f].type = "text" THEN Latest(Numbers(params, c)) ELSE {c + 1}
<1> DEFINE m == c + 1
           Old(g) == {k \in ReadUpTo(params, c) : g \in FieldOf(params[k])}
           New(g) == {k \in ReadUpTo(params, m) : g \in FieldOf(params[k])}
           IsNumber(k) == \A g \in FieldOf(params[k]) : Fields[g].type # "text"
           old == {k \in ReadUpTo(params, c) : IsNumber(k)}
           new == {k \in ReadUpTo(params, m) : IsNumber(k)}
<1>1. ReadUpTo(params, m) = 1..m
  BY ReadOn
<1>2. \A k : k \in ReadUpTo(params, m) <=> k \in ReadUpTo(params, c) \/ k = m
  BY <1>1
<1>3. m \notin ReadUpTo(params, c)
  OBVIOUS
<1>4. \A g : Old(g) \subseteq 1..c
  OBVIOUS
<1>5. old \subseteq 1..c
  OBVIOUS
<1>6. /\ \A g : ValuesAfter(params, m, g) =
                  {Converted(g, ValueOf(params[k])) : k \in Latest(New(g))}
      /\ \A g : ValuesAfter(params, c, g) =
                  {Converted(g, ValueOf(params[k])) : k \in Latest(Old(g))}
      /\ Numbers(params, m) = new
      /\ Numbers(params, c) = old
  BY DEF ValuesAfter, Numbers
<1>7. \A S : S \subseteq 1..c => Latest(S \cup {m}) = {m}
  BY LatestIs
<1> HIDE DEF m
<1>8. New(f) = Old(f) \cup {m}
  <2>1. f \in FieldOf(params[m])
    BY DEF m
  <2>2. \A k : k \in New(f) <=> k \in Old(f) \/ k = m
    BY <1>2, <2>1
  <2> HIDE DEF New, Old
  <2> QED
    BY <2>2
<1>9. \A g : g # f => New(g) = Old(g)
  BY <1>2, <1>3 DEF m
<1>10. IsNumber(m) <=> Fields[f].type # "text"
  BY DEF m
<1> HIDE DEF IsNumber
<1>11. Fields[f].type # "text" => new = old \cup {m}
  BY <1>2, <1>10
<1>12. Fields[f].type = "text" => new = old
  BY <1>2, <1>3, <1>10
<1> HIDE DEF Old, New, old, new
<1>13. ValuesAfter(params, m, f) = {Converted(f, ValueOf(params[m]))}
  <2>1. Latest(New(f)) = {m}
    BY <1>4, <1>7, <1>8, Zenon
  <2> QED
    BY <1>6, <2>1
<1>14. \A g : g # f => ValuesAfter(params, m, g) = ValuesAfter(params, c, g)
  BY <1>6, <1>9, Zenon
<1>15. Latest(Numbers(params, m)) = IF Fields[f].type = "text" THEN Latest(Numbers(params, c))
                                    ELSE {m}
  <2>1. CASE Fields[f].type = "text"
    BY <1>6, <1>12, <2>1
  <2>2. CASE Fields[f].type # "text"
    <3>1. Latest(new) = {m}
      BY <1>5, <1>7, <1>11, <2>2, Zenon
    <3> QED
      BY <1>6, <2>2, <3>1
  <2> QED
    BY <2>1, <2>2
<1>16. FieldsAfter(params, m) =
         [FieldsAfter(params, c) EXCEPT ![f] = {Converted(f, ValueOf(params[m]))}]
  BY <1>13, <1>14 DEF FieldsAfter
<1> QED
  BY <1>1, <1>15, <1>16 DEF m

\* What it does to those that reach as far as a number before.
LEMMA OneMoreReaching ==
  ASSUME NEW params, NEW c \in Nat, ReadUpTo(params, c) = 1..c,
         ReadUpTo(params, c + 1) = 1..(c + 1), NEW l \in 1..(c + 1),
         Size(params, c + 1) \in Nat, TakenOf(params, l) \in Nat
  PROVE  /\ Size(params, c + 1) >= TakenOf(params, l) =>
              (GoesOn(params, c + 1, l) <=> Size(params, c + 1) > TakenOf(params, l))
         /\ Size(params, c + 1) < TakenOf(params, l) =>
              (GoesOn(params, c + 1, l) <=> GoesOn(params, c, l))
<1> DEFINE m == c + 1
           Reaches(k) == k >= l /\ Size(params, k) >= TakenOf(params, l)
           old == {k \in 1..c : Reaches(k)}
           new == {k \in 1..m : Reaches(k)}
<1>1. Reaching(params, c, l) = old /\ Reaching(params, m, l) = new
  BY DEF Reaching
<1>2. Reaches(m) <=> Size(params, m) >= TakenOf(params, l)
  OBVIOUS
<1>3. \A k : k \in 1..m <=> k \in 1..c \/ k = m
  OBVIOUS
<1>4. m \notin 1..c
  OBVIOUS
<1> HIDE DEF Reaches
<1>5. Reaches(m) => new = old \cup {m}
  BY <1>3
<1>6. ~Reaches(m) => new = old
  BY <1>3, <1>4
<1>7. Latest(old \cup {m}) = {m}
  <2>1. old \subseteq 1..c
    OBVIOUS
  <2> HIDE DEF old
  <2> QED
    BY <2>1, LatestIs
<1> HIDE DEF old, new
<1>8. ASSUME Size(params, m) >= TakenOf(params, l)
      PROVE  GoesOn(params, m, l) <=> Size(params, m) > TakenOf(params, l)
  <2>1. Latest(Reaching(params, m, l)) = {m}
    BY <1>1, <1>2, <1>5, <1>7, <1>8
  <2> HIDE DEF m
  <2> QED
    BY <2>1 DEF GoesOn
<1>9. ASSUME Size(params, m) < TakenOf(params, l)
      PROVE  GoesOn(params, m, l) <=> GoesOn(params, c, l)
  <2>1. Reaching(params, m, l) = Reaching(params, c, l)
    BY <1>1, <1>2, <1>6, <1>9
  <2> HIDE DEF m
  <2> QED
    BY <2>1, Zenon DEF GoesOn
<1> QED
  BY <1>8, <1>9

\* A run of characters stays within its text.
LEMMA RunIs ==
  ASSUME NEW T, NEW value \in Seq(T), NEW chars, NEW from \in 0..Len(value)
  PROVE  Run(value, chars, from) \in 0..(Len(value) - from)
<1> DEFINE first == from + 1
           n == Len(value)
           all == first..n
           some == {k \in all : \A i \in first..k : value[i] \in chars}
<1>1. n \in Nat /\ first \in Int /\ n \in Int
  BY LenProperties
<1>2. IsFiniteSet(all) /\ Cardinality(all) = IF first > n THEN 0 ELSE n - first + 1
  <2> HIDE DEF first, n
  <2> QED
    BY <1>1, FS_Interval
<1>3. some \subseteq all
  OBVIOUS
<1> HIDE DEF all, some
<1>4. IsFiniteSet(some) /\ Cardinality(some) <= Cardinality(all)
  BY <1>2, <1>3, FS_Subset
<1>5. Cardinality(some) \in Nat
  BY <1>4, FS_CardinalityType
<1>6. Run(value, chars, from) = Cardinality(some)
  BY DEF Run, some, all
<1> QED
  BY <1>1, <1>2, <1>4, <1>5, <1>6

\* So strtol takes no more than there is.
LEMMA TakenIs ==
  ASSUME NEW T, NEW value \in Seq(T)
  PROVE  Taken(value) \in 0..Len(value)
<1> DEFINE blanks == Run(value, {" "}, 0)
           from == Before(value)
           digits == Run(value, ToSet(Digits), from)
<1>0. Len(value) \in Nat
  BY LenProperties
<1>1. blanks \in 0..Len(value)
  <2>1. 0 \in 0..Len(value) /\ Len(value) - 0 = Len(value)
    BY <1>0
  <2> QED
    BY <2>1, RunIs
<1>2. from \in 0..Len(value)
  <2>1. from = IF blanks < Len(value) /\ value[blanks + 1] \in {"+", "-"} THEN blanks + 1
               ELSE blanks
    BY DEF Before
  <2> HIDE DEF blanks, from
  <2> QED
    BY <1>0, <1>1, <2>1
<1> HIDE DEF from
<1>3. digits \in 0..(Len(value) - from)
  BY <1>2, RunIs
<1>4. Taken(value) = IF digits = 0 THEN 0 ELSE from + digits
  BY DEF Taken, from
<1> HIDE DEF digits
<1> QED
  BY <1>0, <1>2, <1>3, <1>4

\* What a cell that is written changes of a buffer.
PutIn(buffer, new, i, cell) ==
  /\ Len(new) >= Len(buffer) /\ i <= Len(new) /\ new[i] = cell
  /\ \A j \in 1..Len(buffer) : j # i => new[j] = buffer[j]
  /\ SubSeq(new, 1, i) = Append(SubSeq(buffer, 1, i - 1), cell)

LEMMA PutIs ==
  ASSUME NEW S, NEW buffer \in Seq(S), NEW i \in 1..(Len(buffer) + 1), NEW cell \in S
  PROVE  Put(buffer, i, cell) \in Seq(S) /\ PutIn(buffer, Put(buffer, i, cell), i, cell)
<1> DEFINE new == Put(buffer, i, cell)
           n == Len(buffer)
<1>0. n \in Nat /\ i \in Nat /\ DOMAIN buffer = 1..n
  BY LenProperties
<1>1. /\ new \in Seq(S) /\ Len(new) >= n /\ i <= Len(new) /\ new[i] = cell
      /\ \A j \in 1..n : j # i => new[j] = buffer[j]
  <2>1. CASE i <= n
    <3>1. new = [buffer EXCEPT ![i] = cell]
      BY <2>1 DEF Put
    <3>2. i \in 1..n /\ i \in DOMAIN buffer
      BY <1>0, <2>1
    <3>3. new \in Seq(S) /\ Len(new) = n
      BY <3>1, <3>2, ExceptSeq
    <3>4. new[i] = cell /\ \A j \in 1..n : j # i => new[j] = buffer[j]
      BY <1>0, <3>1, <3>2
    <3> QED
      BY <1>0, <2>1, <3>3, <3>4
  <2>2. CASE ~(i <= n)
    <3>1. new = Append(buffer, cell) /\ i = n + 1
      BY <1>0, <2>2 DEF Put
    <3>2. /\ new \in Seq(S) /\ Len(new) = n + 1 /\ new[n + 1] = cell
          /\ \A j \in 1..n : new[j] = buffer[j]
      BY <3>1, AppendProperties
    <3> QED
      BY <1>0, <3>1, <3>2
  <2> QED
    BY <2>1, <2>2
<1> HIDE DEF new
<1> DEFINE p == SubSeq(buffer, 1, i - 1)
           q == SubSeq(new, 1, i)
           r == Append(p, cell)
<1>2. p \in Seq(S) /\ Len(p) = i - 1 /\ \A k \in 1..(i - 1) : p[k] = buffer[k]
  <2>1. 1 \in 1..(Len(buffer) + 1) /\ i - 1 \in Int /\ i - 1 <= Len(buffer) /\ 1 <= i - 1 + 1
    BY <1>0
  <2>2. /\ p \in Seq(S) /\ Len(p) = (i - 1) - 1 + 1
        /\ \A k \in 1..((i - 1) - 1 + 1) : p[k] = buffer[1 + k - 1]
    BY <2>1, SubSeqIs
  <2>3. (i - 1) - 1 + 1 = i - 1 /\ \A k \in 1..(i - 1) : 1 + k - 1 = k
    BY <1>0
  <2> HIDE DEF p
  <2> QED
    BY <2>2, <2>3
<1>3. q \in Seq(S) /\ Len(q) = i /\ \A k \in 1..i : q[k] = new[k]
  <2>1. 1 \in 1..(Len(new) + 1) /\ i \in Int /\ i <= Len(new) /\ 1 <= i + 1
    BY <1>0, <1>1
  <2>2. /\ q \in Seq(S) /\ Len(q) = i - 1 + 1
        /\ \A k \in 1..(i - 1 + 1) : q[k] = new[1 + k - 1]
    BY <1>1, <2>1, SubSeqIs
  <2>3. i - 1 + 1 = i /\ \A k \in 1..i : 1 + k - 1 = k
    BY <1>0
  <2> HIDE DEF q
  <2> QED
    BY <2>2, <2>3
<1> HIDE DEF p, q
<1>4. r \in Seq(S) /\ Len(r) = i /\ r[i] = cell /\ \A k \in 1..(i - 1) : r[k] = p[k]
  <2>1. i - 1 + 1 = i
    BY <1>0
  <2> QED
    BY <1>2, <2>1, AppendProperties
<1> HIDE DEF r
<1>5. \A k \in 1..i : q[k] = r[k]
  <2>1. \A k \in 1..i : k = i \/ (k \in 1..(i - 1) /\ k \in 1..n /\ k # i)
    BY <1>0
  <2> QED
    BY <1>1, <1>2, <1>3, <1>4, <2>1
<1>6. q = r
  <2>1. q = [k \in 1..i |-> q[k]] /\ r = [k \in 1..i |-> r[k]]
    BY <1>3, <1>4, LenProperties
  <2> QED
    BY <1>5, <2>1
<1> QED
  BY <1>1, <1>6 DEF PutIn, new, p, q, r

\* The cells of a buffer that texts over T are written to.
Cells(T) == T \cup {Nul}

\* What a field can hold of such a buffer.
Values(T) == {Converted(f, value) : f \in DOMAIN Fields, value \in Seq(Cells(T))}

\* The states of parseInsertPMS5003Body on such texts.
ReadingFields(T) ==
  [name : Seq(T), buffer : Seq(Cells(T)), size : Nat, inName : BOOLEAN,
   fields : [DOMAIN Fields -> SUBSET Values(T)], error : SUBSET Nat,
   found : Nat, failed : BOOLEAN]
ReadingState(T) == {st \in ReadingFields(T) : st.size <= Len(st.buffer)}

\* The value in the buffer is as long as the parameter's size says.
LEMMA CurrentIs ==
  ASSUME NEW T, NEW st \in ReadingState(T)
  PROVE  /\ Current(st) \in Seq(Cells(T)) /\ Len(Current(st)) = st.size
         /\ \A k \in 1..st.size : Current(st)[k] = st.buffer[k]
         /\ st.size \in Nat /\ st.size + 1 \in 1..(Len(st.buffer) + 1)
<1> DEFINE n == st.size
           buffer == st.buffer
<1>1. n \in Nat /\ n <= Len(buffer) /\ buffer \in Seq(Cells(T))
  BY DEF ReadingState, ReadingFields
<1> HIDE DEF n, buffer
<1>2. Len(buffer) \in Nat
  BY <1>1, LenProperties
<1>3. 1 \in 1..(Len(buffer) + 1) /\ n \in Int /\ n <= Len(buffer) /\ 1 <= n + 1
  BY <1>1, <1>2
<1>4. /\ SubSeq(buffer, 1, n) \in Seq(Cells(T)) /\ Len(SubSeq(buffer, 1, n)) = n - 1 + 1
      /\ \A k \in 1..(n - 1 + 1) : SubSeq(buffer, 1, n)[k] = buffer[1 + k - 1]
  BY <1>1, <1>3, SubSeqIs
<1>5. n - 1 + 1 = n /\ \A k \in 1..n : 1 + k - 1 = k
  BY <1>1
<1>6. /\ SubSeq(buffer, 1, n) \in Seq(Cells(T)) /\ Len(SubSeq(buffer, 1, n)) = n
      /\ \A k \in 1..n : SubSeq(buffer, 1, n)[k] = buffer[k]
  BY <1>4, <1>5
<1>7. n + 1 \in 1..(Len(buffer) + 1)
  BY <1>1, <1>2
<1> QED
  BY <1>1, <1>6, <1>7 DEF Current, n, buffer

\* The end of a parameter that is of a field.
LEMMA EndOf ==
  ASSUME NEW st, NEW f, FieldsOf(st.name) # {}, f = Min(FieldsOf(st.name))
  PROVE  /\ f \in DOMAIN Fields
         /\ EndParam(st) =
              [name |-> <<>>, buffer |-> Put(st.buffer, st.size + 1, Nul), size |-> 0,
               inName |-> TRUE,
               fields |-> [st.fields EXCEPT ![f] = {Converted(f, Current(st))}],
               error |-> IF Fields[f].type = "text" THEN st.error
                         ELSE {Taken(Current(st)) + 1},
               found |-> st.found + 1, failed |-> FALSE]
<1>1. FieldsOf(st.name) \subseteq DOMAIN Fields /\ DOMAIN Fields = 1..5
  BY DEF FieldsOf, Fields
<1>2. f \in FieldsOf(st.name)
  <2>1. FieldsOf(st.name) \subseteq Nat
    BY <1>1
  <2> QED
    BY <2>1, MinIs
<1> QED
  BY <1>1, <1>2 DEF EndParam

\* A token leads from states to states.
LEMMA ReadTokenType ==
  ASSUME NEW T, NEW st \in ReadingState(T), NEW t \in T
  PROVE  ReadToken(st, t) \in ReadingState(T)
<1>1. /\ st.name \in Seq(T) /\ st.buffer \in Seq(Cells(T)) /\ st.size \in Nat
      /\ st.inName \in BOOLEAN /\ st.fields \in [DOMAIN Fields -> SUBSET Values(T)]
      /\ st.error \in SUBSET Nat /\ st.found \in Nat /\ st.failed \in BOOLEAN
      /\ st.size <= Len(st.buffer) /\ st \in ReadingFields(T)
  BY DEF ReadingState, ReadingFields
<1>2. /\ Current(st) \in Seq(Cells(T)) /\ Len(Current(st)) = st.size
      /\ st.size + 1 \in 1..(Len(st.buffer) + 1)
  BY CurrentIs
<1>3. [st EXCEPT !.inName = FALSE] \in ReadingState(T)
  BY DEF ReadingState, ReadingFields
<1>4. [st EXCEPT !.name = Append(@, t)] \in ReadingState(T)
  <2>1. Append(st.name, t) \in Seq(T)
    BY <1>1, AppendProperties
  <2> QED
    BY <2>1 DEF ReadingState, ReadingFields
<1> DEFINE Written(cell) == Put(st.buffer, st.size + 1, cell)
<1>5. ASSUME NEW cell \in Cells(T)
      PROVE  /\ Written(cell) \in Seq(Cells(T))
             /\ st.size <= Len(Written(cell)) /\ st.size + 1 <= Len(Written(cell))
  <2>1. Written(cell) \in Seq(Cells(T)) /\ PutIn(st.buffer, Written(cell), st.size + 1, cell)
    BY <1>1, <1>2, PutIs
  <2>2. Len(Written(cell)) \in Nat
    BY <2>1, LenProperties
  <2> QED
    BY <1>1, <2>1, <2>2 DEF PutIn
<1>6. t \in Cells(T) /\ Nul \in Cells(T)
  BY DEF Cells
<1> HIDE DEF Written
<1>7. [st EXCEPT !.buffer = Written(t), !.size = @ + 1] \in ReadingState(T)
  <2>1. ASSUME NEW b \in Seq(Cells(T)), NEW n \in Nat, n <= Len(b)
        PROVE  [st EXCEPT !.buffer = b, !.size = n] \in ReadingState(T)
    BY <2>1 DEF ReadingState, ReadingFields
  <2>2. Written(t) \in Seq(Cells(T)) /\ st.size + 1 <= Len(Written(t))
    BY <1>5, <1>6, Zenon
  <2>3. st.size + 1 \in Nat
    BY <1>1
  <2> QED
    BY <2>1, <2>2, <2>3, Zenon
<1>8. EndParam(st) \in ReadingState(T)
  <2>1. CASE FieldsOf(st.name) = {}
    <3>1. EndParam(st) = [st EXCEPT !.buffer = Written(Nul), !.failed = TRUE]
      BY <2>1 DEF EndParam, Written
    <3>2. [st EXCEPT !.buffer = Written(Nul), !.failed = TRUE] \in ReadingState(T)
      BY <1>1, <1>5, <1>6 DEF ReadingState, ReadingFields
    <3> QED
      BY <3>1, <3>2
  <2>2. CASE FieldsOf(st.name) # {}
    <3> DEFINE f == Min(FieldsOf(st.name))
               fields == [st.fields EXCEPT ![f] = {Converted(f, Current(st))}]
               error == IF Fields[f].type = "text" THEN st.error ELSE {Taken(Current(st)) + 1}
    <3>1. /\ f \in DOMAIN Fields
          /\ EndParam(st) = [name |-> <<>>, buffer |-> Written(Nul), size |-> 0, inName |-> TRUE,
                             fields |-> fields, error |-> error,
                             found |-> st.found + 1, failed |-> FALSE]
      BY <2>2, EndOf DEF Written
    <3> HIDE DEF f
    <3>2. Converted(f, Current(st)) \in Values(T)
      BY <1>2, <3>1 DEF Values
    <3>3. fields \in [DOMAIN Fields -> SUBSET Values(T)]
      BY <1>1, <3>1, <3>2
    <3>4. error \in SUBSET Nat
      <4>1. Taken(Current(st)) \in 0..Len(Current(st))
        BY <1>2, TakenIs
      <4>2. Taken(Current(st)) + 1 \in Nat
        BY <4>1
      <4> QED
        BY <1>1, <4>2
    <3>5. <<>> \in Seq(T) /\ st.found + 1 \in Nat
      BY <1>1
    <3>6. Written(Nul) \in Seq(Cells(T)) /\ 0 <= Len(Written(Nul))
      BY <1>5, <1>6, LenProperties
    <3> HIDE DEF fields, error
    <3> QED
      BY <3>1, <3>3, <3>4, <3>5, <3>6 DEF ReadingState, ReadingFields
  <2> QED
    BY <2>1, <2>2
<1> QED
  BY <1>3, <1>4, <1>7, <1>8 DEF ReadToken, Copied, Written

\* The states that it passes through, a token at a time.
ReadingRun(S, text, T) ==
  /\ S \in [0..Len(text) -> ReadingState(T)]
  /\ S[0] = StartOfBody
  /\ \A i \in 1..Len(text) : S[i] = ReadToken(S[i - 1], text[i])

\* So the reading of a body passes through states.
LEMMA ReadingRuns ==
  ASSUME NEW T, NEW text \in Seq(T)
  PROVE  ReadingRun(Reading(text), text, T)
<1> DEFINE S == Reading(text)
           n == Len(text)
<1>0. n \in Nat
  BY LenProperties
<1> DEFINE F == [p \in ReadingState(T) \X (1..n) |-> ReadToken(p[1], text[p[2]])]
<1>1. StartOfBody \in ReadingState(T)
  <2>1. <<>> \in Seq(T)
    OBVIOUS
  <2>2. Unset \in [DOMAIN Fields -> SUBSET Values(T)]
    BY DEF Unset
  <2>3. <<>> \in Seq(Cells(T)) /\ 0 <= Len(<<>>)
    OBVIOUS
  <2> QED
    BY <2>1, <2>2, <2>3 DEF StartOfBody, ReadingState, ReadingFields
<1>2. \A st \in ReadingState(T), i \in 1..n : ReadToken(st, text[i]) \in ReadingState(T)
  <2>1. \A i \in 1..n : text[i] \in T
    BY ElementOfSeq
  <2> QED
    BY <2>1, ReadTokenType
<1>3. F \in [ReadingState(T) \X (1..n) -> ReadingState(T)]
  BY <1>2
<1>4. \A st \in ReadingState(T), i \in 1..n : F[<<st, i>>] = ReadToken(st, text[i])
  OBVIOUS
<1> HIDE DEF F, n, S
<1>5. PICK g \in [0..n -> ReadingState(T)] : IsRun(g, F, StartOfBody, n)
  BY <1>0, <1>1, <1>3, LoopRuns, Zenon
<1>6. g[0] = StartOfBody /\ \A i \in 1..n : g[i] = F[<<g[i - 1], i>>]
  BY <1>5 DEF IsRun
<1>7. ASSUME NEW i \in 1..n
      PROVE  g[i] = ReadToken(g[i - 1], text[i])
  <2>1. g[i - 1] \in ReadingState(T)
    BY <1>0, <1>5
  <2> QED
    BY <1>4, <1>6, <2>1, Zenon
<1>8. g = [i \in 0..n |-> IF i = 0 THEN StartOfBody ELSE ReadToken(g[i - 1], text[i])]
  BY <1>5, <1>6, <1>7
<1>9. S = [i \in 0..n |-> IF i = 0 THEN StartOfBody ELSE ReadToken(S[i - 1], text[i])]
  BY <1>8 DEF Reading, S, n
<1>10. S[0] = StartOfBody /\ \A i \in 1..n : S[i] = ReadToken(S[i - 1], text[i])
  <2> DEFINE G(i) == IF i = 0 THEN StartOfBody ELSE ReadToken(S[i - 1], text[i])
  <2>1. S = [i \in 0..n |-> G(i)]
    BY <1>9
  <2>2. G(0) = StartOfBody /\ \A i \in 1..n : G(i) = ReadToken(S[i - 1], text[i])
    OBVIOUS
  <2> HIDE DEF G
  <2>3. S[0] = G(0) /\ \A i \in 1..n : S[i] = G(i)
    BY <1>0, <2>1
  <2> QED
    BY <2>2, <2>3
<1>11. \A i \in 0..n : S[i] \in ReadingState(T)
  <2> DEFINE Q == {i \in Nat : S[i] \in ReadingState(T)}
  <2>1. 0 \in Q
    BY <1>1, <1>10
  <2>2. \A i \in 1..n : i - 1 \in Q => i \in Q
    BY <1>2, <1>10
  <2> HIDE DEF Q
  <2>3. \A i \in 0..n : i \in Q
    BY <1>0, <2>1, <2>2, Induction
  <2> QED
    BY <2>3 DEF Q
<1>12. S \in [0..n -> ReadingState(T)]
  BY <1>9, <1>11
<1> QED
  BY <1>10, <1>12 DEF ReadingRun, S, n

-----------------------------------------------------------------------------
(***************************************************************************)
(* parseInsertPMS5003Body: the invariant of its loop, and its end.         *)
(***************************************************************************)

\* A text whose parameters, each with a separator after it, are these: parameter k
\* stands between the separators b[k - 1] and b[k].
EndsOf(text, params, n, b) ==
  /\ b[0] = 0 /\ b[n] = Len(text)
  /\ \A j, k \in 0..n : j < k => b[j] < b[k]
  /\ \A k \in 1..n : text[b[k]] = "&"
  /\ \A k \in 1..n, i \in 1..Len(text) : b[k - 1] < i /\ i < b[k] => text[i] # "&"
  /\ \A k \in 1..n : params[k] = SubSeq(text, b[k - 1] + 1, b[k] - 1)

\* What is read of a parameter.
ReadsPart(st, part) ==
  /\ st.name = NameOf(part) /\ Current(st) = ValueOf(part)
  /\ st.inName <=> ~HasValue(part)
  /\ \A i \in 1..st.size : st.buffer[i] # Nul

\* After the first c parameters errorBuffer points behind what strtol took of the
\* latest number; and a string begins there if a value goes on, unless the value
\* being read has come so far.
PointsBehind(params, st, c, l) ==
  LET e == TakenOf(params, l) + 1
  IN /\ TakenOf(params, l) \in Nat
     /\ e <= Len(st.buffer)
     /\ st.size < e => (st.buffer[e] # Nul <=> GoesOn(params, c, l))

ErrorIs(params, st, c) ==
  /\ st.error = {TakenOf(params, l) + 1 : l \in Latest(Numbers(params, c))}
  /\ \A l \in Latest(Numbers(params, c)) : PointsBehind(params, st, c, l)

\* After the first c parameters.
ReadsParams(params, st, c) ==
  /\ st.fields = FieldsAfter(params, c)
  /\ st.failed <=> ReadUpTo(params, c) # 1..c
  /\ st.failed \/ st.found = c
  /\ st.failed \/ ErrorIs(params, st, c)

\* After i tokens.
ReadInv(text, params, n, b, st, i) ==
  \E c \in 0..n : /\ b[c] <= i
                  /\ c < n => i < b[c + 1]
                  /\ ReadsParams(params, st, c)
                  /\ st.failed \/ ReadsPart(st, SubSeq(text, b[c] + 1, i))

\* Before the first token.
LEMMA StartReads ==
  ASSUME NEW params
  PROVE  /\ ReadsParams(params, StartOfBody, 0)
         /\ ReadsPart(StartOfBody, <<>>)
<1>1. ReadUpTo(params, 0) = {} /\ 1..0 = {}
  BY DEF ReadUpTo
<1>2. Latest({}) = {}
  BY DEF Latest
<1>3. ErrorIs(params, StartOfBody, 0)
  <2>1. Latest(Numbers(params, 0)) = {}
    BY <1>1, <1>2 DEF Numbers
  <2> QED
    BY <2>1 DEF ErrorIs, StartOfBody
<1>5. Current(StartOfBody) = <<>>
  BY DEF Current, StartOfBody
<1>4. FieldsAfter(params, 0) = Unset
  <2>1. \A f : ValuesAfter(params, 0, f) = {}
    BY <1>1, <1>2 DEF ValuesAfter
  <2> QED
    BY <2>1 DEF FieldsAfter, Unset
<1> QED
  BY <1>1, <1>3, <1>4, <1>5, NothingRead DEF ReadsParams, ReadsPart, StartOfBody

\* A token of a value.
LEMMA NextCell ==
  ASSUME NEW T, NEW st \in ReadingState(T), NEW t \in T, Nul \notin T, ~st.inName
  PROVE  /\ Copied(st, t).name = st.name /\ Copied(st, t).inName = st.inName
         /\ Copied(st, t).size = st.size + 1
         /\ Current(Copied(st, t)) = Append(Current(st), t)
         /\ PutIn(st.buffer, Copied(st, t).buffer, st.size + 1, t)
<1> DEFINE new == Copied(st, t)
<1>1. new = [st EXCEPT !.buffer = Put(@, st.size + 1, t), !.size = @ + 1]
  BY DEF Copied
<1>2. /\ new.name = st.name /\ new.inName = st.inName /\ new.size = st.size + 1
      /\ new.buffer = Put(st.buffer, st.size + 1, t)
  BY <1>1 DEF ReadingState, ReadingFields
<1>3. st.buffer \in Seq(Cells(T)) /\ t \in Cells(T)
  BY DEF ReadingState, ReadingFields, Cells
<1>4. st.size \in Nat /\ st.size + 1 \in 1..(Len(st.buffer) + 1)
  BY CurrentIs
<1>5. PutIn(st.buffer, new.buffer, st.size + 1, t)
  BY <1>2, <1>3, <1>4, PutIs
<1>6. (st.size + 1) - 1 = st.size
  BY <1>4
<1> HIDE DEF new
<1>7. Current(new) = Append(Current(st), t)
  <2>1. SubSeq(new.buffer, 1, st.size + 1) = Append(SubSeq(st.buffer, 1, (st.size + 1) - 1), t)
    BY <1>5, Zenon DEF PutIn
  <2>2. SubSeq(new.buffer, 1, st.size + 1) = Append(SubSeq(st.buffer, 1, st.size), t)
    BY <1>6, <2>1, Zenon
  <2> QED
    BY <1>2, <2>2, Zenon DEF Current
<1> QED
  BY <1>2, <1>5, <1>7 DEF new

\* A token of a parameter.
LEMMA NextPart ==
  ASSUME NEW T, NEW st \in ReadingState(T), NEW p \in Seq(T), NEW t \in T, t # "&",
         Nul \notin T, ~st.failed, ReadsPart(st, p)
  PROVE  ReadsPart(ReadToken(st, t), Append(p, t))
<1> DEFINE longer == Append(p, t)
<1>1. PartsOf(longer, p, t)
  BY PartsGrow
<1> HIDE DEF longer
<1>2. /\ NameOf(longer) = IF t # "=" /\ ~HasValue(p) THEN Append(st.name, t) ELSE st.name
      /\ ValueOf(longer) = IF t # "=" /\ HasValue(p) THEN Append(Current(st), t) ELSE Current(st)
      /\ HasValue(longer) <=> t = "=" \/ HasValue(p)
      /\ st.inName <=> ~HasValue(p)
      /\ \A i \in 1..st.size : st.buffer[i] # Nul
  BY <1>1 DEF PartsOf, ReadsPart
<1>3. ReadToken(st, t) = IF t = "=" THEN [st EXCEPT !.inName = FALSE] ELSE Copied(st, t)
  BY DEF ReadToken
<1>4. CASE t = "="
  <2> DEFINE new == [st EXCEPT !.inName = FALSE]
  <2>1. /\ new.name = st.name /\ new.buffer = st.buffer /\ new.size = st.size
        /\ new.inName = FALSE
    BY DEF ReadingState, ReadingFields
  <2>2. ReadToken(st, t) = new
    BY <1>3, <1>4
  <2> HIDE DEF new
  <2>3. Current(new) = Current(st)
    BY <2>1 DEF Current
  <2>4. ReadsPart(new, longer)
    BY <1>2, <1>4, <2>1, <2>3 DEF ReadsPart
  <2> QED
    BY <2>2, <2>4 DEF longer
<1>5. CASE t # "=" /\ st.inName
  <2> DEFINE new == [st EXCEPT !.name = Append(@, t)]
  <2>1. /\ new.name = Append(st.name, t) /\ new.buffer = st.buffer /\ new.size = st.size
        /\ new.inName = st.inName
    BY DEF ReadingState, ReadingFields
  <2>2. ReadToken(st, t) = new
    BY <1>3, <1>5 DEF Copied
  <2> HIDE DEF new
  <2>3. Current(new) = Current(st)
    BY <2>1 DEF Current
  <2>4. ReadsPart(new, longer)
    BY <1>2, <1>5, <2>1, <2>3 DEF ReadsPart
  <2> QED
    BY <2>2, <2>4 DEF longer
<1>6. CASE t # "=" /\ ~st.inName
  <2> DEFINE new == Copied(st, t)
  <2>1. /\ new.name = st.name /\ new.inName = st.inName /\ new.size = st.size + 1
        /\ Current(new) = Append(Current(st), t)
        /\ PutIn(st.buffer, new.buffer, st.size + 1, t)
    BY <1>6, NextCell
  <2>2. ReadToken(st, t) = new
    BY <1>3, <1>6
  <2> HIDE DEF new
  <2>3. \A i \in 1..new.size : new.buffer[i] # Nul
    <3>1. st.size \in Nat /\ Len(st.buffer) \in Nat /\ st.size <= Len(st.buffer)
      BY DEF ReadingState, ReadingFields
    <3>2. \A i \in 1..(st.size + 1) : i = st.size + 1 \/ (i \in 1..st.size /\ i \in 1..Len(st.buffer) /\ i # st.size + 1)
      BY <3>1
    <3> QED
      BY <1>2, <2>1, <3>2 DEF PutIn
  <2>4. ReadsPart(new, longer)
    BY <1>2, <1>6, <2>1, <2>3 DEF ReadsPart
  <2> QED
    BY <2>2, <2>4 DEF longer
<1> QED
  BY <1>4, <1>5, <1>6

\* It changes nothing of the parameters before.
LEMMA SameParams ==
  ASSUME NEW T, NEW st \in ReadingState(T), NEW t \in T, t # "&", Nul \notin T,
         NEW params, NEW c, ReadsParams(params, st, c)
  PROVE  ReadsParams(params, ReadToken(st, t), c)
<1> DEFINE new == ReadToken(st, t)
<1>1. \/ new = st
      \/ new = [st EXCEPT !.inName = FALSE]
      \/ new = [st EXCEPT !.name = Append(@, t)]
      \/ new = Copied(st, t) /\ ~st.inName
  BY DEF ReadToken, Copied
<1>2. /\ new.fields = st.fields /\ new.error = st.error
      /\ new.failed = st.failed /\ new.found = st.found
  BY <1>1 DEF ReadingState, ReadingFields, Copied
<1>3. \/ new.buffer = st.buffer /\ new.size = st.size
      \/ new.size = st.size + 1 /\ PutIn(st.buffer, new.buffer, st.size + 1, t)
  <2>1. CASE new = Copied(st, t) /\ ~st.inName
    BY <2>1, NextCell
  <2>2. CASE ~(new = Copied(st, t) /\ ~st.inName)
    BY <1>1, <2>2 DEF ReadingState, ReadingFields
  <2> QED
    BY <2>1, <2>2
<1>4. new \in ReadingState(T)
  BY ReadTokenType
<1> HIDE DEF new
<1>5. /\ st.size \in Nat /\ Len(st.buffer) \in Nat /\ Len(new.buffer) \in Nat
      /\ st.size <= Len(st.buffer)
  BY <1>4 DEF ReadingState, ReadingFields
<1>6. ASSUME NEW l, PointsBehind(params, st, c, l)
      PROVE  PointsBehind(params, new, c, l)
  <2> DEFINE e == TakenOf(params, l) + 1
  <2>1. /\ TakenOf(params, l) \in Nat /\ e \in Nat /\ e >= 1
        /\ e <= Len(st.buffer)
        /\ st.size < e => (st.buffer[e] # Nul <=> GoesOn(params, c, l))
    BY <1>6 DEF PointsBehind
  <2> HIDE DEF e
  <2>2. CASE new.buffer = st.buffer /\ new.size = st.size
    BY <2>1, <2>2 DEF PointsBehind, e
  <2>3. CASE new.size = st.size + 1 /\ PutIn(st.buffer, new.buffer, st.size + 1, t)
    <3>1. Len(new.buffer) >= Len(st.buffer)
      BY <2>3 DEF PutIn
    <3>2. new.size < e => st.size < e /\ e \in 1..Len(st.buffer) /\ e # st.size + 1
      BY <1>5, <2>1, <2>3
    <3>3. new.size < e => new.buffer[e] = st.buffer[e]
      BY <2>3, <3>2 DEF PutIn
    <3>4. e <= Len(new.buffer)
      BY <1>5, <2>1, <3>1
    <3> QED
      BY <2>1, <3>2, <3>3, <3>4 DEF PointsBehind, e
  <2> QED
    BY <1>3, <2>2, <2>3
<1>7. st.failed \/ ErrorIs(params, new, c)
  BY <1>2, <1>6, Zenon DEF ReadsParams, ErrorIs
<1>8. ReadsParams(params, new, c)
  BY <1>2, <1>7, Zenon DEF ReadsParams
<1> QED
  BY <1>8 DEF new

\* The end of a parameter, and where errorBuffer points after it.
LEMMA NextError ==
  ASSUME NEW T, NEW st \in ReadingState(T), Nul \notin T, NEW params, NEW c \in Nat,
         ErrorIs(params, st, c), ReadsPart(st, params[c + 1]),
         ReadUpTo(params, c) = 1..c, ReadUpTo(params, c + 1) = 1..(c + 1),
         NEW new, new.buffer = Put(st.buffer, st.size + 1, Nul), new.size = 0,
         NEW l \in Latest(Numbers(params, c + 1)),
         l \in Latest(Numbers(params, c)) \/ l = c + 1
  PROVE  PointsBehind(params, new, c + 1, l)
<1> DEFINE m == c + 1
           n == st.size
           t == TakenOf(params, l)
           e == t + 1
           size == Size(params, m)
<1>1. /\ Current(st) \in Seq(Cells(T)) /\ Len(Current(st)) = n /\ n \in Nat
      /\ n + 1 \in 1..(Len(st.buffer) + 1)
  BY CurrentIs
<1>2. size = n /\ TakenOf(params, m) = Taken(Current(st)) /\ (\A i \in 1..n : st.buffer[i] # Nul)
  BY <1>1 DEF ReadsPart, Size, TakenOf
<1>3. Taken(Current(st)) \in 0..n
  BY <1>1, TakenIs
<1>4. st.buffer \in Seq(Cells(T)) /\ Nul \in Cells(T)
  BY DEF ReadingState, ReadingFields, Cells
<1>5. /\ new.buffer \in Seq(Cells(T)) /\ PutIn(st.buffer, new.buffer, n + 1, Nul)
  BY <1>1, <1>4, PutIs
<1>6. Len(st.buffer) \in Nat /\ Len(new.buffer) \in Nat
  BY <1>4, <1>5, LenProperties
<1>7. /\ Len(new.buffer) >= Len(st.buffer) /\ n + 1 <= Len(new.buffer) /\ new.buffer[n + 1] = Nul
      /\ \A j \in 1..Len(st.buffer) : j # n + 1 => new.buffer[j] = st.buffer[j]
  BY <1>5 DEF PutIn
<1>8. l \in 1..m
  BY DEF Latest, Numbers
<1>9. l = m => t = Taken(Current(st)) /\ t \in 0..n
  BY <1>2, <1>3
<1>10. l # m => PointsBehind(params, st, c, l)
  BY DEF ErrorIs
<1>11. t \in Nat
  BY <1>9, <1>10 DEF PointsBehind
<1>12. /\ size >= t => (GoesOn(params, m, l) <=> size > t)
       /\ size < t => (GoesOn(params, m, l) <=> GoesOn(params, c, l))
  <2>1. Size(params, c + 1) \in Nat
    BY <1>1, <1>2
  <2>2. l \in 1..(c + 1) /\ TakenOf(params, l) \in Nat
    BY <1>8, <1>11
  <2> QED
    BY <2>1, <2>2, OneMoreReaching
<1>13. l # m => e <= Len(st.buffer) /\ (n < e => (st.buffer[e] # Nul <=> GoesOn(params, c, l)))
  BY <1>10 DEF PointsBehind
<1> HIDE DEF t, size, m, n
<1>14. e <= Len(new.buffer) /\ e \in Nat /\ e >= 1
  BY <1>1, <1>6, <1>7, <1>9, <1>11, <1>13
<1>15. new.buffer[e] # Nul <=> GoesOn(params, m, l)
  <2>1. CASE n < t
    <3>1. l # m
      BY <1>1, <1>9, <1>11, <2>1
    <3>2. e \in 1..Len(st.buffer) /\ e # n + 1 /\ n < e
      BY <1>1, <1>6, <1>11, <1>13, <1>14, <2>1, <3>1
    <3>3. size < t
      BY <1>2, <2>1
    <3> QED
      BY <1>7, <1>12, <1>13, <3>1, <3>2, <3>3
  <2>2. CASE n = t
    <3>1. e = n + 1 /\ size >= t /\ ~(size > t)
      BY <1>1, <1>2, <2>2
    <3> QED
      BY <1>7, <1>12, <3>1
  <2>3. CASE n > t
    <3>1. e \in 1..n /\ e \in 1..Len(st.buffer) /\ e # n + 1 /\ size >= t /\ size > t
      BY <1>1, <1>2, <1>6, <1>11, <2>3
    <3> QED
      BY <1>2, <1>7, <1>12, <3>1
  <2> QED
    BY <1>1, <1>11, <2>1, <2>2, <2>3
<1> QED
  BY <1>11, <1>14, <1>15 DEF PointsBehind, t, m

\* The end of a parameter.
LEMMA NextParam ==
  ASSUME NEW T, NEW st \in ReadingState(T), Nul \notin T, NEW params, NEW c \in Nat,
         ReadsParams(params, st, c), st.failed \/ ReadsPart(st, params[c + 1])
  PROVE  /\ ReadsParams(params, ReadToken(st, "&"), c + 1)
         /\ ReadToken(st, "&").failed \/ ReadsPart(ReadToken(st, "&"), <<>>)
<1> DEFINE p == params[c + 1]
           new == ReadToken(st, "&")
<1>1. /\ st.fields = FieldsAfter(params, c)
      /\ st.failed <=> ReadUpTo(params, c) # 1..c
      /\ st.failed \/ st.found = c
      /\ st.failed \/ ErrorIs(params, st, c)
      /\ st.failed \in BOOLEAN
  BY DEF ReadsParams, ReadingState, ReadingFields
<1>2. /\ ReadUpTo(params, c) # 1..c \/ FieldOf(p) = {}
           => /\ ReadUpTo(params, c + 1) = ReadUpTo(params, c)
              /\ ReadUpTo(params, c + 1) # 1..(c + 1)
  BY ReadOn
<1>3. ReadUpTo(params, c + 1) = ReadUpTo(params, c) =>
        FieldsAfter(params, c + 1) = FieldsAfter(params, c)
  BY DEF FieldsAfter, ValuesAfter
<1>4. CASE st.failed
  <2>1. new = st
    BY <1>4 DEF ReadToken
  <2> QED
    BY <1>1, <1>2, <1>3, <1>4, <2>1 DEF ReadsParams
<1>5. CASE ~st.failed /\ FieldsOf(NameOf(p)) = {}
  <2>1. FieldOf(p) = {} /\ FieldsOf(st.name) = {}
    BY <1>5, FieldOfIs DEF ReadsPart
  <2>2. new = [st EXCEPT !.buffer = Put(st.buffer, st.size + 1, Nul), !.failed = TRUE]
    BY <1>5, <2>1 DEF ReadToken, EndParam
  <2>3. new.failed = TRUE /\ new.fields = st.fields
    BY <2>2 DEF ReadingState, ReadingFields
  <2> QED
    BY <1>1, <1>2, <1>3, <2>1, <2>3 DEF ReadsParams
<1>6. CASE ~st.failed /\ FieldsOf(NameOf(p)) # {}
  <2> DEFINE f == Min(FieldsOf(NameOf(p)))
  <2>1. FieldOf(p) = {f} /\ st.name = NameOf(p) /\ Current(st) = ValueOf(p) /\ ReadsPart(st, p)
    BY <1>6, FieldOfIs DEF ReadsPart
  <2>2. f \in DOMAIN Fields /\ new = EndParam(st) /\
        EndParam(st) =
              [name |-> <<>>, buffer |-> Put(st.buffer, st.size + 1, Nul), size |-> 0,
               inName |-> TRUE,
               fields |-> [st.fields EXCEPT ![f] = {Converted(f, Current(st))}],
               error |-> IF Fields[f].type = "text" THEN st.error
                         ELSE {Taken(Current(st)) + 1},
               found |-> st.found + 1, failed |-> FALSE]
    <3>1. FieldsOf(st.name) # {} /\ f = Min(FieldsOf(st.name))
      BY <1>6, <2>1
    <3> HIDE DEF f
    <3>2. new = EndParam(st)
      BY <1>6 DEF ReadToken
    <3> QED
      BY <3>1, <3>2, EndOf
  <2> HIDE DEF f, new
  <2>3. /\ new.name = <<>> /\ new.size = 0 /\ new.inName = TRUE
        /\ new.buffer = Put(st.buffer, st.size + 1, Nul)
        /\ new.fields = [st.fields EXCEPT ![f] = {Converted(f, ValueOf(p))}]
        /\ new.error = IF Fields[f].type = "text" THEN st.error ELSE {TakenOf(params, c + 1) + 1}
        /\ new.found = st.found + 1 /\ new.failed = FALSE
    BY <2>1, <2>2 DEF TakenOf
  <2>4. /\ ReadUpTo(params, c) = 1..c
        /\ ReadUpTo(params, c + 1) = 1..(c + 1)
        /\ FieldsAfter(params, c + 1) =
              [FieldsAfter(params, c) EXCEPT ![f] = {Converted(f, ValueOf(p))}]
        /\ Latest(Numbers(params, c + 1)) =
              IF Fields[f].type = "text" THEN Latest(Numbers(params, c)) ELSE {c + 1}
    <3>1. ReadUpTo(params, c) = 1..c
      BY <1>1, <1>6
    <3> QED
      BY <2>1, <2>2, <3>1, OneMoreRead
  <2> DEFINE m == c + 1
             latest == Latest(Numbers(params, m))
  <2>5. \A l \in latest : PointsBehind(params, new, m, l)
    <3>1. ASSUME NEW l \in latest
          PROVE  PointsBehind(params, new, c + 1, l)
      <4>1. l \in Latest(Numbers(params, c)) \/ l = c + 1
        BY <2>4
      <4>2. ErrorIs(params, st, c)
        BY <1>1, <1>6
      <4>3. l \in Latest(Numbers(params, c + 1)) /\ ReadsPart(st, params[c + 1])
        BY <2>1
      <4> QED
        BY <2>3, <2>4, <4>1, <4>2, <4>3, NextError
    <3> QED
      BY <3>1
  <2>6. new.error = {TakenOf(params, l) + 1 : l \in latest}
    <3>1. st.error = {TakenOf(params, l) + 1 : l \in Latest(Numbers(params, c))}
      BY <1>1, <1>6 DEF ErrorIs
    <3> QED
      BY <2>3, <2>4, <3>1
  <2>7. ErrorIs(params, new, c + 1)
    <3> HIDE DEF m
    <3>1. ErrorIs(params, new, m)
      BY <2>5, <2>6 DEF ErrorIs
    <3> QED
      BY <3>1 DEF m
  <2>8. ReadsParams(params, new, c + 1)
    BY <1>1, <1>6, <2>3, <2>4, <2>7 DEF ReadsParams
  <2>9. ReadsPart(new, <<>>)
    <3>1. Current(new) = <<>>
      BY <2>3 DEF Current
    <3> QED
      BY <2>3, <3>1, NothingRead DEF ReadsPart
  <2> QED
    BY <2>8, <2>9 DEF new
<1> QED
  BY <1>1, <1>4, <1>5, <1>6

\* The part of a text after b, one token longer.
LEMMA PartGrows ==
  ASSUME NEW T, NEW text \in Seq(T), NEW b \in Nat, NEW i \in 1..Len(text), b < i
  PROVE  /\ SubSeq(text, b + 1, i - 1) \in Seq(T)
         /\ SubSeq(text, b + 1, i) = Append(SubSeq(text, b + 1, i - 1), text[i])
         /\ SubSeq(text, i + 1, i) = <<>>
<1> DEFINE p == SubSeq(text, b + 1, i - 1)
           q == SubSeq(text, b + 1, i)
           t == text[i]
           m == i - b
<1>1. Len(text) \in Nat /\ t \in T /\ i \in Nat /\ m \in Nat \ {0}
  BY LenProperties, ElementOfSeq
<1>2. p \in Seq(T) /\ Len(p) = m - 1 /\ \A k \in 1..(m - 1) : p[k] = text[b + k]
  <2>1. b + 1 \in 1..(Len(text) + 1) /\ i - 1 \in Int /\ i - 1 <= Len(text) /\ b + 1 <= i - 1 + 1
    BY <1>1
  <2>2. /\ p \in Seq(T) /\ Len(p) = (i - 1) - (b + 1) + 1
        /\ \A k \in 1..((i - 1) - (b + 1) + 1) : p[k] = text[b + 1 + k - 1]
    BY <2>1, SubSeqIs
  <2>3. (i - 1) - (b + 1) + 1 = m - 1 /\ \A k \in 1..(m - 1) : b + 1 + k - 1 = b + k
    BY <1>1
  <2> HIDE DEF p, m
  <2> QED
    BY <2>2, <2>3
<1>3. q \in Seq(T) /\ Len(q) = m /\ \A k \in 1..m : q[k] = text[b + k]
  <2>1. b + 1 \in 1..(Len(text) + 1) /\ i \in Int /\ i <= Len(text) /\ b + 1 <= i + 1
    BY <1>1
  <2>2. /\ q \in Seq(T) /\ Len(q) = i - (b + 1) + 1
        /\ \A k \in 1..(i - (b + 1) + 1) : q[k] = text[b + 1 + k - 1]
    BY <2>1, SubSeqIs
  <2>3. i - (b + 1) + 1 = m /\ \A k \in 1..m : b + 1 + k - 1 = b + k
    BY <1>1
  <2> HIDE DEF q, m
  <2> QED
    BY <2>2, <2>3
<1>4. SubSeq(text, i + 1, i) = <<>>
  <2>1. i + 1 \in 1..(Len(text) + 1) /\ i \in Int /\ i <= Len(text) /\ i + 1 <= i + 1
    BY <1>1
  <2>2. SubSeq(text, i + 1, i) \in Seq(T) /\ Len(SubSeq(text, i + 1, i)) = i - (i + 1) + 1
    BY <2>1, SubSeqIs
  <2>3. i - (i + 1) + 1 = 0
    BY <1>1
  <2> QED
    BY <2>2, <2>3, EmptySeq
<1>5. b + m = i
  BY <1>1
<1> HIDE DEF p, q, t, m
<1> DEFINE r == Append(p, t)
<1>6. /\ r \in Seq(T) /\ Len(r) = m /\ r[m] = t /\ \A k \in 1..(m - 1) : r[k] = p[k]
  <2>1. m - 1 + 1 = m
    BY <1>1
  <2> QED
    BY <1>1, <1>2, <2>1, AppendProperties
<1> HIDE DEF r
<1>7. \A k \in 1..m : r[k] = q[k]
  <2>1. \A k \in 1..m : k = m \/ k \in 1..(m - 1)
    BY <1>1
  <2>2. q[m] = t
    BY <1>1, <1>3, <1>5 DEF t
  <2>3. \A k \in 1..(m - 1) : k \in 1..m
    BY <1>1
  <2> QED
    BY <1>2, <1>3, <1>6, <2>1, <2>2, <2>3
<1>8. r = q
  <2>1. r = [k \in 1..m |-> r[k]] /\ q = [k \in 1..m |-> q[k]]
    BY <1>3, <1>6, LenProperties
  <2> QED
    BY <1>7, <2>1
<1> QED
  BY <1>2, <1>4, <1>8 DEF p, q, r, t

\* A token keeps the invariant.
LEMMA ReadStep ==
  ASSUME NEW T, NEW text \in Seq(T), NEW params, NEW n \in Nat,
         NEW b \in [0..n -> 0..Len(text)], EndsOf(text, params, n, b),
         NEW i \in 1..Len(text), NEW st \in ReadingState(T), Nul \notin T,
         ReadInv(text, params, n, b, st, i - 1)
  PROVE  ReadInv(text, params, n, b, ReadToken(st, text[i]), i)
<1> DEFINE t == text[i]
           new == ReadToken(st, t)
<1>1. PICK c \in 0..n : /\ b[c] <= i - 1
                        /\ c < n => i - 1 < b[c + 1]
                        /\ ReadsParams(params, st, c)
                        /\ st.failed \/ ReadsPart(st, SubSeq(text, b[c] + 1, i - 1))
  BY DEF ReadInv
<1>2. /\ b[n] = Len(text)
      /\ \A j, k \in 0..n : j < k => b[j] < b[k]
      /\ \A k \in 1..n : text[b[k]] = "&"
      /\ \A k \in 1..n, j \in 1..Len(text) : b[k - 1] < j /\ j < b[k] => text[j] # "&"
      /\ \A k \in 1..n : params[k] = SubSeq(text, b[k - 1] + 1, b[k] - 1)
  BY DEF EndsOf
<1>3. Len(text) \in Nat /\ \A k \in 0..n : b[k] \in 0..Len(text)
  BY LenProperties
<1> DEFINE bc == b[c]
           m == c + 1
           bm == b[m]
<1>4. c < n /\ m \in 1..n /\ m - 1 = c
  BY <1>1, <1>2, <1>3
<1>5. bc \in Nat /\ bc < i /\ bm \in Nat /\ i <= bm
  BY <1>1, <1>3, <1>4
<1>6. t \in T
  BY ElementOfSeq
<1> DEFINE p == SubSeq(text, bc + 1, i - 1)
<1>7. /\ p \in Seq(T) /\ SubSeq(text, bc + 1, i) = Append(p, t)
      /\ SubSeq(text, i + 1, i) = <<>>
  <2> HIDE DEF bc
  <2> QED
    BY <1>5, PartGrows
<1>8. /\ ReadsParams(params, st, c) /\ (st.failed \/ ReadsPart(st, p))
  BY <1>1
<1>9. CASE i = bm
  <2>1. t = "&"
    BY <1>2, <1>4, <1>9
  <2>2. params[c + 1] = p
    BY <1>2, <1>4, <1>9
  <2>3. /\ ReadsParams(params, new, c + 1) /\ (new.failed \/ ReadsPart(new, <<>>))
    <3> HIDE DEF p
    <3>1. st.failed \/ ReadsPart(st, params[c + 1])
      BY <1>8, <2>2
    <3>2. c \in Nat
      OBVIOUS
    <3>3. new = ReadToken(st, "&")
      BY <2>1
    <3> HIDE DEF new
    <3> QED
      BY <1>8, <3>1, <3>2, <3>3, NextParam
  <2>4. m \in 0..n /\ b[m] <= i /\ (m < n => i < b[m + 1])
    <3>1. m \in 0..n /\ b[m] <= i
      BY <1>4, <1>5, <1>9
    <3>2. ASSUME m < n
          PROVE  i < b[m + 1]
      <4>1. m \in 0..n /\ m + 1 \in 0..n /\ m < m + 1
        BY <1>4, <3>2
      <4> HIDE DEF m
      <4>2. b[m] < b[m + 1]
        BY <1>2, <4>1
      <4> QED
        BY <1>9, <4>2
    <3> QED
      BY <3>1, <3>2
  <2>5. SubSeq(text, b[m] + 1, i) = <<>>
    BY <1>7, <1>9
  <2> HIDE DEF new, t
  <2>6. ReadsParams(params, new, m) /\ (new.failed \/ ReadsPart(new, SubSeq(text, b[m] + 1, i)))
    BY <2>3, <2>5
  <2> HIDE DEF m
  <2>7. ReadInv(text, params, n, b, new, i)
    BY <2>4, <2>6 DEF ReadInv
  <2> QED
    BY <2>7 DEF new, t
<1>10. CASE i # bm
  <2>1. i < bm
    BY <1>5, <1>10
  <2>2. t # "&"
    BY <1>2, <1>4, <1>5, <2>1
  <2>3. ReadsParams(params, new, c)
    BY <1>6, <1>8, <2>2, SameParams
  <2>4. new.failed \/ ReadsPart(new, Append(p, t))
    <3>1. CASE st.failed
      BY <3>1 DEF ReadToken
    <3>2. CASE ~st.failed
      <4>1. ReadsPart(st, p) /\ p \in Seq(T) /\ t \in T
        BY <1>6, <1>7, <1>8, <3>2
      <4> HIDE DEF p, t, new
      <4>2. ReadsPart(ReadToken(st, t), Append(p, t))
        BY <2>2, <3>2, <4>1, NextPart
      <4> QED
        BY <4>2 DEF new
    <3> QED
      BY <3>1, <3>2
  <2>5. b[c] <= i /\ (c < n => i < b[c + 1])
    BY <1>5, <2>1
  <2>6. new.failed \/ ReadsPart(new, SubSeq(text, b[c] + 1, i))
    BY <1>7, <2>4
  <2> HIDE DEF new, t
  <2>7. ReadInv(text, params, n, b, new, i)
    BY <2>3, <2>5, <2>6 DEF ReadInv
  <2> QED
    BY <2>7 DEF new, t
<1> QED
  BY <1>9, <1>10

\* So it holds at the end, where all parameters are read and nothing of another.
LEMMA ReadingEnds ==
  ASSUME NEW T, NEW text \in Seq(T), NEW params, NEW n \in Nat, Nul \notin T,
         NEW b \in [0..n -> 0..Len(text)], EndsOf(text, params, n, b)
  PROVE  /\ ReadsParams(params, Reading(text)[Len(text)], n)
         /\ \/ Reading(text)[Len(text)].failed
            \/ Reading(text)[Len(text)].size = 0
<1> DEFINE L == Len(text)
<1>0. L \in Nat
  BY LenProperties
<1> HIDE DEF L
<1>1. PICK S : S = Reading(text)
  OBVIOUS
<1>2. /\ S \in [0..L -> ReadingState(T)]
      /\ S[0] = StartOfBody
      /\ \A i \in 1..L : S[i] = ReadToken(S[i - 1], text[i])
  <2>1. ReadingRun(Reading(text), text, T)
    BY ReadingRuns
  <2> QED
    BY <1>1, <2>1 DEF ReadingRun, L
<1>3. /\ b[0] = 0 /\ b[n] = L
      /\ \A j, k \in 0..n : j < k => b[j] < b[k]
      /\ \A k \in 0..n : b[k] \in Nat
  BY DEF EndsOf, L
<1> DEFINE Q == {i \in 0..L : ReadInv(text, params, n, b, S[i], i)}
<1>4. 0 \in Q
  <2>1. 0 \in 0..n /\ b[0] <= 0
    BY <1>3
  <2>2. 0 < n => 0 < b[0 + 1]
    BY <1>3
  <2>3. ReadsPart(S[0], SubSeq(text, b[0] + 1, 0)) /\ ReadsParams(params, S[0], 0)
    <3>1. SubSeq(text, 0 + 1, 0) = <<>>
      OBVIOUS
    <3> QED
      BY <1>2, <1>3, <3>1, StartReads
  <2>4. ReadInv(text, params, n, b, S[0], 0)
    BY <2>1, <2>2, <2>3 DEF ReadInv
  <2> QED
    BY <1>0, <2>4
<1>5. ASSUME NEW i \in 1..L, i - 1 \in Q
      PROVE  i \in Q
  <2>1. /\ S[i - 1] \in ReadingState(T) /\ ReadInv(text, params, n, b, S[i - 1], i - 1)
        /\ i \in 1..Len(text)
    BY <1>0, <1>2, <1>5 DEF L
  <2>2. ReadInv(text, params, n, b, ReadToken(S[i - 1], text[i]), i)
    BY <2>1, ReadStep
  <2> QED
    BY <1>2, <2>2
<1>6. ReadInv(text, params, n, b, S[L], L)
  <2>1. \A i \in 0..L : i \in Q
    <3> HIDE DEF Q
    <3> QED
      BY <1>0, <1>4, <1>5, Induction
  <2> QED
    BY <2>1
<1>7. PICK c \in 0..n : /\ b[c] <= L /\ (c < n => L < b[c + 1]) /\ ReadsParams(params, S[L], c)
                        /\ S[L].failed \/ ReadsPart(S[L], SubSeq(text, b[c] + 1, L))
  BY <1>6 DEF ReadInv
<1>8. c = n
  <2>1. ASSUME c < n
        PROVE  FALSE
    <3>1. c + 1 \in 0..n /\ L < b[c + 1] /\ (c + 1 = n \/ c + 1 < n)
      BY <1>7, <2>1
    <3>2. c + 1 < n => b[c + 1] < b[n]
      BY <1>3, <3>1
    <3> QED
      BY <1>3, <3>1, <3>2
  <2> QED
    BY <2>1
<1>9. S[L].failed \/ S[L].size = 0
  <2>1. SubSeq(text, L + 1, L) = <<>>
    <3>1. L + 1 \in 1..(Len(text) + 1) /\ L \in Int /\ L <= Len(text) /\ L + 1 <= L + 1
      BY <1>0 DEF L
    <3>2. SubSeq(text, L + 1, L) \in Seq(T) /\ Len(SubSeq(text, L + 1, L)) = L - (L + 1) + 1
      BY <3>1, SubSeqIs
    <3>3. L - (L + 1) + 1 = 0
      BY <1>0
    <3> QED
      BY <3>2, <3>3, EmptySeq
  <2>2. ReadsPart(S[L], <<>>) => Current(S[L]) = <<>>
    BY NothingRead DEF ReadsPart
  <2>3. S[L] \in ReadingState(T)
    BY <1>0, <1>2
  <2>4. Len(Current(S[L])) = S[L].size
    BY <2>3, CurrentIs
  <2>5. Len(<<>>) = 0
    OBVIOUS
  <2> QED
    BY <1>3, <1>7, <1>8, <2>1, <2>2, <2>4, <2>5
<1> QED
  BY <1>1, <1>7, <1>8, <1>9 DEF L

\* The separators of a body, and its end.
LEMMA BodyEnds ==
  ASSUME NEW T, NEW body \in Seq(T), "&" \in T
  PROVE  \E n \in Nat : \E b \in [0..n -> 0..(Len(body) + 1)] :
           /\ EndsOf(Append(body, "&"), Split(body, "&"), n, b)
           /\ DOMAIN Split(body, "&") = 1..n
<1> DEFINE L == Len(body)
           m == Cardinality(Positions(body, "&"))
           params == Split(body, "&")
           n == m + 1
           text == Append(body, "&")
           b == [k \in 0..n |-> Cut(body, "&", k)]
<1>1. /\ m \in Nat
      /\ Cut(body, "&", 0) = 0 /\ Cut(body, "&", m + 1) = L + 1
      /\ \A k \in 0..(m + 1) : Cut(body, "&", k) \in 0..(L + 1)
      /\ \A k \in 1..m : Cut(body, "&", k) \in Positions(body, "&")
      /\ \A j, k \in 0..(m + 1) : j < k => Cut(body, "&", j) < Cut(body, "&", k)
      /\ \A i \in Positions(body, "&") : \E k \in 1..m : Cut(body, "&", k) = i
  BY CutsAreOrdered
<1>2. /\ L \in Nat /\ DOMAIN body = 1..L
      /\ text \in Seq(T) /\ Len(text) = L + 1 /\ text[L + 1] = "&"
      /\ \A i \in 1..L : text[i] = body[i]
  BY AppendProperties, LenProperties
<1>3. params = [k \in 1..(m + 1) |->
                  SubSeq(body, Cut(body, "&", k - 1) + 1, Cut(body, "&", k) - 1)]
  BY DEF Split
<1>4. \A i : i \in Positions(body, "&") <=> i \in 1..L /\ body[i] = "&"
  BY <1>2 DEF Positions
<1>5. n = m + 1 /\ n \in Nat
  BY <1>1
<1> HIDE DEF m, L, n, text
<1>6. \A k \in 0..n : b[k] = Cut(body, "&", k)
  OBVIOUS
<1>7. b \in [0..n -> 0..Len(text)]
  BY <1>1, <1>2, <1>5
<1> HIDE DEF b
<1>8. /\ b[0] = 0 /\ b[n] = Len(text) /\ \A j, k \in 0..n : j < k => b[j] < b[k]
  <2>1. 0 \in 0..n /\ n \in 0..n /\ Cut(body, "&", n) = L + 1
    BY <1>1, <1>5
  <2>2. \A j, k \in 0..n : j < k => Cut(body, "&", j) < Cut(body, "&", k)
    BY <1>1, <1>5
  <2> QED
    BY <1>1, <1>2, <1>6, <2>1, <2>2
<1>9. ASSUME NEW k \in 1..n
      PROVE  text[b[k]] = "&"
  <2>1. CASE k = n
    BY <1>2, <1>8, <2>1
  <2>2. CASE k # n
    <3>1. k \in 1..m
      BY <1>1, <1>5, <2>2
    <3>2. b[k] \in 1..L /\ body[b[k]] = "&"
      BY <1>1, <1>4, <1>6, <3>1
    <3> QED
      BY <1>2, <3>2
  <2> QED
    BY <2>1, <2>2
<1>10. ASSUME NEW k \in 1..n, NEW i \in 1..Len(text), b[k - 1] < i, i < b[k]
       PROVE  text[i] # "&"
  <2>1. k - 1 \in 0..n /\ b[k] \in 0..Len(text) /\ k \in 0..n
    BY <1>5, <1>7
  <2>2. i \in 1..L
    BY <1>2, <1>10, <2>1
  <2>3. ASSUME text[i] = "&"
        PROVE  FALSE
    <3>1. i \in Positions(body, "&")
      BY <1>2, <1>4, <2>2, <2>3
    <3>2. PICK j \in 1..m : Cut(body, "&", j) = i
      BY <1>1, <3>1
    <3>3. j \in 0..n /\ b[j] = i
      BY <1>1, <1>5, <1>6, <3>2
    <3>4. j = k \/ j = k - 1 \/ j < k - 1 \/ k < j
      BY <1>5
    <3>5. j < k - 1 => b[j] < b[k - 1]
      BY <1>8, <2>1, <3>3
    <3>6. k < j => b[k] < b[j]
      BY <1>8, <2>1, <3>3
    <3>7. b[k - 1] \in Int /\ b[k] \in Int /\ i \in Int
      BY <1>7, <2>1
    <3> QED
      BY <1>10, <3>3, <3>4, <3>5, <3>6, <3>7
  <2> QED
    BY <2>3
<1>11. ASSUME NEW k \in 1..n
       PROVE  params[k] = SubSeq(text, b[k - 1] + 1, b[k] - 1)
  <2> DEFINE i == b[k - 1] + 1
             j == b[k] - 1
  <2>1. params[k] = SubSeq(body, i, j)
    BY <1>3, <1>5, <1>6
  <2>2. /\ k - 1 \in 0..n /\ k \in 0..n /\ k - 1 < k
    BY <1>5
  <2>3. i \in 1..(L + 1) /\ j \in Int /\ j <= L /\ i <= j + 1
    <3>1. b[k - 1] \in 0..(L + 1) /\ b[k] \in 0..(L + 1) /\ b[k - 1] < b[k]
      BY <1>2, <1>7, <1>8, <2>2
    <3> QED
      BY <1>2, <3>1
  <2> HIDE DEF i, j
  <2>4. SubSeq(body, i, j) = [r \in 1..(j - i + 1) |-> body[i + r - 1]]
    BY <2>3 DEF L
  <2>5. SubSeq(text, i, j) = [r \in 1..(j - i + 1) |-> text[i + r - 1]]
    BY <1>2, <2>3
  <2>6. \A r \in 1..(j - i + 1) : i + r - 1 \in 1..L
    BY <1>2, <2>3
  <2>7. SubSeq(body, i, j) = SubSeq(text, i, j)
    BY <1>2, <2>4, <2>5, <2>6
  <2> QED
    BY <2>1, <2>7 DEF i, j
<1>12. EndsOf(text, params, n, b)
  BY <1>8, <1>9, <1>10, <1>11 DEF EndsOf
<1>13. DOMAIN params = 1..n
  BY <1>3, <1>5
<1> QED
  BY <1>2, <1>5, <1>7, <1>12, <1>13 DEF L, text

\* Where errorBuffer points at the end, a string begins if a value goes on.
LEMMA LeftAtTheEnd ==
  ASSUME NEW st, NEW params, NEW n, ErrorIs(params, st, n), st.size = 0
  PROVE  {st.buffer[e] # Nul : e \in st.error} = LeftAfter(params, n)
<1> DEFINE ls == Latest(Numbers(params, n))
           At(l) == TakenOf(params, l) + 1
           Cell(e) == st.buffer[e] # Nul
<1>1. st.error = {At(l) : l \in ls}
  BY DEF ErrorIs
<1>2. \A l \in ls : Cell(At(l)) = GoesOn(params, n, l)
  <2>1. ASSUME NEW l \in ls
        PROVE  Cell(At(l)) = GoesOn(params, n, l)
    <3>1. TakenOf(params, l) \in Nat /\ (st.size < At(l) => (Cell(At(l)) <=> GoesOn(params, n, l)))
      BY DEF ErrorIs, PointsBehind
    <3>2. st.size < At(l)
      BY <3>1
    <3>3. GoesOn(params, n, l) \in BOOLEAN
      BY DEF GoesOn
    <3> QED
      BY <3>1, <3>2, <3>3
  <2> QED
    BY <2>1
<1> HIDE DEF ls, At, Cell
<1>3. {Cell(e) : e \in st.error} = {GoesOn(params, n, l) : l \in ls}
  BY <1>1, <1>2
<1> QED
  BY <1>3 DEF Cell, ls, LeftAfter

\* For bodies of any length, of any characters that do not end a string, and any size
\* of the buffer: parseInsertPMS5003Body makes of a body what its parameters say one
\* by one, and what a text leaves of the last number (_parse.c).
THEOREM BodyIsItsParams ==
  ASSUME NEW T, NEW body \in Seq(T), "&" \in T, Nul \notin T
  PROVE  ParseBody(body) = RefParseBody(body)
<1> DEFINE text == Append(body, "&")
           params == Split(body, "&")
           L == Len(body) + 1
           st == Reading(text)[L]
           left == {st.buffer[e] # Nul : e \in st.error}
<1>1. PICK n \in Nat : \E b \in [0..n -> 0..L] : EndsOf(text, params, n, b) /\ DOMAIN params = 1..n
  BY BodyEnds
<1>0. PICK b \in [0..n -> 0..L] : EndsOf(text, params, n, b) /\ DOMAIN params = 1..n
  BY <1>1
<1>9. text \in Seq(T) /\ Len(text) = L /\ L \in Nat
  BY AppendProperties, LenProperties
<1> DEFINE read == ReadUpTo(params, n)
<1>2. ParseBody(body) =
        IF Len(body) >= BufferSize THEN [status |-> {1}, fields |-> Unset]
        ELSE [status |-> StatusOf(~st.failed /\ st.found = Len(Fields), left),
              fields |-> st.fields]
  BY DEF ParseBody
<1>3. RefParseBody(body) =
        IF Len(body) >= BufferSize THEN [status |-> {1}, fields |-> Unset]
        ELSE [status |-> StatusOf(read = 1..n /\ Cardinality(read) = Len(Fields),
                                  LeftAfter(params, n)),
              fields |-> FieldsAfter(params, n)]
  <2>1. read = {k \in DOMAIN params : \A j \in 1..k : FieldOf(params[j]) # {}}
    BY <1>0 DEF ReadUpTo
  <2> HIDE DEF params, read
  <2> QED
    BY <1>0, <2>1 DEF RefParseBody, LeftAfter, GoesOn, Reaching, Numbers, Size, TakenOf,
                      FieldsAfter, ValuesAfter, params, read
<1> HIDE DEF text, params, L
<1>4. ReadsParams(params, st, n) /\ (st.failed \/ st.size = 0)
  <2>1. st = Reading(text)[Len(text)] /\ b \in [0..n -> 0..Len(text)]
    BY <1>9
  <2> HIDE DEF st
  <2> QED
    BY <1>0, <1>9, <2>1, ReadingEnds
<1> HIDE DEF st
<1>5. /\ st.fields = FieldsAfter(params, n)
      /\ st.failed <=> read # 1..n
      /\ st.failed \/ st.found = n
      /\ st.failed \/ left = LeftAfter(params, n)
  BY <1>4, LeftAtTheEnd DEF ReadsParams
<1>6. ~st.failed /\ st.found = Len(Fields) <=> read = 1..n /\ Cardinality(read) = Len(Fields)
  <2>1. Cardinality(1..n) = n
    <3>1. Cardinality(1..n) = IF 1 > n THEN 0 ELSE n - 1 + 1
      BY <1>1, FS_Interval
    <3> QED
      BY <1>1, <3>1
  <2> QED
    BY <1>5, <2>1
<1> HIDE DEF read, left
<1>7. CASE read = 1..n /\ Cardinality(read) = Len(Fields)
  BY <1>2, <1>3, <1>5, <1>6, <1>7
<1>8. CASE ~(read = 1..n /\ Cardinality(read) = Len(Fields))
  BY <1>2, <1>3, <1>5, <1>6, <1>8 DEF StatusOf
<1> QED
  BY <1>7, <1>8

-----------------------------------------------------------------------------
(***************************************************************************)
(* The frames that the sensor sends.                                       *)
(***************************************************************************)

\* The sum of the bytes of a frame that carries some bytes.
Total(bytes) ==
  FirstChar + SecondChar + 28 + ByteAt(bytes, 1) + ByteAt(bytes, 2) + ByteAt(bytes, 3)
  + ByteAt(bytes, 4) + ByteAt(bytes, 5) + ByteAt(bytes, 6)

\* Three texts in a row.
AreJoined(t, p, q, r) ==
  /\ t \in Seq(Byte)
  /\ Len(t) = Len(p) + Len(q) + Len(r)
  /\ \A k \in 1..Len(t) :
       t[k] = IF k <= Len(p) THEN p[k]
              ELSE IF k <= Len(p) + Len(q) THEN q[k - Len(p)]
              ELSE r[k - (Len(p) + Len(q))]

\* What joins them.
LEMMA ThreeParts ==
  ASSUME NEW p \in Seq(Byte), NEW q \in Seq(Byte), NEW r \in Seq(Byte)
  PROVE  AreJoined(p \o q \o r, p, q, r)
<1>1. /\ Len(p) \in Nat /\ Len(q) \in Nat /\ Len(r) \in Nat
  BY LenProperties
<1>2. /\ p \o q \in Seq(Byte) /\ Len(p \o q) = Len(p) + Len(q)
      /\ \A i \in 1..(Len(p) + Len(q)) :
           (p \o q)[i] = IF i <= Len(p) THEN p[i] ELSE q[i - Len(p)]
  BY ConcatProperties
<1> DEFINE pq == p \o q
<1> HIDE DEF pq
<1>3. /\ pq \o r \in Seq(Byte) /\ Len(pq \o r) = Len(pq) + Len(r)
      /\ \A i \in 1..(Len(pq) + Len(r)) :
           (pq \o r)[i] = IF i <= Len(pq) THEN pq[i] ELSE r[i - Len(pq)]
  BY <1>2, ConcatProperties DEF pq
<1>4. Len(pq) = Len(p) + Len(q) /\ \A i \in 1..(Len(p) + Len(q)) :
        pq[i] = IF i <= Len(p) THEN p[i] ELSE q[i - Len(p)]
  BY <1>2 DEF pq
<1>5. ASSUME NEW k \in 1..Len(pq \o r)
      PROVE  (pq \o r)[k] = IF k <= Len(p) THEN p[k]
                            ELSE IF k <= Len(p) + Len(q) THEN q[k - Len(p)]
                            ELSE r[k - (Len(p) + Len(q))]
  BY <1>1, <1>3, <1>4
<1>6. AreJoined(pq \o r, p, q, r)
  BY <1>1, <1>3, <1>4, <1>5 DEF AreJoined
<1> QED
  BY <1>6 DEF pq

\* A frame of the sensor's, byte by byte.
IsFramed(frame, bytes) ==
  /\ frame \in [1..FrameSize -> Byte]
  /\ frame[1] = FirstChar /\ frame[2] = SecondChar /\ frame[3] = 0 /\ frame[4] = 28
  /\ frame[5] = ByteAt(bytes, 1) /\ frame[6] = ByteAt(bytes, 2)
  /\ frame[7] = ByteAt(bytes, 3) /\ frame[8] = ByteAt(bytes, 4)
  /\ frame[9] = ByteAt(bytes, 5) /\ frame[10] = ByteAt(bytes, 6)
  /\ \A k \in 11..30 : frame[k] = 0
  /\ frame[31] = Total(bytes) \div 256 /\ frame[32] = Total(bytes) % 256

\* That is what MCCodecs makes of the bytes of the measurements.
LEMMA FramedIs ==
  ASSUME NEW bytes \in Seq(Byte)
  PROVE  /\ IsFramed(Framed(bytes), bytes)
         /\ Total(bytes) \in Nat
<1>1. Len(bytes) \in Nat
  BY LenProperties
<1>2. ASSUME NEW k \in 1..6
      PROVE  ByteAt(bytes, k) \in Byte
  <2>1. k <= Len(bytes) => bytes[k] \in Byte
    BY <1>1, ElementOfSeq
  <2> QED
    BY <2>1 DEF ByteAt, Byte
<1> DEFINE a == ByteAt(bytes, 1)
           b == ByteAt(bytes, 2)
           c == ByteAt(bytes, 3)
           d == ByteAt(bytes, 4)
           e == ByteAt(bytes, 5)
           f == ByteAt(bytes, 6)
           sum == Total(bytes)
           frame == Framed(bytes)
           header == <<FirstChar, SecondChar, 0, 28, a, b, c, d, e, f>>
           zeros == [i \in 1..20 |-> 0]
           check == <<sum \div 256, sum % 256>>
<1>3. /\ a \in Byte /\ b \in Byte /\ c \in Byte /\ d \in Byte /\ e \in Byte /\ f \in Byte
  BY <1>2
<1>4. sum = FirstChar + SecondChar + 28 + a + b + c + d + e + f
  BY DEF Total
<1>5. frame = header \o zeros \o check
  BY Zenon DEF Framed, Total, ByteAt
<1> HIDE DEF a, b, c, d, e, f, sum, frame
<1>6. sum \in Nat /\ sum <= 1701
  BY <1>3, <1>4, SMT DEF Byte, FirstChar, SecondChar
<1>7. sum \div 256 \in Byte /\ sum % 256 \in Byte
  BY <1>6, SMT DEF Byte
<1>8. FirstChar \in Byte /\ SecondChar \in Byte /\ 28 \in Byte /\ 0 \in Byte
  BY SMT DEF Byte, FirstChar, SecondChar
<1>9. header \in Seq(Byte) /\ Len(header) = 10
  BY <1>3, <1>8, SMT
<1>10. zeros \in Seq(Byte) /\ Len(zeros) = 20
  BY <1>8, SMT
<1>11. check \in Seq(Byte) /\ Len(check) = 2
  BY <1>7, SMT
<1>12. /\ header[1] = FirstChar /\ header[2] = SecondChar /\ header[3] = 0 /\ header[4] = 28
       /\ header[5] = a /\ header[6] = b /\ header[7] = c /\ header[8] = d /\ header[9] = e
       /\ header[10] = f
  BY SMT
<1>13. check[1] = sum \div 256 /\ check[2] = sum % 256
  BY SMT
<1>14. \A i \in 1..20 : zeros[i] = 0
  BY SMT
<1> HIDE DEF header, zeros, check
<1>15. AreJoined(frame, header, zeros, check)
  BY <1>5, <1>9, <1>10, <1>11, ThreeParts, Zenon
<1>16. /\ frame \in Seq(Byte) /\ Len(frame) = 32
       /\ \A k \in 1..32 : frame[k] = IF k <= 10 THEN header[k]
                                      ELSE IF k <= 30 THEN zeros[k - 10] ELSE check[k - 30]
  BY <1>9, <1>10, <1>11, <1>15, SMT DEF AreJoined
<1>17. ASSUME NEW k \in 1..10
       PROVE  frame[k] = header[k]
  <2>1. k \in 1..32 /\ k <= 10
    BY SMT
  <2> QED
    BY <1>16, <2>1, Zenon
<1>18. ASSUME NEW k \in 11..30
       PROVE  frame[k] = 0
  <2>1. k \in 1..32 /\ k - 10 \in 1..20 /\ ~(k <= 10) /\ k <= 30
    BY SMT
  <2>2. frame[k] = zeros[k - 10]
    BY <1>16, <2>1, Zenon
  <2> QED
    BY <1>14, <2>1, <2>2, Zenon
<1>19. frame[31] = check[1] /\ frame[32] = check[2]
  BY <1>16, SMT
<1>20. frame \in [1..FrameSize -> Byte]
  BY <1>16, LenProperties DEF FrameSize
<1>21. /\ frame[1] = header[1] /\ frame[2] = header[2] /\ frame[3] = header[3]
       /\ frame[4] = header[4] /\ frame[5] = header[5] /\ frame[6] = header[6]
       /\ frame[7] = header[7] /\ frame[8] = header[8] /\ frame[9] = header[9]
       /\ frame[10] = header[10]
  BY <1>17, SMT
<1>22. IsFramed(frame, bytes)
  BY <1>12, <1>13, <1>18, <1>19, <1>20, <1>21, SMT DEF IsFramed, sum, a, b, c, d, e, f
<1> QED
  BY <1>6, <1>22 DEF sum, frame

\* C[k] is what byte k adds to C[j].
IsNext(C, bytes, j, k) == C[k] = C[j] + bytes[k] /\ bytes[k] \in Nat /\ C[j] \in Nat

\* The next byte of a sum.
LEMMA NextSum ==
  ASSUME NEW n \in Nat, NEW bytes \in [1..n -> Nat], NEW C, Sums(C, bytes, n),
         NEW j \in 0..n, NEW k \in 1..n, k = j + 1
  PROVE  IsNext(C, bytes, j, k)
<1>1. C[k] = C[k - 1] + bytes[k] /\ C[k - 1] \in Nat
  BY DEF Sums
<1> QED
  BY <1>1 DEF IsNext

\* The first ten bytes.
LEMMA TenSummed ==
  ASSUME NEW n \in Nat, n >= 10, NEW bytes \in [1..n -> Nat], NEW C, Sums(C, bytes, n)
  PROVE  C[10] = bytes[1] + bytes[2] + bytes[3] + bytes[4] + bytes[5] + bytes[6]
                 + bytes[7] + bytes[8] + bytes[9] + bytes[10]
<1>1. C[0] = 0
  BY DEF Sums
<1>2. C[1] = C[0] + bytes[1] /\ bytes[1] \in Nat
  <2>1. 0 \in 0..n /\ 1 \in 1..n /\ 1 = 0 + 1
    OBVIOUS
  <2>2. IsNext(C, bytes, 0, 1)
    BY <2>1, NextSum
  <2> QED
    BY <2>2 DEF IsNext
<1>3. C[2] = C[1] + bytes[2] /\ bytes[2] \in Nat
  <2>1. 1 \in 0..n /\ 2 \in 1..n /\ 2 = 1 + 1
    OBVIOUS
  <2>2. IsNext(C, bytes, 1, 2)
    BY <2>1, NextSum
  <2> QED
    BY <2>2 DEF IsNext
<1>4. C[3] = C[2] + bytes[3] /\ bytes[3] \in Nat
  <2>1. 2 \in 0..n /\ 3 \in 1..n /\ 3 = 2 + 1
    OBVIOUS
  <2>2. IsNext(C, bytes, 2, 3)
    BY <2>1, NextSum
  <2> QED
    BY <2>2 DEF IsNext
<1>5. C[4] = C[3] + bytes[4] /\ bytes[4] \in Nat
  <2>1. 3 \in 0..n /\ 4 \in 1..n /\ 4 = 3 + 1
    OBVIOUS
  <2>2. IsNext(C, bytes, 3, 4)
    BY <2>1, NextSum
  <2> QED
    BY <2>2 DEF IsNext
<1>6. C[5] = C[4] + bytes[5] /\ bytes[5] \in Nat
  <2>1. 4 \in 0..n /\ 5 \in 1..n /\ 5 = 4 + 1
    OBVIOUS
  <2>2. IsNext(C, bytes, 4, 5)
    BY <2>1, NextSum
  <2> QED
    BY <2>2 DEF IsNext
<1>7. C[6] = C[5] + bytes[6] /\ bytes[6] \in Nat
  <2>1. 5 \in 0..n /\ 6 \in 1..n /\ 6 = 5 + 1
    OBVIOUS
  <2>2. IsNext(C, bytes, 5, 6)
    BY <2>1, NextSum
  <2> QED
    BY <2>2 DEF IsNext
<1>8. C[7] = C[6] + bytes[7] /\ bytes[7] \in Nat
  <2>1. 6 \in 0..n /\ 7 \in 1..n /\ 7 = 6 + 1
    OBVIOUS
  <2>2. IsNext(C, bytes, 6, 7)
    BY <2>1, NextSum
  <2> QED
    BY <2>2 DEF IsNext
<1>9. C[8] = C[7] + bytes[8] /\ bytes[8] \in Nat
  <2>1. 7 \in 0..n /\ 8 \in 1..n /\ 8 = 7 + 1
    OBVIOUS
  <2>2. IsNext(C, bytes, 7, 8)
    BY <2>1, NextSum
  <2> QED
    BY <2>2 DEF IsNext
<1>10. C[9] = C[8] + bytes[9] /\ bytes[9] \in Nat
  <2>1. 8 \in 0..n /\ 9 \in 1..n /\ 9 = 8 + 1
    OBVIOUS
  <2>2. IsNext(C, bytes, 8, 9)
    BY <2>1, NextSum
  <2> QED
    BY <2>2 DEF IsNext
<1>11. C[10] = C[9] + bytes[10] /\ bytes[10] \in Nat
  <2>1. 9 \in 0..n /\ 10 \in 1..n /\ 10 = 9 + 1
    OBVIOUS
  <2>2. IsNext(C, bytes, 9, 10)
    BY <2>1, NextSum
  <2> QED
    BY <2>2 DEF IsNext
<1> QED
  BY <1>1, <1>2, <1>3, <1>4, <1>5, <1>6, <1>7, <1>8, <1>9, <1>10, <1>11

\* From byte m on there are only zeros.
ZerosAfter(bytes, m, n) == \A k \in (m + 1)..n : bytes[k] = 0

\* Zeros add nothing.
LEMMA ZerosSummed ==
  ASSUME NEW n \in Nat, NEW m \in 0..n, NEW bytes, NEW C,
         Sums(C, bytes, n), ZerosAfter(bytes, m, n)
  PROVE  C[n] = C[m]
<1> DEFINE T == {k \in Nat : k >= m => C[k] = C[m]}
<1>1. 0 \in T
  OBVIOUS
<1>2. ASSUME NEW k \in 1..n, k - 1 \in T
      PROVE  k \in T
  <2>1. CASE k <= m
    BY <2>1
  <2>2. CASE k > m
    <3>1. C[k - 1] = C[m] /\ C[m] \in Nat /\ bytes[k] = 0 /\ C[k] = C[k - 1] + bytes[k]
      BY <1>2, <2>2 DEF Sums, ZerosAfter
    <3>2. C[k] = C[m]
      BY <3>1
    <3> QED
      BY <3>2
  <2> QED
    BY <2>1, <2>2
<1> HIDE DEF T
<1>3. \A k \in 1..n : k - 1 \in T => k \in T
  BY <1>2
<1>4. \A k \in 0..n : k \in T
  BY <1>1, <1>3, Induction
<1> QED
  BY <1>4 DEF T

\* A frame of the sensor's validates.
LEMMA FramedIsValid ==
  ASSUME NEW bytes \in Seq(Byte), NEW frame, IsFramed(frame, bytes)
  PROVE  ValidateData(frame) = 0
<1> DEFINE sum == Total(bytes)
           n == FrameSize - 2
           C == Checksum(frame)
<1>1. sum \in Nat
  BY FramedIs
<1>2. frame \in [1..FrameSize -> Byte]
  BY DEF IsFramed
<1>3. /\ n \in Nat /\ n = 30 /\ n >= 10 /\ 10 \in 0..n /\ \A k \in 1..n : k \in 1..FrameSize
      /\ 31 \in 1..FrameSize /\ 32 \in 1..FrameSize
  BY SMT DEF FrameSize
<1> DEFINE f == [k \in 1..n |-> frame[k]]
<1>4. Sums(C, frame, n)
  BY <1>2, SumsOf
<1> HIDE DEF n, C, sum
<1>5. f \in [1..n -> Nat] /\ \A k \in 1..n : f[k] = frame[k]
  <2>1. \A k \in 1..n : frame[k] \in Nat
    BY <1>2, <1>3, ByteIs
  <2> QED
    BY <2>1
<1> HIDE DEF f
<1>6. Sums(C, f, n)
  BY <1>4, <1>5 DEF Sums
<1>7. C[10] = f[1] + f[2] + f[3] + f[4] + f[5] + f[6] + f[7] + f[8] + f[9] + f[10]
  BY <1>3, <1>5, <1>6, TenSummed
<1>8. \A k \in 11..n : f[k] = 0
  <2>1. \A k \in 11..30 : frame[k] = 0
    BY DEF IsFramed
  <2>2. \A k \in 11..n : k \in 11..30 /\ k \in 1..n
    BY <1>3
  <2> QED
    BY <1>5, <2>1, <2>2
<1>9. C[n] = C[10]
  <2>1. PICK m \in 0..n : m = 10
    BY <1>3
  <2>2. ZerosAfter(f, m, n)
    BY <1>8, <2>1 DEF ZerosAfter
  <2>3. n \in Nat
    BY <1>3
  <2>4. C[n] = C[m]
    BY <1>6, <2>2, <2>3, ZerosSummed
  <2> QED
    BY <2>1, <2>4
<1>10. C[10] = sum
  <2>1. /\ f[1] = frame[1] /\ f[2] = frame[2] /\ f[3] = frame[3] /\ f[4] = frame[4]
        /\ f[5] = frame[5] /\ f[6] = frame[6] /\ f[7] = frame[7] /\ f[8] = frame[8]
        /\ f[9] = frame[9] /\ f[10] = frame[10]
    BY <1>3, <1>5
  <2>2. /\ f[1] = FirstChar /\ f[2] = SecondChar /\ f[3] = 0 /\ f[4] = 28
        /\ f[5] = ByteAt(bytes, 1) /\ f[6] = ByteAt(bytes, 2) /\ f[7] = ByteAt(bytes, 3)
        /\ f[8] = ByteAt(bytes, 4) /\ f[9] = ByteAt(bytes, 5) /\ f[10] = ByteAt(bytes, 6)
    BY <2>1 DEF IsFramed
  <2>3. sum = FirstChar + SecondChar + 28 + f[5] + f[6] + f[7] + f[8] + f[9] + f[10]
    BY <2>2 DEF sum, Total
  <2>4. /\ f[5] \in Nat /\ f[6] \in Nat /\ f[7] \in Nat /\ f[8] \in Nat /\ f[9] \in Nat
        /\ f[10] \in Nat
    BY <1>3, <1>5
  <2>5. FirstChar \in Nat /\ SecondChar \in Nat
    BY DEF FirstChar, SecondChar
  <2> QED
    BY <1>7, <2>2, <2>3, <2>4, <2>5
<1>11. TransformBytes(frame[31], frame[32]) = sum
  <2>1. frame[31] = sum \div 256 /\ frame[32] = sum % 256
    BY DEF IsFramed, sum
  <2>2. TransformBytes(frame[31], frame[32]) = 256 * frame[31] + frame[32]
    BY <1>2, <1>3, HighAndLow
  <2>3. \A s \in Nat : 256 * (s \div 256) + (s % 256) = s
    BY SMT
  <2> QED
    BY <1>1, <2>1, <2>2, <2>3
<1>12. frame[1] = FirstChar /\ frame[2] = SecondChar
  BY DEF IsFramed
<1>13. ValidateData(frame) = C[n] - TransformBytes(frame[31], frame[32])
  BY <1>12, Zenon DEF ValidateData, C, n
<1> QED
  BY <1>1, <1>9, <1>10, <1>11, <1>13

-----------------------------------------------------------------------------
(***************************************************************************)
(* The inputs of MCCodecs are of these kinds.                              *)
(***************************************************************************)

\* All tokens of the inputs.
Tokens ==
  {"&", "=", "device_", "timestamp", "name", "pm", "_standard", "other", "x", "-",
   "0", "1", "2", "3", "4", "5", "6", "7"}

\* The pieces of MCCodecs are texts.
LEMMA PieceType ==
  ASSUME NEW p \in Pieces
  PROVE  p \in Seq(Tokens)
<1>1. ASSUME NEW f \in 1..5, NEW value \in Seq(Tokens)
      PROVE  Param(f, value) \in Seq(Tokens)
  <2>1. Fields[f].name \in Seq(Tokens)
    <3>1. /\ Fields[1].name = <<"device_", "timestamp">>
          /\ Fields[2].name = <<"device_", "name">>
          /\ Fields[3].name = <<"pm", "1", "0", "_standard">>
          /\ Fields[4].name = <<"pm", "2", "5", "_standard">>
          /\ Fields[5].name = <<"pm", "1", "0", "0", "_standard">>
      BY DEF Fields
    <3>2. /\ <<"device_", "timestamp">> \in Seq(Tokens)
          /\ <<"device_", "name">> \in Seq(Tokens)
          /\ <<"pm", "1", "0", "_standard">> \in Seq(Tokens)
          /\ <<"pm", "2", "5", "_standard">> \in Seq(Tokens)
          /\ <<"pm", "1", "0", "0", "_standard">> \in Seq(Tokens)
      BY DEF Tokens
    <3>3. f = 1 \/ f = 2 \/ f = 3 \/ f = 4 \/ f = 5
      OBVIOUS
    <3> QED
      BY <3>1, <3>2, <3>3
  <2>2. <<"=">> \in Seq(Tokens)
    BY DEF Tokens
  <2>3. Fields[f].name \o <<"=">> \in Seq(Tokens)
    BY <2>1, <2>2, ConcatProperties
  <2> QED
    BY <2>3, ConcatProperties DEF Param
<1>2. /\ <<"7">> \in Seq(Tokens) /\ <<"x">> \in Seq(Tokens) /\ <<"-", "7">> \in Seq(Tokens)
      /\ <<"6", "5", "5", "4", "3">> \in Seq(Tokens)
      /\ <<"7", "x">> \in Seq(Tokens) /\ <<"x", "=", "x">> \in Seq(Tokens)
      /\ <<"pm", "1", "0", "=", "x">> \in Seq(Tokens) /\ <<"=", "7">> \in Seq(Tokens)
      /\ <<"device_", "name">> \in Seq(Tokens) /\ <<"other", "=", "7">> \in Seq(Tokens)
  BY DEF Tokens
<1>3. /\ Param(1, <<"7">>) \in Seq(Tokens) /\ Param(2, <<"x">>) \in Seq(Tokens)
      /\ Param(3, <<"7">>) \in Seq(Tokens) /\ Param(4, <<"-", "7">>) \in Seq(Tokens)
      /\ Param(5, <<"6", "5", "5", "4", "3">>) \in Seq(Tokens)
      /\ Param(1, <<"7", "x">>) \in Seq(Tokens)
      /\ Param(2, <<"x", "=", "x">>) \in Seq(Tokens)
  <2>1. 1 \in 1..5 /\ 2 \in 1..5 /\ 3 \in 1..5 /\ 4 \in 1..5 /\ 5 \in 1..5
    OBVIOUS
  <2> QED
    BY <1>1, <1>2, <2>1, Zenon
<1> QED
  BY <1>2, <1>3 DEF Pieces

\* An input of each kind is what the algorithms are for.
InputType ==
  /\ kind = "body" => input \in Seq(Tokens)
  /\ kind = "endpoint" => input \in Seq(EndpointTokens)
  /\ kind = "bytes" => input \in Seq(SomeBytes)
  /\ kind = "frame" => input \in Seq(FrameBytes)

\* They stay so as they grow.
LEMMA InputsAreOfTheirKind == Spec => []InputType
<1>1. Init => InputType
  BY DEF Init, InputType
<1>2. InputType /\ [Next]_vars => InputType'
  <2> SUFFICES ASSUME InputType, [Next]_vars
               PROVE  InputType'
    OBVIOUS
  <2>1. CASE GrowBody
    <3>1. PICK p \in Pieces : input' = IF input = <<>> THEN p ELSE input \o <<"&">> \o p
      BY <2>1 DEF GrowBody
    <3>2. input \in Seq(Tokens) /\ p \in Seq(Tokens)
      BY <2>1, PieceType DEF GrowBody, InputType
    <3>3. <<"&">> \in Seq(Tokens)
      BY DEF Tokens
    <3>4. input \o <<"&">> \in Seq(Tokens)
      BY <3>2, <3>3, ConcatProperties
    <3>5. input \o <<"&">> \o p \in Seq(Tokens)
      BY <3>2, <3>4, ConcatProperties
    <3>6. input' \in Seq(Tokens)
      BY <3>1, <3>2, <3>5
    <3> QED
      BY <2>1, <3>6 DEF GrowBody, InputType
  <2>2. CASE Grow("endpoint", EndpointTokens, MaxEndpoint)
    BY <2>2, AppendProperties DEF Grow, InputType
  <2>3. CASE Grow("bytes", SomeBytes, MaxBytes)
    BY <2>3, AppendProperties DEF Grow, InputType
  <2>4. CASE GrowFrame
    <3>1. PICK high \in FrameBytes, low \in FrameBytes : input' = input \o <<high, low>>
      BY <2>4 DEF GrowFrame
    <3>2. input \in Seq(FrameBytes) /\ <<high, low>> \in Seq(FrameBytes)
      BY <2>4 DEF GrowFrame, InputType
    <3>3. input' \in Seq(FrameBytes)
      BY <3>1, <3>2, ConcatProperties
    <3> QED
      BY <2>4, <3>3 DEF GrowFrame, InputType
  <2>5. CASE UNCHANGED vars
    BY <2>5 DEF vars, InputType
  <2> QED
    BY <2>1, <2>2, <2>3, <2>4, <2>5 DEF Next
<1> QED
  BY <1>1, <1>2, PTL DEF Spec

\* The fields that parseInsertPMS5003Body reads from a body are those of its
\* parameters, for any bounds of MCCodecs (_parse.c).
THEOREM BodiesAsTheirParams == Spec => []BodyAsItsParams
<1>1. InputType => BodyAsItsParams
  <2>1. "&" \in Tokens /\ Nul \notin Tokens
    BY DEF Tokens, Nul
  <2> QED
    BY <2>1, BodyIsItsParams DEF InputType, BodyAsItsParams
<1> QED
  BY <1>1, InputsAreOfTheirKind, PTL

\* The parameter that extract_query_param finds is the first that begins with the
\* name, for any bounds (_utils.c).
THEOREM ParamsAsInQuery == Spec => []ParamAsInQuery
<1>1. InputType => ParamAsInQuery
  <2>1. Name \in Seq(EndpointTokens) /\ Name # <<>>
    BY DEF Name, EndpointTokens
  <2>2. \A j \in 1..Len(Name) : Name[j] # "&"
    <3>1. Len(Name) = 2 /\ Name[1] = "t" /\ Name[2] = "F"
      BY DEF Name
    <3>2. \A j \in 1..2 : j = 1 \/ j = 2
      OBVIOUS
    <3> QED
      BY <3>1, <3>2
  <2> QED
    BY <2>1, <2>2, ParamIsInQuery DEF InputType, ParamAsInQuery
<1> QED
  BY <1>1, InputsAreOfTheirKind, PTL

\* Bytes that are encoded are those of RFC 4648 and come back when decoded, for any
\* bounds (base64_encode.h, base64_decode.h).
THEOREM RoundTrip == Spec => []Base64RoundTrip
<1>1. InputType => Base64RoundTrip
  <2> SUFFICES ASSUME input \in Seq(SomeBytes)
               PROVE  /\ Encode(input) = RefEncode(input)
                      /\ Decode(Encode(input)).bytes = input
                      /\ Decode(Encode(input)).size >= Len(input) \/ Len(input) = 1
                      /\ ~Decode(Encode(input)).refused
    BY DEF InputType, Base64RoundTrip
  <2>1. SomeBytes \subseteq Byte
    BY DEF SomeBytes, Byte
  <2>2. input \in Seq(Byte)
    BY <2>1
  <2> QED
    BY <2>2, Base64IsRFC4648
<1> QED
  BY <1>1, InputsAreOfTheirKind, PTL

\* What the sensor sends validates, unless a byte of it was altered; and what was
\* measured is what is stored, or is refused for one of two reasons (pms5003.c,
\* utils.c, dto.h, main.go).
THEOREM FramesAsMeasured == Spec => []StoredAsMeasured
<1>1. InputType => StoredAsMeasured
  <2> SUFFICES ASSUME kind = "frame", input \in Seq(FrameBytes)
               PROVE  StoredAsMeasured
    BY DEF InputType, StoredAsMeasured
  <2> DEFINE frame == Framed(input)
  <2>1. input \in Seq(Byte) /\ FrameBytes \subseteq Byte
    <3>1. FrameBytes \subseteq Byte
      BY SMT DEF FrameBytes, Byte
    <3> QED
      BY <3>1
  <2>2. IsFramed(frame, input)
    BY <2>1, FramedIs
  <2>3. ValidateData(frame) = 0
    BY <2>1, <2>2, FramedIsValid
  <2>4. frame \in [1..FrameSize -> Byte]
    BY <2>2 DEF IsFramed
  <2> HIDE DEF frame
  <2>5. ASSUME NEW i \in 1..FrameSize, NEW byte \in FrameBytes \ {frame[i]}
        PROVE  ValidateData([frame EXCEPT ![i] = byte]) # 0
    BY <2>1, <2>3, <2>4, AlteredByteIsFound
  <2>6. ASSUME NEW length \in {NameSize - 1, NameSize}
        PROVE  RowIsMeasured(length, frame)
    <3>1. length \in Nat
      BY DEF NameSize
    <3> QED
      BY <2>4, <3>1, RowsAreMeasured
  <2> QED
    BY <2>3, <2>5, <2>6 DEF StoredAsMeasured, frame
<1> QED
  BY <1>1, InputsAreOfTheirKind, PTL
=============================================================================
