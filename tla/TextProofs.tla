----------------------------- MODULE TextProofs -----------------------------
(***************************************************************************)
(* What is indexed of a text, what is believed of a quote and what a search *)
(* may find, for every mail, page, evidence pack, draft, extraction,        *)
(* mailbox and graph: a mail is cut into four passages without losing a     *)
(* line, a page into chunks without losing a word, what a model quotes is   *)
(* kept only if it is there, and no branch, fusion or reranker lets a chunk *)
(* of another thread in or turns around what all branches agree on.         *)
(*                                                                         *)
(* Recursion and minima over data are treated by least counterexamples,     *)
(* lists that are sorted or filtered by the ranks of module Orders.         *)
(***************************************************************************)
EXTENDS MCAnswering, TLAPS, WellFoundedInduction, SequenceTheorems, FunctionTheorems,
        FiniteSetTheorems

-----------------------------------------------------------------------------
(* Least numbers.                                                          *)

LEMMA LeastNumber ==
  ASSUME NEW T \in SUBSET Nat, T # {}
  PROVE  \E x \in T : \A y \in T : x <= y
<1> DEFINE R == OpToRel(<, Nat)
<1>1. \A x, y \in Nat : <<x, y>> \in R <=> x < y
  BY DEF OpToRel
<1>2. IsWellFoundedOn(R, Nat)
  BY NatLessThanWellFounded
<1> HIDE DEF R
<1>3. PICK x \in T : \A y \in T : ~(<<y, x>> \in R)
  BY <1>2, WFMin
<1>4. ASSUME NEW y \in T PROVE x <= y
  <2>1. ~(y < x) /\ x \in Nat /\ y \in Nat
    BY <1>1, <1>3
  <2> QED  BY <2>1
<1> QED  BY <1>4

\* Induction up to n: the least counterexample is 1, or what is before it is none.
LEMMA LeastCounterexample ==
  ASSUME NEW n \in Nat, NEW T \in SUBSET (1 .. n), T # {}
  PROVE  \E m \in T : m \in 1 .. n /\ (m # 1 => m - 1 \in 1 .. n /\ m - 1 \notin T)
<1>1. PICK m \in T : \A k \in T : m <= k
  BY LeastNumber
<1>2. m \in 1 .. n /\ ~(m <= m - 1)
  OBVIOUS
<1> QED  BY <1>1, <1>2

LEMMA MinOfNumbers ==
  ASSUME NEW T \in SUBSET Nat, T # {}
  PROVE  Min(T) \in T /\ \A y \in T : Min(T) <= y
BY LeastNumber DEF Min

LEMMA MaxOfNumbers ==
  ASSUME NEW n \in Nat, NEW T \in SUBSET (0 .. n), T # {}
  PROVE  Max(T) \in T /\ \A y \in T : y <= Max(T)
<1> DEFINE D == {n - y : y \in T}
<1>0. \A y \in T : y \in 0 .. n /\ n - y \in Nat
  OBVIOUS
<1>1. D \in SUBSET Nat /\ D # {}
  BY <1>0
<1>2. PICK d \in D : \A e \in D : d <= e
  BY <1>1, LeastNumber
<1>3. PICK x \in T : d = n - x
  OBVIOUS
<1>4. ASSUME NEW y \in T PROVE x >= y
  <2>1. n - x <= n - y
    BY <1>2, <1>3
  <2> QED  BY <1>0, <2>1
<1>5. \E m \in T : \A y \in T : m >= y
  BY <1>4
<1>6. Max(T) \in T /\ \A y \in T : Max(T) >= y
  BY <1>5 DEF Max
<1> QED  BY <1>0, <1>6

LEMMA MinOfTwo ==
  ASSUME NEW i \in Int, NEW n \in Int
  PROVE  Min({i, n}) = IF i <= n THEN i ELSE n
<1> DEFINE m == IF i <= n THEN i ELSE n
<1>1. m \in {i, n} /\ \A y \in {i, n} : m <= y
  OBVIOUS
<1>2. ASSUME NEW x \in {i, n}, \A y \in {i, n} : x <= y PROVE x = m
  BY <1>2
<1> QED  BY <1>1, <1>2 DEF Min

LEMMA MaxOfTwo ==
  ASSUME NEW i \in Int, NEW n \in Int
  PROVE  Max({i, n}) = IF i >= n THEN i ELSE n
<1> DEFINE m == IF i >= n THEN i ELSE n
<1>1. m \in {i, n} /\ \A y \in {i, n} : m >= y
  OBVIOUS
<1>2. ASSUME NEW x \in {i, n}, \A y \in {i, n} : x >= y PROVE x = m
  BY <1>2
<1> QED  BY <1>1, <1>2 DEF Max

-----------------------------------------------------------------------------
(* Sorting and filtering: an order by ranks exists, and it is the only one.  *)

StrictOrder(S, R) ==
  /\ \A x \in S : <<x, x>> \notin R
  /\ \A x, y, z \in S : <<x, y>> \in R /\ <<y, z>> \in R => <<x, z>> \in R
  /\ \A x, y \in S : x = y \/ <<x, y>> \in R \/ <<y, x>> \in R

\* f has the elements of S, each once, in the order R.
Lists(f, S, R) ==
  /\ Cardinality(S) \in Nat
  /\ f \in [1 .. Cardinality(S) -> S]
  /\ \A x \in S : \E k \in 1 .. Cardinality(S) : f[k] = x
  /\ \A i, j \in 1 .. Cardinality(S) : i < j => <<f[i], f[j]>> \in R

LEMMA InOrderLists ==
  ASSUME NEW S, IsFiniteSet(S), NEW R, StrictOrder(S, R)
  PROVE  Lists(InOrder(S, R), S, R)
<1> DEFINE n == Cardinality(S)
           before(x) == {y \in S : <<y, x>> \in R}
           rank == [x \in S |-> Cardinality(before(x)) + 1]
           f == InOrder(S, R)
<1>1. n \in Nat
  BY FS_CardinalityType
<1>2. ASSUME NEW x \in S
      PROVE  IsFiniteSet(before(x)) /\ Cardinality(before(x)) \in 0 .. n - 1
  <2>1. IsFiniteSet(S \ {x}) /\ Cardinality(S \ {x}) = n - 1
    BY FS_RemoveElement
  <2>2. before(x) \in SUBSET (S \ {x})
    BY DEF StrictOrder
  <2> HIDE DEF before
  <2>3. IsFiniteSet(before(x)) /\ Cardinality(before(x)) <= n - 1
    BY <2>1, <2>2, FS_Subset
  <2>4. Cardinality(before(x)) \in Nat
    BY <2>3, FS_CardinalityType
  <2> QED  BY <1>1, <2>3, <2>4
<1>3. ASSUME NEW x \in S, NEW y \in S, <<x, y>> \in R
      PROVE  Cardinality(before(x)) < Cardinality(before(y))
  <2>1. before(x) \cup {x} \in SUBSET before(y) /\ x \notin before(x)
    BY <1>3 DEF StrictOrder
  <2> HIDE DEF before
  <2>2. Cardinality(before(x) \cup {x}) = Cardinality(before(x)) + 1
    BY <1>2, <2>1, FS_AddElement
  <2>3. Cardinality(before(x) \cup {x}) <= Cardinality(before(y))
    BY <1>2, <2>1, FS_Subset
  <2> QED  BY <1>1, <1>2, <2>2, <2>3
<1>4. rank \in Surjection(S, 1 .. n)
  <2>1. rank \in [S -> 1 .. n]
    <3>1. \A x \in S : Cardinality(before(x)) + 1 \in 1 .. n
      <4> HIDE DEF before
      <4> QED  BY <1>1, <1>2
    <3> HIDE DEF before
    <3> QED  BY <3>1
  <2>2. ASSUME NEW x \in S, NEW y \in S, rank[x] = rank[y] PROVE x = y
    <3>1. Cardinality(before(x)) = Cardinality(before(y))
      <4> HIDE DEF before
      <4> QED  BY <1>1, <1>2, <2>2
    <3>2. x = y \/ <<x, y>> \in R \/ <<y, x>> \in R
      BY DEF StrictOrder
    <3> HIDE DEF before
    <3>3. ~(<<x, y>> \in R) /\ ~(<<y, x>> \in R)
      BY <1>1, <1>2, <1>3, <3>1
    <3> QED  BY <3>2, <3>3
  <2>3. rank \in Injection(S, 1 .. n)
    <3> HIDE DEF rank
    <3> QED  BY <2>1, <2>2 DEF Injection, IsInjective
  <2>4. IsFiniteSet(1 .. n) /\ Cardinality(1 .. n) = n
    BY <1>1, FS_Interval
  <2> HIDE DEF rank
  <2> QED  BY <2>3, <2>4, FS_Injection
<1>5. ASSUME NEW k \in 1 .. n
      PROVE  f[k] \in S /\ Cardinality(before(f[k])) = k - 1
  <2>1. PICK x \in S : rank[x] = k
    <3> HIDE DEF rank
    <3> QED  BY <1>4 DEF Surjection
  <2>2. Cardinality(before(x)) = k - 1
    <3> HIDE DEF before
    <3> QED  BY <1>1, <1>2, <2>1
  <2>3. f[k] = CHOOSE y \in S : Cardinality(before(y)) = k - 1
    BY DEF InOrder
  <2> HIDE DEF before, f
  <2> QED  BY <2>2, <2>3
<1>6. f \in [1 .. n -> S]
  <2> DEFINE g(k) == CHOOSE x \in S : Cardinality(before(x)) = k - 1
  <2>1. f = [k \in 1 .. n |-> f[k]]
    <3>1. f = [k \in 1 .. n |-> g(k)]
      BY DEF InOrder
    <3> HIDE DEF g, f
    <3> QED  BY <3>1
  <2> HIDE DEF f, before
  <2> QED  BY <1>5, <2>1
<1>7. ASSUME NEW x \in S, NEW y \in S, Cardinality(before(x)) <= Cardinality(before(y)), x # y
      PROVE  <<x, y>> \in R
  <2>1. x = y \/ <<x, y>> \in R \/ <<y, x>> \in R
    BY DEF StrictOrder
  <2> HIDE DEF before
  <2> QED  BY <1>1, <1>2, <1>3, <1>7, <2>1
<1>8. ASSUME NEW x \in S PROVE \E k \in 1 .. n : f[k] = x
  <2> DEFINE k == Cardinality(before(x)) + 1
  <2>1. k \in 1 .. n /\ k - 1 = Cardinality(before(x))
    <3> HIDE DEF before
    <3> QED  BY <1>1, <1>2
  <2>2. f[k] \in S /\ Cardinality(before(f[k])) = Cardinality(before(x))
    <3> HIDE DEF k, f, before
    <3> QED  BY <1>5, <2>1
  <2>3. f[k] = x
    <3> HIDE DEF k, f
    <3>1. ~(<<f[k], x>> \in R)
      <4> HIDE DEF before
      <4> QED  BY <1>1, <1>2, <1>3, <2>2
    <3>2. Cardinality(before(f[k])) <= Cardinality(before(x))
      <4> HIDE DEF before
      <4> QED  BY <1>1, <1>2, <2>2
    <3> HIDE DEF before
    <3> QED  BY <1>7, <2>2, <3>1, <3>2
  <2> QED  BY <2>1, <2>3
<1>9. ASSUME NEW i \in 1 .. n, NEW j \in 1 .. n, i < j PROVE <<f[i], f[j]>> \in R
  <2> HIDE DEF f, before
  <2>1. Cardinality(before(f[i])) = i - 1 /\ Cardinality(before(f[j])) = j - 1
    BY <1>5
  <2>2. f[i] # f[j] /\ Cardinality(before(f[i])) <= Cardinality(before(f[j]))
    BY <1>1, <1>9, <2>1
  <2> QED  BY <1>5, <1>7, <2>2
<1> HIDE DEF f
<1> QED  BY <1>1, <1>6, <1>8, <1>9 DEF Lists, f

\* Increasing numbers, all of T.
Ascends(f, m, T) ==
  /\ m \in Nat /\ f \in [1 .. m -> T]
  /\ \A x \in T : \E k \in 1 .. m : f[k] = x
  /\ \A i, j \in 1 .. m : i < j => f[i] < f[j]

LEMMA FiniteAscends ==
  ASSUME NEW T \in SUBSET Int, IsFiniteSet(T)
  PROVE  Ascends(Increasing(T), Cardinality(T), T)
<1> DEFINE R == {p \in T \X T : p[1] < p[2]}
<1>2. \A x, y \in T : <<x, y>> \in R <=> x < y
  OBVIOUS
<1>3. Increasing(T) = InOrder(T, R)
  BY DEF Increasing
<1>4. \A x \in T : x \in Int
  OBVIOUS
<1> HIDE DEF R
<1>5. StrictOrder(T, R)
  BY <1>2, <1>4 DEF StrictOrder
<1>6. Lists(Increasing(T), T, R)
  BY <1>3, <1>5, InOrderLists
<1> DEFINE f == Increasing(T)
<1>7. f \in [1 .. Cardinality(T) -> T] /\ \A i, j \in 1 .. Cardinality(T) : i < j => <<f[i], f[j]>> \in R
  BY <1>6 DEF Lists
<1> HIDE DEF f
<1>8. \A i, j \in 1 .. Cardinality(T) : i < j => f[i] < f[j]
  BY <1>2, <1>7
<1> QED  BY <1>6, <1>7, <1>8 DEF Ascends, Lists, f

LEMMA IncreasingAscends ==
  ASSUME NEW n \in Nat, NEW T \in SUBSET (1 .. n)
  PROVE  Ascends(Increasing(T), Cardinality(T), T) /\ Cardinality(T) <= n
<1>1. IsFiniteSet(1 .. n) /\ Cardinality(1 .. n) = n
  BY FS_Interval
<1>2. IsFiniteSet(T) /\ Cardinality(T) <= n
  BY <1>1, FS_Subset
<1>3. T \in SUBSET Int
  OBVIOUS
<1> QED  BY <1>2, <1>3, FiniteAscends

\* There is one way to enumerate T.
LEMMA OneAscent ==
  ASSUME NEW T \in SUBSET Int, NEW m, NEW f, Ascends(f, m, T), NEW l, NEW g, Ascends(g, l, T)
  PROVE  m = l /\ f = g
<1> DEFINE D == {k \in 1 .. m : k \in 1 .. l /\ f[k] # g[k]}
<1>1. /\ m \in Nat /\ l \in Nat
      /\ \A k \in 1 .. m : f[k] \in T /\ f[k] \in Int
      /\ \A k \in 1 .. l : g[k] \in T /\ g[k] \in Int
      /\ \A i, j \in 1 .. m : i < j => f[i] < f[j]
      /\ \A i, j \in 1 .. l : i < j => g[i] < g[j]
      /\ \A x \in T : (\E k \in 1 .. m : f[k] = x) /\ \E k \in 1 .. l : g[k] = x
  BY DEF Ascends
<1>2. D = {}
  <2> SUFFICES ASSUME D # {} PROVE FALSE
    OBVIOUS
  <2>1. PICK k \in D : \A y \in D : k <= y
    <3>1. D \in SUBSET Nat
      BY <1>1
    <3> HIDE DEF D
    <3> QED  BY <3>1, LeastNumber
  <2>2. k \in 1 .. m /\ k \in 1 .. l /\ f[k] # g[k]
    OBVIOUS
  <2>3. ASSUME NEW j \in 1 .. k - 1 PROVE j \in 1 .. m /\ j \in 1 .. l /\ f[j] = g[j] /\ j < k
    <3>1. j \in 1 .. m /\ j \in 1 .. l /\ j < k /\ ~(k <= j)
      BY <1>1, <2>2
    <3> QED  BY <2>1, <3>1
  <2> HIDE DEF D
  <2>4. CASE f[k] < g[k]
    <3>1. PICK j \in 1 .. l : g[j] = f[k]
      BY <1>1, <2>2
    <3>2. ~(k < j) /\ j # k
      BY <1>1, <2>2, <2>4, <3>1
    <3>3. j \in 1 .. k - 1
      BY <1>1, <2>2, <3>2
    <3> QED  BY <1>1, <2>2, <2>3, <3>1, <3>3
  <2>5. CASE g[k] < f[k]
    <3>1. PICK j \in 1 .. m : f[j] = g[k]
      BY <1>1, <2>2
    <3>2. ~(k < j) /\ j # k
      BY <1>1, <2>2, <2>5, <3>1
    <3>3. j \in 1 .. k - 1
      BY <1>1, <2>2, <3>2
    <3> QED  BY <1>1, <2>2, <2>3, <3>1, <3>3
  <2> QED  BY <1>1, <2>2, <2>4, <2>5
<1>3. \A k \in 1 .. m : k \in 1 .. l => f[k] = g[k]
  BY <1>2
<1> HIDE DEF D
<1>4. ~(m < l)
  <2> SUFFICES ASSUME m < l PROVE FALSE
    OBVIOUS
  <2>1. m + 1 \in 1 .. l
    BY <1>1
  <2>2. PICK j \in 1 .. m : f[j] = g[m + 1]
    BY <1>1, <2>1
  <2>3. j \in 1 .. l /\ j < m + 1
    BY <1>1
  <2> QED  BY <1>1, <1>3, <2>1, <2>2, <2>3
<1>5. ~(l < m)
  <2> SUFFICES ASSUME l < m PROVE FALSE
    OBVIOUS
  <2>1. l + 1 \in 1 .. m
    BY <1>1
  <2>2. PICK j \in 1 .. l : g[j] = f[l + 1]
    BY <1>1, <2>1
  <2>3. j \in 1 .. m /\ j < l + 1
    BY <1>1
  <2> QED  BY <1>1, <1>3, <2>1, <2>2, <2>3
<1>6. m = l
  BY <1>1, <1>4, <1>5
<1>7. f \in [1 .. m -> T] /\ g \in [1 .. m -> T]
  BY <1>6 DEF Ascends
<1>8. \A k \in 1 .. m : f[k] = g[k]
  BY <1>3, <1>6
<1>9. f = g
  <2>1. f = [k \in 1 .. m |-> f[k]] /\ g = [k \in 1 .. m |-> g[k]]
    BY <1>7
  <2>2. [k \in 1 .. m |-> f[k]] = [k \in 1 .. m |-> g[k]]
    BY <1>8
  <2> QED  BY <2>1, <2>2
<1> QED  BY <1>6, <1>9

LEMMA ThoseAre ==
  ASSUME NEW S, NEW s \in Seq(S), NEW T \in SUBSET DOMAIN s
  PROVE  LET order == Increasing(T)
             m == Cardinality(T)
         IN  /\ Ascends(order, m, T)
             /\ Those(s, T) = [k \in 1 .. m |-> s[order[k]]]
             /\ Those(s, T) \in Seq(S) /\ Len(Those(s, T)) = m /\ DOMAIN Those(s, T) = 1 .. m
             /\ ToSet(Those(s, T)) = {s[i] : i \in T}
<1> DEFINE order == Increasing(T)
           m == Cardinality(T)
           r == Those(s, T)
<1>1. Len(s) \in Nat /\ T \in SUBSET (1 .. Len(s)) /\ \A i \in T : s[i] \in S
  BY LenProperties
<1>2. Ascends(order, m, T)
  BY <1>1, IncreasingAscends
<1> HIDE DEF order, m
<1>3. m \in Nat /\ DOMAIN order = 1 .. m /\ \A k \in 1 .. m : order[k] \in T
  BY <1>2 DEF Ascends
<1>4. r = [k \in 1 .. m |-> s[order[k]]]
  BY <1>3 DEF Those, order
<1>5. r \in Seq(S) /\ Len(r) = m /\ DOMAIN r = 1 .. m
  <2>1. \A k \in 1 .. m : s[order[k]] \in S
    BY <1>1, <1>3
  <2> HIDE DEF r
  <2>2. r \in [1 .. m -> S]
    BY <1>4, <2>1
  <2> QED  BY <1>3, <2>2, SeqDef, LenProperties
<1>6. ToSet(r) = {s[i] : i \in T}
  <2> HIDE DEF r
  <2>1. \A x \in T : \E k \in 1 .. m : order[k] = x
    BY <1>2 DEF Ascends
  <2>2. ToSet(r) = {r[k] : k \in 1 .. m}
    BY <1>5 DEF ToSet
  <2> QED  BY <1>3, <1>4, <2>1, <2>2, SMTT(30)
<1> QED  BY <1>2, <1>4, <1>5, <1>6 DEF order, m

-----------------------------------------------------------------------------
(* Finding and slicing.                                                    *)

IsAt(text, part, i) == SubSeq(text, i + 1, i + Len(part)) = part

\* str.find: -1, or the first place where the part is.
LEMMA FindIsFirst ==
  ASSUME NEW Chars, NEW text \in Seq(Chars), NEW part \in Seq(Chars)
  PROVE  \/ /\ Find(text, part) = -1
            /\ \A i \in 0 .. Len(text) - Len(part) : ~IsAt(text, part, i)
         \/ /\ Find(text, part) \in 0 .. Len(text) - Len(part)
            /\ IsAt(text, part, Find(text, part))
            /\ \A i \in 0 .. Find(text, part) - 1 : ~IsAt(text, part, i)
<1> DEFINE places == {i \in 0 .. Len(text) - Len(part) : IsAt(text, part, i)}
<1>1. Find(text, part) = IF places = {} THEN -1 ELSE Min(places)
  BY DEF Find, IsAt
<1>2. Len(text) \in Nat /\ Len(part) \in Nat /\ places \in SUBSET Nat
  OBVIOUS
<1>3. CASE places = {}
  BY <1>1, <1>3
<1>4. CASE places # {}
  <2>1. Find(text, part) \in places /\ \A y \in places : Find(text, part) <= y
    BY <1>1, <1>2, <1>4, MinOfNumbers
  <2>2. \A i \in 0 .. Find(text, part) - 1 : i \notin places
    BY <1>2, <2>1
  <2> QED  BY <1>2, <2>1, <2>2
<1> QED  BY <1>3, <1>4

\* text[s:e] within the text.
LEMMA SliceWithin ==
  ASSUME NEW Chars, NEW text \in Seq(Chars), NEW s \in 0 .. Len(text), NEW e \in 0 .. Len(text)
  PROVE  PySlice(text, s, e) = SubSeq(text, s + 1, e)
<1>1. Len(text) \in Nat /\ ~(s < 0) /\ ~(e < 0)
  OBVIOUS
<1>2. Min({s, Len(text)}) = s /\ Min({e, Len(text)}) = e
  BY <1>1, MinOfTwo
<1> QED  BY <1>1, <1>2 DEF PySlice

\* The characters from a to b.
LEMMA PartOfText ==
  ASSUME NEW S, NEW text \in Seq(S), NEW a \in Int, NEW b \in Int, 1 <= a, a <= b + 1, b <= Len(text)
  PROVE  /\ SubSeq(text, a, b) \in Seq(S)
         /\ Len(SubSeq(text, a, b)) = b - a + 1
         /\ \A i \in 1 .. b - a + 1 : SubSeq(text, a, b)[i] = text[a + i - 1]
<1>1. \A i \in a .. b : i \in 1 .. Len(text)
  BY LenProperties
<1>2. \A i \in a .. b : text[i] \in S
  BY <1>1, ElementOfSeq
<1> QED  BY <1>2, SubSeqProperties

\* A passage of a part of a text.
LEMMA PartOfPart ==
  ASSUME NEW S, NEW text \in Seq(S), NEW a \in Int, NEW b \in Int, 1 <= a, a <= b + 1, b <= Len(text),
         NEW f \in Int, NEW l \in Int, 1 <= f, f <= l + 1, l <= b - a + 1
  PROVE  SubSeq(SubSeq(text, a, b), f, l) = SubSeq(text, a + f - 1, a + l - 1)
<1> DEFINE part == SubSeq(text, a, b)
           left == SubSeq(part, f, l)
           right == SubSeq(text, a + f - 1, a + l - 1)
<1>1. /\ part \in Seq(S) /\ Len(part) = b - a + 1 /\ Len(text) \in Int
      /\ \A i \in 1 .. b - a + 1 : part[i] = text[a + i - 1]
  BY PartOfText, LenProperties
<1> HIDE DEF part
<1>2. /\ left \in Seq(S) /\ Len(left) = l - f + 1
      /\ \A i \in 1 .. l - f + 1 : left[i] = part[f + i - 1]
  BY <1>1, PartOfText
<1> DEFINE c == a + f - 1
           d == a + l - 1
<1>3. c \in Int /\ d \in Int /\ 1 <= c /\ c <= d + 1 /\ d <= Len(text) /\ d - c + 1 = l - f + 1
  BY <1>1
<1> HIDE DEF c, d
<1>4. /\ SubSeq(text, c, d) \in Seq(S) /\ Len(SubSeq(text, c, d)) = d - c + 1
      /\ \A i \in 1 .. d - c + 1 : SubSeq(text, c, d)[i] = text[c + i - 1]
  BY <1>3, PartOfText
<1>5. right = SubSeq(text, c, d)
  BY DEF c, d
<1>6. ASSUME NEW i \in 1 .. l - f + 1 PROVE left[i] = right[i]
  <2>1. f + i - 1 \in 1 .. b - a + 1 /\ a + (f + i - 1) - 1 = c + i - 1
    BY DEF c
  <2>2. left[i] = text[c + i - 1]
    BY <1>1, <1>2, <2>1
  <2> QED  BY <1>3, <1>4, <1>5, <2>2
<1> HIDE DEF left, right
<1> QED  BY <1>2, <1>3, <1>4, <1>5, <1>6, SeqEqual DEF left, right, part

-----------------------------------------------------------------------------
(* White space: a passage of a text reads as the quote that was looked for.  *)

Plain(c) == IF c \in Space THEN " " ELSE c

\* The places whose characters stay.
Kept(text) ==
  {i \in DOMAIN text :
    \/ text[i] \notin Space
    \/ i > 1 /\ text[i - 1] \notin Space /\ \E j \in i .. Len(text) : text[j] \notin Space}

LEMMA NormalizedIs ==
  ASSUME NEW Chars, NEW text \in Seq(Chars)
  PROVE  LET place == NormalizedPlaces(text)
             m == Cardinality(Kept(text))
             plain == NormalizeWs(text)
         IN  /\ Ascends(place, m, Kept(text))
             /\ plain = [k \in 1 .. m |-> Plain(text[place[k]])]
             /\ plain \in Seq(Chars \cup {" "}) /\ Len(plain) = m
             /\ \A k \in 1 .. m : place[k] \in 1 .. Len(text) /\ plain[k] = Plain(text[place[k]])
<1> DEFINE place == NormalizedPlaces(text)
           m == Cardinality(Kept(text))
           plain == NormalizeWs(text)
<1>1. Len(text) \in Nat /\ DOMAIN text = 1 .. Len(text) /\ Kept(text) \in SUBSET (1 .. Len(text))
  BY LenProperties DEF Kept
<1>2. place = Increasing(Kept(text))
  BY DEF NormalizedPlaces, Kept
<1>3. Ascends(place, m, Kept(text))
  BY <1>1, <1>2, IncreasingAscends
<1>4. plain = [k \in DOMAIN place |-> Plain(text[place[k]])]
  BY DEF NormalizeWs, Plain
<1> HIDE DEF place, m, plain
<1>5. m \in Nat /\ DOMAIN place = 1 .. m /\ \A k \in 1 .. m : place[k] \in Kept(text)
  BY <1>3 DEF Ascends
<1>6. plain = [k \in 1 .. m |-> Plain(text[place[k]])]
  BY <1>4, <1>5
<1>7. \A k \in 1 .. m : place[k] \in 1 .. Len(text) /\ Plain(text[place[k]]) \in Chars \cup {" "}
  <2>1. \A i \in 1 .. Len(text) : Plain(text[i]) \in Chars \cup {" "}
    BY <1>1, ElementOfSeq DEF Plain
  <2> QED  BY <1>1, <1>5, <2>1
<1>8. plain \in [1 .. m -> Chars \cup {" "}]
  BY <1>6, <1>7
<1>9. plain \in Seq(Chars \cup {" "}) /\ Len(plain) = m
  <2> DEFINE C == Chars \cup {" "}
  <2>1. m \in Nat
    BY <1>5
  <2> HIDE DEF C
  <2>2. plain \in Seq(C)
    <3>1. plain \in [1 .. m -> C]
      BY <1>8 DEF C
    <3> QED  BY <2>1, <3>1, SeqDef
  <2>3. DOMAIN plain = 1 .. m
    BY <1>8
  <2>4. Len(plain) = m
    BY <2>1, <2>2, <2>3, LenProperties
  <2> QED  BY <2>2, <2>4 DEF C
<1> QED  BY <1>3, <1>6, <1>7, <1>9 DEF place, m, plain

\* No white space is left at the ends.
LEMMA NormalEnds ==
  ASSUME NEW Chars, NEW text \in Seq(Chars), NormalizeWs(text) # << >>
  PROVE  LET plain == NormalizeWs(text)
         IN  Len(plain) \in Nat \ {0} /\ plain[1] \notin Space /\ plain[Len(plain)] \notin Space
<1> DEFINE place == NormalizedPlaces(text)
           m == Cardinality(Kept(text))
           plain == NormalizeWs(text)
<1>1. /\ Ascends(place, m, Kept(text))
      /\ plain \in Seq(Chars \cup {" "}) /\ Len(plain) = m
      /\ \A k \in 1 .. m : place[k] \in 1 .. Len(text) /\ plain[k] = Plain(text[place[k]])
  BY NormalizedIs
<1>2. Len(text) \in Nat /\ DOMAIN text = 1 .. Len(text)
  BY LenProperties
<1> HIDE DEF place, m, plain
<1>3. m \in Nat \ {0}
  <2>1. m \in Nat /\ plain # << >>
    BY <1>1 DEF Ascends, plain
  <2> QED  BY <1>1, <2>1, EmptySeq
<1>4. /\ \A k \in 1 .. m : place[k] \in Kept(text)
      /\ \A x \in Kept(text) : \E k \in 1 .. m : place[k] = x
      /\ \A i, j \in 1 .. m : i < j => place[i] < place[j]
  BY <1>1 DEF Ascends
<1>5. 1 \in 1 .. m /\ m \in 1 .. m
  BY <1>3
<1>6. text[place[1]] \notin Space
  <2> SUFFICES ASSUME text[place[1]] \in Space PROVE FALSE
    OBVIOUS
  <2> DEFINE i == place[1]
  <2>1. i \in 1 .. Len(text) /\ i > 1 /\ text[i - 1] \notin Space
    BY <1>1, <1>4, <1>5 DEF Kept
  <2>2. i - 1 \in Kept(text)
    BY <1>2, <2>1 DEF Kept
  <2>3. PICK k \in 1 .. m : place[k] = i - 1
    BY <1>4, <2>2
  <2>4. 1 < k \/ k = 1
    BY <1>3
  <2> QED  BY <1>2, <1>4, <1>5, <2>1, <2>3, <2>4
<1>7. text[place[m]] \notin Space
  <2> SUFFICES ASSUME text[place[m]] \in Space PROVE FALSE
    OBVIOUS
  <2> DEFINE i == place[m]
  <2>1. i \in 1 .. Len(text) /\ \E j \in i .. Len(text) : text[j] \notin Space
    BY <1>1, <1>4, <1>5 DEF Kept
  <2>2. PICK j \in i .. Len(text) : text[j] \notin Space
    BY <2>1
  <2>3. j \in 1 .. Len(text) /\ j # i /\ j > i
    BY <1>2, <2>1, <2>2
  <2>4. PICK k \in 1 .. m : place[k] = j
    BY <1>2, <1>4, <2>2, <2>3 DEF Kept
  <2>5. k < m \/ k = m
    BY <1>3
  <2> QED  BY <1>2, <1>4, <1>5, <2>1, <2>3, <2>4, <2>5
<1>8. plain[1] \notin Space /\ plain[m] \notin Space
  BY <1>1, <1>5, <1>6, <1>7 DEF Plain
<1> QED  BY <1>1, <1>3, <1>8 DEF plain

\* What stands between two characters that are not white space reads as it does in
\* the whole text.
LEMMA PassageReads ==
  ASSUME NEW Chars, NEW text \in Seq(Chars),
         NEW l \in Nat \ {0}, NEW pos \in 0 .. Len(NormalizeWs(text)) - l,
         NormalizeWs(text)[pos + 1] \notin Space, NormalizeWs(text)[pos + l] \notin Space
  PROVE  LET a == NormalizedPlaces(text)[pos + 1]
             b == NormalizedPlaces(text)[pos + l]
         IN  /\ a \in 1 .. b /\ b \in 1 .. Len(text)
             /\ NormalizeWs(SubSeq(text, a, b)) = SubSeq(NormalizeWs(text), pos + 1, pos + l)
<1> DEFINE place == NormalizedPlaces(text)
           m == Cardinality(Kept(text))
           plain == NormalizeWs(text)
           a == place[pos + 1]
           b == place[pos + l]
           part == SubSeq(text, a, b)
           n == b - a + 1
           wanted == SubSeq(plain, pos + 1, pos + l)
<1>1. /\ Ascends(place, m, Kept(text))
      /\ plain \in Seq(Chars \cup {" "}) /\ Len(plain) = m
      /\ \A k \in 1 .. m : place[k] \in 1 .. Len(text) /\ plain[k] = Plain(text[place[k]])
  BY NormalizedIs
<1>2. Len(text) \in Nat /\ DOMAIN text = 1 .. Len(text)
  BY LenProperties
<1>3. plain[pos + 1] \notin Space /\ plain[pos + l] \notin Space /\ pos \in 0 .. Len(plain) - l
  OBVIOUS
<1> HIDE DEF place, m, plain
<1>0. m \in Nat
  BY <1>1 DEF Ascends
<1>4. /\ \A k \in 1 .. m : place[k] \in Kept(text)
      /\ \A x \in Kept(text) : \E k \in 1 .. m : place[k] = x
      /\ \A i, j \in 1 .. m : i < j => place[i] < place[j]
  BY <1>1 DEF Ascends
<1>5. m \in Nat /\ pos \in Nat /\ pos + l <= m /\ pos + 1 \in 1 .. m /\ pos + l \in 1 .. m
  <2>1. Len(plain) = m
    BY <1>1
  <2>2. pos \in 0 .. m - l
    BY <1>3, <2>1
  <2> QED  BY <1>0, <2>2
<1>6. a \in 1 .. Len(text) /\ b \in 1 .. Len(text) /\ text[a] \notin Space /\ text[b] \notin Space
  BY <1>1, <1>3, <1>5 DEF Plain, Space
<1>7. a <= b
  <2>1. pos + 1 < pos + l \/ pos + 1 = pos + l
    BY <1>5
  <2> QED  BY <1>2, <1>4, <1>5, <1>6, <2>1
<1> HIDE DEF a, b
<1>8. a \in Int /\ b \in Int /\ n \in Nat \ {0} /\ 1 <= a /\ a <= b + 1 /\ b <= Len(text) /\ n \in 1 .. n
  BY <1>2, <1>6, <1>7
<1>9. part \in Seq(Chars) /\ Len(part) = n /\ \A i \in 1 .. n : part[i] = text[a + i - 1]
  BY <1>8, PartOfText
<1>10. DOMAIN part = 1 .. n
  BY <1>9, LenProperties
<1> HIDE DEF part
<1>11. part[1] \notin Space /\ part[n] \notin Space
  <2>1. 1 \in 1 .. n /\ a + 1 - 1 = a /\ a + n - 1 = b
    BY <1>8
  <2> QED  BY <1>6, <1>8, <1>9, <2>1
<1>12. ASSUME NEW i \in 1 .. n PROVE i \in Kept(part) <=> a + i - 1 \in Kept(text)
  <2>1. a + i - 1 \in 1 .. Len(text) /\ part[i] = text[a + i - 1]
    BY <1>2, <1>6, <1>7, <1>8, <1>9
  <2>2. CASE part[i] \notin Space
    BY <1>2, <1>10, <2>1, <2>2 DEF Kept
  <2>3. CASE part[i] \in Space
    <3>1. i # 1 /\ i # n
      BY <1>11, <2>3
    <3>2. i > 1 /\ a + i - 1 > 1 /\ i - 1 \in 1 .. n
      BY <1>8, <3>1
    <3>3. part[i - 1] = text[(a + i - 1) - 1]
      <4>1. a + (i - 1) - 1 = (a + i - 1) - 1
        BY <1>8
      <4> QED  BY <1>9, <3>2, <4>1
    <3>4. n \in i .. Len(part) /\ b \in a + i - 1 .. Len(text)
      BY <1>2, <1>6, <1>8, <1>9
    <3> QED  BY <1>2, <1>6, <1>10, <1>11, <2>1, <2>3, <3>2, <3>3, <3>4 DEF Kept
  <2> QED  BY <2>2, <2>3
<1> DEFINE h == [k \in 1 .. l |-> place[pos + k] - a + 1]
<1>13. ASSUME NEW k \in 1 .. l PROVE h[k] \in 1 .. n /\ h[k] \in Kept(part) /\ a + h[k] - 1 = place[pos + k]
  <2>1. pos + k \in 1 .. m /\ (k = 1 \/ pos + 1 < pos + k) /\ (k = l \/ pos + k < pos + l)
    BY <1>5
  <2>2. place[pos + k] \in Kept(text) /\ place[pos + k] \in 1 .. Len(text)
    BY <1>1, <1>4, <2>1
  <2>3. a <= place[pos + k] /\ place[pos + k] <= b
    <3>1. k = 1 => place[pos + k] = a
      BY DEF a
    <3>2. k = l => place[pos + k] = b
      BY DEF b
    <3>3. pos + 1 < pos + k => a < place[pos + k]
      BY <1>4, <1>5, <2>1 DEF a
    <3>4. pos + k < pos + l => place[pos + k] < b
      BY <1>4, <1>5, <2>1 DEF b
    <3>5. place[pos + k] \in Int
      BY <2>2
    <3> QED  BY <1>8, <2>1, <3>1, <3>2, <3>3, <3>4, <3>5
  <2>4. h[k] = place[pos + k] - a + 1
    OBVIOUS
  <2> HIDE DEF h
  <2>5. h[k] \in 1 .. n /\ a + h[k] - 1 = place[pos + k]
    BY <1>2, <1>8, <2>2, <2>3, <2>4
  <2> QED  BY <1>12, <2>2, <2>5
<1>14. Ascends(h, l, Kept(part))
  <2>1. h \in [1 .. l -> Kept(part)]
    <3>1. \A k \in 1 .. l : place[pos + k] - a + 1 \in Kept(part)
      BY <1>13
    <3> QED  BY <3>1
  <2>2. ASSUME NEW x \in Kept(part) PROVE \E k \in 1 .. l : h[k] = x
    <3>1. x \in 1 .. n
      BY <1>10 DEF Kept
    <3>2. PICK j \in 1 .. m : place[j] = a + x - 1
      BY <1>4, <1>12, <3>1
    <3>3. a <= place[j] /\ place[j] <= b /\ place[j] \in Int
      BY <1>8, <3>1, <3>2
    <3>4. ~(j < pos + 1)
      <4> SUFFICES ASSUME j < pos + 1 PROVE FALSE
        OBVIOUS
      <4>1. place[j] < place[pos + 1]
        BY <1>4, <1>5
      <4> QED  BY <1>8, <3>3, <4>1 DEF a
    <3>5. ~(pos + l < j)
      <4> SUFFICES ASSUME pos + l < j PROVE FALSE
        OBVIOUS
      <4>1. place[pos + l] < place[j]
        BY <1>4, <1>5
      <4> QED  BY <1>8, <3>3, <4>1 DEF b
    <3>6. j - pos \in 1 .. l /\ pos + (j - pos) = j
      BY <1>4, <1>5, <3>4, <3>5
    <3>7. h[j - pos] = x
      <4>1. h[j - pos] = place[j] - a + 1
        BY <3>6
      <4> HIDE DEF h
      <4> QED  BY <1>8, <3>1, <3>2, <4>1
    <3> QED  BY <3>6, <3>7
  <2>3. ASSUME NEW i \in 1 .. l, NEW j \in 1 .. l, i < j PROVE h[i] < h[j]
    <3>1. pos + i \in 1 .. m /\ pos + j \in 1 .. m /\ pos + i < pos + j
      <4>1. i \in Nat /\ j \in Nat /\ 1 <= i /\ i <= l /\ 1 <= j /\ j <= l
        OBVIOUS
      <4> QED  BY <1>5, <2>3, <4>1
    <3>2. place[pos + i] < place[pos + j]
      BY <1>4, <3>1
    <3>3. h[i] \in 1 .. n /\ h[j] \in 1 .. n /\ a + h[i] - 1 = place[pos + i] /\ a + h[j] - 1 = place[pos + j]
      BY <1>13
    <3> HIDE DEF h
    <3> QED  BY <1>8, <3>2, <3>3, SMTT(30)
  <2> HIDE DEF h
  <2> QED  BY <2>1, <2>2, <2>3 DEF Ascends
<1> HIDE DEF h
<1>15. LET c == Cardinality(Kept(part)) IN
         /\ Ascends(NormalizedPlaces(part), c, Kept(part))
         /\ NormalizeWs(part) = [k \in 1 .. c |-> Plain(part[NormalizedPlaces(part)[k]])]
  BY <1>9, NormalizedIs
<1>16. Kept(part) \in SUBSET Int
  BY <1>10 DEF Kept
<1>17. Cardinality(Kept(part)) = l /\ NormalizedPlaces(part) = h
  BY <1>14, <1>15, <1>16, OneAscent
<1>18. NormalizeWs(part) = [k \in 1 .. l |-> Plain(part[h[k]])]
  BY <1>15, <1>17
<1>19. ASSUME NEW k \in 1 .. l PROVE Plain(part[h[k]]) = plain[pos + k]
  <2>1. part[h[k]] = text[place[pos + k]] /\ pos + k \in 1 .. m
    <3>1. pos + k \in 1 .. m
      BY <1>5
    <3> QED  BY <1>9, <1>13, <3>1
  <2> QED  BY <1>1, <2>1
<1>20. wanted = [k \in 1 .. l |-> plain[pos + k]]
  <2>1. SubSeq(plain, pos + 1, pos + l) = [k \in 1 .. (pos + l) - (pos + 1) + 1 |-> plain[(pos + 1) + k - 1]]
    OBVIOUS
  <2>2. (pos + l) - (pos + 1) + 1 = l /\ \A k \in 1 .. l : (pos + 1) + k - 1 = pos + k
    BY <1>5
  <2> QED  BY <2>1, <2>2
<1> HIDE DEF wanted
<1>21. NormalizeWs(part) = wanted
  BY <1>18, <1>19, <1>20
<1> QED  BY <1>2, <1>6, <1>7, <1>8, <1>21 DEF a, b, part, wanted, plain, place

\* _locate_quote: where it says, the text reads as the quote.
LEMMA LocatedReads ==
  ASSUME NEW Chars, NEW text \in Seq(Chars), NEW quote \in Seq(Chars), LocateQuote(text, quote) # None
  PROVE  LET span == LocateQuote(text, quote)
         IN  /\ span[1] \in 0 .. Len(text) /\ span[2] \in 0 .. Len(text) /\ span[1] <= span[2]
             /\ NormalizeWs(SubSeq(text, span[1] + 1, span[2])) = NormalizeWs(quote)
<1> DEFINE at == Find(text, quote)
           plain == NormalizeWs(quote)
           whole == NormalizeWs(text)
           pos == Find(whole, plain)
           place == NormalizedPlaces(text)
           span == LocateQuote(text, quote)
<1>1. Len(text) \in Nat /\ Len(quote) \in Nat
  BY LenProperties
<1>2. CASE at # -1
  <2>1. at \in 0 .. Len(text) - Len(quote) /\ SubSeq(text, at + 1, at + Len(quote)) = quote
    <3>1. \/ at = -1
          \/ at \in 0 .. Len(text) - Len(quote) /\ IsAt(text, quote, at)
      BY FindIsFirst
    <3> HIDE DEF at
    <3> QED  BY <1>2, <3>1 DEF IsAt
  <2>2. span = <<at, at + Len(quote)>>
    BY <1>2 DEF LocateQuote
  <2> HIDE DEF at, span
  <2>3. span[1] = at /\ span[2] = at + Len(quote)
    BY <2>2
  <2>4. at \in Nat /\ at + Len(quote) <= Len(text)
    BY <1>1, <2>1
  <2>5. span[1] \in 0 .. Len(text) /\ span[2] \in 0 .. Len(text) /\ span[1] <= span[2]
    BY <1>1, <2>3, <2>4
  <2> QED  BY <2>1, <2>3, <2>5 DEF span
<1>3. CASE at = -1
  <2>1. plain # << >> /\ pos # -1 /\ span = <<place[pos + 1] - 1, place[pos + Len(plain)]>>
    BY <1>3 DEF LocateQuote
  <2>2. plain \in Seq(Chars \cup {" "}) /\ whole \in Seq(Chars \cup {" "})
    BY NormalizedIs
  <2>3. Len(plain) \in Nat \ {0} /\ plain[1] \notin Space /\ plain[Len(plain)] \notin Space
    BY <2>1, NormalEnds
  <2> HIDE DEF span, plain, whole
  <2>4. pos \in 0 .. Len(whole) - Len(plain) /\ SubSeq(whole, pos + 1, pos + Len(plain)) = plain
    <3>1. \/ pos = -1
          \/ pos \in 0 .. Len(whole) - Len(plain) /\ IsAt(whole, plain, pos)
      BY <2>2, FindIsFirst
    <3> HIDE DEF pos
    <3> QED  BY <2>1, <3>1 DEF IsAt
  <2> HIDE DEF pos
  <2>5. whole[pos + 1] = plain[1] /\ whole[pos + Len(plain)] = plain[Len(plain)]
    <3> DEFINE c == pos + 1
               d == pos + Len(plain)
    <3>1. /\ Len(whole) \in Nat /\ c \in Int /\ d \in Int /\ 1 <= c /\ c <= d + 1 /\ d <= Len(whole)
          /\ 1 \in 1 .. d - c + 1 /\ Len(plain) \in 1 .. d - c + 1
          /\ c + 1 - 1 = pos + 1 /\ c + Len(plain) - 1 = pos + Len(plain)
      <4>1. Len(whole) \in Nat
        BY <2>2, LenProperties
      <4> QED  BY <2>3, <2>4, <4>1
    <3>2. SubSeq(whole, c, d) = plain
      BY <2>4
    <3> HIDE DEF c, d
    <3>3. \A i \in 1 .. d - c + 1 : SubSeq(whole, c, d)[i] = whole[c + i - 1]
      BY <2>2, <3>1, PartOfText, ZenonT(30)
    <3>4. whole[c + 1 - 1] = plain[1] /\ whole[c + Len(plain) - 1] = plain[Len(plain)]
      BY <3>1, <3>2, <3>3
    <3> QED  BY <3>1, <3>4
  <2> DEFINE a == place[pos + 1]
             b == place[pos + Len(plain)]
  <2>6. /\ a \in 1 .. b /\ b \in 1 .. Len(text)
        /\ NormalizeWs(SubSeq(text, a, b)) = SubSeq(whole, pos + 1, pos + Len(plain))
    BY <2>3, <2>4, <2>5, PassageReads DEF whole
  <2>7. span[1] = a - 1 /\ span[2] = b
    BY <2>1
  <2> HIDE DEF a, b
  <2>8. span[1] \in 0 .. Len(text) /\ span[2] \in 0 .. Len(text) /\ span[1] <= span[2] /\ span[1] + 1 = a
    BY <1>1, <2>6, <2>7
  <2> QED  BY <2>4, <2>6, <2>7, <2>8 DEF span, plain
<1> QED  BY <1>2, <1>3

-----------------------------------------------------------------------------
(* All citations of a draft, in order: FlattenSeq is defined by recursion   *)
(* along the sequence.                                                     *)

\* Flat is what the recursion computes for the first n parts.
IsFlat(flat, seqs, n) ==
  flat = [i \in 1 .. n |-> IF i = 1 THEN seqs[i] ELSE flat[i - 1] \o seqs[i]]

LEMMA FlatExists ==
  ASSUME NEW S, NEW seqs \in Seq(Seq(S)), NEW n \in 1 .. Len(seqs)
  PROVE  \E flat : IsFlat(flat, seqs, n)
<1> DEFINE T == {m \in 1 .. Len(seqs) : ~\E flat : IsFlat(flat, seqs, m)}
<1> SUFFICES ASSUME T # {} PROVE FALSE
  OBVIOUS
<1>0. Len(seqs) \in Nat
  BY LenProperties
<1>1. PICK m \in T : m \in 1 .. Len(seqs) /\ (m # 1 => m - 1 \in 1 .. Len(seqs) /\ m - 1 \notin T)
  <2> HIDE DEF T
  <2>1. T \in SUBSET (1 .. Len(seqs))
    BY DEF T
  <2> QED  BY <1>0, <2>1, LeastCounterexample
<1>2. m # 1
  <2> DEFINE one == [i \in 1 .. 1 |-> seqs[i]]
  <2>1. \A i \in 1 .. 1 : seqs[i] = IF i = 1 THEN seqs[i] ELSE one[i - 1] \o seqs[i]
    OBVIOUS
  <2>2. one = [i \in 1 .. 1 |-> IF i = 1 THEN seqs[i] ELSE one[i - 1] \o seqs[i]]
    BY <2>1
  <2>3. IsFlat(one, seqs, 1)
    BY <2>2 DEF IsFlat
  <2> QED  BY <2>3
<1>3. m \in Nat /\ m - 1 \in 1 .. Len(seqs) /\ m - 1 \notin T
  BY <1>0, <1>1, <1>2
<1>4. PICK flat : IsFlat(flat, seqs, m - 1)
  BY <1>3
<1> DEFINE longer == [i \in 1 .. m |-> IF i < m THEN flat[i] ELSE flat[m - 1] \o seqs[m]]
<1>5. \A i \in 1 .. m : longer[i] = IF i = 1 THEN seqs[i] ELSE longer[i - 1] \o seqs[i]
  <2>1. \A i \in 1 .. m - 1 : flat[i] = IF i = 1 THEN seqs[i] ELSE flat[i - 1] \o seqs[i]
    BY <1>4 DEF IsFlat
  <2> QED  BY <1>2, <1>3, <2>1, SMTT(30)
<1>6. longer = [i \in 1 .. m |-> IF i = 1 THEN seqs[i] ELSE longer[i - 1] \o seqs[i]]
  BY <1>5
<1>7. IsFlat(longer, seqs, m)
  BY <1>6 DEF IsFlat
<1> QED  BY <1>1, <1>7

LEMMA ToSetOfConcat ==
  ASSUME NEW S, NEW a \in Seq(S), NEW b \in Seq(S)
  PROVE  ToSet(a \o b) = ToSet(a) \cup ToSet(b)
<1>1. Len(a) \in Nat /\ Len(b) \in Nat /\ DOMAIN a = 1 .. Len(a) /\ DOMAIN b = 1 .. Len(b)
  BY LenProperties
<1>2. DOMAIN (a \o b) = 1 .. Len(a) + Len(b)
  BY <1>1, ConcatProperties, LenProperties
<1>3. \A i \in 1 .. Len(a) + Len(b) :
        (a \o b)[i] = IF i <= Len(a) THEN a[i] ELSE b[i - Len(a)]
  BY ConcatProperties
<1> DEFINE c == a \o b
<1> HIDE DEF c
<1>4. ASSUME NEW x \in ToSet(c) PROVE x \in ToSet(a) \cup ToSet(b)
  <2>1. PICK i \in 1 .. Len(a) + Len(b) : c[i] = x
    BY <1>2 DEF ToSet, c
  <2>2. CASE i <= Len(a)
    BY <1>1, <1>3, <2>1, <2>2 DEF ToSet, c
  <2>3. CASE ~(i <= Len(a))
    <3>1. i - Len(a) \in 1 .. Len(b) /\ x = b[i - Len(a)]
      BY <1>1, <1>3, <2>1, <2>3 DEF c
    <3> QED  BY <1>1, <3>1 DEF ToSet
  <2> QED  BY <2>2, <2>3
<1>5. ASSUME NEW x \in ToSet(a) PROVE x \in ToSet(c)
  <2>1. PICK i \in 1 .. Len(a) : a[i] = x
    BY <1>1 DEF ToSet
  <2>2. i \in 1 .. Len(a) + Len(b) /\ c[i] = x
    BY <1>1, <1>3, <2>1 DEF c
  <2> QED  BY <1>2, <2>2 DEF ToSet, c
<1>6. ASSUME NEW x \in ToSet(b) PROVE x \in ToSet(c)
  <2>1. PICK i \in 1 .. Len(b) : b[i] = x
    BY <1>1 DEF ToSet
  <2>2. i + Len(a) \in 1 .. Len(a) + Len(b) /\ ~(i + Len(a) <= Len(a)) /\ (i + Len(a)) - Len(a) = i
    BY <1>1, <2>1
  <2>3. c[i + Len(a)] = x
    BY <1>3, <2>1, <2>2 DEF c
  <2> QED  BY <1>2, <2>2, <2>3 DEF ToSet, c
<1> QED  BY <1>4, <1>5, <1>6 DEF c

\* The elements are those of the parts.
LEMMA FlatHasAll ==
  ASSUME NEW S, NEW seqs \in Seq(Seq(S)), NEW n \in 1 .. Len(seqs),
         NEW flat, IsFlat(flat, seqs, Len(seqs))
  PROVE  flat[n] \in Seq(S) /\ ToSet(flat[n]) = UNION {ToSet(seqs[k]) : k \in 1 .. n}
<1> DEFINE T == {m \in 1 .. Len(seqs) :
                  ~(flat[m] \in Seq(S) /\ ToSet(flat[m]) = UNION {ToSet(seqs[k]) : k \in 1 .. m})}
<1> SUFFICES ASSUME T # {} PROVE FALSE
  OBVIOUS
<1>0. Len(seqs) \in Nat
  BY LenProperties
<1>1. PICK m \in T : m \in 1 .. Len(seqs) /\ (m # 1 => m - 1 \in 1 .. Len(seqs) /\ m - 1 \notin T)
  <2> HIDE DEF T
  <2>1. T \in SUBSET (1 .. Len(seqs))
    BY DEF T
  <2> QED  BY <1>0, <2>1, LeastCounterexample
<1>2. \A i \in 1 .. Len(seqs) : flat[i] = IF i = 1 THEN seqs[i] ELSE flat[i - 1] \o seqs[i]
  BY DEF IsFlat
<1>3. \A i \in 1 .. Len(seqs) : seqs[i] \in Seq(S)
  OBVIOUS
<1>4. m # 1
  <2>1. 1 \in 1 .. Len(seqs)
    BY <1>0, <1>1
  <2>2. flat[1] = seqs[1]
    BY <1>2, <2>1
  <2>3. {ToSet(seqs[k]) : k \in 1 .. 1} = {ToSet(seqs[1])}
    OBVIOUS
  <2> QED  BY <1>1, <1>3, <2>1, <2>2, <2>3
<1>5. m \in Nat /\ m \in 1 .. Len(seqs) /\ m - 1 \in 1 .. Len(seqs) /\ m - 1 \notin T
  BY <1>0, <1>1, <1>4
<1>6. /\ flat[m - 1] \in Seq(S) /\ seqs[m] \in Seq(S) /\ flat[m] = flat[m - 1] \o seqs[m]
      /\ ToSet(flat[m - 1]) = UNION {ToSet(seqs[k]) : k \in 1 .. m - 1}
  BY <1>2, <1>3, <1>4, <1>5
<1>7. flat[m] \in Seq(S)
  BY <1>6, ConcatProperties
<1>8. ToSet(flat[m]) = ToSet(flat[m - 1]) \cup ToSet(seqs[m])
  BY <1>6, ToSetOfConcat
<1>9. 1 .. m = (1 .. m - 1) \cup {m}
  BY <1>5
<1>10. UNION {ToSet(seqs[k]) : k \in 1 .. m} = ToSet(flat[m - 1]) \cup ToSet(seqs[m])
  BY <1>6, <1>9
<1> QED  BY <1>1, <1>7, <1>8, <1>10

LEMMA FlattenIsAll ==
  ASSUME NEW S, NEW seqs \in Seq(Seq(S))
  PROVE  /\ FlattenSeq(seqs) \in Seq(S)
         /\ ToSet(FlattenSeq(seqs)) = UNION {ToSet(seqs[k]) : k \in DOMAIN seqs}
<1>1. DOMAIN seqs = 1 .. Len(seqs) /\ Len(seqs) \in Nat
  BY LenProperties
<1>2. CASE Len(seqs) = 0
  <2>1. seqs = << >> /\ FlattenSeq(seqs) = seqs /\ DOMAIN seqs = {}
    BY <1>1, <1>2, EmptySeq DEF FlattenSeq
  <2>2. << >> \in Seq(S) /\ DOMAIN << >> = {}
    BY <2>1, EmptySeq
  <2> QED  BY <2>1, <2>2 DEF ToSet
<1>3. CASE Len(seqs) # 0
  <2> DEFINE flatten == CHOOSE flat : IsFlat(flat, seqs, Len(seqs))
  <2>1. Len(seqs) \in 1 .. Len(seqs)
    BY <1>1, <1>3
  <2>2. IsFlat(flatten, seqs, Len(seqs))
    BY <2>1, FlatExists
  <2>3. FlattenSeq(seqs) = flatten[Len(seqs)]
    BY <1>3 DEF FlattenSeq, IsFlat
  <2> HIDE DEF flatten
  <2>4. /\ flatten[Len(seqs)] \in Seq(S)
        /\ ToSet(flatten[Len(seqs)]) = UNION {ToSet(seqs[k]) : k \in 1 .. Len(seqs)}
    BY <2>1, <2>2, FlatHasAll
  <2> QED  BY <1>1, <2>3, <2>4
<1> QED  BY <1>2, <1>3

-----------------------------------------------------------------------------
(* The evidence pack, and the citations without duplicates.                *)

\* The places where something stands for the first time.
Firsts(hits) == {i \in DOMAIN hits : \A j \in 1 .. i - 1 : hits[j] # hits[i]}

LEMMA FirstsAreAll ==
  ASSUME NEW S, NEW hits \in Seq(S)
  PROVE  LET once == Those(hits, Firsts(hits))
         IN  /\ once \in Seq(S) /\ IsInjective(once)
             /\ Len(once) = Cardinality(ToSet(hits)) /\ ToSet(once) = ToSet(hits)
<1> DEFINE F == Firsts(hits)
           m == Cardinality(F)
           order == Increasing(F)
           once == Those(hits, F)
<1>1. Len(hits) \in Nat /\ DOMAIN hits = 1 .. Len(hits)
  BY LenProperties
<1>2. F \in SUBSET DOMAIN hits
  BY DEF Firsts
<1>3. /\ Ascends(order, m, F)
      /\ once = [k \in 1 .. m |-> hits[order[k]]]
      /\ once \in Seq(S) /\ Len(once) = m /\ DOMAIN once = 1 .. m
      /\ ToSet(once) = {hits[i] : i \in F}
  <2> HIDE DEF F
  <2> QED  BY <1>2, ThoseAre
<1> HIDE DEF m, order, once
<1>4. /\ m \in Nat
      /\ \A k \in 1 .. m : order[k] \in F
      /\ \A i, j \in 1 .. m : i < j => order[i] < order[j]
  BY <1>3 DEF Ascends
<1>5. ASSUME NEW i \in 1 .. m, NEW j \in 1 .. m, i < j PROVE once[i] # once[j]
  <2>1. order[i] \in DOMAIN hits /\ order[j] \in DOMAIN hits /\ order[i] < order[j]
    BY <1>2, <1>4, <1>5
  <2>2. order[i] \in 1 .. order[j] - 1
    BY <1>1, <2>1
  <2>3. hits[order[i]] # hits[order[j]]
    BY <1>4, <2>2 DEF Firsts
  <2> QED  BY <1>3, <2>3
<1>6. IsInjective(once)
  <2>1. ASSUME NEW i \in 1 .. m, NEW j \in 1 .. m, once[i] = once[j] PROVE i = j
    <3>1. i < j \/ j < i \/ i = j
      BY <1>4
    <3> QED  BY <1>5, <2>1, <3>1
  <2> QED  BY <1>3, <2>1 DEF IsInjective
<1>7. ASSUME NEW x \in ToSet(hits) PROVE \E i \in F : hits[i] = x
  <2> DEFINE T == {i \in 1 .. Len(hits) : hits[i] = x}
  <2>1. T # {} /\ T \in SUBSET Nat
    BY <1>1 DEF ToSet
  <2>2. PICK i \in T : \A j \in T : i <= j
    <3> HIDE DEF T
    <3> QED  BY <2>1, LeastNumber
  <2>3. ASSUME NEW j \in 1 .. i - 1 PROVE hits[j] # hits[i]
    <3>1. j \in 1 .. Len(hits) /\ ~(i <= j)
      BY <1>1, <2>2
    <3> QED  BY <2>2, <3>1
  <2> QED  BY <1>1, <2>2, <2>3 DEF Firsts
<1>8. ToSet(once) = ToSet(hits)
  <2>1. ToSet(hits) = {hits[i] : i \in DOMAIN hits}
    BY DEF ToSet
  <2> HIDE DEF F
  <2>2. ToSet(once) = {hits[i] : i \in F}
    BY <1>3
  <2>3. \A i \in F : hits[i] \in ToSet(hits)
    BY <1>2, <2>1
  <2>4. \A x \in ToSet(hits) : x \in {hits[i] : i \in F}
    BY <1>7
  <2> QED  BY <2>2, <2>3, <2>4
<1>9. m = Cardinality(ToSet(hits))
  <2> DEFINE T == ToSet(hits)
  <2>1. \A x \in T : \E k \in 1 .. m : once[k] = x
    <3>1. ToSet(once) = {once[k] : k \in 1 .. m}
      BY <1>3 DEF ToSet
    <3> QED  BY <1>8, <3>1
  <2>2. once \in [1 .. m -> T]
    <3>1. \A k \in 1 .. m : once[k] \in T
      BY <1>3, <1>8 DEF ToSet
    <3>2. once = [k \in 1 .. m |-> once[k]]
      <4> DEFINE g == [k \in 1 .. m |-> hits[order[k]]]
      <4>1. g = [k \in 1 .. m |-> g[k]]
        OBVIOUS
      <4> HIDE DEF g
      <4> QED  BY <1>3, <4>1 DEF g
    <3> HIDE DEF T
    <3> QED  BY <3>1, <3>2
  <2> HIDE DEF T
  <2>3. once \in Bijection(1 .. m, T)
    BY <1>6, <2>1, <2>2 DEF Bijection, Injection, Surjection
  <2>4. ExistsBijection(1 .. m, T)
    BY <2>3 DEF ExistsBijection
  <2> QED  BY <1>4, <2>4, FS_CountingElements DEF T
<1> QED  BY <1>3, <1>6, <1>8, <1>9 DEF once

LEMMA PackIsReal ==
  ASSUME NEW S, NEW asked, asked.hits \in Seq(S), asked.budget \in Int
  PROVE  LET pack == BuildEvidencePack(asked.hits, asked.budget)
         IN  ToSet(pack) \subseteq S /\ PackIsFair(asked, pack)
<1> DEFINE hits == asked.hits
           F == Firsts(hits)
           firsts == Increasing(F)
           m == Cardinality(ToSet(hits))
           n == Min({Len(firsts), Max({1, asked.budget})})
           once == Those(hits, F)
           pack == BuildEvidencePack(hits, asked.budget)
<1>1. /\ once \in Seq(S) /\ IsInjective(once)
      /\ Len(once) = m /\ ToSet(once) = ToSet(hits)
  BY FirstsAreAll
<1>2. m \in Nat /\ DOMAIN once = 1 .. m
  BY <1>1, LenProperties
<1>3. DOMAIN firsts = 1 .. m /\ Len(firsts) = m /\ \A k \in 1 .. m : once[k] = hits[firsts[k]]
  <2>1. DOMAIN once = DOMAIN firsts /\ \A k \in DOMAIN firsts : once[k] = hits[firsts[k]]
    BY DEF Those
  <2>2. F \in SUBSET (1 .. Len(hits)) /\ Len(hits) \in Nat
    BY LenProperties DEF Firsts
  <2>3. Ascends(firsts, Cardinality(F), F)
    BY <2>2, IncreasingAscends
  <2>4. firsts \in Seq(F)
    <3>1. Cardinality(F) \in Nat /\ firsts \in [1 .. Cardinality(F) -> F]
      BY <2>3 DEF Ascends
    <3> HIDE DEF firsts, F
    <3> QED  BY <3>1, SeqDef
  <2> HIDE DEF firsts
  <2>5. DOMAIN firsts = 1 .. Len(firsts) /\ Len(firsts) \in Nat
    BY <2>4, LenProperties
  <2> QED  BY <1>2, <2>1, <2>5
<1> HIDE DEF once, m
<1>4. pack = [k \in 1 .. n |-> hits[firsts[k]]]
  BY DEF BuildEvidencePack, Firsts
<1>5. n = Min({Max({1, asked.budget}), m}) /\ n \in 0 .. m
  <2> DEFINE b == Max({1, asked.budget})
  <2>1. b \in Int /\ b >= 1
    BY MaxOfTwo
  <2> HIDE DEF b, firsts
  <2>2. Min({m, b}) = (IF m <= b THEN m ELSE b) /\ Min({b, m}) = (IF b <= m THEN b ELSE m)
    BY <1>2, <2>1, MinOfTwo
  <2> QED  BY <1>2, <1>3, <2>1, <2>2 DEF b
<1> HIDE DEF n, firsts, pack
<1>6. \A k \in 1 .. n : k \in 1 .. m /\ pack[k] = once[k]
  BY <1>2, <1>3, <1>4, <1>5
<1>7. DOMAIN pack = 1 .. n
  BY <1>4
<1>8. \A k \in 1 .. n : pack[k] \in ToSet(once) /\ pack[k] \in S
  BY <1>1, <1>2, <1>6 DEF ToSet
<1>9. pack \in Seq(S) /\ Len(pack) = n
  <2>1. n \in Nat
    BY <1>5
  <2>2. pack \in [1 .. n -> S]
    <3>1. \A k \in 1 .. n : hits[firsts[k]] \in S
      BY <1>4, <1>8
    <3> QED  BY <1>4, <3>1
  <2>3. pack \in Seq(S)
    BY <2>1, <2>2, SeqDef
  <2> QED  BY <1>7, <2>1, <2>3, LenProperties
<1>10. IsInjective(pack)
  <2>1. ASSUME NEW i \in DOMAIN pack, NEW j \in DOMAIN pack, pack[i] = pack[j] PROVE i = j
    BY <1>1, <1>2, <1>6, <1>7, <2>1 DEF IsInjective
  <2> QED  BY <2>1 DEF IsInjective
<1>11. ToSet(pack) \subseteq ToSet(hits) /\ ToSet(pack) \subseteq S
  BY <1>1, <1>7, <1>8 DEF ToSet
<1> QED  BY <1>5, <1>9, <1>10, <1>11 DEF PackIsFair, pack, m

LEMMA DedupIsReal ==
  ASSUME NEW S, NEW citations \in Seq(S)
  PROVE  LET kept == DedupCitations(citations)
         IN  /\ kept \in Seq(S)
             /\ \A i \in DOMAIN kept : \E j \in DOMAIN citations : kept[i] = citations[j]
             /\ citations # << >> => kept # << >>
             /\ \A i, j \in DOMAIN kept :
                  i # j => kept[i].chunk # kept[j].chunk \/ kept[i].span # kept[j].span
<1> DEFINE Same(c, d) == c.chunk = d.chunk /\ c.span = d.span
           T == {i \in DOMAIN citations : \A j \in 1 .. i - 1 : ~Same(citations[j], citations[i])}
           m == Cardinality(T)
           order == Increasing(T)
           kept == DedupCitations(citations)
<1>1. Len(citations) \in Nat /\ DOMAIN citations = 1 .. Len(citations)
  BY LenProperties
<1>2. T \in SUBSET DOMAIN citations
  OBVIOUS
<1>3. kept = Those(citations, T)
  BY DEF DedupCitations
<1> HIDE DEF kept
<1>4. /\ Ascends(order, m, T)
      /\ kept = [k \in 1 .. m |-> citations[order[k]]]
      /\ kept \in Seq(S) /\ DOMAIN kept = 1 .. m
  <2> HIDE DEF T
  <2> QED  BY <1>2, <1>3, ThoseAre
<1> HIDE DEF m, order
<1>5. /\ m \in Nat
      /\ \A k \in 1 .. m : order[k] \in T
      /\ \A x \in T : \E k \in 1 .. m : order[k] = x
      /\ \A i, j \in 1 .. m : i < j => order[i] < order[j]
  BY <1>4 DEF Ascends
<1>6. ASSUME NEW i \in 1 .. m PROVE \E j \in DOMAIN citations : kept[i] = citations[j]
  BY <1>2, <1>4, <1>5
<1>7. ASSUME citations # << >> PROVE kept # << >>
  <2>1. 1 \in DOMAIN citations /\ 1 .. 1 - 1 = {}
    BY <1>1, <1>7, EmptySeq
  <2>2. 1 \in T
    BY <2>1
  <2>3. PICK k \in 1 .. m : order[k] = 1
    BY <1>5, <2>2
  <2>4. DOMAIN << >> = {}
    OBVIOUS
  <2> QED  BY <1>4, <2>3, <2>4
<1>8. ASSUME NEW i \in 1 .. m, NEW j \in 1 .. m, i < j PROVE ~Same(kept[i], kept[j])
  <2>1. order[i] \in DOMAIN citations /\ order[j] \in DOMAIN citations /\ order[i] < order[j]
    BY <1>2, <1>5, <1>8
  <2>2. order[i] \in 1 .. order[j] - 1
    BY <1>1, <2>1
  <2>3. ~Same(citations[order[i]], citations[order[j]])
    BY <1>5, <2>2
  <2> QED  BY <1>4, <2>3
<1>9. ASSUME NEW i \in 1 .. m, NEW j \in 1 .. m, i # j
      PROVE  kept[i].chunk # kept[j].chunk \/ kept[i].span # kept[j].span
  <2>1. i < j \/ j < i
    BY <1>5, <1>9
  <2> QED  BY <1>8, <2>1
<1> QED  BY <1>4, <1>6, <1>7, <1>9 DEF kept

-----------------------------------------------------------------------------
(* A citation of a draft, and the citation that is kept of it.             *)

\* A model may name any chunk, quote anything and give any offset, or none.
Cited(Ids, Chars) == [chunk : Ids, quote : Seq(Chars), start : Int \cup {None}]

Verbatim(kept, texts) == PySlice(texts[kept.chunk], kept.span[1], kept.span[2]) = kept.quote

\* What stands in a text at a span, counted from its beginning.
StandsIn(text, span, quote) ==
  /\ 0 <= span[1] /\ span[1] <= span[2] /\ span[2] <= Len(text)
  /\ SubSeq(text, span[1] + 1, span[2]) = quote

\* The text says the quote as the model wrote it, white space included.
Contained(text, quote) == \E i \in 0 .. Len(text) - Len(quote) : IsAt(text, quote, i)

\* An offset the model gave is kept, one it did not give is found: exactly, at the
\* first place, if the quote is in the text as written, or else up to white space.
KeptOf(asked, kept, texts) ==
  /\ kept.chunk = asked.chunk
  /\ Verbatim(kept, texts)
  /\ asked.quote # << >>
  /\ Reading(kept.quote) = Reading(asked.quote)
  /\ asked.start # None =>
       kept.quote = asked.quote /\ kept.span = <<asked.start, asked.start + Len(asked.quote)>>
  /\ asked.start = None =>
       /\ StandsIn(texts[asked.chunk], kept.span, kept.quote)
       /\ Contained(texts[asked.chunk], asked.quote) => kept.quote = asked.quote

LEMMA CitationIsKept ==
  ASSUME NEW Ids, NEW Chars, NEW Chunks, NEW texts \in [Chunks -> Seq(Chars)],
         NEW pack, ToSet(pack) \subseteq Chunks,
         NEW asked \in Cited(Ids, Chars), CitationFault(asked, pack, texts) = "none"
  PROVE  asked.chunk \in ToSet(pack) /\ KeptOf(asked, Resolved(asked, texts), texts)
<1> DEFINE text == texts[asked.chunk]
           kept == Resolved(asked, texts)
           span == IF asked.start # None THEN <<asked.start, asked.start + Len(asked.quote)>>
                   ELSE LocateQuote(text, asked.quote)
<1>1. asked.quote \in Seq(Chars) /\ asked.start \in Int \cup {None}
  BY DEF Cited
<1>2. asked.quote # << >> /\ asked.chunk \in ToSet(pack)
  BY DEF CitationFault
<1>3. text \in Seq(Chars) /\ Len(text) \in Nat /\ Len(asked.quote) \in Nat
  BY <1>1, <1>2, LenProperties
<1>4. /\ kept.chunk = asked.chunk /\ kept.span = span
      /\ kept.quote = IF asked.start # None THEN asked.quote ELSE PySlice(text, span[1], span[2])
  BY DEF Resolved
<1> HIDE DEF kept
<1>5. CASE asked.start # None
  <2>1. PySlice(text, asked.start, asked.start + Len(asked.quote)) = asked.quote
    BY <1>2, <1>5 DEF CitationFault
  <2>2. span = <<asked.start, asked.start + Len(asked.quote)>> /\ kept.quote = asked.quote
    BY <1>4, <1>5
  <2>3. Verbatim(kept, texts)
    BY <1>4, <2>1, <2>2 DEF Verbatim
  <2>4. Reading(kept.quote) = Reading(asked.quote)
    BY <2>2
  <2> QED  BY <1>2, <1>4, <1>5, <2>2, <2>3, <2>4 DEF KeptOf, kept
<1>6. CASE asked.start = None
  <2>1. span = LocateQuote(text, asked.quote) /\ kept.quote = PySlice(text, span[1], span[2])
    BY <1>4, <1>6
  <2> DEFINE at == Find(text, asked.quote)
  <2>2. LocateQuote(text, asked.quote) # None
    BY <1>2, <1>6 DEF CitationFault
  <2>3. /\ span[1] \in 0 .. Len(text) /\ span[2] \in 0 .. Len(text) /\ span[1] <= span[2]
        /\ NormalizeWs(SubSeq(text, span[1] + 1, span[2])) = NormalizeWs(asked.quote)
    <3> DEFINE found == LocateQuote(text, asked.quote)
    <3>1. /\ found[1] \in 0 .. Len(text) /\ found[2] \in 0 .. Len(text) /\ found[1] <= found[2]
          /\ NormalizeWs(SubSeq(text, found[1] + 1, found[2])) = NormalizeWs(asked.quote)
      BY <1>1, <1>3, <2>2, LocatedReads
    <3> HIDE DEF found, span
    <3> QED  BY <2>1, <3>1 DEF found
  <2> HIDE DEF span
  <2>4. PySlice(text, span[1], span[2]) = SubSeq(text, span[1] + 1, span[2])
    BY <1>3, <2>3, SliceWithin
  <2>5. StandsIn(text, kept.span, kept.quote) /\ Reading(kept.quote) = Reading(asked.quote)
    <3>1. kept.quote = SubSeq(text, span[1] + 1, span[2]) /\ kept.span = span
      BY <1>4, <2>1, <2>4
    <3>2. 0 <= span[1] /\ span[1] <= span[2] /\ span[2] <= Len(text)
      BY <1>3, <2>3
    <3>3. Reading(kept.quote) = Reading(asked.quote)
      BY <2>3, <3>1 DEF Reading
    <3> QED  BY <3>1, <3>2, <3>3 DEF StandsIn
  <2>6. ASSUME Contained(text, asked.quote) PROVE kept.quote = asked.quote
    <3>1. at \in 0 .. Len(text) - Len(asked.quote) /\ IsAt(text, asked.quote, at)
      BY <1>1, <1>3, <2>6, FindIsFirst DEF Contained
    <3>2. at # -1
      BY <1>3, <3>1
    <3>3. span = <<at, at + Len(asked.quote)>>
      BY <2>1, <3>2 DEF LocateQuote
    <3> HIDE DEF at
    <3>4. span[1] = at /\ span[2] = at + Len(asked.quote)
      BY <3>3
    <3> QED  BY <2>1, <2>4, <3>1, <3>4 DEF IsAt
  <2>7. Verbatim(kept, texts)
    BY <1>4, <2>1 DEF Verbatim
  <2> QED  BY <1>2, <1>4, <1>6, <2>5, <2>6, <2>7 DEF KeptOf, kept
<1> QED  BY <1>5, <1>6

-----------------------------------------------------------------------------
(* Drafts.                                                                 *)

\* validate_draft (rag/grounded_answer.py): whatever a model drafts, an accepted
\* draft has a claim and none without a citation, the model has not called its
\* evidence insufficient, every citation it gives is kept, and every one that is
\* kept is of a chunk of the evidence pack, whose text says at the span that is
\* reported what is reported as its quote.
THEOREM AcceptedIsQuoted ==
  ASSUME NEW Ids, NEW Chars, NEW Chunks, NEW texts \in [Chunks -> Seq(Chars)],
         NEW pack, ToSet(pack) \subseteq Chunks,
         NEW draft \in [claims : Seq(Seq(Cited(Ids, Chars))), flagged : BOOLEAN],
         ValidateDraft(draft, pack, texts).ok
  PROVE  LET kept == ValidateDraft(draft, pack, texts).citations
             claims == draft.claims
         IN  /\ kept \in Seq({Resolved(x, texts) : x \in Cited(Ids, Chars)})
             /\ claims # << >> /\ ~draft.flagged
             /\ \A k \in DOMAIN claims : claims[k] # << >>
             /\ \A k \in DOMAIN claims : \A j \in DOMAIN claims[k] :
                  \E i \in DOMAIN kept : KeptOf(claims[k][j], kept[i], texts)
             /\ \A i \in DOMAIN kept :
                  /\ kept[i].chunk \in ToSet(pack)
                  /\ \E k \in DOMAIN claims : \E j \in DOMAIN claims[k] :
                       KeptOf(claims[k][j], kept[i], texts)
<1> DEFINE S == Cited(Ids, Chars)
           claims == draft.claims
           cited == FlattenSeq(claims)
           kept == [i \in DOMAIN cited |-> Resolved(cited[i], texts)]
           Bad(claim) == {i \in DOMAIN claim : CitationFault(claim[i], pack, texts) # "none"}
           FaultOf(claim) ==
             IF claim = << >> THEN "uncited_claim"
             ELSE IF Bad(claim) = {} THEN "none" ELSE CitationFault(claim[Min(Bad(claim))], pack, texts)
           faulty == {i \in DOMAIN claims : FaultOf(claims[i]) # "none"}
<1>1. claims \in Seq(Seq(S))
  OBVIOUS
<1>2. ValidateDraft(draft, pack, texts) =
        IF claims = << >> THEN Rejected("no_claims")
        ELSE IF faulty # {} THEN Rejected(FaultOf(claims[Min(faulty)]))
        ELSE [ok |-> ~draft.flagged,
              reason |-> IF draft.flagged THEN "model_flagged_insufficient" ELSE "none",
              citations |-> kept]
  BY DEF ValidateDraft
<1>3. \A reason : ~Rejected(reason).ok
  BY DEF Rejected
<1> HIDE DEF kept, faulty
<1>4. claims # << >> /\ faulty = {}
  BY <1>2, <1>3
<1>5. ~draft.flagged /\ ValidateDraft(draft, pack, texts).citations = kept
  <2> DEFINE verdict == ValidateDraft(draft, pack, texts)
  <2>1. verdict = [ok |-> ~draft.flagged,
                   reason |-> IF draft.flagged THEN "model_flagged_insufficient" ELSE "none",
                   citations |-> kept]
    BY <1>2, <1>4
  <2>2. verdict.ok
    OBVIOUS
  <2> HIDE DEF verdict
  <2>3. verdict.ok = ~draft.flagged /\ verdict.citations = kept
    BY <2>1
  <2> QED  BY <2>2, <2>3, Zenon DEF verdict
<1>6. ASSUME NEW k \in DOMAIN claims PROVE claims[k] # << >> /\ Bad(claims[k]) = {}
  <2>1. FaultOf(claims[k]) = "none"
    BY <1>4 DEF faulty
  <2>2. claims[k] # << >>
    BY <2>1
  <2>3. ASSUME Bad(claims[k]) # {} PROVE FALSE
    <3>1. claims[k] \in Seq(S)
      BY <1>1
    <3>2. Bad(claims[k]) \in SUBSET Nat
      BY <3>1, LenProperties
    <3>3. Min(Bad(claims[k])) \in Bad(claims[k])
      BY <2>3, <3>2, MinOfNumbers
    <3>4. FaultOf(claims[k]) = CitationFault(claims[k][Min(Bad(claims[k]))], pack, texts)
      BY <2>2, <2>3
    <3> QED  BY <2>1, <3>3, <3>4
  <2> QED  BY <2>2, <2>3
<1>7. ASSUME NEW k \in DOMAIN claims, NEW j \in DOMAIN claims[k]
      PROVE  /\ claims[k][j].chunk \in ToSet(pack)
             /\ KeptOf(claims[k][j], Resolved(claims[k][j], texts), texts)
  <2>1. claims[k][j] \in S
    <3>1. claims[k] \in Seq(S)
      BY <1>1
    <3> QED  BY <3>1, LenProperties
  <2>2. CitationFault(claims[k][j], pack, texts) = "none"
    BY <1>6
  <2> HIDE DEF claims
  <2> QED  BY <2>1, <2>2, CitationIsKept
<1>8. ToSet(cited) = UNION {ToSet(claims[k]) : k \in DOMAIN claims}
  BY <1>1, FlattenIsAll
<1>9. DOMAIN kept = DOMAIN cited /\ \A i \in DOMAIN cited : kept[i] = Resolved(cited[i], texts)
  BY DEF kept
<1>12. kept \in Seq({Resolved(x, texts) : x \in S})
  <2> DEFINE R == {Resolved(x, texts) : x \in S}
  <2>1. cited \in Seq(S)
    BY <1>1, FlattenIsAll
  <2> HIDE DEF cited, claims
  <2>2. Len(cited) \in Nat /\ DOMAIN cited = 1 .. Len(cited) /\ \A i \in DOMAIN cited : cited[i] \in S
    BY <2>1, LenProperties
  <2>3. \A i \in 1 .. Len(cited) : Resolved(cited[i], texts) \in R
    BY <2>2
  <2>4. kept = [i \in 1 .. Len(cited) |-> Resolved(cited[i], texts)]
    BY <2>2 DEF kept
  <2> HIDE DEF R, S
  <2>5. kept \in [1 .. Len(cited) -> R]
    BY <2>3, <2>4
  <2>6. kept \in Seq(R)
    BY <2>2, <2>5, SeqDef
  <2> QED  BY <2>6 DEF R
<1> HIDE DEF cited, claims
<1>10. ASSUME NEW k \in DOMAIN claims, NEW j \in DOMAIN claims[k]
       PROVE  \E i \in DOMAIN kept : KeptOf(claims[k][j], kept[i], texts)
  <2> DEFINE own == ToSet(claims[k])
  <2>1. claims[k][j] \in own
    BY DEF ToSet
  <2> HIDE DEF own
  <2>2. claims[k][j] \in ToSet(cited)
    BY <1>8, <2>1 DEF own
  <2>3. PICK i \in DOMAIN cited : cited[i] = claims[k][j]
    BY <2>2 DEF ToSet
  <2> QED  BY <1>7, <1>9, <2>3
<1>11. ASSUME NEW i \in DOMAIN kept
       PROVE  /\ kept[i].chunk \in ToSet(pack)
              /\ \E k \in DOMAIN claims : \E j \in DOMAIN claims[k] : KeptOf(claims[k][j], kept[i], texts)
  <2>1. cited[i] \in ToSet(cited) /\ kept[i] = Resolved(cited[i], texts)
    BY <1>9 DEF ToSet
  <2>2. PICK k \in DOMAIN claims : cited[i] \in ToSet(claims[k])
    BY <1>8, <2>1
  <2>3. PICK j \in DOMAIN claims[k] : claims[k][j] = cited[i]
    BY <2>2 DEF ToSet
  <2>4. /\ claims[k][j].chunk \in ToSet(pack)
        /\ KeptOf(claims[k][j], kept[i], texts)
    BY <1>7, <2>1, <2>3
  <2>5. kept[i].chunk = claims[k][j].chunk
    BY <2>4 DEF KeptOf
  <2> QED  BY <2>4, <2>5
<1> QED  BY <1>4, <1>5, <1>6, <1>10, <1>11, <1>12 DEF claims

\* An attempt of GroundedAnswerEngine.answer (rag/grounded_answer.py), whatever the search
\* found, the budget and the draft: the evidence pack has as many different chunks of the hits as the
\* budget allows, and at least one if there is one; an accepted answer has a claim and a
\* citation for every claim; each citation that is returned is one of the draft, of a chunk
\* of the pack, whose text holds its quote at its span, reads as the model wrote it and
\* stands at offsets of the text unless the model gave its own; and none is returned twice.
THEOREM AnswersAreReal ==
  ASSUME NEW Ids, NEW Chars, NEW Chunks, NEW asked,
         asked.texts \in [Chunks -> Seq(Chars)], asked.hits \in Seq(Chunks), asked.budget \in Int,
         asked.draft \in [claims : Seq(Seq(Cited(Ids, Chars))), flagged : BOOLEAN]
  PROVE  AnswerIsReal(asked, Attempt(asked))
<1> DEFINE pack == BuildEvidencePack(asked.hits, asked.budget)
           texts == asked.texts
           draft == asked.draft
           claims == draft.claims
           verdict == ValidateDraft(draft, pack, texts)
           kept == verdict.citations
           answer == Attempt(asked)
<1>1. /\ answer.pack = pack /\ answer.ok = verdict.ok
      /\ answer.citations = IF verdict.ok THEN DedupCitations(kept) ELSE << >>
  BY DEF Attempt
<1>2. ToSet(pack) \subseteq Chunks /\ PackIsFair(asked, pack)
  BY PackIsReal
<1> HIDE DEF pack, answer
<1>3. CASE ~verdict.ok
  <2>1. answer.citations = << >> /\ ~answer.ok /\ DOMAIN << >> = {}
    BY <1>1, <1>3
  <2> QED  BY <1>1, <1>2, <2>1 DEF AnswerIsReal, answer
<1>4. CASE verdict.ok
  <2>1. /\ kept \in Seq({Resolved(x, texts) : x \in Cited(Ids, Chars)})
        /\ claims # << >> /\ ~draft.flagged
        /\ \A k \in DOMAIN claims : claims[k] # << >>
        /\ \A k \in DOMAIN claims : \A j \in DOMAIN claims[k] :
             \E i \in DOMAIN kept : KeptOf(claims[k][j], kept[i], texts)
        /\ \A i \in DOMAIN kept :
             /\ kept[i].chunk \in ToSet(pack)
             /\ \E k \in DOMAIN claims : \E j \in DOMAIN claims[k] : KeptOf(claims[k][j], kept[i], texts)
    <3>1. texts \in [Chunks -> Seq(Chars)] /\ ToSet(pack) \subseteq Chunks
          /\ draft \in [claims : Seq(Seq(Cited(Ids, Chars))), flagged : BOOLEAN]
      BY <1>2
    <3> HIDE DEF draft, texts
    <3>2. ValidateDraft(draft, pack, texts).ok
      BY <1>4, Zenon
    <3> QED  BY <3>1, <3>2, AcceptedIsQuoted
  <2>2. kept # << >>
    <3>1. claims \in Seq(Seq(Cited(Ids, Chars)))
      OBVIOUS
    <3>2. PICK k \in DOMAIN claims : TRUE
      <4>1. Len(claims) \in Nat /\ Len(claims) # 0 /\ DOMAIN claims = 1 .. Len(claims)
        BY <2>1, <3>1, LenProperties, EmptySeq
      <4>2. 1 \in 1 .. Len(claims)
        BY <4>1
      <4> QED  BY <4>1, <4>2
    <3>3. claims[k] \in Seq(Cited(Ids, Chars)) /\ claims[k] # << >>
      BY <2>1, <3>1, <3>2, LenProperties
    <3>4. PICK j \in DOMAIN claims[k] : TRUE
      <4> DEFINE claim == claims[k]
      <4> HIDE DEF claim
      <4>1. claim \in Seq(Cited(Ids, Chars)) /\ claim # << >>
        BY <3>3 DEF claim
      <4>2. Len(claim) \in Nat /\ Len(claim) # 0 /\ DOMAIN claim = 1 .. Len(claim)
        BY <4>1, LenProperties, EmptySeq
      <4>3. 1 \in DOMAIN claim
        BY <4>2
      <4> QED  BY <4>3 DEF claim
    <3>5. \E i \in DOMAIN kept : TRUE
      BY <2>1, <3>2, <3>4
    <3>6. DOMAIN << >> = {}
      OBVIOUS
    <3> HIDE DEF kept
    <3> QED  BY <3>5, <3>6
  <2>3. ASSUME NEW i \in DOMAIN kept PROVE CitationIsReal(asked, pack, kept[i])
    <3>1. PICK k \in DOMAIN claims : \E j \in DOMAIN claims[k] : KeptOf(claims[k][j], kept[i], texts)
      BY <2>1
    <3>2. PICK j \in DOMAIN claims[k] : KeptOf(claims[k][j], kept[i], texts)
      BY <3>1
    <3>3. kept[i].chunk \in ToSet(pack) /\ claims[k][j] \in ToSet(claims[k])
      BY <2>1 DEF ToSet
    <3> DEFINE c == kept[i]
               q == claims[k][j]
    <3> HIDE DEF c, q
    <3>4. KeptOf(q, c, texts) /\ c.chunk \in ToSet(pack) /\ q \in ToSet(claims[k])
      BY <3>2, <3>3 DEF c, q
    <3> HIDE DEF verdict
    <3>5. CitationIsReal(asked, pack, c)
      BY <3>4 DEF KeptOf, Verbatim, StandsIn, Slice, CitationIsReal
    <3> QED  BY <3>5 DEF c
  <2> HIDE DEF kept
  <2> DEFINE once == DedupCitations(kept)
  <2>4. /\ \A i \in DOMAIN once : \E j \in DOMAIN kept : once[i] = kept[j]
        /\ once # << >>
        /\ \A i, j \in DOMAIN once : i # j => once[i].chunk # once[j].chunk \/ once[i].span # once[j].span
    <3> DEFINE R == {Resolved(x, texts) : x \in Cited(Ids, Chars)}
    <3>1. kept \in Seq(R)
      BY <2>1
    <3> HIDE DEF R
    <3> QED  BY <2>2, <3>1, DedupIsReal
  <2>5. answer.citations = once
    BY <1>1, <1>4
  <2> HIDE DEF once, verdict
  <2>6. \A i \in DOMAIN once : CitationIsReal(asked, pack, once[i])
    BY <2>3, <2>4
  <2> QED  BY <1>1, <1>2, <2>1, <2>4, <2>5, <2>6 DEF AnswerIsReal, answer
<1> QED  BY <1>3, <1>4

-----------------------------------------------------------------------------
(* Extractions.                                                            *)

\* A chunk has a span in the body that is as long as its text, or longer.
HasRoom(state, home) ==
  state.sourceStart # None =>
    /\ home.end \in Nat /\ home.end <= Len(home.body)
    /\ state.sourceStart + Len(state.text) <= home.end

\* locate_span (graph/extract.py): the span of an entity, a relation or a fact that
\* a model found in a chunk is not empty, lies in the chunk, holds the evidence
\* character by character, and is the first such place; the place that _source_offsets gives it
\* in the body is in the chunk's span there, and holds the evidence too when the chunk's text
\* stands in the body.
THEOREM LocatedIsThere ==
  ASSUME NEW Chars, NEW state, NEW home, state.text \in Seq(Chars), home.body \in Seq(Chars),
         state.sourceStart \in Nat \cup {None}, HasRoom(state, home),
         NEW evidence \in Seq(Chars), LocateSpan(state.text, evidence) # None
  PROVE  LET text == state.text
             span == LocateSpan(text, evidence)
             source == SourceOffsets(state, span)
         IN  /\ span[1] < span[2] /\ StandsIn(text, span, evidence)
             /\ \A i \in 0 .. span[1] - 1 : ~IsAt(text, evidence, i)
             /\ state.sourceStart # None =>
                  /\ state.sourceStart <= source[1] /\ source[2] <= home.end
                  /\ StandsInBody(state, home) => Slice(home.body, source) = evidence
<1> DEFINE text == state.text
           at == Find(text, evidence)
           span == LocateSpan(text, evidence)
           l == Len(evidence)
           n == Len(text)
<1>1. n \in Nat /\ l \in Nat
  BY LenProperties
<1>2. evidence # << >> /\ ~(at < 0) /\ span = <<at, at + l>>
  BY DEF LocateSpan
<1>3. l > 0
  BY <1>1, <1>2, EmptySeq
<1>4. /\ at \in 0 .. n - l /\ IsAt(text, evidence, at)
      /\ \A i \in 0 .. at - 1 : ~IsAt(text, evidence, i)
  BY <1>2, FindIsFirst
<1> HIDE DEF at, span
<1>5. span[1] = at /\ span[2] = at + l /\ at \in Nat /\ at + l <= n
  BY <1>1, <1>2, <1>4
<1>6. span[1] < span[2] /\ StandsIn(text, span, evidence)
  BY <1>1, <1>3, <1>4, <1>5 DEF StandsIn, IsAt
<1>7. ASSUME state.sourceStart # None
      PROVE  LET source == SourceOffsets(state, span)
             IN  /\ state.sourceStart <= source[1] /\ source[2] <= home.end
                 /\ StandsInBody(state, home) => Slice(home.body, source) = evidence
  <2> DEFINE body == home.body
             s == state.sourceStart
  <2>1. s \in Nat /\ home.end \in Nat /\ s + n <= home.end /\ home.end <= Len(body) /\ Len(body) \in Nat
    BY <1>7, LenProperties DEF HasRoom
  <2> HIDE DEF n, l
  <2>2. SourceOffsets(state, span) = <<s + at, s + (at + l)>>
    BY <1>5, <1>7 DEF SourceOffsets
  <2>3. s <= s + at /\ s + (at + l) <= home.end
    BY <1>1, <1>5, <2>1
  <2>4. ASSUME StandsInBody(state, home) PROVE Slice(body, <<s + at, s + (at + l)>>) = evidence
    <3> DEFINE a == s + 1
               b == s + n
               f == at + 1
               g == at + l
    <3>1. text = SubSeq(body, a, b)
      BY <2>4 DEF StandsInBody, Slice, n
    <3>2. evidence = SubSeq(text, f, g)
      BY <1>4 DEF IsAt, l
    <3>3. /\ a \in Int /\ b \in Int /\ 1 <= a /\ a <= b + 1 /\ b <= Len(body)
          /\ f \in Int /\ g \in Int /\ 1 <= f /\ f <= g + 1 /\ g <= b - a + 1
      <4>1. s \in Int /\ Len(body) \in Int /\ n \in Nat /\ l \in Nat /\ at \in Nat /\ at + l <= n
            /\ s + n <= Len(body) /\ 0 <= s
        BY <1>1, <1>5, <2>1
      <4> HIDE DEF s, body
      <4> QED  BY <4>1
    <3>4. a + f - 1 = s + at + 1 /\ a + g - 1 = s + (at + l)
      BY <1>1, <1>5, <2>1
    <3>5. Slice(body, <<s + at, s + (at + l)>>) = SubSeq(body, s + at + 1, s + (at + l))
      BY DEF Slice
    <3> HIDE DEF a, b, f, g, body, text
    <3>6. SubSeq(SubSeq(body, a, b), f, g) = SubSeq(body, a + f - 1, a + g - 1)
      BY <3>3, PartOfPart DEF body
    <3> QED  BY <3>1, <3>2, <3>4, <3>5, <3>6
  <2> QED  BY <2>2, <2>3, <2>4
<1> QED  BY <1>4, <1>5, <1>6, <1>7 DEF span

LEMMA SomeOfThose ==
  ASSUME NEW S, NEW s \in Seq(S), NEW T \in SUBSET DOMAIN s
  PROVE  Those(s, T) \in Seq(S) /\ \A i \in DOMAIN Those(s, T) : \E j \in T : Those(s, T)[i] = s[j]
<1> DEFINE order == Increasing(T)
           m == Cardinality(T)
           r == Those(s, T)
<1>1. /\ Ascends(order, m, T)
      /\ r = [k \in 1 .. m |-> s[order[k]]]
      /\ r \in Seq(S) /\ DOMAIN r = 1 .. m
  BY ThoseAre
<1> HIDE DEF order, m, r
<1>2. \A k \in 1 .. m : order[k] \in T
  BY <1>1 DEF Ascends
<1> QED  BY <1>1, <1>2 DEF r

\* The items whose evidence is in the text.
Located(items, text) ==
  Those(items, {i \in DOMAIN items : LocateSpan(text, items[i].evidence) # None})

AllLocated(found, items, T, text) ==
  \A i \in DOMAIN found : \E j \in T : found[i] = items[j] /\ LocateSpan(text, items[j].evidence) # None

LEMMA LocatedItems ==
  ASSUME NEW S, NEW items \in Seq(S), NEW T \in SUBSET DOMAIN items, NEW text
  PROVE  /\ Located(Those(items, T), text) \in Seq(S)
         /\ AllLocated(Located(Those(items, T), text), items, T, text)
<1> DEFINE some == Those(items, T)
           U == {i \in DOMAIN some : LocateSpan(text, some[i].evidence) # None}
           found == Those(some, U)
<1>1. some \in Seq(S) /\ \A i \in DOMAIN some : \E j \in T : some[i] = items[j]
  BY SomeOfThose
<1> HIDE DEF some
<1>2. U \in SUBSET DOMAIN some
  OBVIOUS
<1>3. \A i \in U : i \in DOMAIN some /\ LocateSpan(text, some[i].evidence) # None
  OBVIOUS
<1>4. Located(some, text) = found
  BY DEF Located
<1> HIDE DEF U
<1>5. found \in Seq(S) /\ \A i \in DOMAIN found : \E j \in U : found[i] = some[j]
  BY <1>1, <1>2, SomeOfThose
<1> HIDE DEF found
<1>6. ASSUME NEW i \in DOMAIN found
      PROVE  \E j \in T : found[i] = items[j] /\ LocateSpan(text, items[j].evidence) # None
  <2>1. PICK k \in U : found[i] = some[k]
    BY <1>5
  <2>2. PICK j \in T : some[k] = items[j]
    BY <1>1, <1>3
  <2> QED  BY <1>3, <2>1, <2>2
<1> QED  BY <1>4, <1>5, <1>6 DEF some, AllLocated

LEMMA PlacedInText ==
  ASSUME NEW Chars, NEW state, NEW home, state.text \in Seq(Chars), home.body \in Seq(Chars),
         state.sourceStart \in Nat \cup {None}, HasRoom(state, home),
         NEW evidence \in Seq(Chars), LocateSpan(state.text, evidence) # None
  PROVE  LET span == LocateSpan(state.text, evidence)
         IN  /\ evidence = Slice(state.text, span)
             /\ \A x : x.span = span /\ x.source = SourceOffsets(state, span) => IsPlaced(x, state, home)
<1> DEFINE text == state.text
           span == LocateSpan(text, evidence)
           source == SourceOffsets(state, span)
<1>1. /\ span[1] < span[2] /\ StandsIn(text, span, evidence)
      /\ state.sourceStart # None =>
           /\ state.sourceStart <= source[1] /\ source[2] <= home.end
           /\ StandsInBody(state, home) => Slice(home.body, source) = evidence
  BY LocatedIsThere
<1>2. span[1] \in Int /\ span[2] \in Int
  <2> DEFINE at == Find(text, evidence)
  <2>1. span = <<at, at + Len(evidence)>>
    BY DEF LocateSpan
  <2>2. at \in Int /\ Len(evidence) \in Int
    <3>1. Len(text) \in Nat /\ Len(evidence) \in Nat
      BY LenProperties
    <3>2. at = -1 \/ at \in 0 .. Len(text) - Len(evidence)
      BY FindIsFirst
    <3> HIDE DEF at
    <3> QED  BY <3>1, <3>2
  <2> HIDE DEF at, span
  <2> QED  BY <2>1, <2>2
<1>3. source = IF state.sourceStart = None THEN None
               ELSE <<state.sourceStart + span[1], state.sourceStart + span[2]>>
  BY DEF SourceOffsets
<1> HIDE DEF span, source
<1>4. (source = None) = (state.sourceStart = None)
  <2>1. CASE state.sourceStart = None
    BY <1>3, <2>1
  <2>2. CASE state.sourceStart # None
    <3>1. source \in Int \X Int
      BY <1>2, <1>3, <2>2
    <3> QED  BY <2>2, <3>1, QuotesAssumption
  <2> QED  BY <2>1, <2>2
<1>5. evidence = Slice(text, span) /\ 0 <= span[1] /\ span[2] <= Len(text)
  BY <1>1 DEF StandsIn, Slice
<1>6. ASSUME NEW x, x.span = span, x.source = source PROVE IsPlaced(x, state, home)
  <2> HIDE DEF text
  <2> QED  BY <1>1, <1>4, <1>5, <1>6 DEF IsPlaced, text
<1> QED  BY <1>5, <1>6 DEF span, source

LEMMA StrippedIsText ==
  ASSUME NEW Chars, NEW text \in Seq(Chars)
  PROVE  Stripped(text) \in Seq(Chars)
<1> DEFINE inner == {i \in DOMAIN text : text[i] \notin Space}
<1>1. Len(text) \in Nat /\ DOMAIN text = 1 .. Len(text)
  BY LenProperties
<1>2. CASE inner = {}
  BY <1>2 DEF Stripped
<1>3. CASE inner # {}
  <2> DEFINE f == Min(inner)
             l == Max(inner)
  <2>1. Stripped(text) = SubSeq(text, f, l)
    BY <1>3 DEF Stripped
  <2>2. inner \in SUBSET Nat /\ inner \in SUBSET (0 .. Len(text)) /\ \A i \in inner : i \in 1 .. Len(text)
    BY <1>1
  <2> HIDE DEF inner
  <2>3. f \in inner /\ l \in inner /\ f <= l
    BY <1>1, <1>3, <2>2, MinOfNumbers, MaxOfNumbers
  <2> HIDE DEF f, l
  <2>4. f \in Int /\ l \in Int /\ 1 <= f /\ f <= l + 1 /\ l <= Len(text)
    BY <2>2, <2>3
  <2>5. SubSeq(text, f, l) \in Seq(Chars)
    BY <2>4, PartOfText
  <2> QED  BY <2>1, <2>5
<1> QED  BY <1>2, <1>3

\* An item that is a record with a text as its evidence, and what _str leaves of it.
IsItem(x, Chars) == "evidence" \in DOMAIN x /\ x.evidence \in Seq(Chars)
Bare(x) == [x EXCEPT !.evidence = Stripped(x.evidence)]

LEMMA TrimmedItems ==
  ASSUME NEW Chars, NEW Items, \A x \in Items : IsItem(x, Chars), NEW items \in Seq(Items)
  PROVE  /\ Trimmed(items) \in Seq({Bare(x) : x \in Items})
         /\ DOMAIN Trimmed(items) = DOMAIN items
         /\ \A i \in DOMAIN items : Trimmed(items)[i].evidence = Stripped(items[i].evidence)
<1> DEFINE B == {Bare(x) : x \in Items}
           bare == [i \in 1 .. Len(items) |-> Bare(items[i])]
<1>1. Len(items) \in Nat /\ DOMAIN items = 1 .. Len(items) /\ \A i \in 1 .. Len(items) : items[i] \in Items
  BY LenProperties, ElementOfSeq
<1>2. Trimmed(items) = bare
  BY <1>1 DEF Trimmed, Bare
<1>3. \A i \in 1 .. Len(items) : Bare(items[i]) \in B
  BY <1>1
<1>4. \A x \in Items : Bare(x).evidence = Stripped(x.evidence)
  BY DEF Bare, IsItem
<1> HIDE DEF B
<1>5. bare \in [1 .. Len(items) -> B]
  BY <1>3
<1>6. bare \in Seq(B)
  <2> HIDE DEF bare
  <2> QED  BY <1>1, <1>5, SeqDef
<1> QED  BY <1>1, <1>2, <1>4, <1>6 DEF B

\* An edge read from the headers.
HeaderEdge(state, predicate, address) ==
  [subject |-> Person(state.sender), predicate |-> predicate, object |-> Person(address),
   kind |-> "metadata", span |-> None]

HeaderEdges(state, Addresses) ==
  {HeaderEdge(state, predicate, address) :
     predicate \in {"SENT", "CC", "REPLY_TO"}, address \in Addresses \cup {state.parentSender}}

LEMMA HeadersAreEdges ==
  ASSUME NEW Addresses, NEW state, state.recipients \in Seq(Addresses), state.cc \in Seq(Addresses)
  PROVE  MetadataRelations(state) \in Seq(HeaderEdges(state, Addresses))
<1> DEFINE E == HeaderEdges(state, Addresses)
           To(predicate, addresses) == [i \in DOMAIN addresses |-> HeaderEdge(state, predicate, addresses[i])]
           reply == <<HeaderEdge(state, "REPLY_TO", state.parentSender)>>
           last == IF state.inReplyTo /\ state.parentSender # None THEN reply ELSE << >>
           sent == To("SENT", state.recipients)
           cc == To("CC", state.cc)
<1>1. MetadataRelations(state) = IF state.sender = None THEN << >> ELSE (sent \o cc) \o last
  BY DEF MetadataRelations, HeaderEdge
<1>2. ASSUME NEW predicate \in {"SENT", "CC"}, NEW addresses \in Seq(Addresses)
      PROVE  To(predicate, addresses) \in Seq(E)
  <2> DEFINE edge(i) == HeaderEdge(state, predicate, addresses[i])
  <2>1. Len(addresses) \in Nat /\ DOMAIN addresses = 1 .. Len(addresses)
    BY LenProperties
  <2>2. \A i \in 1 .. Len(addresses) : edge(i) \in E
    BY ElementOfSeq DEF HeaderEdges
  <2>3. To(predicate, addresses) = [i \in 1 .. Len(addresses) |-> edge(i)]
    BY <2>1
  <2> HIDE DEF E, edge
  <2>4. [i \in 1 .. Len(addresses) |-> edge(i)] \in [1 .. Len(addresses) -> E]
    BY <2>2
  <2> QED  BY <2>1, <2>3, <2>4, SeqDef
<1>3. sent \in Seq(E) /\ cc \in Seq(E)
  <2> HIDE DEF E
  <2> QED  BY <1>2
<1>4. last \in Seq(E)
  <2>1. HeaderEdge(state, "REPLY_TO", state.parentSender) \in E
    BY DEF HeaderEdges
  <2> HIDE DEF E
  <2> QED  BY <2>1
<1> HIDE DEF E, sent, cc, last
<1>5. (sent \o cc) \o last \in Seq(E)
  BY <1>3, <1>4, ConcatProperties
<1>6. << >> \in Seq(E)
  OBVIOUS
<1> QED  BY <1>1, <1>5, <1>6 DEF E
\* resolve_extraction (graph/extract.py): whatever a model extracts from a chunk, every
\* mention and every fact has its evidence in the chunk at the offsets it is
\* given, and in the body of the mail when the chunk has a place there; a mention is of
\* an entity type that is known; a relation of the text connects two entities that
\* are mentioned, and its evidence is in the chunk; every other relation comes from the headers,
\* has no passage, and connects persons.
THEOREM GraphsAreReal ==
  ASSUME NEW Chars, NEW Items, \A x \in Items : IsItem(x, Chars),
         NEW raw, raw.entities \in Seq(Items), raw.relations \in Seq(Items), raw.facts \in Seq(Items),
         NEW Addresses, NEW state, state.text \in Seq(Chars), state.sourceStart \in Nat \cup {None},
         state.recipients \in Seq(Addresses), state.cc \in Seq(Addresses),
         NEW home, home.body \in Seq(Chars), HasRoom(state, home),
         NEW graph \in ResolveExtraction(raw, state)
  PROVE  GraphIsReal(raw, state, home, graph)
<1> DEFINE text == state.text
           said == Cleaned(raw)
           Bares == {Bare(x) : x \in Items}
           known == {i \in Filled(said.entities, {"name"}) : said.entities[i].type \in EntityTypes}
           named == {i \in Filled(said.relations, {"subject", "object"}) :
                       said.relations[i].predicate \in Predicates}
           whole == Filled(said.facts, {"subject", "predicate", "object"})
           extraction == ValidateExtraction(raw)
           Span(x) == LocateSpan(text, x.evidence)
           Said(x) == [span |-> Span(x), source |-> SourceOffsets(state, Span(x))]
           entities == Located(extraction.entities, text)
           mentions == [i \in DOMAIN entities |->
                         [key |-> <<entities[i].type, Key[entities[i].name]>>,
                          span |-> Said(entities[i]).span, source |-> Said(entities[i]).source]]
           stated == Located(extraction.relations, text)
           both == {i \in DOMAIN stated :
                     /\ MatchEntityKey(stated[i].subject, mentions) # {}
                     /\ MatchEntityKey(stated[i].object, mentions) # {}}
           relations == Those(stated, both)
           keys == {mentions[i].key : i \in DOMAIN mentions}
           choices == {f \in [(DOMAIN relations) \X {"subject", "object"} -> keys] :
                        \A i \in DOMAIN relations :
                          /\ f[<<i, "subject">>] \in MatchEntityKey(relations[i].subject, mentions)
                          /\ f[<<i, "object">>] \in MatchEntityKey(relations[i].object, mentions)}
           facts == Located(extraction.facts, text)
           Edges(f) == [i \in DOMAIN relations |->
                         [subject |-> f[<<i, "subject">>], predicate |-> relations[i].predicate,
                          object |-> f[<<i, "object">>], kind |-> "text", span |-> Said(relations[i]).span]]
           claimed == [i \in DOMAIN facts |->
                        [span |-> Said(facts[i]).span, source |-> Said(facts[i]).source,
                         cue |-> HasUpdateCue(facts[i].evidence)]]
           headers == MetadataRelations(state)
<1>1. PICK f \in choices :
        graph = [mentions |-> mentions, relations |-> Edges(f) \o headers, facts |-> claimed]
  BY DEF ResolveExtraction, Located
<1>2. /\ extraction.entities = Those(said.entities, known)
      /\ extraction.relations = Those(said.relations, named)
      /\ extraction.facts = Those(said.facts, whole)
  BY DEF ValidateExtraction
<1>20. /\ said.entities = Trimmed(raw.entities) /\ said.relations = Trimmed(raw.relations)
       /\ said.facts = Trimmed(raw.facts)
  BY DEF Cleaned
<1>21. /\ said.entities \in Seq(Bares) /\ said.relations \in Seq(Bares) /\ said.facts \in Seq(Bares)
       /\ DOMAIN said.entities = DOMAIN raw.entities
       /\ DOMAIN said.relations = DOMAIN raw.relations
       /\ DOMAIN said.facts = DOMAIN raw.facts
       /\ \A i \in DOMAIN raw.entities : said.entities[i].evidence = Stripped(raw.entities[i].evidence)
       /\ \A i \in DOMAIN raw.relations : said.relations[i].evidence = Stripped(raw.relations[i].evidence)
       /\ \A i \in DOMAIN raw.facts : said.facts[i].evidence = Stripped(raw.facts[i].evidence)
  <2>1. /\ Trimmed(raw.entities) \in Seq(Bares) /\ DOMAIN Trimmed(raw.entities) = DOMAIN raw.entities
        /\ \A i \in DOMAIN raw.entities : Trimmed(raw.entities)[i].evidence = Stripped(raw.entities[i].evidence)
    BY TrimmedItems
  <2>2. /\ Trimmed(raw.relations) \in Seq(Bares) /\ DOMAIN Trimmed(raw.relations) = DOMAIN raw.relations
        /\ \A i \in DOMAIN raw.relations : Trimmed(raw.relations)[i].evidence = Stripped(raw.relations[i].evidence)
    BY TrimmedItems
  <2>3. /\ Trimmed(raw.facts) \in Seq(Bares) /\ DOMAIN Trimmed(raw.facts) = DOMAIN raw.facts
        /\ \A i \in DOMAIN raw.facts : Trimmed(raw.facts)[i].evidence = Stripped(raw.facts[i].evidence)
    BY TrimmedItems
  <2> HIDE DEF said, Bares
  <2> QED  BY <1>20, <2>1, <2>2, <2>3
<1>22. \A x \in Bares : x.evidence \in Seq(Chars)
  <2>1. \A x \in Items : Bare(x).evidence = Stripped(x.evidence) /\ x.evidence \in Seq(Chars)
    BY DEF Bare, IsItem
  <2>2. \A x \in Items : Stripped(x.evidence) \in Seq(Chars)
    BY <2>1, StrippedIsText
  <2> QED  BY <2>1, <2>2
<1> HIDE DEF said, Bares
<1>3. \A i \in DOMAIN relations : f[<<i, "subject">>] \in keys /\ f[<<i, "object">>] \in keys
  <2>1. f \in [(DOMAIN relations) \X {"subject", "object"} -> keys]
    OBVIOUS
  <2> HIDE DEF relations, keys, choices
  <2> QED  BY <2>1
<1> HIDE DEF extraction, choices
<1>4. /\ entities \in Seq(Bares)
      /\ \A i \in DOMAIN entities : \E j \in known : entities[i] = said.entities[j] /\ Span(said.entities[j]) # None
  <2>1. known \in SUBSET DOMAIN said.entities
    BY DEF Filled
  <2> HIDE DEF known
  <2>2. /\ Located(Those(said.entities, known), text) \in Seq(Bares)
        /\ AllLocated(Located(Those(said.entities, known), text), said.entities, known, text)
    BY <1>21, <2>1, LocatedItems
  <2> QED  BY <1>2, <2>2 DEF AllLocated
<1>5. /\ stated \in Seq(Bares)
      /\ \A i \in DOMAIN stated : \E j \in named : stated[i] = said.relations[j] /\ Span(said.relations[j]) # None
  <2>1. named \in SUBSET DOMAIN said.relations
    BY DEF Filled
  <2> HIDE DEF named
  <2>2. /\ Located(Those(said.relations, named), text) \in Seq(Bares)
        /\ AllLocated(Located(Those(said.relations, named), text), said.relations, named, text)
    BY <1>21, <2>1, LocatedItems
  <2> QED  BY <1>2, <2>2 DEF AllLocated
<1>6. \A i \in DOMAIN facts : \E j \in whole : facts[i] = said.facts[j] /\ Span(said.facts[j]) # None
  <2> DEFINE some == whole
  <2>1. some \in SUBSET DOMAIN said.facts
    BY DEF Filled
  <2> HIDE DEF some
  <2>2. AllLocated(Located(Those(said.facts, some), text), said.facts, some, text)
    BY <1>21, <2>1, LocatedItems
  <2> QED  BY <1>2, <2>2 DEF some, AllLocated
<1>7. /\ relations \in Seq(Bares)
      /\ \A i \in DOMAIN relations : \E j \in named : relations[i] = said.relations[j] /\ Span(said.relations[j]) # None
  <2>1. both \in SUBSET DOMAIN stated
    OBVIOUS
  <2> HIDE DEF both, stated, mentions, Span, named
  <2>2. relations \in Seq(Bares) /\ \A i \in DOMAIN relations : \E j \in both : relations[i] = stated[j]
    BY <1>5, <2>1, SomeOfThose
  <2> HIDE DEF relations
  <2>3. ASSUME NEW i \in DOMAIN relations
        PROVE  \E j \in named : relations[i] = said.relations[j] /\ Span(said.relations[j]) # None
    <3>1. PICK k \in both : relations[i] = stated[k]
      BY <2>2
    <3>2. k \in DOMAIN stated
      BY <2>1
    <3> QED  BY <1>5, <3>1, <3>2
  <2> QED  BY <2>2, <2>3
<1>8. ASSUME NEW items \in Seq(Bares), NEW j \in DOMAIN items, Span(items[j]) # None
      PROVE  /\ items[j].evidence = Slice(text, Span(items[j]))
             /\ \A x : x.span = Span(items[j]) /\ x.source = SourceOffsets(state, Span(items[j])) => IsPlaced(x, state, home)
  <2>1. items[j].evidence \in Seq(Chars)
    BY <1>22, LenProperties, ElementOfSeq
  <2> DEFINE evidence == items[j].evidence
  <2> HIDE DEF evidence
  <2>2. evidence \in Seq(Chars) /\ LocateSpan(text, evidence) # None
    BY <1>8, <2>1 DEF evidence
  <2>3. /\ evidence = Slice(text, LocateSpan(text, evidence))
        /\ \A x : x.span = LocateSpan(text, evidence) /\ x.source = SourceOffsets(state, LocateSpan(text, evidence))
                    => IsPlaced(x, state, home)
    BY <2>2, PlacedInText
  <2> QED  BY <2>3 DEF evidence
<1>9. graph.mentions = mentions /\ graph.relations = Edges(f) \o headers /\ graph.facts = claimed
  BY <1>1
<1>10. ASSUME NEW i \in DOMAIN mentions
       PROVE  /\ IsPlaced(mentions[i], state, home) /\ mentions[i].key[1] \in EntityTypes
              /\ \E j \in DOMAIN said.entities : said.entities[j].evidence = Slice(text, mentions[i].span)
  <2> DEFINE e == entities[i]
             m == mentions[i]
  <2>1. /\ i \in DOMAIN entities
        /\ m = [key |-> <<e.type, Key[e.name]>>, span |-> Span(e), source |-> SourceOffsets(state, Span(e))]
    OBVIOUS
  <2> HIDE DEF mentions, entities, known
  <2>2. PICK j \in known : e = said.entities[j] /\ Span(said.entities[j]) # None
    BY <1>4, <2>1
  <2>3. j \in DOMAIN said.entities /\ e.type \in EntityTypes
    BY <2>2 DEF known, Filled
  <2> HIDE DEF e, m, Span
  <2>4. m.span = Span(e) /\ m.source = SourceOffsets(state, Span(e)) /\ m.key[1] = e.type
    BY <2>1
  <2>5. said.entities[j].evidence = Slice(text, Span(e)) /\ IsPlaced(m, state, home)
    BY <1>8, <1>21, <2>2, <2>3, <2>4
  <2> QED  BY <2>3, <2>4, <2>5 DEF m
<1>11. ASSUME NEW i \in DOMAIN claimed
       PROVE  /\ IsPlaced(claimed[i], state, home)
              /\ \E j \in DOMAIN said.facts : said.facts[j].evidence = Slice(text, claimed[i].span)
  <2> DEFINE e == facts[i]
             m == claimed[i]
  <2>1. /\ i \in DOMAIN facts
        /\ m = [span |-> Span(e), source |-> SourceOffsets(state, Span(e)), cue |-> HasUpdateCue(e.evidence)]
    OBVIOUS
  <2> HIDE DEF claimed, facts
  <2>2. PICK j \in whole : e = said.facts[j] /\ Span(said.facts[j]) # None
    BY <1>6, <2>1
  <2>3. j \in DOMAIN said.facts
    BY DEF whole, Filled
  <2> HIDE DEF e, m, Span, whole
  <2>4. m.span = Span(e) /\ m.source = SourceOffsets(state, Span(e))
    BY <2>1
  <2>5. said.facts[j].evidence = Slice(text, Span(e)) /\ IsPlaced(m, state, home)
    BY <1>8, <1>21, <2>2, <2>3, <2>4
  <2> QED  BY <2>3, <2>4, <2>5 DEF m
<1> DEFINE IsText(r) == /\ r.kind = "text" /\ r.span # None /\ {r.subject, r.object} \subseteq keys
                        /\ \E j \in DOMAIN said.relations : said.relations[j].evidence = Slice(text, r.span)
           IsHeader(r) == r.kind = "metadata" /\ r.span = None /\ r.subject[1] = "PERSON" /\ r.object[1] = "PERSON"
<1>12. ASSUME NEW i \in DOMAIN relations PROVE IsText(Edges(f)[i])
  <2> DEFINE e == relations[i]
             r == Edges(f)[i]
  <2>1. r = [subject |-> f[<<i, "subject">>], predicate |-> e.predicate, object |-> f[<<i, "object">>],
             kind |-> "text", span |-> Span(e)]
    OBVIOUS
  <2> HIDE DEF relations, named, keys
  <2>2. PICK j \in named : e = said.relations[j] /\ Span(said.relations[j]) # None
    BY <1>7
  <2>3. j \in DOMAIN said.relations
    BY DEF named, Filled
  <2> HIDE DEF e, r, Span
  <2>4. r.kind = "text" /\ r.span = Span(e) /\ r.subject = f[<<i, "subject">>] /\ r.object = f[<<i, "object">>]
    BY <2>1
  <2>5. said.relations[j].evidence = Slice(text, Span(e))
    BY <1>8, <1>21, <2>2, <2>3
  <2> QED  BY <1>3, <2>2, <2>3, <2>4, <2>5 DEF r
<1>13. \A r \in HeaderEdges(state, Addresses) : IsHeader(r)
  BY DEF HeaderEdges, HeaderEdge, Person
<1>14. ASSUME NEW i \in DOMAIN graph.relations
       PROVE  IsText(graph.relations[i]) \/ IsHeader(graph.relations[i])
  <2> DEFINE A == Edges(f)
             E == HeaderEdges(state, Addresses)
             R == {A[k] : k \in DOMAIN relations} \cup E
  <2>1. Len(relations) \in Nat /\ DOMAIN relations = 1 .. Len(relations)
    <3> HIDE DEF relations
    <3> QED  BY <1>7, LenProperties
  <2>2. A \in Seq(R)
    <3>1. DOMAIN A = 1 .. Len(relations) /\ A = [k \in 1 .. Len(relations) |-> A[k]]
      BY <2>1
    <3>2. \A k \in 1 .. Len(relations) : A[k] \in R
      BY <2>1
    <3> HIDE DEF A, R
    <3>3. A \in [1 .. Len(relations) -> R]
      BY <3>1, <3>2
    <3> QED  BY <2>1, <3>3, SeqDef, ZenonT(30)
  <2>3. DOMAIN A = DOMAIN relations
    OBVIOUS
  <2>4. headers \in Seq(E)
    BY HeadersAreEdges
  <2>5. E \subseteq R
    OBVIOUS
  <2> HIDE DEF A, E, R, headers, relations
  <2>6. headers \in Seq(R)
    BY <2>4, <2>5, SeqMonotonic
  <2>7. ToSet(A \o headers) = ToSet(A) \cup ToSet(headers)
    BY <2>2, <2>6, ToSetOfConcat
  <2>8. graph.relations[i] \in ToSet(A \o headers)
    BY <1>9 DEF ToSet, A, relations
  <2>9. CASE graph.relations[i] \in ToSet(A)
    <3>1. PICK k \in DOMAIN relations : graph.relations[i] = A[k]
      BY <2>3, <2>9 DEF ToSet
    <3>2. IsText(A[k])
      BY <1>12 DEF A, relations
    <3> HIDE DEF IsText
    <3> QED  BY <3>1, <3>2
  <2>10. CASE graph.relations[i] \in ToSet(headers)
    <3>1. graph.relations[i] \in E
      BY <2>4, <2>10, LenProperties DEF ToSet
    <3> HIDE DEF IsHeader
    <3> QED  BY <1>13, <3>1 DEF E
  <2> QED  BY <2>7, <2>8, <2>9, <2>10
<1> HIDE DEF mentions, claimed, entities, facts, relations, stated, keys, headers
<1>15. keys = {graph.mentions[i].key : i \in DOMAIN graph.mentions}
  BY <1>9 DEF keys
<1>16. ASSUME NEW i \in DOMAIN graph.relations
       PROVE  LET r == graph.relations[i]
              IN  IF r.kind = "text"
                    THEN /\ r.span # None /\ {r.subject, r.object} \subseteq keys
                         /\ \E j \in DOMAIN said.relations : said.relations[j].evidence = Slice(text, r.span)
                  ELSE r.span = None /\ r.subject[1] = "PERSON" /\ r.object[1] = "PERSON"
  BY <1>14
<1>17. \A t :
         /\ (\E j \in DOMAIN said.entities : said.entities[j].evidence = t)
              => \E j \in DOMAIN raw.entities : Stripped(raw.entities[j].evidence) = t
         /\ (\E j \in DOMAIN said.relations : said.relations[j].evidence = t)
              => \E j \in DOMAIN raw.relations : Stripped(raw.relations[j].evidence) = t
         /\ (\E j \in DOMAIN said.facts : said.facts[j].evidence = t)
              => \E j \in DOMAIN raw.facts : Stripped(raw.facts[j].evidence) = t
  BY <1>21
<1>18. ASSUME NEW i \in DOMAIN graph.mentions
       PROVE  LET m == graph.mentions[i]
              IN  /\ IsPlaced(m, state, home) /\ m.key[1] \in EntityTypes
                  /\ \E j \in DOMAIN raw.entities : Stripped(raw.entities[j].evidence) = Slice(text, m.span)
  BY <1>9, <1>10, <1>17
<1>19. ASSUME NEW i \in DOMAIN graph.facts
       PROVE  /\ IsPlaced(graph.facts[i], state, home)
              /\ \E j \in DOMAIN raw.facts : Stripped(raw.facts[j].evidence) = Slice(text, graph.facts[i].span)
  BY <1>9, <1>11, <1>17
<1>23. ASSUME NEW i \in DOMAIN graph.relations
       PROVE  LET r == graph.relations[i]
              IN  IF r.kind = "text"
                    THEN /\ r.span # None /\ {r.subject, r.object} \subseteq keys
                         /\ \E j \in DOMAIN raw.relations : Stripped(raw.relations[j].evidence) = Slice(text, r.span)
                  ELSE r.span = None /\ r.subject[1] = "PERSON" /\ r.object[1] = "PERSON"
  BY <1>16, <1>17
<1> QED  BY <1>15, <1>18, <1>19, <1>23 DEF GraphIsReal

-----------------------------------------------------------------------------
(* Pages.                                                                  *)

Step(size, overlap) == Max({1, size - overlap})

\* The windows start a step apart, none starts after the end, each is as wide as it
\* can be, and every token is in one.
Covering(windows, n, size, step) ==
  /\ step \in 1 .. size
  /\ \E last \in 1 .. n : DOMAIN windows = 1 .. last
  /\ \A k \in DOMAIN windows :
       /\ windows[k][1] = (k - 1) * step + 1
       /\ windows[k][1] \in 1 .. n
       /\ windows[k][2] \in windows[k][1] .. n
       /\ windows[k][2] - windows[k][1] < size
  /\ \A i \in 1 .. n : \E k \in DOMAIN windows : i \in windows[k][1] .. windows[k][2]

\* overlap_chunks, also when the overlap is the larger.
LEMMA WindowsCover ==
  ASSUME NEW n \in Nat \ {0}, NEW size \in Nat \ {0}, NEW overlap \in Nat
  PROVE  Covering(Windows(n, size, overlap), n, size, Step(size, overlap))
<1> DEFINE step == Step(size, overlap)
           Before(m) == (m - 1) * step
           reaching == {m \in 1 .. n : Before(m) + size >= n}
           last == Min(reaching)
           windows == Windows(n, size, overlap)
<1>1. step \in 1 .. size
  BY MaxOfTwo DEF Step
<1>2. windows = [k \in 1 .. last |-> <<Before(k) + 1, Min({n, Before(k) + size})>>]
  BY DEF Windows, Step
<1> HIDE DEF windows, last
<1>3. \A m \in Nat \ {0} : Before(m) \in Nat /\ Before(m + 1) = Before(m) + step
  BY <1>1
<1>4. Before(1) = 0 /\ Before(n) >= n - 1
  BY <1>1
<1> HIDE DEF step, Before
<1>5. n \in reaching
  BY <1>3, <1>4
<1>6. last \in reaching /\ \A m \in reaching : last <= m
  BY <1>5, MinOfNumbers DEF last
<1>7. last \in 1 .. n /\ Before(last) + size >= n
  BY <1>6
<1>8. ASSUME NEW k \in 1 .. last
      PROVE  /\ Before(k) \in Nat /\ Before(k) < n
             /\ Min({n, Before(k) + size}) = IF n <= Before(k) + size THEN n ELSE Before(k) + size
  <2>1. Before(k) \in Nat
    BY <1>3
  <2>2. CASE k = 1
    BY <1>4, <2>1, <2>2, MinOfTwo
  <2>3. CASE k # 1
    <3>1. k - 1 \in 1 .. n /\ k - 1 \notin reaching /\ k - 1 \in Nat \ {0} /\ (k - 1) + 1 = k
      BY <1>6, <1>7, <2>3
    <3>2. Before(k - 1) \in Nat /\ Before(k - 1) + size < n
      BY <1>3, <3>1
    <3>3. Before(k) = Before(k - 1) + step
      BY <1>3, <3>1
    <3> QED  BY <1>1, <2>1, <3>2, <3>3, MinOfTwo
  <2> QED  BY <2>2, <2>3
<1>9. ASSUME NEW i \in 1 .. n PROVE \E k \in 1 .. last : i \in Before(k) + 1 .. Min({n, Before(k) + size})
  <2> DEFINE T == {m \in 1 .. last : Before(m) + size >= i}
  <2>1. last \in T /\ last \in Nat
    BY <1>3, <1>7
  <2>2. PICK k \in T : k \in 1 .. last /\ (k # 1 => k - 1 \in 1 .. last /\ k - 1 \notin T)
    <3> HIDE DEF T
    <3>1. T \in SUBSET (1 .. last)
      BY DEF T
    <3> QED  BY <2>1, <3>1, LeastCounterexample
  <2>3. Before(k) + 1 <= i
    <3>1. CASE k = 1
      BY <1>4, <3>1
    <3>2. CASE k # 1
      <4>1. k - 1 \in Nat \ {0} /\ (k - 1) + 1 = k
        BY <2>2, <3>2
      <4>2. Before(k - 1) \in Nat /\ ~(Before(k - 1) + size >= i)
        BY <1>3, <2>2, <3>2, <4>1
      <4>3. Before(k) = Before(k - 1) + step
        BY <1>3, <4>1
      <4> QED  BY <1>1, <4>2, <4>3
    <3> QED  BY <3>1, <3>2
  <2>4. i <= n /\ i <= Before(k) + size
    BY <2>2
  <2> QED  BY <1>8, <2>2, <2>3, <2>4
<1>10. \A k \in 1 .. last :
         windows[k][1] = Before(k) + 1 /\ windows[k][2] = Min({n, Before(k) + size})
  BY <1>2
<1>11. DOMAIN windows = 1 .. last
  BY <1>2
<1>12. ASSUME NEW k \in 1 .. last
       PROVE  /\ windows[k][1] = Before(k) + 1
              /\ windows[k][1] \in 1 .. n
              /\ windows[k][2] \in windows[k][1] .. n
              /\ windows[k][2] - windows[k][1] < size
  <2> DEFINE w == Min({n, Before(k) + size})
  <2>1. Before(k) + 1 \in 1 .. n /\ w \in Before(k) + 1 .. n /\ w - (Before(k) + 1) < size
    BY <1>8
  <2> HIDE DEF w
  <2>2. windows[k][1] = Before(k) + 1 /\ windows[k][2] = w
    BY <1>10 DEF w
  <2> QED  BY <2>1, <2>2
<1>13. \A i \in 1 .. n : \E k \in 1 .. last : i \in windows[k][1] .. windows[k][2]
  BY <1>9, <1>10
<1> QED  BY <1>1, <1>7, <1>11, <1>12, <1>13 DEF Covering, windows, step, Before

\* FindWords finds the words it looks for, if anything.
LEMMA FoundWords ==
  ASSUME NEW W, NEW page, page.words \in Seq(W), NEW words \in Seq(W), FindWords(page, words) # 0
  PROVE  SubSeq(page.words, FindWords(page, words), FindWords(page, words) + Len(words) - 1) = words
<1> DEFINE places == {i \in DOMAIN page.words :
             /\ i + Len(words) - 1 <= Len(page.words)
             /\ SubSeq(page.words, i, i + Len(words) - 1) = words
             /\ (i .. i + Len(words) - 2) \cap page.wide = {}}
<1>1. places \in SUBSET Nat
  BY LenProperties
<1>2. FindWords(page, words) = IF places = {} THEN 0 ELSE Min(places)
  BY DEF FindWords, FirstOf
<1>3. FindWords(page, words) \in places
  <2> HIDE DEF places
  <2> QED  BY <1>1, <1>2, MinOfNumbers
<1> QED  BY <1>3

\* chunk_attachment (rag/chunking.py): of every page, whatever its spacing and whatever
\* chunk size and overlap are configured, every word is in a chunk, no chunk is empty
\* or larger than the size, and the span a chunk is given holds its words.
THEOREM PagesAreKept ==
  ASSUME NEW W, NEW page, page.words \in Seq(W)
  PROVE  PageIsKept(page, ChunkPage(page))
<1> DEFINE n == Len(page.words)
           windows == IF page.words = << >> THEN << >> ELSE Windows(n, PageTokens, PageOverlap)
           step == Step(PageTokens, PageOverlap)
           Cover(k) == SubSeq(page.words, windows[k][1], windows[k][2])
           at(k) == FindWords(page, Cover(k))
           chunks == ChunkPage(page)
<1>1. n \in Nat /\ DOMAIN page.words = 1 .. n /\ (page.words = << >> <=> n = 0)
  BY LenProperties, EmptySeq
<1>2. chunks = [k \in DOMAIN windows |->
                 [words |-> Cover(k),
                  span |-> IF at(k) = 0 THEN << >> ELSE <<at(k), at(k) + Len(Cover(k)) - 1>>]]
  BY DEF ChunkPage
<1> HIDE DEF windows, chunks
<1>3. CASE n = 0
  <2>1. DOMAIN windows = {}
    BY <1>1, <1>3 DEF windows
  <2>2. DOMAIN chunks = {} /\ DOMAIN page.words = {}
    BY <1>1, <1>2, <1>3, <2>1
  <2> QED  BY <2>2 DEF PageIsKept, chunks
<1>4. CASE n # 0
  <2>1. windows = Windows(n, PageTokens, PageOverlap) /\ n \in Nat \ {0}
    BY <1>1, <1>4 DEF windows
  <2>2. Covering(windows, n, PageTokens, step)
    BY <2>1, WindowsCover, MailTextAssumption
  <2>3. step = Max({1, PageTokens - PageOverlap})
    BY DEF Step
  <2> HIDE DEF step
  <2>4. ASSUME NEW k \in DOMAIN windows
        PROVE  /\ windows[k][1] \in 1 .. n /\ windows[k][2] \in windows[k][1] .. n
               /\ Cover(k) \in Seq(W) /\ Len(Cover(k)) = windows[k][2] - windows[k][1] + 1
    <3>1. windows[k][1] \in 1 .. n /\ windows[k][2] \in windows[k][1] .. n
      BY <2>2 DEF Covering
    <3>2. \A i \in windows[k][1] .. windows[k][2] : page.words[i] \in W
      BY <1>1, <3>1, ElementOfSeq
    <3> DEFINE a == windows[k][1]
               b == windows[k][2]
    <3>3. a \in Int /\ b \in Int /\ a <= b
      BY <1>1, <3>1
    <3> HIDE DEF a, b
    <3>4. SubSeq(page.words, a, b) \in Seq(W) /\ Len(SubSeq(page.words, a, b)) = b - a + 1
      BY <3>2, <3>3, SubSeqProperties DEF a, b
    <3> QED  BY <3>1, <3>4 DEF a, b
  <2>5. ASSUME NEW i \in DOMAIN page.words
        PROVE  \E k \in DOMAIN chunks : i \in (k - 1) * step + 1 .. (k - 1) * step + Len(chunks[k].words)
    <3>1. PICK k \in DOMAIN windows : i \in windows[k][1] .. windows[k][2]
      BY <1>1, <2>2 DEF Covering
    <3>2. DOMAIN chunks = DOMAIN windows /\ chunks[k].words = Cover(k)
      BY <1>2
    <3>3. /\ windows[k][1] = (k - 1) * step + 1
          /\ windows[k][1] \in Int /\ windows[k][2] \in Int
      BY <1>1, <2>2, <2>4 DEF Covering
    <3>4. windows[k][1] - 1 = (k - 1) * step /\ (k - 1) * step \in Int
      <4>1. k \in Int /\ step \in Int
        BY <1>1, <2>2 DEF Covering
      <4>2. (k - 1) * step \in Int
        BY <4>1
      <4> QED  BY <3>3, <4>2
    <3>5. windows[k][2] = (k - 1) * step + Len(Cover(k)) /\ Len(Cover(k)) \in Int
      <4> DEFINE a == windows[k][1]
                 b == windows[k][2]
                 l == Len(Cover(k))
                 before == (k - 1) * step
      <4>1. a \in Int /\ b \in Int /\ a - 1 = before /\ l = b - a + 1
        BY <2>4, <3>3, <3>4
      <4> HIDE DEF a, b, l, before
      <4>2. b = before + l /\ l \in Int
        BY <4>1
      <4> QED  BY <4>2 DEF b, l, before
    <3>6. i \in (k - 1) * step + 1 .. (k - 1) * step + Len(chunks[k].words)
      BY <3>1, <3>2, <3>3, <3>4, <3>5
    <3> QED  BY <3>2, <3>6
  <2>6. ASSUME NEW k \in DOMAIN chunks
        PROVE  LET c == chunks[k]
               IN  /\ 1 <= Len(c.words) /\ Len(c.words) <= PageTokens
                   /\ c.span # << >> => SubSeq(page.words, c.span[1], c.span[2]) = c.words
    <3>1. /\ k \in DOMAIN windows /\ chunks[k].words = Cover(k)
          /\ chunks[k].span = IF at(k) = 0 THEN << >> ELSE <<at(k), at(k) + Len(Cover(k)) - 1>>
      BY <1>2
    <3>2. 1 <= Len(Cover(k)) /\ Len(Cover(k)) <= PageTokens
      BY <1>1, <2>2, <2>4, <3>1, MailTextAssumption, SMTT(30) DEF Covering
    <3>3. ASSUME at(k) # 0 PROVE SubSeq(page.words, at(k), at(k) + Len(Cover(k)) - 1) = Cover(k)
      BY <2>4, <3>1, <3>3, FoundWords
    <3> DEFINE f == at(k)
               l == Len(Cover(k))
    <3>4. chunks[k].span = IF f = 0 THEN << >> ELSE <<f, f + l - 1>>
      BY <3>1
    <3>5. f # 0 => SubSeq(page.words, f, f + l - 1) = chunks[k].words
      BY <3>1, <3>3
    <3> HIDE DEF f, l
    <3>6. chunks[k].span # << >> => chunks[k].span[1] = f /\ chunks[k].span[2] = f + l - 1 /\ f # 0
      BY <3>4
    <3> QED  BY <3>1, <3>2, <3>5, <3>6
  <2> QED  BY <2>3, <2>5, <2>6 DEF PageIsKept, chunks
<1> QED  BY <1>3, <1>4

LEMMA ListedOnes ==
  ASSUME NEW S, NEW a \in S, NEW b \in S, NEW c \in S, NEW d \in S
  PROVE  /\ << >> \in Seq(S) /\ <<a>> \in Seq(S) /\ <<a, b>> \in Seq(S)
         /\ <<a, b, c>> \in Seq(S) /\ <<a, b, c, d>> \in Seq(S)
OBVIOUS

-----------------------------------------------------------------------------
(* Mails.                                                                  *)

LEMMA FirstOfNumbers ==
  ASSUME NEW n \in Nat, NEW T \in SUBSET (1 .. n)
  PROVE  \/ FirstOf(T) = 0 /\ T = {}
         \/ FirstOf(T) \in T /\ FirstOf(T) \in 1 .. n /\ \A y \in T : FirstOf(T) <= y
<1>1. T \in SUBSET Nat
  OBVIOUS
<1>2. CASE T = {}
  BY <1>2 DEF FirstOf
<1>3. CASE T # {}
  BY <1>1, <1>3, MinOfNumbers DEF FirstOf
<1> QED  BY <1>2, <1>3

\* strip() takes blank lines only.
LEMMA StripIsPassage ==
  ASSUME NEW S, NEW lines \in Seq(S)
  PROVE  Passage(lines, 1, Len(lines), Strip(lines))
<1> DEFINE text == {i \in DOMAIN lines : ~IsBlank(lines[i])}
<1>1. Len(lines) \in Nat /\ DOMAIN lines = 1 .. Len(lines)
  BY LenProperties
<1>2. CASE text = {}
  <2>1. Strip(lines) = << >> /\ SubSeq(lines, 1, 0) = << >>
    BY <1>2, SubSeqEmpty DEF Strip
  <2>2. \A i \in 1 .. Len(lines) : IsBlank(lines[i])
    BY <1>1, <1>2
  <2>3. 1 \in 1 .. Len(lines) + 1 /\ 0 \in 1 - 1 .. Len(lines)
    BY <1>1
  <2> QED  BY <2>1, <2>2, <2>3 DEF Passage
<1>3. CASE text # {}
  <2> DEFINE f == Min(text)
             l == Max(text)
  <2>1. Strip(lines) = SubSeq(lines, f, l)
    BY <1>3 DEF Strip
  <2>2. text \in SUBSET Nat /\ text \in SUBSET (0 .. Len(lines))
    BY <1>1
  <2> HIDE DEF text
  <2>3. f \in text /\ l \in text /\ \A y \in text : f <= y /\ y <= l
    BY <1>1, <1>3, <2>2, MinOfNumbers, MaxOfNumbers
  <2> HIDE DEF f, l
  <2>4. f \in 1 .. Len(lines) + 1 /\ l \in 1 - 1 .. Len(lines)
    BY <1>1, <2>3 DEF text
  <2>5. ASSUME NEW i \in 1 .. Len(lines), i \notin f .. l PROVE IsBlank(lines[i])
    <3>1. i \notin text
      BY <1>1, <2>3, <2>4, <2>5
    <3> QED  BY <1>1, <3>1 DEF text
  <2> QED  BY <2>1, <2>4, <2>5 DEF Passage
<1> QED  BY <1>2, <1>3

LEMMA PassageOfPart ==
  ASSUME NEW S, NEW text \in Seq(S), NEW a \in Int, NEW b \in Int, 1 <= a, a <= b + 1, b <= Len(text),
         NEW part, Passage(SubSeq(text, a, b), 1, b - a + 1, part)
  PROVE  Passage(text, a, b, part)
<1> DEFINE lines == SubSeq(text, a, b)
<1>1. PICK f \in 1 .. b - a + 2, l \in 0 .. b - a + 1 :
        /\ part = SubSeq(lines, f, l)
        /\ \A i \in 1 .. b - a + 1 : i \notin f .. l => IsBlank(lines[i])
  <2>1. (b - a + 1) + 1 = b - a + 2 /\ 1 - 1 = 0
    OBVIOUS
  <2> QED  BY <2>1 DEF Passage
<1>2. \A i \in 1 .. b - a + 1 : lines[i] = text[a + i - 1]
  BY PartOfText
<1> HIDE DEF lines
<1>3. ASSUME NEW i \in a .. b, i \notin a + f - 1 .. a + l - 1 PROVE IsBlank(text[i])
  <2>1. i - a + 1 \in 1 .. b - a + 1 /\ i - a + 1 \notin f .. l /\ a + (i - a + 1) - 1 = i
    BY <1>3
  <2> QED  BY <1>1, <1>2, <2>1
<1>4. CASE f <= l + 1
  <2>1. part = SubSeq(text, a + f - 1, a + l - 1)
    BY <1>1, <1>4, PartOfPart DEF lines
  <2>2. a + f - 1 \in a .. b + 1 /\ a + l - 1 \in a - 1 .. b
    OBVIOUS
  <2> QED  BY <1>3, <2>1, <2>2 DEF Passage
<1>5. CASE ~(f <= l + 1)
  <2>1. part = << >>
    BY <1>1, <1>5, SubSeqEmpty
  <2>2. SubSeq(text, a, a - 1) = << >> /\ a \in a .. b + 1 /\ a - 1 \in a - 1 .. b
    BY SubSeqEmpty
  <2>3. \A i \in a .. b : i \notin a + f - 1 .. a + l - 1
    BY <1>5
  <2> QED  BY <1>3, <2>1, <2>2, <2>3 DEF Passage
<1> QED  BY <1>4, <1>5

\* Cutting the first m lines at line i, or nowhere: what is before it stays, what is
\* from it on is a passage.
LEMMA CutAt ==
  ASSUME NEW S, NEW text \in Seq(S), NEW m \in 0 .. Len(text), NEW i \in 0 .. m,
         NEW lines, lines = SubSeq(text, 1, m),
         NEW c, i = 0 => c = m + 1, i # 0 => c = i
  PROVE  /\ c \in 1 .. m + 1
         /\ Until(lines, i) = SubSeq(text, 1, c - 1)
         /\ Passage(text, c, m, Onward(lines, i))
<1> DEFINE head == SubSeq(text, 1, m)
<1>1. Len(text) \in Nat /\ m \in Nat /\ i \in Nat /\ m <= Len(text) /\ i <= m
  BY LenProperties
<1>2. head \in Seq(S) /\ Len(head) = m
  BY <1>1, PartOfText
<1>3. CASE i = 0
  <2>1. Until(head, i) = head /\ Onward(head, i) = << >> /\ c = m + 1 /\ c - 1 = m
    BY <1>1, <1>3 DEF Until, Onward
  <2>2. SubSeq(text, m + 1, m) = << >>
    BY <1>1, SubSeqEmpty
  <2>3. Passage(text, m + 1, m, << >>)
    <3>1. m + 1 \in m + 1 .. m + 1 /\ m \in (m + 1) - 1 .. m /\ (m + 1) .. m = {}
      BY <1>1
    <3> QED  BY <2>2, <3>1 DEF Passage
  <2> QED  BY <1>1, <2>1, <2>3
<1>4. CASE i # 0
  <2>1. c = i /\ Until(head, i) = SubSeq(head, 1, i - 1) /\ Onward(head, i) = Strip(SubSeq(head, i, m))
    BY <1>2, <1>4 DEF Until, Onward
  <2>2. SubSeq(head, 1, i - 1) = SubSeq(text, 1, i - 1)
    <3>1. 1 + 1 - 1 = 1 /\ 1 + (i - 1) - 1 = i - 1 /\ i - 1 \in Int /\ 1 <= (i - 1) + 1 /\ i - 1 <= m - 1 + 1
      BY <1>1, <1>4
    <3>2. SubSeq(head, 1, i - 1) = SubSeq(text, 1 + 1 - 1, 1 + (i - 1) - 1)
      BY <1>1, <3>1, PartOfPart
    <3> QED  BY <3>1, <3>2
  <2>3. SubSeq(head, i, m) = SubSeq(text, i, m)
    <3>1. 1 + i - 1 = i /\ 1 + m - 1 = m /\ 1 <= i /\ i <= m + 1 /\ m <= m - 1 + 1
      BY <1>1, <1>4
    <3>2. SubSeq(head, i, m) = SubSeq(text, 1 + i - 1, 1 + m - 1)
      BY <1>1, <3>1, PartOfPart
    <3> QED  BY <3>1, <3>2
  <2>4. SubSeq(text, i, m) \in Seq(S) /\ Len(SubSeq(text, i, m)) = m - i + 1
    BY <1>1, <1>4, PartOfText
  <2>5. Passage(SubSeq(text, i, m), 1, m - i + 1, Strip(SubSeq(text, i, m)))
    BY <2>4, StripIsPassage
  <2>6. Passage(text, i, m, Strip(SubSeq(text, i, m)))
    BY <1>1, <1>4, <2>5, PassageOfPart
  <2>7. c \in 1 .. m + 1
    BY <1>1, <1>4
  <2>8. Until(lines, i) = SubSeq(text, 1, c - 1)
    BY <2>1, <2>2
  <2>9. Passage(text, c, m, Onward(lines, i))
    <3>1. c = i /\ Onward(lines, i) = Strip(SubSeq(text, i, m))
      BY <2>1, <2>3
    <3> QED  BY <2>6, <3>1, Zenon
  <2> QED  BY <2>7, <2>8, <2>9
<1> QED  BY <1>3, <1>4

LEMMA FindsAreIn ==
  ASSUME NEW S, NEW lines \in Seq(S)
  PROVE  /\ FindDisclaimerStart(lines) \in 0 .. Len(lines)
         /\ FindSignatureStart(lines) \in 0 .. Len(lines)
<1>1. Len(lines) \in Nat /\ DOMAIN lines = 1 .. Len(lines)
  BY LenProperties
<1>2. \A T \in SUBSET (1 .. Len(lines)) : FirstOf(T) \in 0 .. Len(lines)
  BY <1>1, FirstOfNumbers
<1> DEFINE delimiters == {i \in DOMAIN lines : lines[i].sees = "delimiter"}
           signoffs == {i \in DOMAIN lines : i > Len(lines) - 6 /\ lines[i].sees = "signoff"}
           notices == {i \in DOMAIN lines : lines[i].sees = "disclaimer"}
<1>3. /\ FindDisclaimerStart(lines) = FirstOf(notices)
      /\ FindSignatureStart(lines) = FirstOf(IF delimiters # {} THEN delimiters ELSE signoffs)
  BY DEF FindDisclaimerStart, FindSignatureStart
<1>4. {delimiters, signoffs, notices} \subseteq SUBSET (1 .. Len(lines))
  BY <1>1
<1> HIDE DEF delimiters, signoffs, notices
<1> QED  BY <1>2, <1>3, <1>4

LEMMA QuoteStartIsFirst ==
  ASSUME NEW S, NEW text \in Seq(S)
  PROVE  LET quote == FindQuoteStart(text)
         IN  \/ quote = 0 /\ \A i \in 1 .. Len(text) : ~StartsQuote(text, i)
             \/ /\ quote \in 1 .. Len(text) /\ StartsQuote(text, quote)
                /\ \A i \in 1 .. quote - 1 : ~StartsQuote(text, i)
<1> DEFINE T == {i \in DOMAIN text : StartsQuote(text, i)}
<1>1. Len(text) \in Nat /\ DOMAIN text = 1 .. Len(text)
  BY LenProperties
<1>2. T \in SUBSET (1 .. Len(text)) /\ FindQuoteStart(text) = FirstOf(T)
  BY <1>1 DEF FindQuoteStart
<1>3. \/ FirstOf(T) = 0 /\ T = {}
      \/ FirstOf(T) \in T /\ FirstOf(T) \in 1 .. Len(text) /\ \A y \in T : FirstOf(T) <= y
  <2> HIDE DEF T
  <2> QED  BY <1>1, <1>2, FirstOfNumbers
<1>4. CASE FirstOf(T) = 0 /\ T = {}
  BY <1>1, <1>2, <1>4
<1>5. CASE FirstOf(T) \in T /\ FirstOf(T) \in 1 .. Len(text) /\ \A y \in T : FirstOf(T) <= y
  <2>1. ASSUME NEW i \in 1 .. FirstOf(T) - 1 PROVE i \in 1 .. Len(text) /\ i \notin T
    <3> HIDE DEF T
    <3>1. i \in 1 .. Len(text) /\ ~(FirstOf(T) <= i)
      BY <1>1, <1>5
    <3> QED  BY <1>5, <3>1
  <2> QED  BY <1>1, <1>2, <1>5, <2>1
<1> QED  BY <1>3, <1>4, <1>5

\* segment_email_body (rag/email_segmentation.py): whatever stands in a mail, however its
\* reply markers, disclaimers and signatures are ordered, the four segments are passages
\* of it one after the other that leave out nothing but blank lines; history begins
\* at its first line, so none is indexed as authored text, signature or disclaimer;
\* and a mail in which signature or disclaimer would take everything, but which quotes
\* nothing, stays authored.
THEOREM SegmentsAreWhole ==
  ASSUME NEW S, NEW text \in Seq(S)
  PROVE  IsWhole(text, SegmentText(text))
<1> DEFINE end == Len(text) + 1
           q0 == FindQuoteStart(text)
           quote == IF q0 = 0 THEN end ELSE q0
           head == Until(text, q0)
           n0 == FindDisclaimerStart(head)
           notice == IF n0 = 0 THEN quote ELSE n0
           rest == Until(head, n0)
           s0 == FindSignatureStart(rest)
           signature == IF s0 = 0 THEN notice ELSE s0
           own == Strip(Until(rest, s0))
           quoted == Onward(text, q0)
           s == SegmentText(text)
<1>1. Len(text) \in Nat /\ SubSeq(text, 1, Len(text)) = text
  BY LenProperties, SubSeqFull
<1>2. s = IF Restores(own, q0)
            THEN [authored |-> text, signature |-> << >>, disclaimer |-> << >>, quoted |-> quoted]
          ELSE [authored |-> own, signature |-> Onward(rest, s0),
                disclaimer |-> Onward(head, n0), quoted |-> quoted]
  BY DEF SegmentText
<1> HIDE DEF s
<1>3. /\ q0 \in 0 .. Len(text)
      /\ \A i \in 1 .. quote - 1 : ~StartsQuote(text, i)
      /\ quote \in DOMAIN text => StartsQuote(text, quote)
  <2>1. DOMAIN text = 1 .. Len(text)
    BY LenProperties
  <2> HIDE DEF q0
  <2> QED  BY <1>1, <2>1, QuoteStartIsFirst DEF q0
<1> HIDE DEF q0
<1>4. /\ head = SubSeq(text, 1, quote - 1) /\ quote \in 1 .. end
      /\ Passage(text, quote, Len(text), quoted)
  <2>1. Len(text) \in 0 .. Len(text) /\ text = SubSeq(text, 1, Len(text))
    BY <1>1
  <2>2. (q0 = 0 => quote = Len(text) + 1) /\ (q0 # 0 => quote = q0)
    OBVIOUS
  <2> HIDE DEF quote
  <2> QED  BY <1>3, <2>1, <2>2, CutAt
<1>5. /\ n0 \in 0 .. quote - 1
      /\ rest = SubSeq(text, 1, notice - 1) /\ notice \in 1 .. quote
      /\ Passage(text, notice, quote - 1, Onward(head, n0))
  <2> HIDE DEF head, quote
  <2>1. head \in Seq(S) /\ Len(head) = quote - 1 /\ quote - 1 \in 0 .. Len(text)
    BY <1>1, <1>4, PartOfText
  <2>2. n0 \in 0 .. quote - 1
    BY <2>1, FindsAreIn
  <2> DEFINE m == quote - 1
  <2>3. (n0 = 0 => notice = m + 1) /\ (n0 # 0 => notice = n0) /\ m + 1 = quote
    BY <1>1, <1>4
  <2> HIDE DEF n0, notice
  <2>4. m \in 0 .. Len(text) /\ n0 \in 0 .. m /\ head = SubSeq(text, 1, m)
    BY <1>4, <2>1, <2>2
  <2> HIDE DEF m, rest, own
  <2>5. rest = Until(head, n0)
    BY DEF rest
  <2>6. notice \in 1 .. m + 1 /\ rest = SubSeq(text, 1, notice - 1) /\ Passage(text, notice, m, Onward(head, n0))
    <3>1. \A lines, c : lines = SubSeq(text, 1, m) /\ (n0 = 0 => c = m + 1) /\ (n0 # 0 => c = n0)
            => c \in 1 .. m + 1 /\ Until(lines, n0) = SubSeq(text, 1, c - 1)
      BY <2>4, CutAt
    <3>2. \A lines, c : lines = SubSeq(text, 1, m) /\ (n0 = 0 => c = m + 1) /\ (n0 # 0 => c = n0)
            => Passage(text, c, m, Onward(lines, n0))
      BY <2>4, CutAt
    <3> QED  BY <2>3, <2>4, <2>5, <3>1, <3>2
  <2> QED  BY <2>2, <2>3, <2>6 DEF m
<1> HIDE DEF n0
<1>6. /\ s0 \in 0 .. notice - 1
      /\ Until(rest, s0) = SubSeq(text, 1, signature - 1) /\ signature \in 1 .. notice
      /\ Passage(text, signature, notice - 1, Onward(rest, s0))
  <2> HIDE DEF rest, notice, quote
  <2>1. rest \in Seq(S) /\ Len(rest) = notice - 1 /\ notice - 1 \in 0 .. Len(text)
    BY <1>1, <1>4, <1>5, PartOfText
  <2>2. s0 \in 0 .. notice - 1
    BY <2>1, FindsAreIn
  <2> DEFINE m == notice - 1
  <2>3. (s0 = 0 => signature = m + 1) /\ (s0 # 0 => signature = s0) /\ m + 1 = notice
    BY <1>1, <1>4, <1>5
  <2> HIDE DEF s0, signature
  <2>4. m \in 0 .. Len(text) /\ s0 \in 0 .. m /\ rest = SubSeq(text, 1, m)
    BY <1>5, <2>1, <2>2
  <2> HIDE DEF m
  <2>5. /\ signature \in 1 .. m + 1 /\ Until(rest, s0) = SubSeq(text, 1, signature - 1)
        /\ Passage(text, signature, m, Onward(rest, s0))
    <3>1. \A lines, c : lines = SubSeq(text, 1, m) /\ (s0 = 0 => c = m + 1) /\ (s0 # 0 => c = s0)
            => c \in 1 .. m + 1 /\ Until(lines, s0) = SubSeq(text, 1, c - 1)
      BY <2>4, CutAt
    <3>2. \A lines, c : lines = SubSeq(text, 1, m) /\ (s0 = 0 => c = m + 1) /\ (s0 # 0 => c = s0)
            => Passage(text, c, m, Onward(lines, s0))
      BY <2>4, CutAt
    <3> QED  BY <2>3, <2>4, <3>1, <3>2
  <2> QED  BY <2>2, <2>3, <2>5 DEF m
<1>7. Passage(text, 1, signature - 1, own)
  <2> HIDE DEF signature, notice, quote, s0, rest
  <2>1. signature - 1 \in 0 .. Len(text)
    BY <1>1, <1>4, <1>5, <1>6
  <2>2. Until(rest, s0) \in Seq(S) /\ Len(Until(rest, s0)) = signature - 1
    BY <1>6, <2>1, PartOfText
  <2>3. Passage(SubSeq(text, 1, signature - 1), 1, signature - 1, own)
    BY <1>6, <2>2, StripIsPassage
  <2>4. (signature - 1) - 1 + 1 = signature - 1
    BY <2>1
  <2> QED  BY <2>1, <2>3, <2>4, PassageOfPart
<1> HIDE DEF signature, notice, quote, own, quoted, head, rest, s0
<1>8. /\ signature \in 1 .. end /\ notice \in signature .. end /\ quote \in notice .. end
  BY <1>1, <1>4, <1>5, <1>6
<1>9. CASE ~Restores(own, q0)
  <2>1. /\ s.authored = own /\ s.signature = Onward(rest, s0)
        /\ s.disclaimer = Onward(head, n0) /\ s.quoted = quoted
    BY <1>2, <1>9
  <2>2. own = << >> => q0 # 0
    BY <1>9 DEF Restores
  <2>3. own = << >> /\ quote = end => FALSE
    BY <1>1, <1>3, <2>2 DEF quote
  <2> QED  BY <1>3, <1>4, <1>5, <1>6, <1>7, <1>8, <2>1, <2>3 DEF IsWhole, s
<1>10. CASE Restores(own, q0)
  <2>1. /\ s.authored = text /\ s.signature = << >>
        /\ s.disclaimer = << >> /\ s.quoted = quoted
    BY <1>2, <1>10
  <2>2. q0 = 0 /\ quote = end
    BY <1>10 DEF Restores, quote
  <2>3. Passage(text, 1, end - 1, text)
    <3>1. 1 \in 1 .. (end - 1) + 1 /\ Len(text) \in 1 - 1 .. end - 1 /\ \A i \in 1 .. end - 1 : i \in 1 .. Len(text)
      BY <1>1
    <3> QED  BY <1>1, <3>1 DEF Passage
  <2>4. Passage(text, end, end - 1, << >>)
    <3>1. SubSeq(text, end, end - 1) = << >>
      BY <1>1, SubSeqEmpty
    <3>2. end \in end .. (end - 1) + 1 /\ end - 1 \in end - 1 .. end - 1 /\ end .. end - 1 = {}
      BY <1>1
    <3> QED  BY <3>1, <3>2 DEF Passage
  <2>5. end \in 1 .. end /\ end \in end .. end
    BY <1>1
  <2>6. Passage(text, end, Len(text), quoted)
    BY <1>4, <2>2
  <2> HIDE DEF end
  <2> QED  BY <1>3, <2>1, <2>2, <2>3, <2>4, <2>5, <2>6 DEF IsWhole, s, end
<1> QED  BY <1>9, <1>10
-----------------------------------------------------------------------------
(* Ranked lists: what a search returns, and the rank of what is in it.       *)

\* r has all that has a key, highest key first and lower id first among equals.
Ranked(r, key) ==
  LET n == Cardinality(DOMAIN key)
  IN  /\ n \in Nat /\ r \in [1 .. n -> DOMAIN key]
      /\ \A x \in DOMAIN key : \E k \in 1 .. n : r[k] = x
      /\ \A i, j \in 1 .. n : i < j =>
           key[r[i]] > key[r[j]] \/ (key[r[i]] = key[r[j]] /\ r[i] < r[j])

LEMMA OrderedIsRanked ==
  ASSUME NEW Ids \in SUBSET Int, IsFiniteSet(Ids), NEW key \in [Ids -> Int]
  PROVE  Ranked(Ordered(key), key)
<1> DEFINE keyed == {<<key[c], c>> : c \in DOMAIN key}
           R == {p \in keyed \X keyed : p[1][1] > p[2][1] \/ (p[1][1] = p[2][1] /\ p[1][2] < p[2][2])}
           order == InOrder(keyed, R)
           n == Cardinality(Ids)
           r == Ordered(key)
<1>1. DOMAIN key = Ids /\ \A c \in Ids : c \in Int /\ key[c] \in Int
  OBVIOUS
<1>2. r = [k \in DOMAIN order |-> order[k][2]]
  BY DEF Ordered
<1>3. \A x \in keyed : x[2] \in Ids /\ x[1] = key[x[2]] /\ x = <<x[1], x[2]>> /\ x[1] \in Int /\ x[2] \in Int
  BY <1>1
<1>4. \A x, y \in keyed : <<x, y>> \in R <=> x[1] > y[1] \/ (x[1] = y[1] /\ x[2] < y[2])
  OBVIOUS
<1>5. \A c \in Ids : <<key[c], c>> \in keyed
  BY <1>1
<1>6. IsFiniteSet(keyed) /\ Cardinality(keyed) = n
  <2> DEFINE g == [c \in Ids |-> <<key[c], c>>]
  <2>1. \A c \in Ids : g[c] = <<key[c], c>> /\ g[c] \in keyed /\ g[c][2] = c
    BY <1>5
  <2>2. g \in [Ids -> keyed]
    <3> HIDE DEF keyed
    <3> QED  BY <1>5
  <2> HIDE DEF g, keyed
  <2>3. \A x \in keyed : x[2] \in Ids /\ g[x[2]] = x
    BY <1>3, <2>1
  <2>4. IsInjective(g)
    BY <2>1, <2>2 DEF IsInjective
  <2>5. g \in Bijection(Ids, keyed)
    BY <2>2, <2>3, <2>4 DEF Bijection, Injection, Surjection
  <2>6. ExistsBijection(Ids, keyed)
    BY <2>5 DEF ExistsBijection
  <2> QED  BY <2>6, FS_Bijection
<1> HIDE DEF keyed, R, order, r
<1>7. StrictOrder(keyed, R)
  <2>1. \A x, y \in keyed : x = y \/ <<x, y>> \in R \/ <<y, x>> \in R
    <3> TAKE x \in keyed, y \in keyed
    <3>1. x[1] > y[1] \/ y[1] > x[1] \/ (x[1] = y[1] /\ (x[2] < y[2] \/ y[2] < x[2] \/ x[2] = y[2]))
      BY <1>3
    <3>2. x[1] = y[1] /\ x[2] = y[2] => x = y
      BY <1>3
    <3> QED  BY <1>4, <3>1, <3>2
  <2>2. \A x \in keyed : <<x, x>> \notin R
    BY <1>3, <1>4
  <2>3. ASSUME NEW x \in keyed, NEW y \in keyed, NEW z \in keyed, <<x, y>> \in R, <<y, z>> \in R
        PROVE  <<x, z>> \in R
    <3> DEFINE x1 == x[1] x2 == x[2] y1 == y[1] y2 == y[2] z1 == z[1] z2 == z[2]
    <3>1. /\ x1 \in Int /\ x2 \in Int /\ y1 \in Int /\ y2 \in Int /\ z1 \in Int /\ z2 \in Int
          /\ x1 > y1 \/ (x1 = y1 /\ x2 < y2)
          /\ y1 > z1 \/ (y1 = z1 /\ y2 < z2)
      BY <1>3, <1>4, <2>3
    <3> HIDE DEF x1, x2, y1, y2, z1, z2
    <3>2. x1 > z1 \/ (x1 = z1 /\ x2 < z2)
      BY <3>1
    <3> QED  BY <1>4, <3>2 DEF x1, x2, z1, z2
  <2> QED  BY <2>1, <2>2, <2>3 DEF StrictOrder
<1>8. Lists(order, keyed, R)
  BY <1>6, <1>7, InOrderLists DEF order
<1>9. /\ n \in Nat /\ order \in [1 .. n -> keyed]
      /\ \A x \in keyed : \E k \in 1 .. n : order[k] = x
      /\ \A i, j \in 1 .. n : i < j => <<order[i], order[j]>> \in R
  BY <1>6, <1>8 DEF Lists
<1>10. /\ DOMAIN order = 1 .. n
       /\ \A k \in 1 .. n : r[k] = order[k][2] /\ r[k] \in Ids /\ order[k][1] = key[r[k]]
  BY <1>2, <1>3, <1>9
<1>11. r \in [1 .. n -> Ids]
  <2>1. \A k \in 1 .. n : order[k][2] \in Ids
    BY <1>3, <1>9
  <2> QED  BY <1>2, <1>10, <2>1
<1>12. ASSUME NEW c \in Ids PROVE \E k \in 1 .. n : r[k] = c
  <2>1. <<key[c], c>> \in keyed /\ <<key[c], c>>[2] = c
    BY <1>5
  <2>2. PICK k \in 1 .. n : order[k] = <<key[c], c>>
    BY <1>9, <2>1
  <2> QED  BY <1>10, <2>1, <2>2
<1>13. ASSUME NEW i \in 1 .. n, NEW j \in 1 .. n, i < j
       PROVE  key[r[i]] > key[r[j]] \/ (key[r[i]] = key[r[j]] /\ r[i] < r[j])
  <2>1. order[i] \in keyed /\ order[j] \in keyed /\ <<order[i], order[j]>> \in R
    BY <1>9, <1>13
  <2> QED  BY <1>4, <1>10, <2>1
<1> QED  BY <1>1, <1>9, <1>11, <1>12, <1>13 DEF Ranked, r

LEMMA RankedIsSeq ==
  ASSUME NEW Ids \in SUBSET Int, NEW key \in [Ids -> Int], NEW r, Ranked(r, key)
  PROVE  /\ r \in Seq(Ids) /\ Len(r) = Cardinality(Ids) /\ Cardinality(Ids) \in Nat
         /\ DOMAIN r = 1 .. Cardinality(Ids)
         /\ IsInjective(r) /\ ToSet(r) = Ids
         /\ \A i, j \in DOMAIN r : i < j => key[r[i]] >= key[r[j]]
<1> DEFINE n == Cardinality(Ids)
<1>1. DOMAIN key = Ids /\ \A c \in Ids : c \in Int /\ key[c] \in Int
  OBVIOUS
<1>2. /\ n \in Nat /\ r \in [1 .. n -> Ids]
      /\ \A x \in Ids : \E k \in 1 .. n : r[k] = x
      /\ \A i, j \in 1 .. n : i < j =>
           key[r[i]] > key[r[j]] \/ (key[r[i]] = key[r[j]] /\ r[i] < r[j])
  BY <1>1 DEF Ranked
<1> HIDE DEF n
<1>3. r \in Seq(Ids)
  BY <1>2, SeqDef
<1>4. DOMAIN r = 1 .. n /\ Len(r) = n
  <2>1. DOMAIN r = 1 .. n
    BY <1>2
  <2> QED  BY <1>2, <1>3, <2>1, LenProperties
<1>5. \A k \in 1 .. n : r[k] \in Ids /\ r[k] \in Int /\ key[r[k]] \in Int
  BY <1>1, <1>2
<1>6. ASSUME NEW i \in 1 .. n, NEW j \in 1 .. n, i < j PROVE key[r[i]] >= key[r[j]] /\ r[i] # r[j]
  <2> DEFINE x == r[i] y == r[j] kx == key[r[i]] ky == key[r[j]]
  <2>1. x \in Int /\ y \in Int /\ kx \in Int /\ ky \in Int
    BY <1>5
  <2>2. kx > ky \/ (kx = ky /\ x < y)
    BY <1>2, <1>6
  <2>3. x = y => kx = ky
    OBVIOUS
  <2> HIDE DEF x, y, kx, ky
  <2>4. kx >= ky /\ x # y
    BY <2>1, <2>2, <2>3
  <2> QED  BY <2>4 DEF x, y, kx, ky
<1>7. IsInjective(r)
  <2>1. ASSUME NEW i \in 1 .. n, NEW j \in 1 .. n, r[i] = r[j] PROVE i = j
    <3>1. ~(i < j) /\ ~(j < i)
      BY <1>6, <2>1
    <3>2. i \in Int /\ j \in Int
      BY <1>2
    <3> QED  BY <3>1, <3>2
  <2> QED  BY <1>4, <2>1 DEF IsInjective
<1>8. ToSet(r) = Ids
  <2>1. ToSet(r) = {r[k] : k \in 1 .. n}
    BY <1>4 DEF ToSet
  <2>2. \A k \in 1 .. n : r[k] \in Ids
    BY <1>5
  <2>3. \A x \in Ids : \E k \in 1 .. n : r[k] = x
    BY <1>2
  <2> QED  BY <2>1, <2>2, <2>3
<1> QED  BY <1>2, <1>3, <1>4, <1>6, <1>7, <1>8 DEF n

LEMMA TopIs ==
  ASSUME NEW S, NEW s \in Seq(S), NEW n \in Nat
  PROVE  /\ Top(s, n) \in Seq(S)
         /\ Len(Top(s, n)) = (IF n < Len(s) THEN n ELSE Len(s))
         /\ DOMAIN Top(s, n) = 1 .. Len(Top(s, n))
         /\ \A i \in 1 .. Len(Top(s, n)) : i \in DOMAIN s /\ Top(s, n)[i] = s[i]
         /\ ToSet(Top(s, n)) \subseteq ToSet(s)
<1> DEFINE m == IF n < Len(s) THEN n ELSE Len(s)
           t == Top(s, n)
<1>1. Len(s) \in Nat /\ DOMAIN s = 1 .. Len(s)
  BY LenProperties
<1>2. m \in 0 .. Len(s) /\ t = SubSeq(s, 1, m)
  BY <1>1 DEF Top
<1> HIDE DEF m, t
<1>3. t \in Seq(S) /\ Len(t) = m /\ \A i \in 1 .. m : t[i] = s[i]
  <2>1. m \in Int /\ 1 <= m + 1 /\ m <= Len(s) /\ m - 1 + 1 = m /\ \A i \in 1 .. m : 1 + i - 1 = i
    BY <1>1, <1>2
  <2>2. SubSeq(s, 1, m) \in Seq(S) /\ Len(SubSeq(s, 1, m)) = m /\ \A i \in 1 .. m : SubSeq(s, 1, m)[i] = s[1 + i - 1]
    BY <2>1, PartOfText
  <2> QED  BY <1>2, <2>1, <2>2
<1>4. DOMAIN t = 1 .. m
  BY <1>3, LenProperties
<1>5. \A i \in 1 .. m : i \in DOMAIN s
  BY <1>1, <1>2
<1>6. ToSet(t) \subseteq ToSet(s)
  BY <1>3, <1>4, <1>5 DEF ToSet
<1> QED  BY <1>3, <1>4, <1>5, <1>6 DEF m, t

LEMMA RankIs ==
  ASSUME NEW S, NEW s \in Seq(S), NEW x
  PROVE  \/ Rank(s, x) = 0 /\ x \notin ToSet(s)
         \/ Rank(s, x) \in 1 .. Len(s) /\ s[Rank(s, x)] = x /\ \A i \in 1 .. Rank(s, x) - 1 : s[i] # x
<1> DEFINE at == {i \in DOMAIN s : s[i] = x}
<1>1. Len(s) \in Nat /\ DOMAIN s = 1 .. Len(s)
  BY LenProperties
<1>2. Rank(s, x) = IF at = {} THEN 0 ELSE Min(at)
  BY DEF Rank
<1>3. at \in SUBSET Nat
  BY <1>1
<1>4. CASE at = {}
  BY <1>2, <1>4 DEF ToSet
<1>5. CASE at # {}
  <2> DEFINE k == Rank(s, x)
  <2>1. k \in at /\ \A y \in at : k <= y
    <3> HIDE DEF at
    <3>1. Min(at) \in at /\ \A y \in at : Min(at) <= y
      BY <1>3, <1>5, MinOfNumbers
    <3>2. Rank(s, x) = Min(at)
      BY <1>2, <1>5
    <3> QED  BY <3>1, <3>2
  <2>2. ASSUME NEW i \in 1 .. k - 1 PROVE s[i] # x
    <3>1. i \in 1 .. Len(s) /\ ~(k <= i)
      BY <1>1, <2>1
    <3> QED  BY <1>1, <2>1, <3>1
  <2> QED  BY <1>1, <2>1, <2>2
<1> QED  BY <1>4, <1>5

\* In a list without duplicates, the rank is the place.
LEMMA RankIsPlace ==
  ASSUME NEW S, NEW s \in Seq(S), IsInjective(s), NEW i \in DOMAIN s
  PROVE  Rank(s, s[i]) = i
<1>1. Len(s) \in Nat /\ DOMAIN s = 1 .. Len(s)
  BY LenProperties
<1>2. s[i] \in ToSet(s)
  BY DEF ToSet
<1>3. Rank(s, s[i]) \in DOMAIN s /\ s[Rank(s, s[i])] = s[i]
  BY <1>1, <1>2, RankIs
<1> QED  BY <1>3 DEF IsInjective

-----------------------------------------------------------------------------
(* Scores of fusion: the higher the rank, the smaller the part of a branch.  *)

LEMMA MaxOfFinite ==
  ASSUME NEW T \in SUBSET Int, IsFiniteSet(T), T # {}
  PROVE  Max(T) \in T /\ \A y \in T : y <= Max(T)
<1> DEFINE f == Increasing(T)
           n == Cardinality(T)
<1>1. /\ n \in Nat /\ f \in [1 .. n -> T]
      /\ \A x \in T : \E k \in 1 .. n : f[k] = x
      /\ \A i, j \in 1 .. n : i < j => f[i] < f[j]
  BY FiniteAscends, FS_CardinalityType DEF Ascends
<1> HIDE DEF f, n
<1>2. n \in 1 .. n
  <2>1. PICK x \in T : TRUE
    OBVIOUS
  <2>2. PICK k \in 1 .. n : f[k] = x
    BY <1>1, <2>1
  <2> QED  BY <1>1, <2>2
<1>3. f[n] \in T
  BY <1>1, <1>2
<1>4. ASSUME NEW y \in T PROVE y <= f[n]
  <2>1. PICK k \in 1 .. n : f[k] = y
    BY <1>1
  <2>2. k < n \/ k = n
    BY <1>1
  <2>3. f[k] \in Int /\ f[n] \in Int
    BY <1>1, <1>2
  <2> QED  BY <1>1, <1>2, <2>1, <2>2, <2>3
<1> QED  BY <1>3, <1>4 DEF Max

LEMMA MinOfFinite ==
  ASSUME NEW T \in SUBSET Int, IsFiniteSet(T), T # {}
  PROVE  Min(T) \in T /\ \A y \in T : Min(T) <= y
<1> DEFINE f == Increasing(T)
           n == Cardinality(T)
<1>1. /\ n \in Nat /\ f \in [1 .. n -> T]
      /\ \A x \in T : \E k \in 1 .. n : f[k] = x
      /\ \A i, j \in 1 .. n : i < j => f[i] < f[j]
  BY FiniteAscends, FS_CardinalityType DEF Ascends
<1> HIDE DEF f, n
<1>2. 1 \in 1 .. n
  <2>1. PICK x \in T : TRUE
    OBVIOUS
  <2>2. PICK k \in 1 .. n : f[k] = x
    BY <1>1, <2>1
  <2> QED  BY <1>1, <2>2
<1>3. f[1] \in T
  BY <1>1, <1>2
<1>4. ASSUME NEW y \in T PROVE f[1] <= y
  <2>1. PICK k \in 1 .. n : f[k] = y
    BY <1>1
  <2>2. 1 < k \/ k = 1
    BY <1>1
  <2>3. f[k] \in Int /\ f[1] \in Int
    BY <1>1, <1>2
  <2> QED  BY <1>1, <1>2, <2>1, <2>2, <2>3
<1> QED  BY <1>3, <1>4 DEF Min

LEMMA ImageIsFinite ==
  ASSUME NEW D, IsFiniteSet(D), NEW f, DOMAIN f = D
  PROVE  IsFiniteSet({f[x] : x \in D})
<1> DEFINE T == {f[x] : x \in D}
           g == [x \in D |-> f[x]]
<1>1. g \in [D -> T] /\ \A t \in T : \E x \in D : g[x] = t
  OBVIOUS
<1>2. g \in Surjection(D, T)
  <2> HIDE DEF g, T
  <2> QED  BY <1>1 DEF Surjection
<1> QED  BY <1>2, FS_Surjection

\* f multiplies K + 1 .. K + n.
IsProduct(f, n) == f = [i \in 0 .. n |-> IF i = 0 THEN 1 ELSE f[i - 1] * (K + i)]

LEMMA ProductExists ==
  ASSUME NEW n \in Nat
  PROVE  \E f : IsProduct(f, n)
<1> DEFINE T == {m \in 1 .. n : ~\E f : IsProduct(f, m)}
<1>0. \E f : IsProduct(f, 0)
  <2> DEFINE one == [i \in 0 .. 0 |-> 1]
  <2>1. \A i \in 0 .. 0 : one[i] = IF i = 0 THEN 1 ELSE one[i - 1] * (K + i)
    OBVIOUS
  <2>2. one = [i \in 0 .. 0 |-> IF i = 0 THEN 1 ELSE one[i - 1] * (K + i)]
    BY <2>1
  <2> HIDE DEF one
  <2> QED  BY <2>2 DEF IsProduct
<1>1. CASE T = {}
  BY <1>0, <1>1
<1>2. CASE T # {}
  <2>1. PICK m \in T : m \in 1 .. n /\ (m # 1 => m - 1 \in 1 .. n /\ m - 1 \notin T)
    <3> HIDE DEF T
    <3>1. T \in SUBSET (1 .. n)
      BY DEF T
    <3> QED  BY <1>2, <3>1, LeastCounterexample
  <2>2. m \in Nat \ {0} /\ m - 1 \in Nat
    BY <2>1
  <2>3. PICK f : IsProduct(f, m - 1)
    BY <1>0, <2>1, <2>2
  <2> DEFINE longer == [i \in 0 .. m |-> IF i < m THEN f[i] ELSE f[m - 1] * (K + m)]
  <2>4. ASSUME NEW i \in 0 .. m PROVE longer[i] = IF i = 0 THEN 1 ELSE longer[i - 1] * (K + i)
    <3>1. \A k \in 0 .. m - 1 : f[k] = IF k = 0 THEN 1 ELSE f[k - 1] * (K + k)
      BY <2>3 DEF IsProduct
    <3>2. CASE i < m
      <4>1. i \in 0 .. m - 1 /\ longer[i] = f[i] /\ (i # 0 => i - 1 \in 0 .. m /\ i - 1 < m)
        BY <2>2, <3>2
      <4>2. i # 0 => longer[i - 1] = f[i - 1]
        BY <4>1
      <4> HIDE DEF longer
      <4> QED  BY <3>1, <4>1, <4>2
    <3>3. CASE ~(i < m)
      <4>1. i = m /\ m # 0 /\ m - 1 \in 0 .. m /\ m - 1 < m
        BY <2>2, <3>3
      <4>2. longer[m] = f[m - 1] * (K + m) /\ longer[m - 1] = f[m - 1]
        BY <2>2, <4>1
      <4> HIDE DEF longer
      <4> QED  BY <4>1, <4>2
    <3> QED  BY <3>2, <3>3
  <2>5. longer = [i \in 0 .. m |-> IF i = 0 THEN 1 ELSE longer[i - 1] * (K + i)]
    <3>1. longer = [i \in 0 .. m |-> longer[i]]
      OBVIOUS
    <3> HIDE DEF longer
    <3> QED  BY <2>4, <3>1
  <2> HIDE DEF longer
  <2>6. IsProduct(longer, m)
    BY <2>5 DEF IsProduct
  <2> QED  BY <2>1, <2>6
<1> QED  BY <1>1, <1>2

LEMMA Positive ==
  ASSUME NEW a \in Nat \ {0}, NEW b \in Nat \ {0}
  PROVE  a * b \in Nat \ {0}
OBVIOUS

LEMMA Swapped ==
  ASSUME NEW a \in Nat, NEW b \in Nat, NEW c \in Nat
  PROVE  (a * b) * c = (a * c) * b
OBVIOUS

\* The unit of n branches is a multiple of what every rank divides it by.
LEMMA UnitIs ==
  ASSUME NEW n \in Nat
  PROVE  /\ Unit(n) \in Nat \ {0}
         /\ \A i \in 1 .. n : \E d \in Nat \ {0} : Unit(n) = d * (K + i)
<1> DEFINE product == CHOOSE f : IsProduct(f, n)
           Multiple(m) == /\ product[m] \in Nat \ {0}
                          /\ \A i \in 1 .. m : \E d \in Nat \ {0} : product[m] = d * (K + i)
           T == {m \in 1 .. n : ~Multiple(m)}
<1>1. IsProduct(product, n)
  BY ProductExists
<1>2. Unit(n) = product[n]
  BY DEF Unit, IsProduct
<1>3. \A i \in 0 .. n : product[i] = IF i = 0 THEN 1 ELSE product[i - 1] * (K + i)
  BY <1>1 DEF IsProduct
<1> HIDE DEF product
<1>4. Multiple(0)
  BY <1>3
<1>5. CASE T = {}
  BY <1>2, <1>4, <1>5
<1>6. CASE T # {}
  <2>1. PICK m \in T : m \in 1 .. n /\ (m # 1 => m - 1 \in 1 .. n /\ m - 1 \notin T)
    <3> HIDE DEF T
    <3>1. T \in SUBSET (1 .. n)
      BY DEF T
    <3> QED  BY <1>6, <3>1, LeastCounterexample
  <2>2. m \in Nat \ {0} /\ m - 1 \in Nat /\ m \in 0 .. n /\ Multiple(m - 1) /\ ~Multiple(m)
    BY <1>4, <2>1
  <2>3. product[m] = product[m - 1] * (K + m) /\ K + m \in Nat \ {0}
    BY <1>3, <2>2 DEF K
  <2>4. product[m - 1] \in Nat \ {0}
    BY <2>2
  <2>5. product[m] \in Nat \ {0}
    BY <2>3, <2>4, Positive
  <2>6. ASSUME NEW i \in 1 .. m PROVE \E d \in Nat \ {0} : product[m] = d * (K + i)
    <3>1. CASE i = m
      BY <2>3, <2>4, <3>1
    <3>2. CASE i # m
      <4>1. i \in 1 .. m - 1 /\ K + i \in Nat
        BY <2>2, <3>2 DEF K
      <4>2. PICK d \in Nat \ {0} : product[m - 1] = d * (K + i)
        BY <2>2, <4>1
      <4>3. d * (K + m) \in Nat \ {0}
        BY <2>3, Positive
      <4>4. (d * (K + i)) * (K + m) = (d * (K + m)) * (K + i)
        BY <2>3, <4>1, Swapped
      <4> QED  BY <2>3, <4>2, <4>3, <4>4
    <3> QED  BY <3>1, <3>2
  <2> QED  BY <2>2, <2>5, <2>6
<1> QED  BY <1>5, <1>6

LEMMA Falling ==
  ASSUME NEW c \in Nat \ {0}, NEW d \in Nat \ {0}, NEW a \in Nat, NEW b \in Nat, a < b, c * a = d * b
  PROVE  c > d
<1> SUFFICES ASSUME c <= d PROVE FALSE
  OBVIOUS
<1>1. c * a <= d * a
  OBVIOUS
<1>2. d * a < d * b
  OBVIOUS
<1> QED  BY <1>1, <1>2

\* What one place more costs.
LEMMA PartsFall ==
  ASSUME NEW n \in Nat
  PROVE  /\ \A i \in 1 .. n : Unit(n) \div (K + i) \in Nat \ {0}
         /\ \A i, j \in 1 .. n : i < j => Unit(n) \div (K + i) > Unit(n) \div (K + j)
<1> DEFINE u == Unit(n)
<1>1. u \in Nat \ {0} /\ \A i \in 1 .. n : \E d \in Nat \ {0} : u = d * (K + i)
  BY UnitIs
<1> HIDE DEF u
<1>2. ASSUME NEW i \in 1 .. n
      PROVE  u \div (K + i) \in Nat \ {0} /\ u = (u \div (K + i)) * (K + i) /\ K + i \in Nat \ {0}
  <2>1. PICK d \in Nat \ {0} : u = d * (K + i)
    BY <1>1
  <2> DEFINE k == K + i
  <2>2. k \in Nat \ {0} /\ u = d * k
    BY <2>1 DEF K
  <2> HIDE DEF k
  <2>3. (d * k) \div k = d
    BY <2>2
  <2> QED  BY <2>2, <2>3 DEF k
<1>3. ASSUME NEW i \in 1 .. n, NEW j \in 1 .. n, i < j PROVE u \div (K + i) > u \div (K + j)
  <2> DEFINE c == u \div (K + i)
             d == u \div (K + j)
             a == K + i
             b == K + j
  <2>1. c \in Nat \ {0} /\ d \in Nat \ {0} /\ a \in Nat /\ b \in Nat /\ c * a = d * b
    BY <1>2
  <2>2. a < b
    BY <1>3 DEF K
  <2> HIDE DEF a, b, c, d
  <2>3. c > d
    BY <2>1, <2>2, Falling
  <2> QED  BY <2>3 DEF c, d
<1> QED  BY <1>2, <1>3 DEF u

\* f adds up the first parts.
IsSum(f, parts, n) == f = [b \in 0 .. n |-> IF b = 0 THEN 0 ELSE f[b - 1] + parts[b]]

LEMMA SumExists ==
  ASSUME NEW n \in Nat, NEW parts
  PROVE  \E f : IsSum(f, parts, n)
<1> DEFINE T == {m \in 1 .. n : ~\E f : IsSum(f, parts, m)}
<1>0. \E f : IsSum(f, parts, 0)
  <2> DEFINE none == [i \in 0 .. 0 |-> 0]
  <2>1. \A i \in 0 .. 0 : none[i] = IF i = 0 THEN 0 ELSE none[i - 1] + parts[i]
    OBVIOUS
  <2>2. none = [i \in 0 .. 0 |-> IF i = 0 THEN 0 ELSE none[i - 1] + parts[i]]
    BY <2>1
  <2> HIDE DEF none
  <2> QED  BY <2>2 DEF IsSum
<1>1. CASE T = {}
  BY <1>0, <1>1
<1>2. CASE T # {}
  <2>1. PICK m \in T : m \in 1 .. n /\ (m # 1 => m - 1 \in 1 .. n /\ m - 1 \notin T)
    <3> HIDE DEF T
    <3>1. T \in SUBSET (1 .. n)
      BY DEF T
    <3> QED  BY <1>2, <3>1, LeastCounterexample
  <2>2. m \in Nat \ {0} /\ m - 1 \in Nat
    BY <2>1
  <2>3. PICK f : IsSum(f, parts, m - 1)
    BY <1>0, <2>1, <2>2
  <2> DEFINE longer == [i \in 0 .. m |-> IF i < m THEN f[i] ELSE f[m - 1] + parts[m]]
  <2>4. ASSUME NEW i \in 0 .. m PROVE longer[i] = IF i = 0 THEN 0 ELSE longer[i - 1] + parts[i]
    <3>1. \A k \in 0 .. m - 1 : f[k] = IF k = 0 THEN 0 ELSE f[k - 1] + parts[k]
      BY <2>3 DEF IsSum
    <3>2. CASE i < m
      <4>1. i \in 0 .. m - 1 /\ longer[i] = f[i] /\ (i # 0 => i - 1 \in 0 .. m /\ i - 1 < m)
        BY <2>2, <3>2
      <4>2. i # 0 => longer[i - 1] = f[i - 1]
        BY <4>1
      <4> HIDE DEF longer
      <4> QED  BY <3>1, <4>1, <4>2
    <3>3. CASE ~(i < m)
      <4>1. i = m /\ m # 0 /\ m - 1 \in 0 .. m /\ m - 1 < m
        BY <2>2, <3>3
      <4>2. longer[m] = f[m - 1] + parts[m] /\ longer[m - 1] = f[m - 1]
        BY <2>2, <4>1
      <4> HIDE DEF longer
      <4> QED  BY <4>1, <4>2
    <3> QED  BY <3>2, <3>3
  <2>5. longer = [i \in 0 .. m |-> IF i = 0 THEN 0 ELSE longer[i - 1] + parts[i]]
    <3>1. longer = [i \in 0 .. m |-> longer[i]]
      OBVIOUS
    <3> HIDE DEF longer
    <3> QED  BY <2>4, <3>1
  <2> HIDE DEF longer
  <2>6. IsSum(longer, parts, m)
    BY <2>5 DEF IsSum
  <2> QED  BY <2>1, <2>6
<1> QED  BY <1>1, <1>2

\* A sum of parts that are nowhere less and somewhere more is more.
LEMMA SumsCompare ==
  ASSUME NEW n \in Nat, NEW p \in [1 .. n -> Int], NEW q \in [1 .. n -> Int],
         \A b \in 1 .. n : p[b] >= q[b],
         NEW f, IsSum(f, p, n), NEW g, IsSum(g, q, n)
  PROVE  /\ f[n] \in Int /\ g[n] \in Int
         /\ (\E b \in 1 .. n : p[b] > q[b]) => f[n] > g[n]
<1> DEFINE More(m) == /\ f[m] \in Int /\ g[m] \in Int /\ f[m] >= g[m]
                      /\ (\E b \in 1 .. m : p[b] > q[b]) => f[m] > g[m]
           T == {m \in 1 .. n : ~More(m)}
<1>1. /\ \A b \in 0 .. n : f[b] = IF b = 0 THEN 0 ELSE f[b - 1] + p[b]
      /\ \A b \in 0 .. n : g[b] = IF b = 0 THEN 0 ELSE g[b - 1] + q[b]
  BY DEF IsSum
<1>2. More(0)
  <2>1. f[0] = 0 /\ g[0] = 0 /\ 1 .. 0 = {}
    BY <1>1
  <2> QED  BY <2>1
<1>3. CASE T = {}
  <2>1. n = 0 \/ n \in 1 .. n
    OBVIOUS
  <2> QED  BY <1>2, <1>3, <2>1
<1>4. CASE T # {}
  <2>1. PICK m \in T : m \in 1 .. n /\ (m # 1 => m - 1 \in 1 .. n /\ m - 1 \notin T)
    <3> HIDE DEF T
    <3>1. T \in SUBSET (1 .. n)
      BY DEF T
    <3> QED  BY <1>4, <3>1, LeastCounterexample
  <2>2. m \in Nat \ {0} /\ m - 1 \in Nat /\ m \in 0 .. n /\ More(m - 1) /\ ~More(m)
    BY <1>2, <2>1, SMTT(30)
  <2> DEFINE f0 == f[m - 1] g0 == g[m - 1] pm == p[m] qm == q[m]
  <2>3. f[m] = f0 + pm /\ g[m] = g0 + qm
    BY <1>1, <2>2
  <2>4. pm \in Int /\ qm \in Int /\ pm >= qm
    BY <2>1
  <2>5. f0 \in Int /\ g0 \in Int /\ f0 >= g0 /\ ((\E b \in 1 .. m - 1 : p[b] > q[b]) => f0 > g0)
    BY <2>2
  <2>6. (\E b \in 1 .. m : p[b] > q[b]) => pm > qm \/ f0 > g0
    <3>1. \A b \in 1 .. m : b = m \/ b \in 1 .. m - 1
      BY <2>2
    <3> QED  BY <2>5, <3>1
  <2> HIDE DEF f0, g0, pm, qm, T
  <2>7. f[m] \in Int /\ g[m] \in Int /\ f[m] >= g[m] /\ (pm > qm \/ f0 > g0 => f[m] > g[m])
    BY <2>3, <2>4, <2>5
  <2> QED  BY <2>2, <2>6, <2>7
<1> QED  BY <1>3, <1>4

Weighted(C) == [ids : Seq(C), weight : Nat \ {0}]

\* The part of a branch: none for a chunk it did not find, more for the one it puts first.
LEMMA PartIs ==
  ASSUME NEW C, NEW branches \in Seq(Weighted(C)), NEW b \in DOMAIN branches
  PROVE  LET ids == branches[b].ids
         IN  /\ \A c : RrfPart(branches, b, c) \in Nat
             /\ \A c, d : Rank(ids, d) # 0 /\ Rank(ids, c) # 0 /\ Rank(ids, c) < Rank(ids, d)
                            => RrfPart(branches, b, c) > RrfPart(branches, b, d)
             /\ \A d : Rank(ids, d) = 0 => RrfPart(branches, b, d) = 0
<1> DEFINE lens == [a \in DOMAIN branches |-> Len(branches[a].ids)]
           T == {Len(branches[a].ids) : a \in DOMAIN branches} \cup {1}
           n == Max(T)
           ids == branches[b].ids
           w == branches[b].weight
           u == Unit(n)
<1>1. /\ Len(branches) \in Nat /\ DOMAIN branches = 1 .. Len(branches)
      /\ \A a \in DOMAIN branches : branches[a].ids \in Seq(C) /\ branches[a].weight \in Nat \ {0}
  <2>1. Len(branches) \in Nat /\ DOMAIN branches = 1 .. Len(branches)
    BY LenProperties
  <2>2. \A a \in DOMAIN branches : branches[a] \in Weighted(C)
    BY <2>1, ElementOfSeq
  <2> QED  BY <2>1, <2>2 DEF Weighted
<1>2. \A a \in DOMAIN branches : Len(branches[a].ids) \in Nat
  BY <1>1, LenProperties
<1>3. IsFiniteSet(T) /\ T \in SUBSET Int /\ T # {} /\ 1 \in T /\ Len(ids) \in T
  <2>1. IsFiniteSet(DOMAIN branches)
    BY <1>1, FS_Interval
  <2>2. IsFiniteSet({lens[a] : a \in DOMAIN branches})
    BY <2>1, ImageIsFinite
  <2>3. {lens[a] : a \in DOMAIN branches} = {Len(branches[a].ids) : a \in DOMAIN branches}
    OBVIOUS
  <2>4. IsFiniteSet(T)
    BY <2>2, <2>3, FS_AddElement
  <2>5. T \in SUBSET Int
    BY <1>2
  <2> QED  BY <2>4, <2>5
<1>4. n \in Nat /\ Len(ids) <= n
  <2>1. n \in T /\ \A y \in T : y <= n
    <3> HIDE DEF T
    <3> QED  BY <1>3, MaxOfFinite
  <2> HIDE DEF n
  <2>2. n \in Int /\ 1 <= n /\ Len(ids) <= n
    BY <1>3, <2>1
  <2> QED  BY <2>2
<1>5. \A c : Rank(ids, c) = 0 \/ Rank(ids, c) \in 1 .. n
  <2>1. ids \in Seq(C) /\ Len(ids) \in Nat
    BY <1>1, <1>2
  <2>2. \A c : Rank(ids, c) = 0 \/ Rank(ids, c) \in 1 .. Len(ids)
    BY <2>1, RankIs
  <2> QED  BY <1>4, <2>1, <2>2
<1>6. \A c : RrfPart(branches, b, c) = IF Rank(ids, c) = 0 THEN 0 ELSE w * (u \div (K + Rank(ids, c)))
  BY DEF RrfPart
<1>7. w \in Nat \ {0}
  BY <1>1
<1>8. /\ \A i \in 1 .. n : u \div (K + i) \in Nat \ {0}
      /\ \A i, j \in 1 .. n : i < j => u \div (K + i) > u \div (K + j)
  BY <1>4, PartsFall
<1> HIDE DEF n, T, ids, w, u, lens
<1>9. ASSUME NEW c PROVE RrfPart(branches, b, c) \in Nat
  <2>1. CASE Rank(ids, c) = 0
    BY <1>6, <2>1
  <2>2. CASE Rank(ids, c) \in 1 .. n
    <3> DEFINE e == u \div (K + Rank(ids, c))
    <3>1. e \in Nat \ {0}
      BY <1>8, <2>2
    <3>2. RrfPart(branches, b, c) = w * e
      BY <1>6, <2>2
    <3> HIDE DEF e
    <3> QED  BY <1>7, <3>1, <3>2, Positive
  <2> QED  BY <1>5, <2>1, <2>2
<1>10. ASSUME NEW c, NEW d, Rank(ids, d) # 0, Rank(ids, c) # 0, Rank(ids, c) < Rank(ids, d)
       PROVE  RrfPart(branches, b, c) > RrfPart(branches, b, d)
  <2> DEFINE e == u \div (K + Rank(ids, c))
             f == u \div (K + Rank(ids, d))
  <2>1. Rank(ids, c) \in 1 .. n /\ Rank(ids, d) \in 1 .. n
    BY <1>5, <1>10
  <2>2. e \in Nat \ {0} /\ f \in Nat \ {0} /\ e > f
    BY <1>8, <1>10, <2>1
  <2>3. RrfPart(branches, b, c) = w * e /\ RrfPart(branches, b, d) = w * f
    BY <1>6, <1>10
  <2> HIDE DEF e, f
  <2>4. w * e > w * f
    BY <1>7, <2>2
  <2> QED  BY <2>3, <2>4
<1>11. \A d : Rank(ids, d) = 0 => RrfPart(branches, b, d) = 0
  BY <1>6
<1> QED  BY <1>9, <1>10, <1>11 DEF ids

LEMMA ScoreIsSum ==
  ASSUME NEW C, NEW branches \in Seq(Weighted(C)), NEW c
  PROVE  \E f : /\ IsSum(f, [b \in 1 .. Len(branches) |-> RrfPart(branches, b, c)], Len(branches))
                /\ RrfScore(branches, c) = f[Len(branches)]
<1> DEFINE n == Len(branches)
           parts == [b \in 1 .. n |-> RrfPart(branches, b, c)]
           Sums(f) == f = [b \in 0 .. n |-> IF b = 0 THEN 0 ELSE f[b - 1] + RrfPart(branches, b, c)]
           sum == CHOOSE f : Sums(f)
<1>1. n \in Nat
  BY LenProperties
<1>2. \A f : Sums(f) <=> IsSum(f, parts, n)
  <2> TAKE f
  <2>1. \A b \in 0 .. n : (IF b = 0 THEN 0 ELSE f[b - 1] + RrfPart(branches, b, c))
                            = (IF b = 0 THEN 0 ELSE f[b - 1] + parts[b])
    <3> TAKE b \in 0 .. n
    <3>1. b # 0 => b \in 1 .. n
      BY <1>1
    <3>2. b # 0 => parts[b] = RrfPart(branches, b, c)
      BY <3>1
    <3> HIDE DEF parts
    <3> QED  BY <3>2
  <2> DEFINE F == [b \in 0 .. n |-> IF b = 0 THEN 0 ELSE f[b - 1] + RrfPart(branches, b, c)]
             G == [b \in 0 .. n |-> IF b = 0 THEN 0 ELSE f[b - 1] + parts[b]]
  <2>2. F = G
    <3> HIDE DEF parts
    <3> QED  BY <2>1
  <2>3. (Sums(f) <=> f = F) /\ (IsSum(f, parts, n) <=> f = G)
    BY DEF IsSum
  <2> HIDE DEF F, G
  <2> QED  BY <2>2, <2>3
<1>3. \E f : Sums(f)
  <2> HIDE DEF Sums, parts, n
  <2> QED  BY <1>1, <1>2, SumExists
<1>4. Sums(sum)
  <2> HIDE DEF Sums
  <2> QED  BY <1>3
<1>5. RrfScore(branches, c) = sum[n]
  BY DEF RrfScore
<1> HIDE DEF Sums, sum
<1> QED  BY <1>2, <1>4, <1>5

\* A chunk that is found wherever another one is, and ahead of it, has a higher score.
LEMMA DominantScores ==
  ASSUME NEW C, NEW branches \in Seq(Weighted(C)), NEW c, NEW d,
         NEW lists, DOMAIN lists = DOMAIN branches, \A b \in DOMAIN branches : lists[b] = branches[b].ids
  PROVE  /\ RrfScore(branches, c) \in Int /\ RrfScore(branches, d) \in Int
         /\ Dominates(lists, c, d) => RrfScore(branches, c) > RrfScore(branches, d)
<1> DEFINE n == Len(branches)
           p == [b \in 1 .. n |-> RrfPart(branches, b, c)]
           q == [b \in 1 .. n |-> RrfPart(branches, b, d)]
<1>1. n \in Nat /\ DOMAIN branches = 1 .. n /\ \A b \in 1 .. n : lists[b] = branches[b].ids
  BY LenProperties
<1>2. PICK f : IsSum(f, p, n) /\ RrfScore(branches, c) = f[n]
  BY ScoreIsSum
<1>3. PICK g : IsSum(g, q, n) /\ RrfScore(branches, d) = g[n]
  BY ScoreIsSum
<1>4. \A b \in 1 .. n : p[b] = RrfPart(branches, b, c) /\ q[b] = RrfPart(branches, b, d)
  OBVIOUS
<1>5. \A b \in 1 .. n : RrfPart(branches, b, c) \in Nat /\ RrfPart(branches, b, d) \in Nat
  BY <1>1, PartIs
<1>6. p \in [1 .. n -> Int] /\ q \in [1 .. n -> Int]
  BY <1>5
<1> HIDE DEF p, q
<1>7. f[n] \in Int /\ g[n] \in Int
  <2>1. f[n] \in Int
    <3>1. \A b \in 1 .. n : p[b] >= p[b]
      BY <1>4, <1>5
    <3> QED  BY <1>1, <1>2, <1>6, <3>1, SumsCompare
  <2>2. g[n] \in Int
    <3>1. \A b \in 1 .. n : q[b] >= q[b]
      BY <1>4, <1>5
    <3> QED  BY <1>1, <1>3, <1>6, <3>1, SumsCompare
  <2> QED  BY <2>1, <2>2
<1>8. ASSUME Dominates(lists, c, d) PROVE f[n] > g[n]
  <2>1. DOMAIN lists = 1 .. n
    BY <1>1
  <2>2. /\ \A b \in 1 .. n : Rank(branches[b].ids, d) # 0 =>
             Rank(branches[b].ids, c) # 0 /\ Rank(branches[b].ids, c) < Rank(branches[b].ids, d)
        /\ \E b \in 1 .. n : Rank(branches[b].ids, d) # 0
    BY <1>1, <1>8, <2>1 DEF Dominates
  <2>3. ASSUME NEW b \in 1 .. n
        PROVE  p[b] >= q[b] /\ (Rank(branches[b].ids, d) # 0 => p[b] > q[b])
    <3>1. CASE Rank(branches[b].ids, d) = 0
      <4>1. q[b] = 0
        BY <1>1, <1>4, <3>1, PartIs
      <4>2. p[b] \in Nat
        BY <1>4, <1>5
      <4> QED  BY <3>1, <4>1, <4>2
    <3>2. CASE Rank(branches[b].ids, d) # 0
      <4>1. RrfPart(branches, b, c) > RrfPart(branches, b, d)
        BY <1>1, <2>2, <3>2, PartIs
      <4> QED  BY <1>4, <1>5, <4>1
    <3> QED  BY <3>1, <3>2
  <2>4. \E b \in 1 .. n : p[b] > q[b]
    BY <2>2, <2>3
  <2> QED  BY <1>1, <1>2, <1>3, <1>6, <2>3, <2>4, SumsCompare
<1> QED  BY <1>2, <1>3, <1>7, <1>8

-----------------------------------------------------------------------------
(* Fusion.                                                                 *)

\* A list of all that the branches found, best score first, keeps what they agree on.
LEMMA FusionKeeps ==
  ASSUME NEW C, NEW branches \in Seq(Weighted(C)), NEW w \in Seq(C), IsInjective(w),
         ToSet(w) = UNION {ToSet(branches[b].ids) : b \in DOMAIN branches},
         \A i, j \in DOMAIN w : i < j => RrfScore(branches, w[i]) >= RrfScore(branches, w[j]),
         NEW limit \in Nat, NEW found, found.fused = Top(w, limit),
         DOMAIN found.branches = DOMAIN branches,
         \A b \in DOMAIN branches : found.branches[b] = branches[b].ids
  PROVE  WellFused(found)
<1> DEFINE fused == Top(w, limit)
           m == Len(fused)
<1>1. /\ Len(w) \in Nat /\ DOMAIN w = 1 .. Len(w)
      /\ fused \in Seq(C) /\ m \in Nat /\ m <= Len(w) /\ DOMAIN fused = 1 .. m
      /\ \A i \in 1 .. m : i \in DOMAIN w /\ fused[i] = w[i]
      /\ ToSet(fused) \subseteq ToSet(w)
  <2>1. Len(w) \in Nat /\ DOMAIN w = 1 .. Len(w)
    BY LenProperties
  <2>2. fused \in Seq(C) /\ m = (IF limit < Len(w) THEN limit ELSE Len(w))
    BY TopIs
  <2>3. m \in Nat /\ m <= Len(w)
    <3> HIDE DEF m
    <3> QED  BY <2>1, <2>2
  <2> QED  BY <2>1, <2>2, <2>3, TopIs
<1> HIDE DEF fused, m
<1>2. IsInjective(fused)
  BY <1>1 DEF IsInjective
<1>3. \A d \in ToSet(fused) : \E b \in DOMAIN branches : d \in ToSet(branches[b].ids)
  BY <1>1
<1>4. ASSUME NEW b \in DOMAIN branches, NEW c \in ToSet(branches[b].ids), NEW d \in ToSet(fused),
             Dominates(found.branches, c, d)
      PROVE  Rank(fused, c) # 0 /\ Rank(fused, c) < Rank(fused, d)
  <2>1. /\ RrfScore(branches, c) \in Int /\ RrfScore(branches, d) \in Int
        /\ RrfScore(branches, c) > RrfScore(branches, d)
    BY <1>4, DominantScores
  <2>2. PICK j \in 1 .. m : fused[j] = d
    BY <1>1 DEF ToSet
  <2>3. c \in ToSet(w)
    OBVIOUS
  <2>4. PICK i \in 1 .. Len(w) : w[i] = c
    BY <1>1, <2>3 DEF ToSet
  <2>5. j \in DOMAIN w /\ w[j] = d /\ i \in DOMAIN w
    BY <1>1, <2>2, <2>4
  <2>6. ~(j < i) /\ i # j
    <3>1. j < i => RrfScore(branches, d) >= RrfScore(branches, c)
      BY <2>4, <2>5
    <3>2. i = j => c = d
      BY <2>4, <2>5
    <3> QED  BY <2>1, <3>1, <3>2
  <2>7. i < j /\ i \in 1 .. m
    BY <1>1, <2>2, <2>4, <2>6
  <2>8. fused[i] = c
    BY <1>1, <2>4, <2>7
  <2>9. Rank(fused, c) = i /\ Rank(fused, d) = j
    <3>1. i \in DOMAIN fused /\ j \in DOMAIN fused
      BY <1>1, <2>2, <2>7
    <3>2. Rank(fused, fused[i]) = i /\ Rank(fused, fused[j]) = j
      BY <1>1, <1>2, <3>1, RankIsPlace
    <3> QED  BY <2>2, <2>8, <3>2
  <2> QED  BY <2>7, <2>9
<1>5. found.fused = fused
  BY DEF fused
<1> QED  BY <1>2, <1>3, <1>4, <1>5 DEF WellFused

LEMMA WeightedRrfIs ==
  ASSUME NEW C \in SUBSET Int, IsFiniteSet(C), NEW branches \in Seq(Weighted(C))
  PROVE  LET w == WeightedRrf(branches)
         IN  /\ w \in Seq(C) /\ IsInjective(w)
             /\ ToSet(w) = UNION {ToSet(branches[b].ids) : b \in DOMAIN branches}
             /\ \A i, j \in DOMAIN w : i < j => RrfScore(branches, w[i]) >= RrfScore(branches, w[j])
<1> DEFINE U == UNION {ToSet(branches[b].ids) : b \in DOMAIN branches}
           key == [c \in U |-> RrfScore(branches, c)]
           lists == [b \in DOMAIN branches |-> branches[b].ids]
           w == WeightedRrf(branches)
<1>1. U \in SUBSET C
  <2>1. DOMAIN branches = 1 .. Len(branches) /\ \A b \in DOMAIN branches : branches[b] \in Weighted(C)
    BY LenProperties, ElementOfSeq
  <2>2. \A b \in DOMAIN branches : branches[b].ids \in Seq(C)
    BY <2>1 DEF Weighted
  <2>3. \A b \in DOMAIN branches : ToSet(branches[b].ids) \subseteq C
    BY <2>2, LenProperties, ElementOfSeq DEF ToSet
  <2> QED  BY <2>3
<1>2. IsFiniteSet(U)
  <2> HIDE DEF U
  <2> QED  BY <1>1, FS_Subset
<1>3. \A c \in U : RrfScore(branches, c) \in Int
  <2>1. DOMAIN lists = DOMAIN branches /\ \A b \in DOMAIN branches : lists[b] = branches[b].ids
    OBVIOUS
  <2> HIDE DEF lists, U
  <2> QED  BY <2>1, DominantScores
<1>4. key \in [U -> Int] /\ \A c \in U : key[c] = RrfScore(branches, c)
  <2> HIDE DEF U
  <2> QED  BY <1>3
<1>5. w = Ordered(key)
  BY DEF WeightedRrf
<1> HIDE DEF U, key, w
<1>6. U \in SUBSET Int
  BY <1>1
<1>7. Ranked(w, key)
  BY <1>2, <1>4, <1>5, <1>6, OrderedIsRanked
<1>8. /\ w \in Seq(U) /\ DOMAIN w = 1 .. Cardinality(U) /\ IsInjective(w) /\ ToSet(w) = U
      /\ \A i, j \in DOMAIN w : i < j => key[w[i]] >= key[w[j]]
  BY <1>4, <1>6, <1>7, RankedIsSeq
<1>9. w \in Seq(C)
  <2> DEFINE n == Len(w)
  <2>1. n \in Nat /\ DOMAIN w = 1 .. n /\ w = [k \in 1 .. n |-> w[k]]
    BY <1>8, LenProperties, SeqDef
  <2>2. \A k \in 1 .. n : w[k] \in C
    BY <1>1, <1>8, <2>1 DEF ToSet
  <2> HIDE DEF n
  <2>3. w \in [1 .. n -> C]
    BY <2>1, <2>2
  <2> QED  BY <2>1, <2>3, SeqDef
<1>10. \A i \in DOMAIN w : w[i] \in U
  BY <1>8 DEF ToSet
<1>11. \A i, j \in DOMAIN w : i < j => RrfScore(branches, w[i]) >= RrfScore(branches, w[j])
  BY <1>4, <1>8, <1>10
<1> QED  BY <1>8, <1>9, <1>11 DEF U, w

LEMMA StableSortIs ==
  ASSUME NEW S, NEW s \in Seq(S), NEW score \in [DOMAIN s -> Int]
  PROVE  \E r \in [DOMAIN s -> DOMAIN s] :
           /\ IsInjective(r) /\ \A x \in DOMAIN s : \E k \in DOMAIN s : r[k] = x
           /\ StableSort(s, score) = [k \in DOMAIN s |-> s[r[k]]]
           /\ \A i, j \in DOMAIN s : i < j => score[r[i]] >= score[r[j]]
<1> DEFINE D == DOMAIN s
           r == Ordered(score)
<1>1. Len(s) \in Nat /\ D = 1 .. Len(s)
  BY LenProperties
<1>2. D \in SUBSET Int /\ IsFiniteSet(D) /\ Cardinality(D) = Len(s)
  <2> DEFINE n == Len(s)
  <2>1. n \in Nat /\ D = 1 .. n
    BY <1>1
  <2> HIDE DEF n, D
  <2>2. IsFiniteSet(1 .. n) /\ Cardinality(1 .. n) = IF 1 > n THEN 0 ELSE n - 1 + 1
    BY <2>1, FS_Interval
  <2>3. (IF 1 > n THEN 0 ELSE n - 1 + 1) = n
    BY <2>1
  <2>4. D \in SUBSET Int
    BY <2>1
  <2> QED  BY <2>1, <2>2, <2>3, <2>4 DEF n
<1> HIDE DEF D
<1>3. score \in [D -> Int]
  BY DEF D
<1>4. Ranked(r, score)
  BY <1>2, <1>3, OrderedIsRanked
<1> HIDE DEF r
<1>5. /\ r \in Seq(D) /\ DOMAIN r = D /\ IsInjective(r) /\ ToSet(r) = D
      /\ \A i, j \in DOMAIN r : i < j => score[r[i]] >= score[r[j]]
  BY <1>1, <1>2, <1>3, <1>4, RankedIsSeq
<1>6. r \in [D -> D] /\ \A x \in D : \E k \in D : r[k] = x
  <2>1. \A k \in D : r[k] \in D
    BY <1>5 DEF ToSet
  <2>2. r = [k \in D |-> r[k]]
    BY <1>5, LenProperties, SeqDef
  <2>3. \A x \in D : \E k \in D : r[k] = x
    BY <1>5 DEF ToSet
  <2> QED  BY <2>1, <2>2, <2>3
<1>7. StableSort(s, score) = [k \in D |-> s[r[k]]]
  BY <1>5 DEF StableSort, r
<1> QED  BY <1>5, <1>6, <1>7 DEF D

LEMMA StableSortKeeps ==
  ASSUME NEW S, NEW s \in Seq(S), NEW score \in [DOMAIN s -> Int]
  PROVE  LET w == StableSort(s, score)
         IN  /\ w \in Seq(S) /\ Len(w) = Len(s) /\ DOMAIN w = DOMAIN s /\ ToSet(w) = ToSet(s)
             /\ IsInjective(s) => IsInjective(w)
<1> DEFINE w == StableSort(s, score)
           n == Len(s)
<1>1. n \in Nat /\ DOMAIN s = 1 .. n /\ \A i \in 1 .. n : s[i] \in S
  BY LenProperties, ElementOfSeq
<1>2. PICK r \in [DOMAIN s -> DOMAIN s] :
        /\ IsInjective(r) /\ \A x \in DOMAIN s : \E k \in DOMAIN s : r[k] = x
        /\ StableSort(s, score) = [k \in DOMAIN s |-> s[r[k]]]
        /\ \A i, j \in DOMAIN s : i < j => score[r[i]] >= score[r[j]]
  <2> HIDE DEF w, n
  <2> QED  BY StableSortIs
<1> HIDE DEF w, n
<1>3. \A k \in 1 .. n : r[k] \in 1 .. n /\ w[k] = s[r[k]]
  BY <1>1, <1>2 DEF w
<1>4. DOMAIN w = 1 .. n /\ w = [k \in 1 .. n |-> s[r[k]]]
  BY <1>1, <1>2 DEF w
<1>5. w \in [1 .. n -> S]
  BY <1>1, <1>3, <1>4
<1>6. w \in Seq(S)
  BY <1>1, <1>5, SeqDef
<1>7. Len(w) = n
  BY <1>1, <1>4, <1>6, LenProperties
<1>8. ToSet(w) = ToSet(s)
  <2>1. \A x \in ToSet(w) : x \in ToSet(s)
    BY <1>1, <1>3, <1>4 DEF ToSet
  <2>2. ASSUME NEW x \in ToSet(s) PROVE x \in ToSet(w)
    <3>1. PICK i \in 1 .. n : s[i] = x
      BY <1>1 DEF ToSet
    <3>2. PICK k \in 1 .. n : r[k] = i
      BY <1>1, <1>2
    <3>3. w[k] = x
      BY <1>3, <3>1, <3>2
    <3> QED  BY <1>4, <3>3 DEF ToSet
  <2> QED  BY <2>1, <2>2
<1>9. ASSUME IsInjective(s) PROVE IsInjective(w)
  <2>1. \A i, j \in 1 .. n : r[i] = r[j] => i = j
    BY <1>1, <1>2 DEF IsInjective
  <2>2. \A i, j \in 1 .. n : s[i] = s[j] => i = j
    BY <1>1, <1>9 DEF IsInjective
  <2>3. ASSUME NEW i \in 1 .. n, NEW j \in 1 .. n, w[i] = w[j] PROVE i = j
    <3>1. r[i] \in 1 .. n /\ r[j] \in 1 .. n /\ s[r[i]] = s[r[j]]
      BY <1>3, <2>3
    <3>2. r[i] = r[j]
      BY <2>2, <3>1
    <3> QED  BY <2>1, <3>2
  <2> QED  BY <1>4, <2>3 DEF IsInjective
<1> QED  BY <1>1, <1>4, <1>6, <1>7, <1>8, <1>9 DEF w, n

\* What a search by one key returns.
LEMMA SearchIs ==
  ASSUME NEW C \in SUBSET Int, IsFiniteSet(C), NEW key \in [C -> Int], NEW limit \in Nat
  PROVE  Top(Ordered(key), limit) \in Seq(C) /\ IsInjective(Top(Ordered(key), limit))
<1> DEFINE r == Ordered(key)
           t == Top(r, limit)
<1>1. Ranked(r, key)
  BY OrderedIsRanked
<1> HIDE DEF r
<1>2. r \in Seq(C) /\ IsInjective(r)
  BY <1>1, RankedIsSeq
<1>3. t \in Seq(C) /\ DOMAIN t = 1 .. Len(t) /\ \A i \in 1 .. Len(t) : i \in DOMAIN r /\ t[i] = r[i]
  BY <1>2, TopIs
<1> HIDE DEF t
<1>4. IsInjective(t)
  BY <1>2, <1>3 DEF IsInjective
<1> QED  BY <1>3, <1>4 DEF t, r

\* In memory, equal scores stay in the order of arrival.
LEMMA MemoryFusionKeeps ==
  ASSUME NEW C, NEW words \in Seq(C), IsInjective(words), NEW dense \in Seq(C), IsInjective(dense),
         NEW found, found.fused = ReciprocalRankFusion(words, dense),
         found.branches = <<words, dense>>
  PROVE  found.fused \in Seq(C) /\ WellFused(found)
<1> DEFINE branches == <<[ids |-> words, weight |-> 1], [ids |-> dense, weight |-> 1]>>
           T == {i \in DOMAIN dense : Rank(words, dense[i]) = 0}
           fresh == Those(dense, T)
           ids == words \o fresh
           score == [i \in DOMAIN ids |-> RrfScore(branches, ids[i])]
           w == StableSort(ids, score)
           n == Len(words)
           m == Cardinality(T)
<1>1. n \in Nat /\ DOMAIN words = 1 .. n
  BY LenProperties
<1>2. /\ Ascends(Increasing(T), m, T)
      /\ fresh = [k \in 1 .. m |-> dense[Increasing(T)[k]]]
      /\ fresh \in Seq(C) /\ Len(fresh) = m /\ DOMAIN fresh = 1 .. m /\ ToSet(fresh) = {dense[i] : i \in T}
  <2> HIDE DEF T
  <2>1. T \in SUBSET DOMAIN dense
    BY DEF T
  <2> QED  BY <2>1, ThoseAre
<1>3. m \in Nat
  BY <1>2, LenProperties
<1>4. \A i \in T : i \in DOMAIN dense /\ dense[i] \notin ToSet(words)
  <2> TAKE i \in T
  <2>1. Rank(words, dense[i]) = 0
    OBVIOUS
  <2>2. ~(Rank(words, dense[i]) \in 1 .. n)
    BY <1>1, <2>1
  <2> QED  BY <2>2, RankIs
<1>5. ToSet(fresh) \cup ToSet(words) = ToSet(dense) \cup ToSet(words)
  <2>1. ASSUME NEW x \in ToSet(dense), x \notin ToSet(words) PROVE x \in ToSet(fresh)
    <3>1. PICK i \in DOMAIN dense : dense[i] = x
      BY DEF ToSet
    <3>2. Rank(words, x) = 0
      <4>1. Rank(words, x) \in 1 .. n /\ words[Rank(words, x)] = x => x \in ToSet(words)
        BY <1>1 DEF ToSet
      <4> QED  BY <2>1, <4>1, RankIs
    <3>3. i \in T
      BY <3>1, <3>2
    <3> HIDE DEF T, fresh
    <3> QED  BY <1>2, <3>1, <3>3
  <2>2. \A x \in ToSet(fresh) : x \in ToSet(dense)
    <3> HIDE DEF T, fresh
    <3>1. \A i \in T : dense[i] \in ToSet(dense)
      BY <1>4 DEF ToSet
    <3> QED  BY <1>2, <3>1
  <2> QED  BY <2>1, <2>2
<1>6. \A k \in 1 .. m : fresh[k] \notin ToSet(words)
  <2> HIDE DEF T, fresh, m
  <2>1. \A k \in 1 .. m : fresh[k] \in ToSet(fresh)
    BY <1>2 DEF ToSet
  <2> QED  BY <1>2, <1>4, <2>1
<1>7. \A k, l \in 1 .. m : fresh[k] = fresh[l] => k = l
  <2> HIDE DEF T, fresh, m
  <2>1. /\ \A k \in 1 .. m : Increasing(T)[k] \in T
        /\ \A k, l \in 1 .. m : k < l => Increasing(T)[k] < Increasing(T)[l]
    BY <1>2 DEF Ascends
  <2> TAKE k \in 1 .. m, l \in 1 .. m
  <2> HAVE fresh[k] = fresh[l]
  <2> DEFINE a == Increasing(T)[k]
             b == Increasing(T)[l]
  <2>2. a \in T /\ b \in T /\ dense[a] = dense[b] /\ (k < l => a < b) /\ (l < k => b < a)
    BY <1>2, <2>1
  <2> HIDE DEF a, b
  <2>3. a = b
    BY <1>4, <2>2 DEF IsInjective
  <2>4. a \in Int
    <3>1. DOMAIN dense = 1 .. Len(dense) /\ Len(dense) \in Nat
      BY LenProperties
    <3> QED  BY <1>4, <2>2, <3>1
  <2>5. k \in Int /\ l \in Int
    BY <1>3
  <2> QED  BY <2>2, <2>3, <2>4, <2>5
<1> HIDE DEF T, fresh, m
<1>8. /\ ids \in Seq(C) /\ DOMAIN ids = 1 .. n + m
      /\ \A i \in 1 .. n + m : ids[i] = IF i <= n THEN words[i] ELSE fresh[i - n]
  <2>0. words \o fresh \in Seq(C) /\ Len(words \o fresh) = Len(words) + Len(fresh)
    BY <1>2, ConcatProperties
  <2>1. ids \in Seq(C) /\ Len(ids) = n + m
    BY <1>2, <2>0
  <2>2. DOMAIN ids = 1 .. n + m
    BY <2>1, LenProperties
  <2>3. \A i \in 1 .. n + m : ids[i] = IF i <= n THEN words[i] ELSE fresh[i - n]
    <3>1. \A i \in 1 .. Len(words) + Len(fresh) :
            (words \o fresh)[i] = IF i <= Len(words) THEN words[i] ELSE fresh[i - Len(words)]
      BY <1>2, ConcatProperties
    <3> QED  BY <1>2, <3>1
  <2> QED  BY <2>1, <2>2, <2>3
<1>9. ToSet(ids) = ToSet(words) \cup ToSet(dense)
  <2>1. ToSet(ids) = ToSet(words) \cup ToSet(fresh)
    BY <1>2, ToSetOfConcat, ZenonT(30)
  <2> QED  BY <1>5, <2>1
<1> HIDE DEF ids
<1>10. IsInjective(ids)
  <2>1. ASSUME NEW i \in 1 .. n + m, NEW j \in 1 .. n + m, i < j, ids[i] = ids[j] PROVE FALSE
    <3>1. CASE j <= n
      <4>1. i \in 1 .. n /\ j \in 1 .. n /\ words[i] = words[j]
        BY <1>1, <1>3, <1>8, <2>1, <3>1
      <4>2. i = j
        BY <1>1, <4>1 DEF IsInjective
      <4> QED  BY <2>1, <4>2, <1>1, <1>3
    <3>2. CASE i <= n /\ ~(j <= n)
      <4>1. i \in 1 .. n /\ j - n \in 1 .. m /\ words[i] = fresh[j - n]
        BY <1>1, <1>3, <1>8, <2>1, <3>2
      <4>2. words[i] \in ToSet(words)
        BY <1>1, <4>1 DEF ToSet
      <4> QED  BY <1>6, <4>1, <4>2
    <3>3. CASE ~(i <= n)
      <4>1. i - n \in 1 .. m /\ j - n \in 1 .. m /\ ~(j <= n)
        BY <1>1, <1>3, <2>1, <3>3
      <4>2. fresh[i - n] = fresh[j - n]
        BY <1>8, <2>1, <3>3, <4>1
      <4>3. i - n = j - n
        BY <1>7, <4>1, <4>2
      <4> QED  BY <1>1, <1>3, <2>1, <4>3
    <3> QED  BY <1>1, <1>3, <2>1, <3>1, <3>2, <3>3
  <2>2. ASSUME NEW i \in 1 .. n + m, NEW j \in 1 .. n + m, ids[i] = ids[j] PROVE i = j
    <3>1. ~(i < j) /\ ~(j < i)
      BY <2>1, <2>2
    <3>2. i \in Int /\ j \in Int
      BY <1>1, <1>3
    <3> QED  BY <3>1, <3>2
  <2> QED  BY <1>8, <2>2 DEF IsInjective
<1>11. /\ branches \in Seq(Weighted(C)) /\ DOMAIN branches = {1, 2}
       /\ branches[1].ids = words /\ branches[2].ids = dense
  <2>1. [ids |-> words, weight |-> 1] \in Weighted(C) /\ [ids |-> dense, weight |-> 1] \in Weighted(C)
    BY DEF Weighted
  <2>2. DOMAIN branches = 1 .. 2 /\ 1 .. 2 = {1, 2}
    OBVIOUS
  <2>3. branches \in Seq(Weighted(C))
    BY <2>1, ListedOnes
  <2> QED  BY <2>2, <2>3
<1>12. UNION {ToSet(branches[b].ids) : b \in DOMAIN branches} = ToSet(words) \cup ToSet(dense)
  <2> HIDE DEF branches
  <2> QED  BY <1>11
<1>13. \A c : RrfScore(branches, c) \in Int
  <2> DEFINE lists == [b \in DOMAIN branches |-> branches[b].ids]
  <2>1. DOMAIN lists = DOMAIN branches /\ \A b \in DOMAIN branches : lists[b] = branches[b].ids
    OBVIOUS
  <2> HIDE DEF lists, branches
  <2> QED  BY <1>11, <2>1, DominantScores
<1> HIDE DEF branches
<1>14. score \in [DOMAIN ids -> Int] /\ \A i \in DOMAIN ids : score[i] = RrfScore(branches, ids[i])
  BY <1>13
<1> HIDE DEF score
<1>15. w \in Seq(C) /\ DOMAIN w = DOMAIN ids /\ ToSet(w) = ToSet(ids) /\ IsInjective(w)
  BY <1>8, <1>10, <1>14, StableSortKeeps
<1>16. ASSUME NEW i \in DOMAIN w, NEW j \in DOMAIN w, i < j
       PROVE  RrfScore(branches, w[i]) >= RrfScore(branches, w[j])
  <2>1. PICK r \in [DOMAIN ids -> DOMAIN ids] :
          /\ IsInjective(r) /\ \A x \in DOMAIN ids : \E k \in DOMAIN ids : r[k] = x
          /\ StableSort(ids, score) = [k \in DOMAIN ids |-> ids[r[k]]]
          /\ \A a, b \in DOMAIN ids : a < b => score[r[a]] >= score[r[b]]
    <3> HIDE DEF w
    <3> QED  BY <1>8, <1>14, StableSortIs
  <2>2. w[i] = ids[r[i]] /\ w[j] = ids[r[j]] /\ r[i] \in DOMAIN ids /\ r[j] \in DOMAIN ids
    BY <1>15, <2>1
  <2>3. score[r[i]] >= score[r[j]]
    BY <1>15, <1>16, <2>1
  <2> QED  BY <1>14, <2>2, <2>3
<1>17. found.fused = Top(w, FusedTopK)
  BY DEF ReciprocalRankFusion, w, score, ids, fresh, T, branches
<1>18. FusedTopK \in Nat
  BY RetrievalAssumption
<1> HIDE DEF w
<1>19. DOMAIN found.branches = DOMAIN branches /\ \A b \in DOMAIN branches : found.branches[b] = branches[b].ids
  BY <1>11
<1>20. WellFused(found)
  <2>1. ToSet(w) = UNION {ToSet(branches[b].ids) : b \in DOMAIN branches}
    BY <1>9, <1>12, <1>15
  <2>2. \A i, j \in DOMAIN w : i < j => RrfScore(branches, w[i]) >= RrfScore(branches, w[j])
    BY <1>16
  <2>3. branches \in Seq(Weighted(C)) /\ w \in Seq(C) /\ IsInjective(w)
    BY <1>11, <1>15
  <2> QED  BY <1>17, <1>18, <1>19, <2>1, <2>2, <2>3, FusionKeeps
<1>21. found.fused \in Seq(C)
  BY <1>15, <1>17, <1>18, TopIs
<1> QED  BY <1>20, <1>21

-----------------------------------------------------------------------------
(* Reranking.                                                              *)

LEMMA NormsAreNumbers ==
  ASSUME NEW n \in Nat \ {0}, NEW values \in [1 .. n -> Int]
  PROVE  DOMAIN Normalized(values) = 1 .. n /\ \A i \in 1 .. n : Normalized(values)[i] \in Int
<1> DEFINE T == ToSet(values)
           low == Min(T)
           high == Max(T)
<1>1. T = {values[i] : i \in 1 .. n}
  BY DEF ToSet
<1>2. IsFiniteSet(1 .. n) /\ DOMAIN values = 1 .. n
  BY FS_Interval
<1> HIDE DEF T
<1>3. IsFiniteSet(T)
  BY <1>1, <1>2, ImageIsFinite
<1>4. T \in SUBSET Int /\ T # {} /\ \A i \in 1 .. n : values[i] \in T
  <2>1. 1 \in 1 .. n
    OBVIOUS
  <2> QED  BY <1>1, <2>1
<1>5. low \in T /\ \A y \in T : low <= y
  BY <1>3, <1>4, MinOfFinite
<1>6. high \in T /\ \A y \in T : y <= high
  BY <1>3, <1>4, MaxOfFinite
<1>7. Normalized(values) = [i \in DOMAIN values |-> IF low = high THEN IF high > 0 THEN 100 ELSE 0
                                                   ELSE ((values[i] - low) * 100) \div (high - low)]
  BY DEF Normalized, T
<1> HIDE DEF low, high
<1>8. low \in Int /\ high \in Int /\ low <= high
  BY <1>4, <1>5, <1>6
<1>9. ASSUME NEW i \in 1 .. n PROVE Normalized(values)[i] \in Int
  <2> DEFINE v == values[i]
  <2>1. v \in Int
    OBVIOUS
  <2>2. Normalized(values)[i] = IF low = high THEN IF high > 0 THEN 100 ELSE 0
                                ELSE ((v - low) * 100) \div (high - low)
    BY <1>2, <1>7
  <2> HIDE DEF v
  <2>3. CASE low = high
    BY <2>2, <2>3
  <2>4. CASE low # high
    <3> DEFINE a == (v - low) * 100
               b == high - low
    <3>1. a \in Int /\ b \in Nat \ {0}
      BY <1>8, <2>1, <2>4
    <3>2. Normalized(values)[i] = a \div b
      BY <2>2, <2>4
    <3> HIDE DEF a, b
    <3>3. a \div b \in Int
      BY <3>1
    <3> QED  BY <3>2, <3>3
  <2> QED  BY <2>3, <2>4
<1> QED  BY <1>2, <1>7, <1>9

\* r has l of the hits, each once, best first.
IsReranked(r, hits, l) ==
  /\ DOMAIN r = 1 .. l
  /\ \E q \in [1 .. l -> DOMAIN hits] :
       IsInjective(q) /\ \A i \in 1 .. l : r[i].chunk = hits[q[i]].chunk
  /\ \A i, j \in 1 .. l : i < j => r[i].norm >= r[j].norm

\* The reranker returns as many as are asked for, when there are.
LEMMA RerankKeeps ==
  ASSUME NEW S, NEW hits \in Seq(S), NEW liked, \A i \in DOMAIN hits : liked[hits[i].chunk] \in Int,
         NEW topK \in Nat
  PROVE  IsReranked(Rerank(hits, liked, topK), hits, IF topK < Len(hits) THEN topK ELSE Len(hits))
<1> DEFINE D == DOMAIN hits
           m == Len(hits)
           values == [i \in DOMAIN hits |-> liked[hits[i].chunk]]
           norm == IF hits = << >> THEN << >> ELSE Normalized(values)
           scored == [i \in DOMAIN hits |->
                       [chunk |-> hits[i].chunk, norm |-> norm[i],
                        support |-> Support(norm[i], hits[i].dense, hits[i].words)]]
           S2 == {scored[i] : i \in D}
           w == StableSort(scored, norm)
           r == Rerank(hits, liked, topK)
           l == IF topK < m THEN topK ELSE m
<1>1. m \in Nat /\ D = 1 .. m
  BY LenProperties
<1>2. r = Top(w, topK)
  BY DEF Rerank
<1>3. norm \in [D -> Int]
  <2>1. CASE hits = << >>
    <3>1. m = 0
      BY <2>1, EmptySeq
    <3>2. D = {} /\ DOMAIN << >> = {}
      BY <1>1, <3>1
    <3>3. norm = << >> /\ << >> = [i \in {} |-> 0]
      BY <2>1
    <3> HIDE DEF norm, D
    <3> QED  BY <3>2, <3>3
  <2>2. CASE hits # << >>
    <3>1. m \in Nat \ {0}
      BY <1>1, <2>2, EmptySeq
    <3>2. values \in [1 .. m -> Int]
      BY <1>1
    <3> HIDE DEF values, m
    <3>3. DOMAIN Normalized(values) = 1 .. m /\ \A i \in 1 .. m : Normalized(values)[i] \in Int
      BY <3>1, <3>2, NormsAreNumbers
    <3>4. norm = Normalized(values)
      BY <2>2
    <3>5. Normalized(values) = [i \in 1 .. m |-> Normalized(values)[i]]
      <4>1. \E D2, e : Normalized(values) = [i \in D2 |-> e[i]]
        <5> DEFINE e == Normalized(values)
        <5>1. Normalized(values) = [i \in DOMAIN values |-> e[i]]
          BY DEF Normalized
        <5> QED  BY <5>1
      <4> QED  BY <3>3, <4>1
    <3> HIDE DEF norm, D
    <3> QED  BY <1>1, <3>3, <3>4, <3>5 DEF m
  <2> QED  BY <2>1, <2>2
<1> HIDE DEF norm, values
<1>4. /\ DOMAIN scored = D
      /\ \A i \in D : scored[i].chunk = hits[i].chunk /\ scored[i].norm = norm[i] /\ scored[i] \in S2
  OBVIOUS
<1>5. scored \in Seq(S2)
  <2>1. scored = [i \in 1 .. m |-> scored[i]]
    BY <1>1
  <2> HIDE DEF scored, S2, D, m
  <2>2. scored \in [1 .. m -> S2]
    BY <1>1, <1>4, <2>1
  <2> QED  BY <1>1, <2>2, SeqDef
<1> HIDE DEF scored, S2, w, r, m, D
<1>6. norm \in [DOMAIN scored -> Int]
  BY <1>3, <1>4
<1>7. w \in Seq(S2) /\ Len(w) = Len(scored)
  BY <1>5, <1>6, StableSortKeeps DEF w
<1>8. Len(scored) = m
  BY <1>1, <1>4, <1>5, LenProperties
<1>9. PICK p \in [D -> D] :
        /\ IsInjective(p)
        /\ w = [k \in D |-> scored[p[k]]]
        /\ \A i, j \in D : i < j => norm[p[i]] >= norm[p[j]]
  <2>1. \E p \in [DOMAIN scored -> DOMAIN scored] :
          /\ IsInjective(p) /\ \A x \in DOMAIN scored : \E k \in DOMAIN scored : p[k] = x
          /\ StableSort(scored, norm) = [k \in DOMAIN scored |-> scored[p[k]]]
          /\ \A i, j \in DOMAIN scored : i < j => norm[p[i]] >= norm[p[j]]
    BY <1>5, <1>6, StableSortIs
  <2>2. \E p \in [D -> D] :
          /\ IsInjective(p) /\ \A x \in D : \E k \in D : p[k] = x
          /\ StableSort(scored, norm) = [k \in D |-> scored[p[k]]]
          /\ \A i, j \in D : i < j => norm[p[i]] >= norm[p[j]]
    BY <1>4, <2>1
  <2> QED  BY <2>2 DEF w
<1>10. /\ r \in Seq(S2) /\ Len(r) = l /\ DOMAIN r = 1 .. l
       /\ \A i \in 1 .. l : i \in D /\ r[i] = w[i]
  <2>1. /\ Top(w, topK) \in Seq(S2) /\ Len(Top(w, topK)) = (IF topK < Len(w) THEN topK ELSE Len(w))
        /\ DOMAIN Top(w, topK) = 1 .. Len(Top(w, topK))
        /\ \A i \in 1 .. Len(Top(w, topK)) : i \in DOMAIN w /\ Top(w, topK)[i] = w[i]
    BY <1>7, TopIs
  <2>2. DOMAIN w = D
    BY <1>9
  <2> QED  BY <1>2, <1>7, <1>8, <2>1, <2>2
<1>11. l \in Nat /\ l <= m
  BY <1>1
<1> HIDE DEF l
<1>13. \A i \in 1 .. l : p[i] \in D /\ r[i] = scored[p[i]]
  BY <1>9, <1>10
<1>14. \E q \in [1 .. l -> D] : IsInjective(q) /\ \A i \in 1 .. l : r[i].chunk = hits[q[i]].chunk
  <2> DEFINE q == [i \in 1 .. l |-> p[i]]
  <2>1. q \in [1 .. l -> D] /\ \A i \in 1 .. l : q[i] = p[i]
    BY <1>13
  <2>2. IsInjective(q)
    <3>1. \A i, j \in D : p[i] = p[j] => i = j
      BY <1>9 DEF IsInjective
    <3> HIDE DEF q
    <3>2. \A i, j \in 1 .. l : q[i] = q[j] => i = j
      BY <1>10, <2>1, <3>1
    <3> QED  BY <2>1, <3>2 DEF IsInjective
  <2>3. \A i \in 1 .. l : r[i].chunk = hits[q[i]].chunk
    BY <1>4, <1>13, <2>1
  <2> HIDE DEF q
  <2> QED  BY <2>1, <2>2, <2>3
<1>15. ASSUME NEW i \in 1 .. l, NEW j \in 1 .. l, i < j PROVE r[i].norm >= r[j].norm
  <2>1. norm[p[i]] >= norm[p[j]]
    BY <1>9, <1>10, <1>15
  <2>2. r[i].norm = norm[p[i]] /\ r[j].norm = norm[p[j]]
    BY <1>4, <1>13
  <2> QED  BY <2>1, <2>2
<1> QED  BY <1>10, <1>14, <1>15 DEF IsReranked, l, r, m, D

\* What is fused and then reranked: nothing new, nothing twice, in the order of the scores.
LEMMA RankedFusionKeeps ==
  ASSUME NEW C, NEW found, found.fused \in Seq(C), WellFused(found),
         NEW S, NEW hits \in Seq(S), DOMAIN hits = DOMAIN found.fused,
         \A i \in DOMAIN hits : hits[i].chunk = found.fused[i],
         NEW liked, \A c \in C : liked[c] \in Int,
         found.reranked = Rerank(hits, liked, EvidenceTopK)
  PROVE  /\ WellRanked(found)
         /\ \A hit \in ToSet(found.reranked) : hit.chunk \in C
<1> DEFINE fused == found.fused
           r == found.reranked
           n == Len(fused)
           l == IF EvidenceTopK < n THEN EvidenceTopK ELSE n
           chunks == [i \in DOMAIN r |-> r[i].chunk]
<1>1. n \in Nat /\ DOMAIN fused = 1 .. n /\ \A i \in 1 .. n : fused[i] \in C
  BY LenProperties, ElementOfSeq
<1>2. EvidenceTopK \in Nat
  BY RetrievalAssumption
<1>3. Len(hits) = n
  BY <1>1, LenProperties
<1>4. \A i \in DOMAIN hits : liked[hits[i].chunk] \in Int
  BY <1>1
<1>5. /\ DOMAIN r = 1 .. l
      /\ \E q \in [1 .. l -> DOMAIN hits] :
           IsInjective(q) /\ \A i \in 1 .. l : r[i].chunk = hits[q[i]].chunk
      /\ \A i, j \in 1 .. l : i < j => r[i].norm >= r[j].norm
  <2>1. IsReranked(Rerank(hits, liked, EvidenceTopK), hits,
                   IF EvidenceTopK < Len(hits) THEN EvidenceTopK ELSE Len(hits))
    <3> HIDE DEF fused, n, l, r, chunks
    <3> QED  BY <1>2, <1>4, RerankKeeps
  <2>2. IsReranked(r, hits, l)
    BY <1>3, <2>1
  <2> HIDE DEF l, r
  <2> QED  BY <2>2 DEF IsReranked
<1>6. PICK q \in [1 .. l -> DOMAIN hits] :
        IsInjective(q) /\ \A i \in 1 .. l : r[i].chunk = hits[q[i]].chunk
  BY <1>5
<1>7. l \in Nat /\ l = Min({EvidenceTopK, n})
  <2>1. Min({EvidenceTopK, n}) = IF EvidenceTopK <= n THEN EvidenceTopK ELSE n
    BY <1>1, <1>2, MinOfTwo
  <2> HIDE DEF n
  <2> QED  BY <1>1, <1>2, <2>1
<1> HIDE DEF l
<1>8. \A i \in 1 .. l : q[i] \in 1 .. n /\ r[i].chunk = fused[q[i]] /\ fused[q[i]] \in ToSet(fused)
  BY <1>1, <1>6 DEF ToSet
<1>9. IsInjective(fused)
  BY DEF WellFused
<1> HIDE DEF fused, r, n
<1>10. DOMAIN chunks = 1 .. l /\ \A i \in 1 .. l : chunks[i] = fused[q[i]]
  BY <1>5, <1>8
<1> DEFINE ToC == ToSet(fused)
<1>11. \A i \in 1 .. l : chunks[i] \in ToC
  BY <1>8, <1>10
<1>12. chunks \in Seq(ToC)
  <2>1. chunks = [i \in 1 .. l |-> chunks[i]]
    BY <1>5
  <2> HIDE DEF chunks, ToC
  <2>2. chunks \in [1 .. l -> ToC]
    BY <1>11, <2>1
  <2>3. l \in Nat
    BY <1>7
  <2> QED  BY <2>2, <2>3, SeqDef
<1> HIDE DEF chunks
<1>13. Len(chunks) = l
  BY <1>7, <1>10, <1>12, LenProperties
<1>14. IsInjective(chunks)
  <2>1. \A i, j \in 1 .. l : chunks[i] = chunks[j] => i = j
    <3> TAKE i \in 1 .. l, j \in 1 .. l
    <3> HAVE chunks[i] = chunks[j]
    <3>1. fused[q[i]] = fused[q[j]] /\ q[i] \in DOMAIN fused /\ q[j] \in DOMAIN fused
      BY <1>1, <1>8, <1>10
    <3>2. q[i] = q[j]
      BY <1>9, <3>1 DEF IsInjective
    <3> QED  BY <1>6, <3>2 DEF IsInjective
  <2> QED  BY <1>10, <2>1 DEF IsInjective
<1>15. ToSet(chunks) \subseteq ToSet(fused)
  BY <1>10, <1>11 DEF ToSet
<1>16. \A i, j \in DOMAIN chunks : i < j => r[i].norm >= r[j].norm
  BY <1>5, <1>10
<1>17. WellRanked(found)
  BY <1>7, <1>13, <1>14, <1>15, <1>16 DEF WellRanked, chunks, fused, r, n
<1>18. ASSUME NEW hit \in ToSet(r) PROVE hit.chunk \in C
  <2>1. PICK i \in 1 .. l : r[i] = hit
    BY <1>5 DEF ToSet
  <2> QED  BY <1>1, <1>8, <2>1
<1> QED  BY <1>17, <1>18 DEF r

-----------------------------------------------------------------------------
(* Searches.                                                               *)

LEMMA ListIsSeq ==
  ASSUME NEW n \in Nat, NEW f, DOMAIN f = 1 .. n, f = [i \in DOMAIN f |-> f[i]]
  PROVE  f \in Seq({f[i] : i \in DOMAIN f}) /\ Len(f) = n
<1> DEFINE S == {f[i] : i \in DOMAIN f}
<1>1. \A i \in 1 .. n : f[i] \in S
  OBVIOUS
<1> HIDE DEF S
<1>2. f \in [1 .. n -> S]
  BY <1>1
<1>3. f \in Seq(S)
  BY <1>2, SeqDef
<1> QED  BY <1>3, LenProperties DEF S

LEMMA SeqOfMore ==
  ASSUME NEW C, NEW D, C \subseteq D, NEW s \in Seq(C)
  PROVE  s \in Seq(D)
<1> DEFINE n == Len(s)
<1>1. n \in Nat /\ DOMAIN s = 1 .. n /\ s = [k \in 1 .. n |-> s[k]] /\ \A k \in 1 .. n : s[k] \in C
  BY LenProperties, ElementOfSeq, SeqDef
<1> HIDE DEF n
<1>2. s \in [1 .. n -> D]
  BY <1>1
<1> QED  BY <1>1, <1>2, SeqDef

\* Chunks are numbers, and each has its scores.
IsMailbox(db, D) ==
  /\ D \in SUBSET Int /\ IsFiniteSet(D) /\ DOMAIN db = D
  /\ \A c \in D : db[c].words \in Int /\ db[c].near \in Int /\ db[c].liked \in Int

\* What the graph names as passages are chunks, of N, there or not.
IsGraph(graph, N) ==
  /\ N \in SUBSET Int /\ IsFiniteSet(N)
  /\ \A m \in graph.mentions : m.chunk \in N
  /\ \A f \in graph.facts : f.chunks \subseteq N

Scope(db, thread) == {c \in DOMAIN db : InScope(db, thread, c)}

LEMMA ScopeIsFinite ==
  ASSUME NEW D, NEW db, IsMailbox(db, D), NEW C \in SUBSET DOMAIN db
  PROVE  C \in SUBSET Int /\ IsFiniteSet(C)
BY FS_Subset DEF IsMailbox

LEMMA BranchesInScope ==
  ASSUME NEW D, NEW db, IsMailbox(db, D), NEW thread, NEW limit \in Nat
  PROVE  /\ Lexical(db, thread, limit) \in Seq(Scope(db, thread))
         /\ Dense(db, thread, limit) \in Seq(Scope(db, thread))
<1>1. Lexical(db, thread, limit) \in Seq(Scope(db, thread))
  <2> DEFINE C == {d \in DOMAIN db : InScope(db, thread, d) /\ db[d].words > 0}
             key == [c \in C |-> db[c].words]
  <2>1. C \subseteq Scope(db, thread) /\ C \in SUBSET DOMAIN db
    BY DEF Scope
  <2>2. \A c \in C : db[c].words \in Int
    BY DEF IsMailbox
  <2>3. Lexical(db, thread, limit) = Top(Ordered(key), limit)
    BY DEF Lexical
  <2> HIDE DEF C
  <2>4. key \in [C -> Int]
    BY <2>2
  <2>5. C \in SUBSET Int /\ IsFiniteSet(C)
    BY <2>1, ScopeIsFinite
  <2> HIDE DEF key
  <2>6. Top(Ordered(key), limit) \in Seq(C)
    BY <2>4, <2>5, SearchIs
  <2> QED  BY <2>1, <2>3, <2>6, SeqOfMore
<1>2. Dense(db, thread, limit) \in Seq(Scope(db, thread))
  <2> DEFINE C == {d \in DOMAIN db : InScope(db, thread, d) /\ db[d].near > 0}
             key == [c \in C |-> db[c].near]
  <2>1. C \subseteq Scope(db, thread) /\ C \in SUBSET DOMAIN db
    BY DEF Scope
  <2>2. \A c \in C : db[c].near \in Int
    BY DEF IsMailbox
  <2>3. Dense(db, thread, limit) = Top(Ordered(key), limit)
    BY DEF Dense
  <2> HIDE DEF C
  <2>4. key \in [C -> Int]
    BY <2>2
  <2>5. C \in SUBSET Int /\ IsFiniteSet(C)
    BY <2>1, ScopeIsFinite
  <2> HIDE DEF key
  <2>6. Top(Ordered(key), limit) \in Seq(C)
    BY <2>4, <2>5, SearchIs
  <2> QED  BY <2>1, <2>3, <2>6, SeqOfMore
<1> QED  BY <1>1, <1>2

LEMMA AscendingIs ==
  ASSUME NEW N \in SUBSET Int, IsFiniteSet(N), NEW T \in SUBSET N, NEW limit \in Nat
  PROVE  Ascending(T, limit) \in Seq(N)
<1> DEFINE f == Increasing(T)
           n == Cardinality(T)
<1>1. IsFiniteSet(T) /\ T \in SUBSET Int
  BY FS_Subset
<1>2. n \in Nat /\ f \in [1 .. n -> T]
  BY <1>1, FiniteAscends, FS_CardinalityType DEF Ascends
<1> HIDE DEF f, n
<1>3. f \in [1 .. n -> N]
  BY <1>2
<1>4. f \in Seq(N)
  BY <1>2, <1>3, SeqDef
<1>5. Top(f, limit) \in Seq(N)
  BY <1>4, TopIs
<1> QED  BY <1>5 DEF Ascending, f

\* What the graph finds is a list of chunks, whatever the route.
LEMMA CollectedAreChunks ==
  ASSUME NEW N, NEW graph, IsGraph(graph, N), NEW R, NEW plan \in Seq(R), NEW question
  PROVE  CollectGraphChunkIds(graph, plan, question) \in Seq(N)
<1>1. GraphLimit \in Nat /\ TemporalLimit \in Nat
  BY RetrievalAssumption
<1>2. N \in SUBSET Int /\ IsFiniteSet(N)
  BY DEF IsGraph
<1>3. \A entities : EntityEvidence(graph, entities, GraphLimit) \in Seq(N)
  <2> TAKE entities
  <2> DEFINE T == {m.chunk : m \in {o \in graph.mentions : o.box = Mine /\ o.entity \in entities}}
  <2>1. T \in SUBSET N
    BY DEF IsGraph
  <2>2. EntityEvidence(graph, entities, GraphLimit) = Ascending(T, GraphLimit)
    BY DEF EntityEvidence
  <2> HIDE DEF T
  <2> QED  BY <1>1, <1>2, <2>1, <2>2, AscendingIs
<1>4. ASSUME NEW subjects, NEW status, NEW asOf, NEW limit \in Nat
      PROVE  FactEvidence(graph, subjects, status, asOf, limit) \in Seq(N)
  <2> DEFINE facts == {f \in graph.facts :
                        /\ f.box = Mine
                        /\ subjects = {} \/ f.subject \in subjects
                        /\ status \in {Nothing, f.status}
                        /\ asOf = Nothing \/ (f.effective # Nothing /\ f.effective <= asOf)}
             T == UNION {f.chunks : f \in facts}
  <2>1. FactEvidence(graph, subjects, status, asOf, limit) = Ascending(T, limit)
    BY DEF FactEvidence
  <2>2. facts \subseteq graph.facts
    OBVIOUS
  <2> HIDE DEF facts
  <2>3. T \in SUBSET N
    BY <2>2 DEF IsGraph
  <2> HIDE DEF T
  <2> QED  BY <1>2, <2>1, <2>3, AscendingIs
<1> DEFINE Found1(route) ==
             CASE route = "entity" ->
                    LET entities == {e.entity : e \in EntitiesMatching(graph, question.entities)}
                    IN  EntityEvidence(graph, entities, GraphLimit)
                          \o FactEvidence(graph, question.entities, Nothing, Nothing, GraphLimit)
               [] route = "current" ->
                    FactEvidence(graph, question.subjects, "active", Nothing, TemporalLimit)
               [] route = "as_of" ->
                    FactEvidence(graph, question.subjects, Nothing, question.asOf, TemporalLimit)
               [] OTHER -> << >>
           routes == [i \in DOMAIN plan |-> Found1(plan[i])]
           found == FlattenSeq(routes)
<1>5. \A route : Found1(route) \in Seq(N)
  <2> TAKE route
  <2> DEFINE entities == {e.entity : e \in EntitiesMatching(graph, question.entities)}
  <2> HIDE DEF entities
  <2>1. EntityEvidence(graph, entities, GraphLimit)
          \o FactEvidence(graph, question.entities, Nothing, Nothing, GraphLimit) \in Seq(N)
    <3>1. /\ EntityEvidence(graph, entities, GraphLimit) \in Seq(N)
          /\ FactEvidence(graph, question.entities, Nothing, Nothing, GraphLimit) \in Seq(N)
      BY <1>1, <1>3, <1>4
    <3> QED  BY <3>1, ConcatProperties
  <2>2. /\ FactEvidence(graph, question.subjects, "active", Nothing, TemporalLimit) \in Seq(N)
        /\ FactEvidence(graph, question.subjects, Nothing, question.asOf, TemporalLimit) \in Seq(N)
    BY <1>1, <1>4
  <2>3. << >> \in Seq(N)
    BY EmptySeq
  <2>4. CASE route = "entity"
    BY <2>1, <2>4 DEF entities
  <2>5. CASE route = "current"
    BY <2>2, <2>5
  <2>6. CASE route = "as_of"
    BY <2>2, <2>6
  <2>7. CASE route \notin {"entity", "current", "as_of"}
    <3>1. Found1(route) = << >>
      BY <2>7
    <3> HIDE DEF Found1
    <3> QED  BY <2>3, <3>1
  <2> QED  BY <2>4, <2>5, <2>6, <2>7
<1>6. CollectGraphChunkIds(graph, plan, question)
        = Those(found, {i \in DOMAIN found : Rank(found, found[i]) = i})
  BY DEF CollectGraphChunkIds
<1> HIDE DEF Found1
<1>7. routes \in Seq(Seq(N))
  <2> DEFINE n == Len(plan)
  <2>1. n \in Nat /\ DOMAIN plan = 1 .. n
    BY LenProperties
  <2>2. routes \in [1 .. n -> Seq(N)]
    BY <1>5, <2>1
  <2> HIDE DEF n, routes
  <2> QED  BY <2>1, <2>2, SeqDef
<1> HIDE DEF routes
<1>8. found \in Seq(N)
  BY <1>7, FlattenIsAll
<1> HIDE DEF found
<1>9. {i \in DOMAIN found : Rank(found, found[i]) = i} \in SUBSET DOMAIN found
  OBVIOUS
<1> QED  BY <1>6, <1>8, <1>9, ThoseAre

LEMMA LoadedInScope ==
  ASSUME NEW N, NEW ids \in Seq(N), NEW db, NEW thread
  PROVE  LoadGraphChunks(db, thread, ids) \in Seq(Scope(db, thread))
<1> DEFINE T == {i \in DOMAIN ids : ids[i] \in DOMAIN db /\ InScope(db, thread, ids[i])}
           r == Those(ids, T)
           n == Len(r)
<1>1. T \in SUBSET DOMAIN ids /\ \A i \in T : ids[i] \in Scope(db, thread)
  BY DEF Scope
<1> HIDE DEF T
<1>2. r \in Seq(N) /\ \A i \in DOMAIN r : \E j \in T : r[i] = ids[j]
  BY <1>1, SomeOfThose
<1>3. n \in Nat /\ DOMAIN r = 1 .. n /\ r = [i \in 1 .. n |-> r[i]]
  BY <1>2, LenProperties, SeqDef
<1> HIDE DEF r, n
<1>4. r \in [1 .. n -> Scope(db, thread)]
  BY <1>1, <1>2, <1>3
<1>5. r \in Seq(Scope(db, thread))
  BY <1>3, <1>4, SeqDef
<1> QED  BY <1>5 DEF LoadGraphChunks, r, T

LEMMA TwoBranches ==
  ASSUME NEW C, NEW words \in Seq(C), NEW dense \in Seq(C)
  PROVE  LET branches == <<[ids |-> words, weight |-> 1], [ids |-> dense, weight |-> 1]>>
         IN  branches \in Seq(Weighted(C)) /\ DOMAIN branches = {1, 2}
<1>1. [ids |-> words, weight |-> 1] \in Weighted(C) /\ [ids |-> dense, weight |-> 1] \in Weighted(C)
  BY DEF Weighted
<1>2. <<[ids |-> words, weight |-> 1], [ids |-> dense, weight |-> 1]>> \in Seq(Weighted(C))
  BY <1>1, ListedOnes
<1>3. 1 .. 2 = {1, 2}
  OBVIOUS
<1> QED  BY <1>2, <1>3

\* HybridRetriever.search of the database (rag/paradedb/retrieval.py), for every mailbox:
\* only chunks of the tenant, the mailbox and the thread, none twice, and a chunk both
\* searches put ahead of another is ahead of it.
THEOREM HybridSearchIsRight ==
  ASSUME NEW D, NEW db, IsMailbox(db, D), NEW thread, NEW topK \in Nat
  PROVE  LET found == HybridSearch(db, thread, topK)
         IN  /\ \A c \in ToSet(found.fused) : c \in DOMAIN db /\ InScope(db, thread, c)
             /\ WellFused(found)
<1> DEFINE C == Scope(db, thread)
           limit == Max({CandidateLimit, 4 * topK})
           words == Lexical(db, thread, limit)
           dense == Dense(db, thread, limit)
           branches == <<[ids |-> words, weight |-> 1], [ids |-> dense, weight |-> 1]>>
           w == WeightedRrf(branches)
           found == HybridSearch(db, thread, topK)
<1>1. limit \in Nat
  <2>1. CandidateLimit \in Nat /\ 4 * topK \in Nat
    BY RetrievalAssumption
  <2>2. Max({CandidateLimit, 4 * topK}) = IF CandidateLimit >= 4 * topK THEN CandidateLimit ELSE 4 * topK
    BY <2>1, MaxOfTwo
  <2> HIDE DEF limit
  <2> QED  BY <2>1, <2>2 DEF limit
<1>2. found.fused = Top(w, topK) /\ found.branches = <<words, dense>>
  BY DEF HybridSearch, FusePair
<1> HIDE DEF limit
<1>3. words \in Seq(C) /\ dense \in Seq(C)
  BY <1>1, BranchesInScope
<1> HIDE DEF found, words, dense
<1>4. C \in SUBSET Int /\ IsFiniteSet(C)
  <2>1. C \in SUBSET DOMAIN db
    BY DEF Scope
  <2> HIDE DEF C
  <2> QED  BY <2>1, ScopeIsFinite
<1> HIDE DEF C
<1>5. branches \in Seq(Weighted(C)) /\ DOMAIN branches = {1, 2}
  BY <1>3, TwoBranches
<1>6. DOMAIN found.branches = DOMAIN branches /\ \A b \in DOMAIN branches : found.branches[b] = branches[b].ids
  BY <1>2, <1>5
<1> HIDE DEF branches
<1>7. /\ w \in Seq(C) /\ IsInjective(w)
      /\ ToSet(w) = UNION {ToSet(branches[b].ids) : b \in DOMAIN branches}
      /\ \A i, j \in DOMAIN w : i < j => RrfScore(branches, w[i]) >= RrfScore(branches, w[j])
  BY <1>4, <1>5, WeightedRrfIs
<1> HIDE DEF w
<1>8. WellFused(found)
  BY <1>2, <1>5, <1>6, <1>7, FusionKeeps
<1>9. found.fused \in Seq(C)
  BY <1>2, <1>7, TopIs
<1>10. \A c \in ToSet(found.fused) : c \in C
  BY <1>9, LenProperties, ElementOfSeq DEF ToSet
<1> QED  BY <1>8, <1>10 DEF found, C, Scope

\* ParadeDBEngineRetriever.search (rag/paradedb/retrieval.py), for every mailbox and graph
\* and whatever the plan: what reaches the reranker and the answer is of the tenant, the
\* mailbox and the thread, the chunks a graph fact names included; no chunk comes twice,
\* what every branch puts ahead stays ahead in the fusion, and the reranker's order is kept.
THEOREM DatabaseSearchIsRight ==
  ASSUME NEW D, NEW db, IsMailbox(db, D), NEW N, NEW graph, IsGraph(graph, N),
         NEW question, NEW thread
  PROVE  LET found == SearchDatabase(db, graph, question, thread)
         IN  /\ \A hit \in ToSet(found.reranked) :
                  hit.chunk \in DOMAIN db /\ InScope(db, thread, hit.chunk)
             /\ WellRanked(found)
<1> DEFINE C == Scope(db, thread)
           limit == Max({CandidateLimit, 4 * FusedTopK})
           words == Lexical(db, thread, limit)
           dense == Dense(db, thread, limit)
           plan == Plan(question, TRUE)
           loaded == IF UsesGraph(plan)
                       THEN LoadGraphChunks(db, thread, CollectGraphChunkIds(graph, plan, question))
                     ELSE << >>
           two == <<[ids |-> words, weight |-> 1], [ids |-> dense, weight |-> 1]>>
           third == IF loaded = << >> THEN << >> ELSE <<[ids |-> loaded, weight |-> 1]>>
           branches == two \o third
           w == WeightedRrf(branches)
           fused == Top(w, FusedTopK)
           hits == [i \in DOMAIN fused |-> [chunk |-> fused[i], dense |-> 0, words |-> 0]]
           found == SearchDatabase(db, graph, question, thread)
           Routes == {"hybrid", "as_of", "current", "entity"}
<1>1. limit \in Nat /\ FusedTopK \in Nat
  <2>1. CandidateLimit \in Nat /\ FusedTopK \in Nat /\ 4 * FusedTopK \in Nat
    BY RetrievalAssumption
  <2>2. limit = IF CandidateLimit >= 4 * FusedTopK THEN CandidateLimit ELSE 4 * FusedTopK
    BY <2>1, MaxOfTwo
  <2> HIDE DEF limit
  <2> QED  BY <2>1, <2>2
<1>2. /\ found.branches = [b \in DOMAIN branches |-> branches[b].ids]
      /\ found.fused = fused
      /\ found.reranked = Rerank(hits, Liked(db), EvidenceTopK)
  BY DEF SearchDatabase
<1> HIDE DEF limit, found
<1>3. words \in Seq(C) /\ dense \in Seq(C)
  BY <1>1, BranchesInScope
<1>4. C \in SUBSET Int /\ IsFiniteSet(C) /\ C \subseteq D /\ DOMAIN db = D
  <2>1. C \in SUBSET DOMAIN db /\ DOMAIN db = D
    BY DEF Scope, IsMailbox
  <2> HIDE DEF C
  <2> QED  BY <2>1, ScopeIsFinite
<1>5. plan \in Seq(Routes)
  <2>1. << >> \in Seq(Routes) /\ <<"hybrid">> \in Seq(Routes) /\ <<"as_of">> \in Seq(Routes)
        /\ <<"current">> \in Seq(Routes) /\ <<"entity">> \in Seq(Routes)
    <3>1. \A word \in Routes : <<word>> \in Seq(Routes)
      BY ListedOnes
    <3>2. << >> \in Seq(Routes)
      BY EmptySeq
    <3> QED  BY <3>1, <3>2
  <2> DEFINE temporal == IF question.asOf # Nothing THEN <<"as_of">>
                         ELSE IF question.current THEN <<"current">> ELSE << >>
             entity == IF question.entities = {} THEN << >> ELSE <<"entity">>
  <2>2. plan = <<"hybrid">> \o (temporal \o entity)
    BY DEF Plan
  <2>3. temporal \in Seq(Routes) /\ entity \in Seq(Routes)
    BY <2>1
  <2> HIDE DEF temporal, entity, plan
  <2>4. temporal \o entity \in Seq(Routes)
    BY <2>3, ConcatProperties
  <2>5. <<"hybrid">> \o (temporal \o entity) \in Seq(Routes)
    BY <2>1, <2>4, ConcatProperties
  <2> QED  BY <2>2, <2>5
<1> HIDE DEF plan, words, dense, C
<1>6. loaded \in Seq(C)
  <2>1. << >> \in Seq(C)
    OBVIOUS
  <2>2. CollectGraphChunkIds(graph, plan, question) \in Seq(N)
    BY <1>5, CollectedAreChunks
  <2>3. LoadGraphChunks(db, thread, CollectGraphChunkIds(graph, plan, question)) \in Seq(C)
    BY <2>2, LoadedInScope DEF C
  <2> QED  BY <2>1, <2>3
<1> HIDE DEF loaded
<1>7. branches \in Seq(Weighted(C))
  <2>1. two \in Seq(Weighted(C))
    BY <1>3, TwoBranches
  <2>2. third \in Seq(Weighted(C))
    <3>1. [ids |-> loaded, weight |-> 1] \in Weighted(C)
      BY <1>6 DEF Weighted
    <3>2. <<[ids |-> loaded, weight |-> 1]>> \in Seq(Weighted(C)) /\ << >> \in Seq(Weighted(C))
      BY <3>1, ListedOnes
    <3> QED  BY <3>2
  <2> HIDE DEF two, third
  <2>3. two \o third \in Seq(Weighted(C))
    BY <2>1, <2>2, ConcatProperties
  <2> QED  BY <2>3
<1> HIDE DEF two, third, branches
<1>8. DOMAIN found.branches = DOMAIN branches /\ \A b \in DOMAIN branches : found.branches[b] = branches[b].ids
  BY <1>2
<1>9. /\ w \in Seq(C) /\ IsInjective(w)
      /\ ToSet(w) = UNION {ToSet(branches[b].ids) : b \in DOMAIN branches}
      /\ \A i, j \in DOMAIN w : i < j => RrfScore(branches, w[i]) >= RrfScore(branches, w[j])
  BY <1>4, <1>7, WeightedRrfIs
<1> HIDE DEF w, hits
<1>10. WellFused(found)
  <2>1. found.fused = Top(w, FusedTopK) /\ FusedTopK \in Nat
    BY <1>1, <1>2
  <2> HIDE DEF fused
  <2> QED  BY <1>7, <1>8, <1>9, <2>1, FusionKeeps
<1>11. fused \in Seq(C)
  BY <1>1, <1>9, TopIs
<1> HIDE DEF fused
<1>12. /\ hits \in Seq({hits[i] : i \in DOMAIN hits}) /\ DOMAIN hits = DOMAIN fused
       /\ \A i \in DOMAIN hits : hits[i].chunk = fused[i]
  <2>1. DOMAIN fused = 1 .. Len(fused) /\ Len(fused) \in Nat
    BY <1>11, LenProperties
  <2>2. /\ DOMAIN hits = DOMAIN fused /\ hits = [i \in DOMAIN hits |-> hits[i]]
        /\ \A i \in DOMAIN hits : hits[i].chunk = fused[i]
    BY DEF hits
  <2> QED  BY <2>1, <2>2, ListIsSeq
<1>13. \A c \in C : Liked(db)[c] \in Int
  BY <1>4 DEF Liked, IsMailbox
<1>14. WellRanked(found) /\ \A hit \in ToSet(found.reranked) : hit.chunk \in C
  BY <1>2, <1>10, <1>11, <1>12, <1>13, RankedFusionKeeps
<1> QED  BY <1>14 DEF found, C, Scope

\* HybridRetriever.search in memory (rag/retrieval.py), for every mailbox: only chunks of
\* the thread asked for, none twice, in an order the two searches and the reranker agree to.
THEOREM MemorySearchIsRight ==
  ASSUME NEW D, NEW db, IsMailbox(db, D), NEW thread
  PROVE  LET found == SearchMemory(db, thread)
         IN  /\ \A hit \in ToSet(found.reranked) : hit.chunk \in InThread(db, thread)
             /\ WellRanked(found)
<1> DEFINE C == InThread(db, thread)
           words == Bm25Search(db, thread, CandidateLimit)
           dense == VectorSearch(db, thread, CandidateLimit)
           fused == ReciprocalRankFusion(words, dense)
           hits == [i \in DOMAIN fused |->
                     [chunk |-> fused[i],
                      dense |-> NormOf(dense, [c \in DOMAIN db |-> db[c].near], fused[i]),
                      words |-> NormOf(words, [c \in DOMAIN db |-> db[c].words], fused[i])]]
           found == SearchMemory(db, thread)
<1>1. CandidateLimit \in Nat
  BY RetrievalAssumption
<1>2. /\ found.branches = <<words, dense>> /\ found.fused = fused
      /\ found.reranked = Rerank(hits, Liked(db), EvidenceTopK)
  BY DEF SearchMemory
<1>3. C \subseteq DOMAIN db
  BY DEF InThread
<1> HIDE DEF found, C
<1>4. C \in SUBSET Int /\ IsFiniteSet(C)
  BY <1>3, ScopeIsFinite
<1>5. words \in Seq(C) /\ IsInjective(words)
  <2> DEFINE key == [c \in C |-> db[c].words]
  <2>1. key \in [C -> Int]
    BY <1>3 DEF IsMailbox
  <2>2. words = Top(Ordered(key), CandidateLimit)
    BY DEF Bm25Search, C
  <2> HIDE DEF key, words
  <2> QED  BY <1>1, <1>4, <2>1, <2>2, SearchIs
<1>6. dense \in Seq(C) /\ IsInjective(dense)
  <2> DEFINE key == [c \in C |-> db[c].near]
  <2>1. key \in [C -> Int]
    BY <1>3 DEF IsMailbox
  <2>2. dense = Top(Ordered(key), CandidateLimit)
    BY DEF VectorSearch, C
  <2> HIDE DEF key, dense
  <2> QED  BY <1>1, <1>4, <2>1, <2>2, SearchIs
<1> HIDE DEF words, dense, hits
<1>7. fused \in Seq(C) /\ WellFused(found)
  BY <1>2, <1>5, <1>6, MemoryFusionKeeps
<1> HIDE DEF fused
<1>8. /\ hits \in Seq({hits[i] : i \in DOMAIN hits}) /\ DOMAIN hits = DOMAIN fused
      /\ \A i \in DOMAIN hits : hits[i].chunk = fused[i]
  <2>1. DOMAIN fused = 1 .. Len(fused) /\ Len(fused) \in Nat
    BY <1>7, LenProperties
  <2>2. /\ DOMAIN hits = DOMAIN fused /\ hits = [i \in DOMAIN hits |-> hits[i]]
        /\ \A i \in DOMAIN hits : hits[i].chunk = fused[i]
    BY DEF hits
  <2> QED  BY <2>1, <2>2, ListIsSeq
<1>9. \A c \in C : Liked(db)[c] \in Int
  BY <1>3 DEF Liked, IsMailbox
<1>10. WellRanked(found) /\ \A hit \in ToSet(found.reranked) : hit.chunk \in C
  BY <1>2, <1>7, <1>8, <1>9, RankedFusionKeeps
<1> QED  BY <1>10 DEF found, C

-----------------------------------------------------------------------------
(* What is written in a mail: its lines that are not blank.                  *)

\* Their places.
Lines(s) == {i \in DOMAIN s : ~IsBlank(s[i])}

\* The k-th of r is the e[k]-th of s, and P picks of r what T picks of s.
Picks(e, r, P, s, T) ==
  /\ e \in [DOMAIN r -> DOMAIN s] /\ T \in SUBSET DOMAIN s /\ P \in SUBSET DOMAIN r
  /\ \A k \in DOMAIN r : r[k] = s[e[k]]
  /\ \A j, k \in DOMAIN r : j < k => e[j] < e[k]
  /\ \A i \in T : \E k \in P : e[k] = i
  /\ \A k \in P : e[k] \in T

LEMMA SameOnes ==
  ASSUME NEW S, NEW s \in Seq(S), NEW r \in Seq(S), NEW T, NEW P, NEW e, Picks(e, r, P, s, T)
  PROVE  Those(r, P) = Those(s, T)
<1> DEFINE m == Cardinality(P)
           g == Increasing(P)
           h == [k \in 1 .. m |-> e[g[k]]]
           f == Increasing(T)
           n == Cardinality(T)
<1>0. /\ e \in [DOMAIN r -> DOMAIN s] /\ T \in SUBSET DOMAIN s /\ P \in SUBSET DOMAIN r
      /\ \A k \in DOMAIN r : r[k] = s[e[k]]
      /\ \A j, k \in DOMAIN r : j < k => e[j] < e[k]
      /\ \A i \in T : \E k \in P : e[k] = i
      /\ \A k \in P : e[k] \in T
  BY DEF Picks
<1>1. Ascends(g, m, P) /\ Those(r, P) = [k \in 1 .. m |-> r[g[k]]]
  BY <1>0, ThoseAre
<1>2. Ascends(f, n, T) /\ Those(s, T) = [k \in 1 .. n |-> s[f[k]]]
  BY <1>0, ThoseAre
<1> HIDE DEF m, g, f, n
<1>3. /\ m \in Nat /\ \A k \in 1 .. m : g[k] \in P /\ g[k] \in DOMAIN r
      /\ \A x \in P : \E k \in 1 .. m : g[k] = x
      /\ \A i, j \in 1 .. m : i < j => g[i] < g[j]
  BY <1>0, <1>1 DEF Ascends
<1>4. Ascends(h, m, T)
  <2>1. h \in [1 .. m -> T]
    BY <1>0, <1>3
  <2>2. ASSUME NEW x \in T PROVE \E k \in 1 .. m : h[k] = x
    <3>1. PICK p \in P : e[p] = x
      BY <1>0
    <3>2. PICK k \in 1 .. m : g[k] = p
      BY <1>0, <1>3
    <3> QED  BY <3>1, <3>2
  <2>3. \A i, j \in 1 .. m : i < j => h[i] < h[j]
    BY <1>0, <1>3
  <2> HIDE DEF h
  <2> QED  BY <1>3, <2>1, <2>2, <2>3 DEF Ascends
<1>5. T \in SUBSET Int
  BY <1>0, LenProperties
<1>6. n = m /\ f = h
  <2> HIDE DEF h
  <2> QED  BY <1>2, <1>4, <1>5, OneAscent
<1>7. \A k \in 1 .. m : s[f[k]] = r[g[k]]
  BY <1>0, <1>3, <1>6
<1> QED  BY <1>1, <1>2, <1>6, <1>7

\* The ones of A and then the ones of B.
LEMMA ThoseOfBoth ==
  ASSUME NEW S, NEW s \in Seq(S), NEW A \in SUBSET DOMAIN s, NEW B \in SUBSET DOMAIN s,
         \A x \in A : \A y \in B : x < y
  PROVE  Those(s, A \cup B) = Those(s, A) \o Those(s, B)
<1> DEFINE m == Cardinality(A)
           n == Cardinality(B)
           f == Increasing(A)
           g == Increasing(B)
           a == Those(s, A)
           b == Those(s, B)
           T == A \cup B
           o == Increasing(T)
           l == Cardinality(T)
           h == [k \in 1 .. m + n |-> IF k <= m THEN f[k] ELSE g[k - m]]
<1>1. Ascends(f, m, A) /\ a = [k \in 1 .. m |-> s[f[k]]] /\ a \in Seq(S) /\ Len(a) = m
  BY ThoseAre
<1>2. Ascends(g, n, B) /\ b = [k \in 1 .. n |-> s[g[k]]] /\ b \in Seq(S) /\ Len(b) = n
  BY ThoseAre
<1>3. T \in SUBSET DOMAIN s /\ T \in SUBSET Int
  BY LenProperties
<1>4. Ascends(o, l, T) /\ Those(s, T) = [k \in 1 .. l |-> s[o[k]]] /\ Those(s, T) \in Seq(S)
  <2> HIDE DEF T
  <2> QED  BY <1>3, ThoseAre
<1> HIDE DEF m, n, f, g, a, b, o, l
<1>5. /\ m \in Nat /\ \A k \in 1 .. m : f[k] \in A /\ f[k] \in Int
      /\ \A x \in A : \E k \in 1 .. m : f[k] = x
      /\ \A i, j \in 1 .. m : i < j => f[i] < f[j]
  BY <1>1, <1>3 DEF Ascends
<1>6. /\ n \in Nat /\ \A k \in 1 .. n : g[k] \in B /\ g[k] \in Int
      /\ \A x \in B : \E k \in 1 .. n : g[k] = x
      /\ \A i, j \in 1 .. n : i < j => g[i] < g[j]
  BY <1>2, <1>3 DEF Ascends
<1>7. m + n \in Nat /\ \A k \in 1 .. m + n : IF k <= m THEN k \in 1 .. m ELSE k - m \in 1 .. n
  BY <1>5, <1>6
<1>8. Ascends(h, m + n, T)
  <2>1. h \in [1 .. m + n -> T]
    BY <1>5, <1>6, <1>7
  <2>2. ASSUME NEW x \in T PROVE \E k \in 1 .. m + n : h[k] = x
    <3>1. CASE x \in A
      <4>1. PICK k \in 1 .. m : f[k] = x
        BY <1>5, <3>1
      <4>2. k \in 1 .. m + n /\ k <= m
        BY <1>5, <1>6
      <4> QED  BY <4>1, <4>2
    <3>2. CASE x \in B
      <4>1. PICK k \in 1 .. n : g[k] = x
        BY <1>6, <3>2
      <4>2. m + k \in 1 .. m + n /\ ~(m + k <= m) /\ (m + k) - m = k
        BY <1>5, <1>6
      <4>3. h[m + k] = g[k]
        BY <4>2
      <4> QED  BY <4>1, <4>2, <4>3
    <3> QED  BY <3>1, <3>2
  <2>3. ASSUME NEW i \in 1 .. m + n, NEW j \in 1 .. m + n, i < j PROVE h[i] < h[j]
    <3>1. CASE j <= m
      <4>1. i \in 1 .. m /\ j \in 1 .. m /\ i <= m
        BY <1>5, <1>6, <2>3, <3>1
      <4> QED  BY <1>5, <2>3, <3>1, <4>1
    <3>2. CASE i <= m /\ ~(j <= m)
      <4>1. i \in 1 .. m /\ j - m \in 1 .. n
        BY <1>5, <1>6, <2>3, <3>2
      <4>2. h[i] = f[i] /\ h[j] = g[j - m]
        BY <3>2
      <4> QED  BY <1>5, <1>6, <4>1, <4>2
    <3>3. CASE ~(i <= m)
      <4>1. i - m \in 1 .. n /\ j - m \in 1 .. n /\ i - m < j - m /\ ~(j <= m)
        BY <1>5, <1>6, <2>3, <3>3
      <4>2. h[i] = g[i - m] /\ h[j] = g[j - m]
        BY <3>3, <4>1
      <4> QED  BY <1>6, <4>1, <4>2
    <3> QED  BY <3>1, <3>2, <3>3
  <2> HIDE DEF h
  <2> QED  BY <1>7, <2>1, <2>2, <2>3 DEF Ascends
<1>9. l = m + n /\ o = h
  <2> HIDE DEF h, T
  <2> QED  BY <1>3, <1>4, <1>8, OneAscent
<1>10. Those(s, T) = [k \in 1 .. m + n |-> s[h[k]]]
  BY <1>4, <1>9
<1>11. a \o b = [k \in 1 .. m + n |-> IF k <= m THEN a[k] ELSE b[k - m]]
  <2>0. a \in Seq(S) /\ b \in Seq(S) /\ Len(a) = m /\ Len(b) = n
    BY <1>1, <1>2
  <2> DEFINE c == a \o b
  <2>1. c \in Seq(S) /\ Len(c) = m + n
    BY <2>0, ConcatProperties
  <2>2. \A k \in 1 .. m + n : c[k] = IF k <= m THEN a[k] ELSE b[k - m]
    BY <2>0, ConcatProperties
  <2> HIDE DEF c
  <2>3. DOMAIN c = 1 .. m + n
    BY <2>1, LenProperties
  <2>4. c = [k \in 1 .. m + n |-> c[k]]
    BY <2>1, <2>3
  <2>5. c = [k \in 1 .. m + n |-> IF k <= m THEN a[k] ELSE b[k - m]]
    BY <2>2, <2>4
  <2> QED  BY <2>5 DEF c
<1>12. ASSUME NEW k \in 1 .. m + n PROVE s[h[k]] = IF k <= m THEN a[k] ELSE b[k - m]
  <2>1. CASE k <= m
    <3>1. k \in 1 .. m
      BY <1>7, <2>1
    <3> QED  BY <1>1, <2>1, <3>1
  <2>2. CASE ~(k <= m)
    <3>1. k - m \in 1 .. n
      BY <1>7, <2>2
    <3> QED  BY <1>2, <2>2, <3>1
  <2> QED  BY <2>1, <2>2
<1> QED  BY <1>10, <1>11, <1>12 DEF a, b, T

\* Dropping blank lines drops nothing that is written.
LEMMA ThoseWritten ==
  ASSUME NEW S, NEW s \in Seq(S), NEW T \in SUBSET DOMAIN s, Lines(s) \subseteq T
  PROVE  Written(Those(s, T)) = Written(s)
<1> DEFINE r == Those(s, T)
           m == Cardinality(T)
           e == Increasing(T)
<1>1. Ascends(e, m, T) /\ r = [k \in 1 .. m |-> s[e[k]]] /\ r \in Seq(S) /\ DOMAIN r = 1 .. m
  BY ThoseAre
<1> HIDE DEF r, m, e
<1>2. /\ e \in [DOMAIN r -> DOMAIN s] /\ \A k \in DOMAIN r : r[k] = s[e[k]]
      /\ \A x \in T : \E k \in DOMAIN r : e[k] = x
      /\ \A j, k \in DOMAIN r : j < k => e[j] < e[k]
  BY <1>1 DEF Ascends
<1>3. Lines(r) \in SUBSET DOMAIN r /\ Lines(s) \in SUBSET DOMAIN s
  BY DEF Lines
<1>4. ASSUME NEW i \in Lines(s) PROVE \E k \in Lines(r) : e[k] = i
  <2>1. PICK k \in DOMAIN r : e[k] = i
    BY <1>2
  <2> QED  BY <1>2, <2>1 DEF Lines
<1>5. \A k \in Lines(r) : e[k] \in Lines(s)
  BY <1>2 DEF Lines
<1>6. Picks(e, r, Lines(r), s, Lines(s))
  BY <1>2, <1>3, <1>4, <1>5 DEF Picks
<1>7. Those(r, Lines(r)) = Those(s, Lines(s))
  BY <1>1, <1>6, SameOnes
<1> QED  BY <1>7 DEF Written, Lines, r

\* What is written from line a to b.
LEMMA PartWritten ==
  ASSUME NEW S, NEW s \in Seq(S), NEW a \in Int, NEW b \in Int, 1 <= a, a <= b + 1, b <= Len(s)
  PROVE  Written(SubSeq(s, a, b)) = Those(s, Lines(s) \cap (a .. b))
<1> DEFINE r == SubSeq(s, a, b)
           n == b - a + 1
           e == [k \in 1 .. n |-> a + k - 1]
           T == Lines(s) \cap (a .. b)
<1>1. r \in Seq(S) /\ Len(r) = n /\ \A i \in 1 .. n : r[i] = s[a + i - 1]
  BY PartOfText
<1>2. DOMAIN r = 1 .. n /\ DOMAIN s = 1 .. Len(s) /\ Len(s) \in Nat
  BY <1>1, LenProperties
<1> HIDE DEF r
<1>3. /\ e \in [DOMAIN r -> DOMAIN s] /\ \A k \in DOMAIN r : r[k] = s[e[k]]
      /\ \A j, k \in DOMAIN r : j < k => e[j] < e[k]
  BY <1>1, <1>2
<1>4. Lines(r) \in SUBSET DOMAIN r /\ T \in SUBSET DOMAIN s
  BY DEF Lines
<1>5. ASSUME NEW i \in T PROVE \E k \in Lines(r) : e[k] = i
  <2>1. i - a + 1 \in DOMAIN r /\ e[i - a + 1] = i /\ r[i - a + 1] = s[i]
    BY <1>2, <1>3
  <2> QED  BY <2>1 DEF Lines
<1>6. ASSUME NEW k \in Lines(r) PROVE e[k] \in T
  <2>1. k \in 1 .. n /\ e[k] = a + k - 1 /\ e[k] \in DOMAIN s /\ ~IsBlank(s[e[k]])
    BY <1>2, <1>3 DEF Lines
  <2> QED  BY <2>1 DEF Lines
<1> HIDE DEF e, T
<1>7. Picks(e, r, Lines(r), s, T)
  BY <1>3, <1>4, <1>5, <1>6 DEF Picks
<1>8. Those(r, Lines(r)) = Those(s, T)
  BY <1>1, <1>7, SameOnes
<1> QED  BY <1>8 DEF Written, Lines, r, T

LEMMA NoneWritten ==
  ASSUME NEW S, NEW s \in Seq(S)
  PROVE  Those(s, {}) = << >>
<1>1. Len(Those(s, {})) = Cardinality({}) /\ Those(s, {}) \in Seq(S)
  BY ThoseAre
<1>2. Cardinality({}) = 0
  BY FS_EmptySet
<1> QED  BY <1>1, <1>2, EmptySeq

\* Lines a to b of s, or none.
IsPart(s, a, b) == a \in Int /\ b \in Int /\ 1 <= a /\ a <= b + 1 /\ b <= Len(s)

LinesIn(s, a, b) == Lines(s) \cap (a .. b)
ComesFrom(part, s, a, b) == \A x \in ToSet(part) : \E i \in a .. b : x = s[i]

\* What is written in a passage.
LEMMA PassageWritten ==
  ASSUME NEW S, NEW s \in Seq(S), NEW a, NEW b, IsPart(s, a, b),
         NEW part, Passage(s, a, b, part)
  PROVE  /\ part \in Seq(S)
         /\ Written(part) = Those(s, LinesIn(s, a, b))
         /\ ComesFrom(part, s, a, b)
<1>0. a \in Int /\ b \in Int /\ 1 <= a /\ a <= b + 1 /\ b <= Len(s)
  BY DEF IsPart
<1>1. PICK f \in a .. b + 1, l \in a - 1 .. b :
        part = SubSeq(s, f, l) /\ \A i \in a .. b : i \notin f .. l => IsBlank(s[i])
  BY DEF Passage
<1>2. Lines(s) \cap (a .. b) = Lines(s) \cap (f .. l)
  BY <1>0, <1>1 DEF Lines
<1>3. CASE f <= l + 1
  <2>1. f \in Int /\ l \in Int /\ 1 <= f /\ l <= Len(s)
    BY <1>0, LenProperties
  <2>2. /\ part \in Seq(S) /\ Len(part) = l - f + 1
        /\ \A i \in 1 .. l - f + 1 : part[i] = s[f + i - 1]
    BY <1>1, <1>3, <2>1, PartOfText
  <2>3. Written(part) = Those(s, Lines(s) \cap (a .. b))
    BY <1>0, <1>1, <1>2, <1>3, <2>1, PartWritten
  <2>4. ASSUME NEW x \in ToSet(part) PROVE \E i \in a .. b : x = s[i]
    <3>1. PICK i \in 1 .. l - f + 1 : x = part[i]
      BY <2>2, LenProperties DEF ToSet
    <3>2. a <= f /\ l <= b /\ f <= f + i - 1 /\ f + i - 1 <= l /\ f + i - 1 \in Int
      BY <1>0, <2>1, <3>1
    <3>3. f + i - 1 \in a .. b
      BY <1>0, <2>1, <3>2
    <3>4. x = s[f + i - 1]
      BY <2>2, <3>1
    <3> QED  BY <3>3, <3>4
  <2> QED  BY <2>2, <2>3, <2>4 DEF LinesIn, ComesFrom
<1>4. CASE ~(f <= l + 1)
  <2>1. part = << >>
    BY <1>0, <1>1, <1>4, SubSeqEmpty
  <2>2. f .. l = {}
    BY <1>0, <1>4
  <2>3. Lines(s) \cap (a .. b) = {}
    BY <1>2, <2>2
  <2>4. Those(s, Lines(s) \cap (a .. b)) = << >>
    BY <2>3, NoneWritten
  <2>5. part \in Seq(S) /\ Written(part) = << >>
    <3>1. << >> \in Seq(S) /\ DOMAIN << >> = {}
      OBVIOUS
    <3>2. {i \in DOMAIN << >> : ~IsBlank(<< >>[i])} = {}
      BY <3>1
    <3> QED  BY <2>1, <3>1, <3>2, NoneWritten DEF Written
  <2>6. ToSet(part) = {}
    BY <2>1 DEF ToSet
  <2> QED  BY <2>4, <2>5, <2>6 DEF LinesIn, ComesFrom
<1> QED  BY <1>3, <1>4 DEF LinesIn, ComesFrom

LEMMA BothWritten ==
  ASSUME NEW S, NEW x \in Seq(S), NEW y \in Seq(S)
  PROVE  Written(x \o y) = Written(x) \o Written(y)
<1> DEFINE s == x \o y
           A == Lines(s) \cap (1 .. Len(x))
           B == Lines(s) \cap (Len(x) + 1 .. Len(s))
<1>1. /\ Len(x) \in Nat /\ Len(y) \in Nat /\ s \in Seq(S) /\ Len(s) = Len(x) + Len(y)
      /\ DOMAIN x = 1 .. Len(x) /\ DOMAIN y = 1 .. Len(y) /\ DOMAIN s = 1 .. Len(s)
      /\ \A i \in 1 .. Len(x) : s[i] = x[i]
      /\ \A i \in 1 .. Len(y) : s[Len(x) + i] = y[i]
  BY LenProperties, ConcatProperties
<1> HIDE DEF s
<1>2. Lines(s) = A \cup B /\ A \in SUBSET DOMAIN s /\ B \in SUBSET DOMAIN s
  BY <1>1 DEF Lines
<1>3. \A i \in A : \A j \in B : i < j
  BY <1>1
<1>4. Those(s, A \cup B) = Those(s, A) \o Those(s, B)
  <2> HIDE DEF A, B
  <2> QED  BY <1>1, <1>2, <1>3, ThoseOfBoth
<1>5. Those(x, Lines(x)) = Those(s, A)
  <2> DEFINE e == [k \in 1 .. Len(x) |-> k]
  <2>1. /\ e \in [DOMAIN x -> DOMAIN s] /\ \A k \in DOMAIN x : x[k] = s[e[k]]
        /\ \A j, k \in DOMAIN x : j < k => e[j] < e[k]
    BY <1>1
  <2>2. Lines(x) \in SUBSET DOMAIN x
    BY DEF Lines
  <2>3. \A i \in A : i \in Lines(x) /\ e[i] = i
    BY <1>1 DEF Lines
  <2>4. \A k \in Lines(x) : e[k] \in A
    BY <1>1 DEF Lines
  <2> HIDE DEF e, A
  <2>5. Picks(e, x, Lines(x), s, A)
    BY <1>2, <2>1, <2>2, <2>3, <2>4 DEF Picks
  <2> QED  BY <1>1, <2>5, SameOnes
<1>6. Those(y, Lines(y)) = Those(s, B)
  <2> DEFINE e == [k \in 1 .. Len(y) |-> Len(x) + k]
  <2>1. /\ e \in [DOMAIN y -> DOMAIN s] /\ \A k \in DOMAIN y : y[k] = s[e[k]]
        /\ \A j, k \in DOMAIN y : j < k => e[j] < e[k]
    BY <1>1
  <2>2. Lines(y) \in SUBSET DOMAIN y
    BY DEF Lines
  <2>3. ASSUME NEW i \in B PROVE \E k \in Lines(y) : e[k] = i
    <3>1. i - Len(x) \in 1 .. Len(y) /\ Len(x) + (i - Len(x)) = i
      BY <1>1
    <3>2. i - Len(x) \in Lines(y) /\ e[i - Len(x)] = i
      BY <1>1, <3>1 DEF Lines
    <3> QED  BY <3>2
  <2>4. \A k \in Lines(y) : e[k] \in B
    BY <1>1 DEF Lines
  <2> HIDE DEF e, B
  <2>5. Picks(e, y, Lines(y), s, B)
    BY <1>2, <2>1, <2>2, <2>3, <2>4 DEF Picks
  <2> QED  BY <1>1, <2>5, SameOnes
<1> QED  BY <1>2, <1>4, <1>5, <1>6 DEF Written, Lines, s

IsStripped(s) == s = << >> \/ (~IsBlank(s[1]) /\ ~IsBlank(s[Len(s)]))

LEMMA StripKeeps ==
  ASSUME NEW S, NEW lines \in Seq(S)
  PROVE  /\ Strip(lines) \in Seq(S) /\ IsStripped(Strip(lines))
         /\ Written(Strip(lines)) = Written(lines)
<1> DEFINE n == Len(lines)
           text == {i \in DOMAIN lines : ~IsBlank(lines[i])}
<1>1. n \in Nat /\ DOMAIN lines = 1 .. n /\ text \in SUBSET (0 .. n) /\ text \in SUBSET Nat
  BY LenProperties
<1>2. Passage(lines, 1, n, Strip(lines))
  BY StripIsPassage
<1>3. IsPart(lines, 1, n)
  BY <1>1 DEF IsPart
<1>4. Strip(lines) \in Seq(S) /\ Written(Strip(lines)) = Those(lines, LinesIn(lines, 1, n))
  <2> HIDE DEF n, text
  <2> QED  BY <1>2, <1>3, PassageWritten DEF n
<1>5. LinesIn(lines, 1, n) = text
  BY <1>1 DEF Lines, LinesIn
<1>6. IsStripped(Strip(lines))
  <2>1. CASE text = {}
    <3>1. Strip(lines) = << >>
      BY <2>1 DEF Strip
    <3> QED  BY <3>1 DEF IsStripped
  <2>2. CASE text # {}
    <3> DEFINE a == Min(text)
               b == Max(text)
    <3>1. Strip(lines) = SubSeq(lines, a, b)
      BY <2>2 DEF Strip
    <3>2. a \in text /\ b \in text /\ a <= b
      <4> HIDE DEF text
      <4> QED  BY <1>1, <2>2, MinOfNumbers, MaxOfNumbers
    <3>3. a \in 1 .. n /\ b \in 1 .. n /\ ~IsBlank(lines[a]) /\ ~IsBlank(lines[b])
      BY <1>1, <3>2
    <3> HIDE DEF a, b, text
    <3> DEFINE r == SubSeq(lines, a, b)
    <3>4. Len(r) = b - a + 1 /\ \A i \in 1 .. b - a + 1 : r[i] = lines[a + i - 1]
      <4>1. a \in Int /\ b \in Int /\ 1 <= a /\ a <= b + 1 /\ b <= Len(lines)
        BY <1>1, <3>2, <3>3
      <4> QED  BY <4>1, PartOfText
    <3> HIDE DEF r
    <3>5. 1 \in 1 .. b - a + 1 /\ b - a + 1 \in 1 .. b - a + 1 /\ a + 1 - 1 = a /\ a + (b - a + 1) - 1 = b
      BY <1>1, <3>2, <3>3
    <3>6. r[1] = lines[a] /\ r[Len(r)] = lines[b]
      BY <3>4, <3>5
    <3> QED  BY <3>1, <3>3, <3>6 DEF IsStripped, r
  <2> QED  BY <2>1, <2>2
<1> QED  BY <1>4, <1>5, <1>6 DEF Written

\* normalize_body drops blank lines only, and leaves none at the ends.
LEMMA NormalizeKeeps ==
  ASSUME NEW S, NEW body \in Seq(S)
  PROVE  LET text == NormalizeBody(body)
         IN  text \in Seq(S) /\ IsStripped(text) /\ Written(text) = Written(body)
<1> DEFINE t == Strip(body)
           P == {i \in DOMAIN t : ~(IsBlank(t[i]) /\ IsBlank(t[i - 1]))}
           r == Those(t, P)
           m == Cardinality(P)
           o == Increasing(P)
<1>1. NormalizeBody(body) = r
  BY DEF NormalizeBody
<1>2. t \in Seq(S) /\ IsStripped(t) /\ Written(t) = Written(body)
  BY StripKeeps
<1> HIDE DEF t
<1>3. P \in SUBSET DOMAIN t /\ Lines(t) \subseteq P
  BY DEF Lines
<1>4. \A i \in DOMAIN t : ~IsBlank(t[i]) => i \in P
  OBVIOUS
<1> HIDE DEF P
<1>5. Ascends(o, m, P) /\ r = [k \in 1 .. m |-> t[o[k]]] /\ r \in Seq(S) /\ Len(r) = m
  BY <1>2, <1>3, ThoseAre
<1>6. Written(r) = Written(t)
  BY <1>2, <1>3, ThoseWritten
<1> HIDE DEF r, m, o
<1>7. IsStripped(r)
  <2>1. CASE t = << >>
    <3>1. DOMAIN t = {}
      BY <2>1
    <3>2. P = {}
      BY <1>3, <3>1
    <3>3. m = 0
      BY <3>2, FS_EmptySet DEF m
    <3>4. r = << >>
      BY <1>5, <3>3, EmptySeq
    <3> QED  BY <3>4 DEF IsStripped
  <2>2. CASE t # << >>
    <3> DEFINE n == Len(t)
    <3>1. n \in Nat /\ DOMAIN t = 1 .. n /\ n # 0
      BY <1>2, <2>2, LenProperties, EmptySeq
    <3>2. ~IsBlank(t[1]) /\ ~IsBlank(t[n])
      BY <1>2, <2>2 DEF IsStripped
    <3> HIDE DEF n
    <3>3. 1 \in P /\ n \in P
      BY <1>4, <3>1, <3>2
    <3>4. /\ m \in Nat /\ \A k \in 1 .. m : o[k] \in 1 .. n
          /\ \A x \in P : \E k \in 1 .. m : o[k] = x
          /\ \A i, j \in 1 .. m : i < j => o[i] < o[j]
      BY <1>3, <1>5, <3>1 DEF Ascends
    <3>5. PICK j \in 1 .. m : o[j] = 1
      BY <3>3, <3>4
    <3>6. PICK k \in 1 .. m : o[k] = n
      BY <3>3, <3>4
    <3>7. 1 \in 1 .. m /\ m \in 1 .. m
      BY <3>4, <3>5
    <3>8. ~(1 < j) /\ ~(k < m)
      <4>1. o[1] \in 1 .. n /\ o[m] \in 1 .. n
        BY <3>4, <3>7
      <4>2. ~(o[1] < 1) /\ ~(n < o[m])
        BY <3>1, <4>1
      <4> QED  BY <3>4, <3>5, <3>6, <3>7, <4>2
    <3>9. o[1] = 1 /\ o[m] = n
      BY <3>4, <3>5, <3>6, <3>8
    <3>10. r[1] = t[1] /\ r[m] = t[n]
      BY <1>5, <3>7, <3>9
    <3> QED  BY <1>5, <3>2, <3>10 DEF IsStripped
  <2> QED  BY <2>1, <2>2
<1> QED  BY <1>1, <1>2, <1>5, <1>6, <1>7

LEMMA UntilIsSeq ==
  ASSUME NEW S, NEW lines \in Seq(S), NEW i \in 0 .. Len(lines)
  PROVE  Until(lines, i) \in Seq(S)
<1>1. CASE i = 0
  BY <1>1 DEF Until
<1>2. CASE i # 0
  <2>1. 1 \in Int /\ i - 1 \in Int /\ 1 <= 1 /\ 1 <= (i - 1) + 1 /\ i - 1 <= Len(lines)
    BY <1>2, LenProperties
  <2> QED  BY <1>2, <2>1, PartOfText DEF Until
<1> QED  BY <1>1, <1>2

\* What segment_email_body takes for authored text begins and ends with text.
LEMMA AuthoredIsStripped ==
  ASSUME NEW S, NEW text \in Seq(S), IsStripped(text)
  PROVE  SegmentText(text).authored \in Seq(S) /\ IsStripped(SegmentText(text).authored)
<1> DEFINE q0 == FindQuoteStart(text)
           head == Until(text, q0)
           n0 == FindDisclaimerStart(head)
           rest == Until(head, n0)
           s0 == FindSignatureStart(rest)
           own == Strip(Until(rest, s0))
           quoted == Onward(text, q0)
           s == SegmentText(text)
<1>1. s = IF Restores(own, q0)
            THEN [authored |-> text, signature |-> << >>, disclaimer |-> << >>, quoted |-> quoted]
          ELSE [authored |-> own, signature |-> Onward(rest, s0),
                disclaimer |-> Onward(head, n0), quoted |-> quoted]
  BY DEF SegmentText
<1> HIDE DEF s
<1>2. s.authored = IF Restores(own, q0) THEN text ELSE own
  <2> HIDE DEF own, quoted
  <2> QED  BY <1>1
<1>3. q0 \in 0 .. Len(text)
  <2>1. Len(text) \in Nat
    BY LenProperties
  <2> QED  BY <2>1, QuoteStartIsFirst
<1> HIDE DEF q0
<1>4. head \in Seq(S)
  BY <1>3, UntilIsSeq
<1> HIDE DEF head
<1>5. rest \in Seq(S)
  BY <1>4, FindsAreIn, UntilIsSeq
<1> HIDE DEF rest
<1>6. Until(rest, s0) \in Seq(S)
  BY <1>5, FindsAreIn, UntilIsSeq
<1>7. own \in Seq(S) /\ IsStripped(own)
  <2> DEFINE u == Until(rest, s0)
  <2>1. u \in Seq(S)
    BY <1>6
  <2> HIDE DEF u
  <2>2. Strip(u) \in Seq(S) /\ IsStripped(Strip(u))
    BY <2>1, StripKeeps
  <2> QED  BY <2>2 DEF u
<1> HIDE DEF own
<1> QED  BY <1>2, <1>7 DEF s

\* The four segments together are what is written, and only history is in the last.
LEMMA SegmentsRead ==
  ASSUME NEW S, NEW text \in Seq(S), NEW s, IsWhole(text, s)
  PROVE  LET own == s.authored \o s.signature \o s.disclaimer
         IN  /\ Written(own \o s.quoted) = Written(text)
             /\ \A line \in ToSet(own) : line.sees \notin {"quoted", "original", "on wrote"}
<1> DEFINE end == Len(text) + 1
           W == Lines(text)
           In(a, b) == LinesIn(text, a, b)
           Cuts(i, j, k) == /\ Passage(text, 1, i - 1, s.authored)
                            /\ Passage(text, i, j - 1, s.signature)
                            /\ Passage(text, j, k - 1, s.disclaimer)
                            /\ Passage(text, k, Len(text), s.quoted)
                            /\ \A x \in 1 .. k - 1 : ~StartsQuote(text, x)
<1>0. \E i \in 1 .. end : \E j \in i .. end : \E k \in j .. end : Cuts(i, j, k)
  BY Zenon DEF IsWhole
<1> HIDE DEF Cuts
<1>01. PICK signature \in 1 .. end : \E j \in signature .. end : \E k \in j .. end : Cuts(signature, j, k)
  BY <1>0
<1>02. PICK notice \in signature .. end : \E k \in notice .. end : Cuts(signature, notice, k)
  BY <1>01
<1>03. PICK quote \in notice .. end : Cuts(signature, notice, quote)
  BY <1>02
<1>1. /\ Passage(text, 1, signature - 1, s.authored)
      /\ Passage(text, signature, notice - 1, s.signature)
      /\ Passage(text, notice, quote - 1, s.disclaimer)
      /\ Passage(text, quote, Len(text), s.quoted)
      /\ \A i \in 1 .. quote - 1 : ~StartsQuote(text, i)
  BY <1>03 DEF Cuts
<1>2. Len(text) \in Nat /\ DOMAIN text = 1 .. Len(text)
  BY LenProperties
<1> DEFINE p == s.authored
           q == s.signature
           r == s.disclaimer
           t == s.quoted
           a == signature - 1
           b == notice - 1
           c == quote - 1
           d == Len(text)
           Within(j, k) == j \in Int /\ k \in Int /\ 0 <= j /\ j <= k /\ k <= d
<1>3. /\ a \in Int /\ b \in Int /\ c \in Int /\ d \in Int /\ signature \in Int /\ notice \in Int /\ quote \in Int
      /\ 0 <= a /\ a <= b /\ b <= c /\ c <= d
      /\ signature = a + 1 /\ notice = b + 1 /\ quote = c + 1
  BY <1>2
<1>4. /\ Passage(text, 1, a, p) /\ Passage(text, signature, b, q)
      /\ Passage(text, notice, c, r) /\ Passage(text, quote, d, t)
  BY <1>1
<1> HIDE DEF a, b, c, d, p, q, r, t
<1>5. p \in Seq(S) /\ Written(p) = Those(text, In(1, a)) /\ ComesFrom(p, text, 1, a)
  <2>1. IsPart(text, 1, a)
    BY <1>3 DEF d, IsPart
  <2> QED  BY <1>3, <1>4, <2>1, PassageWritten
<1>6. /\ q \in Seq(S) /\ Written(q) = Those(text, In(signature, b))
      /\ ComesFrom(q, text, signature, b)
  <2>1. IsPart(text, signature, b)
    BY <1>3 DEF d, IsPart
  <2> QED  BY <1>3, <1>4, <2>1, PassageWritten
<1>7. /\ r \in Seq(S) /\ Written(r) = Those(text, In(notice, c))
      /\ ComesFrom(r, text, notice, c)
  <2>1. IsPart(text, notice, c)
    BY <1>3 DEF d, IsPart
  <2> QED  BY <1>3, <1>4, <2>1, PassageWritten
<1>8. t \in Seq(S) /\ Written(t) = Those(text, In(quote, d))
  <2>1. IsPart(text, quote, d)
    BY <1>3 DEF d, IsPart
  <2> QED  BY <1>3, <1>4, <2>1, PassageWritten
<1>9. W \in SUBSET (1 .. d) /\ W = In(1, d) /\ W \in SUBSET DOMAIN text
  BY <1>2 DEF Lines, LinesIn, d
<1>10. ASSUME NEW j, NEW k, Within(j, k)
       PROVE  Those(text, In(1, k)) = Those(text, In(1, j)) \o Those(text, In(j + 1, k))
  <2> DEFINE A == In(1, j)
             B == In(j + 1, k)
  <2>0. j \in Int /\ k \in Int /\ 0 <= j /\ j <= k /\ k <= d
    BY <1>10 DEF Within
  <2>1. In(1, k) = A \cup B /\ \A x \in A : \A y \in B : x < y
    BY <1>9, <2>0 DEF LinesIn
  <2>2. A \in SUBSET DOMAIN text /\ B \in SUBSET DOMAIN text
    BY <1>9 DEF LinesIn, Lines
  <2> HIDE DEF A, B
  <2>3. Those(text, A \cup B) = Those(text, A) \o Those(text, B)
    BY <2>1, <2>2, ThoseOfBoth
  <2> QED  BY <2>1, <2>3 DEF A, B
<1>30. Within(a, b) /\ Within(b, c) /\ Within(c, d)
  BY <1>3
<1>31. signature = a + 1 /\ notice = b + 1 /\ quote = c + 1
  BY <1>3
<1> HIDE DEF In, Within
<1>11. Written(p \o q) = Those(text, In(1, b)) /\ p \o q \in Seq(S)
  <2>1. Those(text, In(1, b)) = Those(text, In(1, a)) \o Those(text, In(signature, b))
    BY <1>30, <1>31, <1>10
  <2>2. Written(p \o q) = Written(p) \o Written(q)
    BY <1>5, <1>6, BothWritten
  <2> QED  BY <1>5, <1>6, <2>1, <2>2, ConcatProperties
<1> DEFINE pq == p \o q
<1>12. Written(pq \o r) = Those(text, In(1, c)) /\ pq \o r \in Seq(S)
  <2> HIDE DEF pq
  <2>1. Those(text, In(1, c)) = Those(text, In(1, b)) \o Those(text, In(notice, c))
    BY <1>30, <1>31, <1>10
  <2>2. pq \in Seq(S) /\ Written(pq) = Those(text, In(1, b))
    BY <1>11 DEF pq
  <2>3. Written(pq \o r) = Written(pq) \o Written(r)
    BY <1>7, <2>2, BothWritten
  <2> QED  BY <1>7, <2>1, <2>2, <2>3, ConcatProperties
<1> DEFINE own == pq \o r
<1>13. Written(own \o t) = Written(text)
  <2> HIDE DEF own
  <2>1. Those(text, In(1, d)) = Those(text, In(1, c)) \o Those(text, In(quote, d))
    BY <1>30, <1>31, <1>10
  <2>2. own \in Seq(S) /\ Written(own) = Those(text, In(1, c))
    BY <1>12 DEF own
  <2>3. Written(own \o t) = Written(own) \o Written(t)
    BY <1>8, <2>2, BothWritten
  <2>4. Written(text) = Those(text, W)
    BY DEF Written, W, Lines
  <2> QED  BY <1>8, <1>9, <2>1, <2>2, <2>3, <2>4
<1>14. ASSUME NEW x \in ToSet(own) PROVE x.sees \notin {"quoted", "original", "on wrote"}
  <2>1. x \in ToSet(p) \/ x \in ToSet(q) \/ x \in ToSet(r)
    <3>1. ToSet(own) = ToSet(pq) \cup ToSet(r)
      <4> HIDE DEF pq
      <4>1. pq \in Seq(S)
        BY <1>11 DEF pq
      <4> QED  BY <1>7, <4>1, ToSetOfConcat
    <3>2. ToSet(pq) = ToSet(p) \cup ToSet(q)
      BY <1>5, <1>6, ToSetOfConcat
    <3> QED  BY <1>14, <3>1, <3>2
  <2>2. \E i \in 1 .. quote - 1 : x = text[i]
    <3> HIDE DEF own, pq
    <3>1. \A i \in 1 .. a : i \in 1 .. quote - 1
      BY <1>3
    <3>2. \A i \in signature .. b : i \in 1 .. quote - 1
      BY <1>3
    <3>3. \A i \in notice .. c : i \in 1 .. quote - 1
      BY <1>3
    <3> QED  BY <1>5, <1>6, <1>7, <2>1, <3>1, <3>2, <3>3 DEF ComesFrom
  <2>3. \A i \in 1 .. quote - 1 : text[i].sees \notin {"quoted", "original", "on wrote"}
    BY <1>1 DEF StartsQuote
  <2> QED  BY <2>2, <2>3
<1> QED  BY <1>13, <1>14 DEF own, pq, p, q, r, t

-----------------------------------------------------------------------------
(* Paragraphs.                                                             *)

Paragraphs(lines, spans) ==
  /\ spans \in Seq(Nat \X Nat)
  /\ \A k \in DOMAIN spans :
       /\ 1 <= spans[k][1] /\ spans[k][1] <= spans[k][2] /\ spans[k][2] <= Len(lines)
       /\ \A i \in spans[k][1] .. spans[k][2] : ~IsBlank(lines[i])
  /\ \A k \in DOMAIN spans : k + 1 \in DOMAIN spans =>
       /\ spans[k][2] < spans[k + 1][1]
       /\ \A i \in spans[k][2] + 1 .. spans[k + 1][1] - 1 : IsBlank(lines[i])
  /\ \A i \in Lines(lines) : \E k \in DOMAIN spans : i \in spans[k][1] .. spans[k][2]

\* The run of text that line j is in begins somewhere.
LEMMA RunStarts ==
  ASSUME NEW n \in Nat, NEW T \in SUBSET (1 .. n), NEW j \in T
  PROVE  \E i \in T : i - 1 \notin T /\ i <= j /\ i .. j \subseteq T
<1> DEFINE R == {i \in 1 .. j : i .. j \subseteq T}
<1>1. j \in 1 .. n /\ j \in R /\ R \in SUBSET Nat
  OBVIOUS
<1>2. PICK i \in R : \A y \in R : i <= y
  <2> HIDE DEF R
  <2> QED  BY <1>1, LeastNumber
<1>3. i \in 1 .. j /\ i .. j \subseteq T /\ i \in T
  BY <1>1
<1>4. i - 1 \notin T
  <2> SUFFICES ASSUME i - 1 \in T PROVE FALSE
    OBVIOUS
  <2>1. i - 1 \in 1 .. n /\ i - 1 \in 1 .. j
    BY <1>1, <1>3
  <2>2. \A y \in i - 1 .. j : y = i - 1 \/ y \in i .. j
    BY <1>3, <2>1
  <2>3. i - 1 .. j \subseteq T
    BY <1>3, <2>2
  <2>4. i - 1 \in R /\ ~(i <= i - 1)
    BY <1>3, <2>1, <2>3
  <2> HIDE DEF R
  <2> QED  BY <1>2, <2>4
<1> QED  BY <1>3, <1>4

LEMMA ParagraphsAre ==
  ASSUME NEW S, NEW lines \in Seq(S)
  PROVE  Paragraphs(lines, ParagraphSpans(lines))
<1> DEFINE n == Len(lines)
           T == {i \in DOMAIN lines : ~IsBlank(lines[i])}
           B == {i \in T : i - 1 \notin T}
           m == Cardinality(B)
           starts == Increasing(B)
           Run(i) == {j \in T : i .. j \subseteq T}
           End(i) == Max(Run(i))
           spans == ParagraphSpans(lines)
<1>1. n \in Nat /\ DOMAIN lines = 1 .. n /\ T \in SUBSET (1 .. n) /\ B \in SUBSET (1 .. n)
  BY LenProperties
<1>2. \A i \in T : i \in 1 .. n /\ ~IsBlank(lines[i])
  BY <1>1
<1>3. \A i \in 1 .. n : i \notin T => IsBlank(lines[i])
  BY <1>1
<1>4. spans = [k \in DOMAIN starts |-> <<starts[k], End(starts[k])>>]
  BY DEF ParagraphSpans
<1>5. T = Lines(lines)
  BY DEF Lines
<1> HIDE DEF n, T
<1>6. Ascends(starts, m, B)
  <2> HIDE DEF B
  <2> QED  BY <1>1, IncreasingAscends
<1> HIDE DEF starts, m, spans
<1>7. /\ m \in Nat /\ DOMAIN starts = 1 .. m /\ \A k \in 1 .. m : starts[k] \in B
      /\ \A x \in B : \E k \in 1 .. m : starts[k] = x
      /\ \A i, j \in 1 .. m : i < j => starts[i] < starts[j]
  BY <1>6 DEF Ascends
<1>8. ASSUME NEW i \in T
      PROVE  /\ End(i) \in i .. n /\ i .. End(i) \subseteq T /\ End(i) + 1 \notin T
             /\ \A j \in T : i .. j \subseteq T => j <= End(i)
  <2>1. Run(i) \in SUBSET (0 .. n) /\ i \in Run(i)
    <3>1. i \in 1 .. n /\ \A y \in T : y \in 0 .. n
      BY <1>1
    <3>2. \A y \in i .. i : y = i
      BY <3>1
    <3>3. i .. i \subseteq T
      BY <3>2
    <3> QED  BY <3>1, <3>3
  <2> DEFINE R == Run(i)
             e == Max(R)
  <2>2. e \in R /\ \A y \in R : y <= e
    <3> HIDE DEF Run
    <3>1. R \in SUBSET (0 .. n) /\ R # {}
      BY <2>1
    <3> HIDE DEF R
    <3> QED  BY <1>1, <3>1, MaxOfNumbers
  <2>3. e \in T /\ i .. e \subseteq T /\ i <= e
    BY <2>1, <2>2
  <2>4. \A j \in T : i .. j \subseteq T => j <= e
    <3> HIDE DEF e
    <3> QED  BY <2>2
  <2> HIDE DEF e, R
  <2>5. e + 1 \notin T
    <3> SUFFICES ASSUME e + 1 \in T PROVE FALSE
      OBVIOUS
    <3>1. e \in 1 .. n /\ i \in 1 .. n
      BY <1>1, <2>3
    <3>2. \A y \in i .. e + 1 : y \in i .. e \/ y = e + 1
      BY <3>1
    <3>3. i .. e + 1 \subseteq T
      BY <2>3, <3>2
    <3>4. e + 1 <= e
      BY <2>4, <3>3
    <3> QED  BY <3>1, <3>4
  <2>6. e \in i .. n
    BY <1>1, <2>3
  <2> QED  BY <2>3, <2>4, <2>5, <2>6 DEF e, R
<1> HIDE DEF Run, End
<1>9. \A i \in B : i \in T /\ i - 1 \notin T /\ i \in 1 .. n
  BY <1>1
<1>10. \A i \in T : \E b \in B : b <= i /\ b .. i \subseteq T
  <2>1. ASSUME NEW j \in T PROVE \E b \in B : b <= j /\ b .. j \subseteq T
    <3>1. \E i \in T : i - 1 \notin T /\ i <= j /\ i .. j \subseteq T
      BY <1>1, RunStarts
    <3> QED  BY <3>1
  <2> QED  BY <2>1
<1> HIDE DEF B
<1>11. DOMAIN spans = 1 .. m /\ \A k \in 1 .. m : spans[k] = <<starts[k], End(starts[k])>>
  BY <1>4, <1>7
<1>12. \A k \in 1 .. m :
         /\ starts[k] \in 1 .. n /\ End(starts[k]) \in starts[k] .. n
         /\ starts[k] .. End(starts[k]) \subseteq T
  BY <1>7, <1>8, <1>9
<1>13. spans \in Seq(Nat \X Nat)
  <2>1. \A k \in 1 .. m : <<starts[k], End(starts[k])>> \in Nat \X Nat
    BY <1>1, <1>12
  <2>2. spans \in [1 .. m -> Nat \X Nat]
    BY <1>4, <1>7, <2>1
  <2> QED  BY <1>7, <2>2, SeqDef
<1>14. ASSUME NEW k \in 1 .. m
       PROVE  /\ 1 <= spans[k][1] /\ spans[k][1] <= spans[k][2] /\ spans[k][2] <= n
              /\ \A i \in spans[k][1] .. spans[k][2] : ~IsBlank(lines[i])
  <2>1. spans[k][1] = starts[k] /\ spans[k][2] = End(starts[k])
    BY <1>11
  <2> QED  BY <1>1, <1>2, <1>12, <2>1
<1>15. ASSUME NEW k \in 1 .. m, k + 1 \in 1 .. m
       PROVE  /\ spans[k][2] < spans[k + 1][1]
              /\ \A i \in spans[k][2] + 1 .. spans[k + 1][1] - 1 : IsBlank(lines[i])
  <2> DEFINE a == starts[k]
             b == starts[k + 1]
             e == End(a)
  <2>1. spans[k][2] = e /\ spans[k + 1][1] = b
    BY <1>11, <1>15
  <2>2. /\ a \in B /\ a \in T /\ b \in B /\ b - 1 \notin T /\ a < b
        /\ a \in 1 .. n /\ b \in 1 .. n
    BY <1>7, <1>9, <1>15
  <2>3. e \in a .. n /\ a .. e \subseteq T /\ e + 1 \notin T
    BY <1>8, <2>2
  <2> HIDE DEF e
  <2>4. e < b
    <3> SUFFICES ASSUME ~(e < b) PROVE FALSE
      OBVIOUS
    <3>1. b - 1 \in a .. e
      BY <1>1, <2>2, <2>3
    <3> QED  BY <2>2, <2>3, <3>1
  <2>5. ASSUME NEW i \in e + 1 .. b - 1 PROVE i \notin T
    <3> SUFFICES ASSUME i \in T PROVE FALSE
      OBVIOUS
    <3>1. PICK c \in B : c <= i /\ c .. i \subseteq T
      BY <1>10
    <3>2. c \in 1 .. n /\ e \in Int /\ i \in Int /\ b \in Int
      BY <1>9, <2>2, <2>3
    <3>3. e + 1 < c
      <4> SUFFICES ASSUME ~(e + 1 < c) PROVE FALSE
        OBVIOUS
      <4>1. e + 1 \in c .. i
        BY <3>2
      <4> QED  BY <2>3, <3>1, <4>1
    <3>4. PICK l \in 1 .. m : starts[l] = c
      BY <1>7
    <3>5. a < c /\ c < b
      BY <2>2, <2>3, <3>1, <3>2, <3>3
    <3>6. ~(l < k) /\ l # k /\ ~(k + 1 < l) /\ l # k + 1
      <4>1. ~(c < a) /\ c # a /\ ~(b < c) /\ c # b
        BY <2>2, <3>2, <3>5
      <4> QED  BY <1>7, <1>15, <3>4, <4>1
    <3> QED  BY <1>7, <3>6
  <2>6. \A i \in e + 1 .. b - 1 : i \in 1 .. n
    BY <1>1, <2>2, <2>3
  <2> QED  BY <1>3, <2>1, <2>4, <2>5, <2>6
<1>16. ASSUME NEW i \in T PROVE \E k \in 1 .. m : i \in spans[k][1] .. spans[k][2]
  <2>1. PICK b \in B : b <= i /\ b .. i \subseteq T
    BY <1>10
  <2>2. PICK k \in 1 .. m : starts[k] = b
    BY <1>7
  <2>3. i <= End(b) /\ b \in 1 .. n /\ End(b) \in b .. n
    BY <1>8, <1>9, <2>1
  <2>4. spans[k][1] = b /\ spans[k][2] = End(b)
    BY <1>11, <2>2
  <2>5. i \in b .. End(b)
    BY <1>1, <2>1, <2>3
  <2> QED  BY <2>4, <2>5
<1> QED  BY <1>5, <1>11, <1>13, <1>14, <1>15, <1>16 DEF Paragraphs, spans, n

-----------------------------------------------------------------------------
(* Tokens and words.                                                       *)

LEMMA UnionIsFinite ==
  ASSUME NEW D, IsFiniteSet(D), NEW f, DOMAIN f = D, \A x \in D : IsFiniteSet(f[x])
  PROVE  IsFiniteSet(UNION {f[x] : x \in D})
<1> DEFINE T == {f[x] : x \in D}
<1>1. IsFiniteSet(T)
  BY ImageIsFinite
<1>2. \A t \in T : IsFiniteSet(t)
  OBVIOUS
<1> HIDE DEF T
<1>3. IsFiniteSet(UNION T)
  BY <1>1, <1>2, FS_UNION
<1> QED  BY <1>3 DEF T

LEMMA TokensAreFew ==
  ASSUME NEW line \in Line
  PROVE  IsFiniteSet(TokensOf(line))
<1> DEFINE words == line.words
           D == DOMAIN words
           f == [w \in D |-> {w} \X (1 .. words[w])]
<1>1. words \in Seq(Nat)
  BY DEF Line
<1> HIDE DEF words
<1>2. Len(words) \in Nat /\ D = 1 .. Len(words) /\ \A w \in D : words[w] \in Nat
  BY <1>1, LenProperties, ElementOfSeq
<1>3. IsFiniteSet(D)
  BY <1>2, FS_Interval
<1>4. ASSUME NEW w \in D PROVE IsFiniteSet(f[w])
  <2>1. IsFiniteSet({w}) /\ IsFiniteSet(1 .. words[w])
    <3>1. words[w] \in Int
      BY <1>2
    <3>2. IsFiniteSet(1 .. words[w])
      BY <3>1, FS_Interval
    <3> QED  BY <3>2, FS_Singleton
  <2>2. IsFiniteSet({w} \X (1 .. words[w]))
    BY <2>1, FS_Product
  <2> QED  BY <2>2
<1>5. DOMAIN f = D /\ {f[w] : w \in D} = {{w} \X (1 .. words[w]) : w \in D}
  OBVIOUS
<1> HIDE DEF f, D
<1>6. IsFiniteSet(UNION {f[w] : w \in D})
  BY <1>3, <1>4, <1>5, UnionIsFinite
<1> QED  BY <1>5, <1>6 DEF TokensOf, words, D

\* The tokens of lines a to b.
TokensFrom(lines, a, b) == UNION {{i} \X TokensOf(lines[i]) : i \in a .. b}

LEMMA TokensAre ==
  ASSUME NEW lines \in Seq(Line), NEW a \in Nat \ {0}, NEW b \in Int, b <= Len(lines)
  PROVE  IsFiniteSet(TokensFrom(lines, a, b)) /\ TokensIn(lines, a, b) \in Nat
<1> DEFINE D == a .. b
           f == [i \in D |-> {i} \X TokensOf(lines[i])]
<1>1. IsFiniteSet(D)
  BY FS_Interval
<1>2. ASSUME NEW i \in D PROVE IsFiniteSet(f[i])
  <2>1. i \in 1 .. Len(lines)
    BY LenProperties
  <2>2. lines[i] \in Line
    BY <2>1, ElementOfSeq
  <2>3. IsFiniteSet({i}) /\ IsFiniteSet(TokensOf(lines[i]))
    BY <2>2, FS_Singleton, TokensAreFew
  <2>4. IsFiniteSet({i} \X TokensOf(lines[i]))
    BY <2>3, FS_Product
  <2> QED  BY <2>4
<1>3. DOMAIN f = D /\ {f[i] : i \in D} = {{i} \X TokensOf(lines[i]) : i \in D}
  OBVIOUS
<1> HIDE DEF f, D
<1>4. IsFiniteSet(UNION {f[i] : i \in D})
  BY <1>1, <1>2, <1>3, UnionIsFinite
<1>5. IsFiniteSet(TokensFrom(lines, a, b))
  BY <1>3, <1>4 DEF TokensFrom, D
<1> QED  BY <1>5, FS_CardinalityType DEF TokensIn, TokensFrom

\* Tokens before and after the end of a line.
LEMMA TokensAdd ==
  ASSUME NEW lines \in Seq(Line), NEW a \in Nat \ {0}, NEW m \in Int, NEW b \in Int,
         a <= m + 1, m <= b, b <= Len(lines)
  PROVE  TokensIn(lines, a, b) = TokensIn(lines, a, m) + TokensIn(lines, m + 1, b)
<1> DEFINE X == TokensFrom(lines, a, m)
           Y == TokensFrom(lines, m + 1, b)
<1>1. IsFiniteSet(X) /\ IsFiniteSet(Y)
  <2>1. m <= Len(lines) /\ m + 1 \in Nat \ {0}
    BY LenProperties
  <2> QED  BY <2>1, TokensAre
<1>2. a .. b = (a .. m) \cup (m + 1 .. b)
  OBVIOUS
<1>3. TokensFrom(lines, a, b) = X \cup Y
  BY <1>2, Zenon DEF TokensFrom
<1>4. X \cap Y = {}
  <2>1. \A x \in X : \E i \in a .. m : x \in {i} \X TokensOf(lines[i])
    BY DEF TokensFrom
  <2>2. \A y \in Y : \E i \in m + 1 .. b : y \in {i} \X TokensOf(lines[i])
    BY DEF TokensFrom
  <2>3. \A x \in X : x[1] \in a .. m
    BY <2>1
  <2>4. \A y \in Y : y[1] \in m + 1 .. b
    BY <2>2
  <2> HIDE DEF X, Y
  <2> QED  BY <2>3, <2>4
<1> HIDE DEF X, Y
<1>5. /\ Cardinality(X \cup Y) = Cardinality(X) + Cardinality(Y) - Cardinality(X \cap Y)
      /\ Cardinality(X) \in Nat /\ Cardinality(Y) \in Nat
  BY <1>1, FS_Union, FS_CardinalityType
<1>6. Cardinality(X \cap Y) = 0
  BY <1>4, FS_EmptySet
<1>7. Cardinality(X \cup Y) = Cardinality(X) + Cardinality(Y)
  BY <1>5, <1>6
<1> QED  BY <1>3, <1>7 DEF TokensIn, TokensFrom, X, Y

LEMMA NoTokens ==
  ASSUME NEW lines, NEW a, NEW b, \A i \in a .. b : IsBlank(lines[i])
  PROVE  TokensIn(lines, a, b) = 0
<1>1. \A i \in a .. b : TokensOf(lines[i]) = {}
  <2>1. ASSUME NEW i \in a .. b PROVE TokensOf(lines[i]) = {}
    <3>1. lines[i].words = << >>
      BY DEF IsBlank
    <3>2. DOMAIN << >> = {}
      OBVIOUS
    <3> QED  BY <3>1, <3>2 DEF TokensOf
  <2> QED  BY <2>1
<1>2. TokensFrom(lines, a, b) = {}
  BY <1>1 DEF TokensFrom
<1> QED  BY <1>2, FS_EmptySet DEF TokensIn, TokensFrom

\* A paragraph has words.
LEMMA WordsAre ==
  ASSUME NEW lines \in Seq(Line), NEW a \in Nat \ {0}, NEW b \in Nat, a <= b, b <= Len(lines),
         \A i \in a .. b : ~IsBlank(lines[i])
  PROVE  LET words == Words(SubSeq(lines, a, b))
         IN  words \in Seq(Nat) /\ Len(words) \in Nat \ {0}
<1> DEFINE part == SubSeq(lines, a, b)
           seqs == [i \in DOMAIN part |-> part[i].words]
           words == Words(part)
           n == b - a + 1
<1>1. part \in Seq(Line) /\ Len(part) = n /\ \A i \in 1 .. n : part[i] = lines[a + i - 1]
  BY PartOfText
<1>2. DOMAIN part = 1 .. n /\ n \in Nat \ {0}
  BY <1>1, LenProperties
<1> HIDE DEF part
<1>3. words = FlattenSeq(seqs)
  BY DEF Words
<1>4. seqs \in Seq(Seq(Nat)) /\ DOMAIN seqs = 1 .. n
  <2>1. \A i \in 1 .. n : part[i] \in Line
    BY <1>1, <1>2, ElementOfSeq
  <2>2. \A i \in 1 .. n : part[i].words \in Seq(Nat)
    BY <2>1 DEF Line
  <2>3. seqs \in [1 .. n -> Seq(Nat)]
    BY <1>2, <2>2
  <2> HIDE DEF n
  <2> QED  BY <1>2, <2>3, SeqDef
<1>5. seqs[1] \in Seq(Nat) /\ seqs[1] # << >>
  <2>1. 1 \in 1 .. n /\ a + 1 - 1 = a /\ a \in a .. b
    BY <1>2
  <2>2. part[1] = lines[a] /\ ~IsBlank(lines[a])
    BY <1>1, <2>1
  <2>3. part[1] \in Line
    BY <1>1, <1>2, <2>1, ElementOfSeq
  <2>4. seqs[1] = part[1].words
    BY <1>2, <2>1
  <2> QED  BY <2>2, <2>3, <2>4 DEF IsBlank, Line
<1>6. words \in Seq(Nat) /\ ToSet(words) = UNION {ToSet(seqs[k]) : k \in DOMAIN seqs}
  BY <1>3, <1>4, FlattenIsAll
<1> HIDE DEF seqs, words, n
<1>7. Len(seqs[1]) \in Nat \ {0}
  BY <1>5, EmptySeq, LenProperties
<1>8. seqs[1][1] \in ToSet(seqs[1])
  BY <1>5, <1>7, LenProperties DEF ToSet
<1>9. 1 \in DOMAIN seqs
  BY <1>2, <1>4
<1>10. seqs[1][1] \in ToSet(words)
  BY <1>6, <1>8, <1>9
<1>11. DOMAIN words # {}
  BY <1>10 DEF ToSet
<1>12. Len(words) \in Nat /\ DOMAIN words = 1 .. Len(words)
  BY <1>6, LenProperties
<1>13. Len(words) # 0
  BY <1>11, <1>12
<1> QED  BY <1>6, <1>12, <1>13 DEF words, part

LEMMA PairsAreNotEmpty ==
  ASSUME NEW a, NEW b
  PROVE  <<a, b>> # << >>
OBVIOUS

-----------------------------------------------------------------------------
(* Chunks.                                                                   *)

ChunkRecords == [span : Nat \X Nat, window : (Nat \X Nat) \cup {<< >>}]

\* The lines of the span, and not too many tokens; or some of the words of a paragraph
\* that has too many.
IsCut(lines, c) ==
  LET a == c.span[1]
      b == c.span[2]
      n == Len(Words(SubSeq(lines, a, b)))
  IN  /\ 1 <= a /\ a <= b /\ b <= Len(lines)
      /\ ~IsBlank(lines[a]) /\ ~IsBlank(lines[b])
      /\ c.window = << >> => TokensIn(lines, a, b) <= MaxTokens + Overlap
      /\ c.window # << >> =>
           /\ TokensIn(lines, a, b) > MaxTokens
           /\ \A i \in a .. b : ~IsBlank(lines[i])
           /\ c.window[1] \in 1 .. n /\ c.window[2] \in c.window[1] .. n
           /\ c.window[2] - c.window[1] < MaxTokens

IsBefore(c, d) == c.span[1] <= d.span[1] /\ c.span[2] <= d.span[2]

AreCuts(lines, chunks) ==
  /\ chunks \in Seq(ChunkRecords)
  /\ \A k \in DOMAIN chunks : IsCut(lines, chunks[k])
  /\ \A i, j \in DOMAIN chunks : i < j => IsBefore(chunks[i], chunks[j])

UpTo(chunks, a, b) ==
  \A k \in DOMAIN chunks : chunks[k].span[1] <= a /\ chunks[k].span[2] <= b

\* z has the chunks of x, then those of y.
Joins(z, x, y) ==
  /\ \A k \in DOMAIN z : (\E i \in DOMAIN x : z[k] = x[i]) \/ \E j \in DOMAIN y : z[k] = y[j]
  /\ \A i \in DOMAIN x : \E k \in DOMAIN z : z[k] = x[i]
  /\ \A j \in DOMAIN y : \E k \in DOMAIN z : z[k] = y[j]

AllBefore(x, y) == \A i \in DOMAIN x : \A j \in DOMAIN y : IsBefore(x[i], y[j])

LEMMA CutsJoin ==
  ASSUME NEW lines, NEW x, NEW y, AreCuts(lines, x), AreCuts(lines, y), AllBefore(x, y)
  PROVE  AreCuts(lines, x \o y) /\ Joins(x \o y, x, y)
<1> DEFINE z == x \o y
           m == Len(x)
           n == Len(y)
<1>1. /\ x \in Seq(ChunkRecords) /\ y \in Seq(ChunkRecords) /\ z \in Seq(ChunkRecords)
      /\ m \in Nat /\ n \in Nat
      /\ DOMAIN x = 1 .. m /\ DOMAIN y = 1 .. n /\ DOMAIN z = 1 .. m + n
      /\ \A i \in 1 .. m : z[i] = x[i]
      /\ \A i \in 1 .. n : z[m + i] = y[i]
  BY LenProperties, ConcatProperties DEF AreCuts
<1> HIDE DEF z, m, n
<1>2. \A k \in 1 .. m + n : k \in 1 .. m \/ (k - m \in 1 .. n /\ m + (k - m) = k)
  BY <1>1
<1>3. \A k \in 1 .. m + n : (k \in 1 .. m /\ z[k] = x[k]) \/ (k - m \in 1 .. n /\ z[k] = y[k - m])
  BY <1>1, <1>2
<1>4. Joins(z, x, y)
  <2>1. \A i \in 1 .. m : i \in 1 .. m + n
    BY <1>1
  <2>2. \A i \in 1 .. n : m + i \in 1 .. m + n
    BY <1>1
  <2> QED  BY <1>1, <1>3, <2>1, <2>2 DEF Joins
<1>5. \A k \in DOMAIN z : IsCut(lines, z[k])
  BY <1>4 DEF Joins, AreCuts
<1>6. ASSUME NEW i \in 1 .. m + n, NEW j \in 1 .. m + n, i < j PROVE IsBefore(z[i], z[j])
  <2>1. CASE i \in 1 .. m /\ j \in 1 .. m
    BY <1>1, <1>6, <2>1 DEF AreCuts
  <2>2. CASE i \in 1 .. m /\ j \notin 1 .. m
    <3>1. j - m \in 1 .. n /\ z[j] = y[j - m] /\ z[i] = x[i]
      BY <1>1, <1>3, <2>2
    <3> QED  BY <1>1, <2>2, <3>1 DEF AllBefore
  <2>3. CASE i \notin 1 .. m
    <3>1. j \notin 1 .. m
      BY <1>1, <1>6, <2>3
    <3>2. i - m \in 1 .. n /\ z[i] = y[i - m] /\ j - m \in 1 .. n /\ z[j] = y[j - m]
      BY <1>3, <2>3, <3>1
    <3>3. i - m < j - m
      BY <1>1, <1>6
    <3> QED  BY <1>1, <3>2, <3>3 DEF AreCuts
  <2> QED  BY <2>1, <2>2, <2>3
<1> QED  BY <1>1, <1>4, <1>5, <1>6 DEF AreCuts, z

\* More chunks hold what some of them hold.
LEMMA HoldsMore ==
  ASSUME NEW lines, NEW i, NEW x, NEW z, \A k \in DOMAIN x : \E l \in DOMAIN z : z[l] = x[k],
         Holds(lines, x, i)
  PROVE  Holds(lines, z, i)
<1> DEFINE In(c) == i \in c.span[1] .. c.span[2]
           OneHas(s, c, w) ==
             \E l \in DOMAIN s : /\ s[l].span = c.span /\ s[l].window # << >>
                                 /\ w \in s[l].window[1] .. s[l].window[2]
           All(s, c) == \A w \in DOMAIN Words(SubSeq(lines, c.span[1], c.span[2])) : OneHas(s, c, w)
<1>1. PICK k \in DOMAIN x : In(x[k]) /\ (x[k].window = << >> \/ All(x, x[k]))
  BY DEF Holds
<1>2. PICK l \in DOMAIN z : z[l] = x[k]
  OBVIOUS
<1>3. ASSUME NEW w, OneHas(x, x[k], w) PROVE OneHas(z, x[k], w)
  <2>1. PICK m \in DOMAIN x : /\ x[m].span = x[k].span /\ x[m].window # << >>
                              /\ w \in x[m].window[1] .. x[m].window[2]
    BY <1>3
  <2>2. PICK o \in DOMAIN z : z[o] = x[m]
    OBVIOUS
  <2> QED  BY <2>1, <2>2
<1>4. All(x, x[k]) => All(z, x[k])
  <2> HIDE DEF OneHas
  <2> QED  BY <1>3
<1>5. In(z[l]) /\ (z[l].window = << >> \/ All(z, z[l]))
  <2> HIDE DEF In, All
  <2> QED  BY <1>1, <1>2, <1>4
<1> QED  BY <1>5 DEF Holds

LEMMA OneCut ==
  ASSUME NEW lines, NEW c \in ChunkRecords, IsCut(lines, c)
  PROVE  AreCuts(lines, <<c>>) /\ DOMAIN <<c>> = {1} /\ <<c>>[1] = c
<1>1. <<c>> \in Seq(ChunkRecords) /\ DOMAIN <<c>> = {1} /\ <<c>>[1] = c
  OBVIOUS
<1> DEFINE s == <<c>>
<1> HIDE DEF s
<1>2. AreCuts(lines, s)
  BY <1>1 DEF AreCuts, s
<1> QED  BY <1>1, <1>2 DEF s

\* The open chunk, from first to last, when there is one.
OpenIsCut(lines, chunks, first, last) ==
  /\ first \in Nat /\ last \in Nat
  /\ first # 0 => /\ first <= last /\ last <= Len(lines)
                  /\ ~IsBlank(lines[first]) /\ ~IsBlank(lines[last])
                  /\ TokensIn(lines, first, last) <= MaxTokens + Overlap
                  /\ UpTo(chunks, first, last)

LEMMA FlushKeeps ==
  ASSUME NEW lines, NEW chunks, NEW first, NEW last,
         AreCuts(lines, chunks), OpenIsCut(lines, chunks, first, last)
  PROVE  LET all == Flush(chunks, first, last)
         IN  /\ AreCuts(lines, all)
             /\ first = 0 => all = chunks
             /\ first # 0 => UpTo(all, first, last)
             /\ \A i : Holds(lines, chunks, i) \/ (first # 0 /\ i \in first .. last) => Holds(lines, all, i)
<1>1. CASE first = 0
  BY <1>1 DEF Flush
<1>2. CASE first # 0
  <2> DEFINE c == WholeLines(first, last)
             y == <<c>>
             all == Flush(chunks, first, last)
  <2>1. c \in ChunkRecords
    BY DEF WholeLines, ChunkRecords, OpenIsCut
  <2>2. c.span[1] = first /\ c.span[2] = last /\ c.window = << >>
    BY DEF WholeLines
  <2> HIDE DEF c
  <2>3. IsCut(lines, c)
    <3>1. 1 <= first
      BY <1>2 DEF OpenIsCut
    <3> QED  BY <1>2, <2>2, <3>1 DEF OpenIsCut, IsCut
  <2>4. AreCuts(lines, y) /\ DOMAIN y = {1} /\ y[1] = c
    BY <2>1, <2>3, OneCut
  <2>5. all = chunks \o y
    <3>1. all = Append(chunks, c) /\ chunks \in Seq(ChunkRecords)
      BY <1>2 DEF Flush, c, AreCuts
    <3> QED  BY <2>1, <3>1, AppendIsConcat
  <2> HIDE DEF y, all
  <2>6. UpTo(chunks, first, last)
    BY <1>2 DEF OpenIsCut
  <2>7. AllBefore(chunks, y)
    BY <2>2, <2>4, <2>6 DEF AllBefore, IsBefore, UpTo
  <2>8. AreCuts(lines, all) /\ Joins(all, chunks, y)
    BY <2>4, <2>5, <2>7, CutsJoin
  <2>9. UpTo(all, first, last)
    <3>1. ASSUME NEW k \in DOMAIN all PROVE all[k].span[1] <= first /\ all[k].span[2] <= last
      <4>1. all[k] = c \/ \E i \in DOMAIN chunks : all[k] = chunks[i]
        BY <2>4, <2>8 DEF Joins
      <4>2. first <= first /\ last <= last
        BY DEF OpenIsCut
      <4> QED  BY <2>2, <2>6, <4>1, <4>2 DEF UpTo
    <3> QED  BY <3>1 DEF UpTo
  <2>10. ASSUME NEW i, Holds(lines, chunks, i) \/ i \in first .. last PROVE Holds(lines, all, i)
    <3>1. CASE Holds(lines, chunks, i)
      <4>1. \A k \in DOMAIN chunks : \E l \in DOMAIN all : all[l] = chunks[k]
        BY <2>8 DEF Joins
      <4> QED  BY <3>1, <4>1, HoldsMore
    <3>2. CASE i \in first .. last
      <4>1. \E k \in DOMAIN all : all[k] = c
        BY <2>4, <2>8 DEF Joins
      <4> QED  BY <2>2, <3>2, <4>1 DEF Holds
    <3> QED  BY <2>10, <3>1, <3>2
  <2> QED  BY <1>2, <2>8, <2>9, <2>10 DEF all
<1> QED  BY <1>1, <1>2

IsParagraph(lines, span) ==
  /\ span \in Nat \X Nat
  /\ 1 <= span[1] /\ span[1] <= span[2] /\ span[2] <= Len(lines)
  /\ \A i \in span[1] .. span[2] : ~IsBlank(lines[i])

LEMMA WindowsArePairs ==
  ASSUME NEW n, NEW size, NEW overlap, NEW k \in DOMAIN Windows(n, size, overlap)
  PROVE  LET w == Windows(n, size, overlap)[k] IN w = <<w[1], w[2]>>
BY DEF Windows

\* The windows of a paragraph are cuts of it, and hold all of it.
LEMMA CutKeeps ==
  ASSUME NEW lines \in Seq(Line), NEW span, IsParagraph(lines, span),
         TokensIn(lines, span[1], span[2]) > MaxTokens
  PROVE  LET cuts == Cut(lines, span)
         IN  /\ AreCuts(lines, cuts)
             /\ \A k \in DOMAIN cuts : cuts[k].span[1] = span[1] /\ cuts[k].span[2] = span[2]
             /\ \A i \in span[1] .. span[2] : Holds(lines, cuts, i)
<1> DEFINE a == span[1]
           b == span[2]
           words == Words(SubSeq(lines, a, b))
           n == Len(words)
           w == Windows(n, MaxTokens, Overlap)
           c(k) == Window(span, w[k])
           cuts == Cut(lines, span)
           step == Step(MaxTokens, Overlap)
<1>1. cuts = [k \in DOMAIN w |-> c(k)]
  BY DEF Cut
<1>2. a \in Nat \ {0} /\ b \in Nat /\ a <= b /\ b <= Len(lines) /\ span \in Nat \X Nat
  BY DEF IsParagraph
<1>3. \A i \in a .. b : ~IsBlank(lines[i])
  BY DEF IsParagraph
<1>4. words \in Seq(Nat) /\ n \in Nat \ {0}
  <2> HIDE DEF a, b
  <2> QED  BY <1>2, <1>3, WordsAre
<1>5. DOMAIN words = 1 .. n
  BY <1>4, LenProperties
<1>6. TokensIn(lines, a, b) > MaxTokens
  OBVIOUS
<1>7. \A k \in DOMAIN w : w[k] = <<w[k][1], w[k][2]>>
  BY WindowsArePairs
<1> HIDE DEF a, b, n, w, step, cuts, words
<1>8. Covering(w, n, MaxTokens, step)
  BY <1>4, WindowsCover, MailTextAssumption DEF w, step
<1>9. PICK m \in 1 .. n : DOMAIN w = 1 .. m
  BY <1>8 DEF Covering
<1>10. /\ \A k \in 1 .. m : /\ w[k][1] \in 1 .. n /\ w[k][2] \in w[k][1] .. n
                            /\ w[k][2] - w[k][1] < MaxTokens
       /\ \A i \in 1 .. n : \E k \in 1 .. m : i \in w[k][1] .. w[k][2]
  BY <1>8, <1>9 DEF Covering
<1>11. ASSUME NEW k \in 1 .. m
       PROVE  /\ c(k) \in ChunkRecords /\ IsCut(lines, c(k))
              /\ c(k).span = span /\ c(k).window = w[k] /\ w[k] # << >>
  <2> DEFINE d == c(k)
             v == w[k]
  <2>1. d = Window(span, v) /\ d.span = span /\ d.window = v
    BY DEF Window
  <2>2. /\ v = <<v[1], v[2]>> /\ v[1] \in 1 .. n /\ v[2] \in v[1] .. n /\ v[2] - v[1] < MaxTokens
    BY <1>7, <1>9, <1>10
  <2> HIDE DEF d, v
  <2>3. v[1] \in Nat /\ v[2] \in Nat
    BY <1>4, <2>2
  <2>4. v \in Nat \X Nat /\ v # << >>
    BY <2>2, <2>3, PairsAreNotEmpty
  <2>5. d \in ChunkRecords
    BY <1>2, <2>1, <2>4 DEF Window, ChunkRecords
  <2>6. ~IsBlank(lines[a]) /\ ~IsBlank(lines[b])
    BY <1>2, <1>3
  <2>7. d.span[1] = a /\ d.span[2] = b
    BY <2>1 DEF a, b
  <2>8. Len(Words(SubSeq(lines, d.span[1], d.span[2]))) = n
    BY <2>7 DEF n, words
  <2>9. IsCut(lines, d)
    BY <1>2, <1>3, <1>6, <2>1, <2>2, <2>4, <2>6, <2>7, <2>8 DEF IsCut
  <2> QED  BY <2>1, <2>4, <2>5, <2>9 DEF d, v
<1> HIDE DEF c
<1>12. DOMAIN cuts = 1 .. m /\ \A k \in 1 .. m : cuts[k] = c(k)
  BY <1>1, <1>9
<1>13. cuts \in Seq(ChunkRecords)
  <2>1. cuts \in [1 .. m -> ChunkRecords]
    BY <1>1, <1>9, <1>11
  <2>2. m \in Nat
    BY <1>4
  <2> QED  BY <2>1, <2>2, SeqDef
<1>14. \A k \in 1 .. m : cuts[k].span[1] = a /\ cuts[k].span[2] = b
  BY <1>11, <1>12 DEF a, b
<1>15. AreCuts(lines, cuts)
  <2>1. \A k \in DOMAIN cuts : IsCut(lines, cuts[k])
    BY <1>11, <1>12
  <2>2. \A i, j \in DOMAIN cuts : i < j => IsBefore(cuts[i], cuts[j])
    BY <1>2, <1>12, <1>14 DEF IsBefore
  <2> QED  BY <1>13, <2>1, <2>2 DEF AreCuts
<1>16. ASSUME NEW i \in a .. b PROVE Holds(lines, cuts, i)
  <2>1. 1 \in DOMAIN cuts
    BY <1>4, <1>12
  <2>2. i \in cuts[1].span[1] .. cuts[1].span[2] /\ cuts[1].span = span
    BY <1>11, <1>12, <1>14, <2>1
  <2>3. Words(SubSeq(lines, cuts[1].span[1], cuts[1].span[2])) = words
    BY <1>12, <1>14, <2>1 DEF words
  <2>4. ASSUME NEW v \in DOMAIN words
        PROVE  \E l \in DOMAIN cuts : /\ cuts[l].span = cuts[1].span /\ cuts[l].window # << >>
                                      /\ v \in cuts[l].window[1] .. cuts[l].window[2]
    <3>1. PICK l \in 1 .. m : v \in w[l][1] .. w[l][2]
      BY <1>5, <1>10
    <3>2. cuts[l].span = span /\ cuts[l].window = w[l] /\ w[l] # << >>
      BY <1>11, <1>12
    <3> QED  BY <1>12, <2>2, <3>1, <3>2
  <2> QED  BY <2>1, <2>2, <2>3, <2>4 DEF Holds
<1> QED  BY <1>12, <1>14, <1>15, <1>16 DEF cuts, a, b

\* The next chunk starts with a paragraph of the last one, or with the one that did not fit.
LEMMA SeedIs ==
  ASSUME NEW S, NEW lines \in Seq(S), NEW first \in Nat,
         NEW span \in ToSet(ParagraphSpans(lines)), first <= span[1]
  PROVE  LET s == Seed(lines, first, span)
         IN  /\ s \in Nat /\ first <= s /\ s <= span[1] /\ ~IsBlank(lines[s])
             /\ TokensIn(lines, s, span[1] - 1) <= Overlap
<1> DEFINE spans == ParagraphSpans(lines)
           near == {q \in ToSet(spans) : first <= q[1] /\ q[1] <= span[1]}
           starts == {p[1] : p \in near}
           few == {i \in starts : TokensIn(lines, i, span[1] - 1) <= Overlap}
           s == Seed(lines, first, span)
<1>1. s = Min(few)
  BY DEF Seed
<1>2. Paragraphs(lines, spans)
  BY ParagraphsAre
<1> HIDE DEF spans, s
<1>3. \A q \in ToSet(spans) : q[1] \in Nat /\ 1 <= q[1] /\ ~IsBlank(lines[q[1]])
  <2>1. ASSUME NEW k \in DOMAIN spans
        PROVE  spans[k][1] \in Nat /\ 1 <= spans[k][1] /\ ~IsBlank(lines[spans[k][1]])
    <3> DEFINE p == spans[k]
    <3>1. p \in Nat \X Nat
      BY <1>2, ElementOfSeq, LenProperties DEF Paragraphs
    <3>2. /\ 1 <= p[1] /\ p[1] <= p[2]
          /\ \A i \in p[1] .. p[2] : ~IsBlank(lines[i])
      BY <1>2 DEF Paragraphs
    <3> HIDE DEF p
    <3>3. p[1] \in Nat /\ p[2] \in Nat
      BY <3>1
    <3>4. p[1] \in p[1] .. p[2]
      BY <3>2, <3>3
    <3> QED  BY <3>2, <3>3, <3>4 DEF p
  <2> QED  BY <2>1 DEF ToSet
<1>4. span \in ToSet(spans) /\ span[1] \in Nat
  BY <1>3 DEF spans
<1>5. span \in near
  BY <1>4
<1>6. \A i \in starts : i \in Nat /\ first <= i /\ i <= span[1] /\ ~IsBlank(lines[i])
  BY <1>3
<1>7. TokensIn(lines, span[1], span[1] - 1) <= Overlap
  <2>1. span[1] .. span[1] - 1 = {}
    BY <1>4
  <2>2. TokensIn(lines, span[1], span[1] - 1) = 0
    BY <2>1, NoTokens
  <2> QED  BY <2>2, MailTextAssumption
<1>8. span[1] \in few
  BY <1>5, <1>7
<1>9. \A i \in few : i \in starts /\ TokensIn(lines, i, span[1] - 1) <= Overlap
  OBVIOUS
<1> HIDE DEF starts, few
<1>10. few \in SUBSET Nat
  BY <1>6, <1>9
<1>11. s \in few
  BY <1>1, <1>8, <1>10, MinOfNumbers
<1> QED  BY <1>6, <1>9, <1>11 DEF s

-----------------------------------------------------------------------------
(* Paragraph by paragraph.                                                   *)

States == [chunks : Seq(ChunkRecords), first : Nat, last : Nat]

\* The lines in held, which do not go beyond line e, are in a chunk or in the open one.
Reaches(lines, e, held, st) ==
  /\ st \in States /\ e \in Nat
  /\ AreCuts(lines, st.chunks) /\ UpTo(st.chunks, e, e)
  /\ OpenIsCut(lines, st.chunks, st.first, st.last)
  /\ st.first # 0 => st.last = e
  /\ \A i \in held : Holds(lines, st.chunks, i) \/ (st.first # 0 /\ i \in st.first .. st.last)

\* The paragraph that follows line e, or the first one.
Follows(lines, e, span) ==
  /\ IsParagraph(lines, span) /\ span \in ToSet(ParagraphSpans(lines))
  /\ e < span[1] /\ (e # 0 => \A i \in e + 1 .. span[1] - 1 : IsBlank(lines[i]))

\* The tokens of a paragraph, and of what comes before it.
LEMMA ParagraphTokens ==
  ASSUME NEW lines \in Seq(Line), NEW e \in Nat \ {0}, NEW span, Follows(lines, e, span),
         NEW a \in Nat \ {0}, a <= e + 1
  PROVE  /\ TokensIn(lines, a, span[2])
              = TokensIn(lines, a, e) + TokensIn(lines, span[1], span[2])
         /\ TokensIn(lines, a, e) \in Nat /\ TokensIn(lines, span[1], span[2]) \in Nat
<1> DEFINE s == span[1]
           f == span[2]
<1>1. s \in Nat \ {0} /\ f \in Nat /\ s <= f /\ e < s /\ f <= Len(lines) /\ Len(lines) \in Nat
  BY LenProperties DEF Follows, IsParagraph
<1>2. \A i \in e + 1 .. s - 1 : IsBlank(lines[i])
  BY DEF Follows
<1> HIDE DEF s, f
<1> DEFINE x == TokensIn(lines, a, e)
           y == TokensIn(lines, e + 1, s - 1)
           z == TokensIn(lines, s, f)
           w == TokensIn(lines, e + 1, f)
           t == TokensIn(lines, a, f)
<1>3. x \in Nat /\ z \in Nat
  <2>1. e <= Len(lines) /\ e \in Int
    BY <1>1
  <2>2. x \in Nat
    BY <2>1, TokensAre
  <2>3. z \in Nat
    BY <1>1, TokensAre
  <2> QED  BY <2>2, <2>3
<1>4. y = 0
  BY <1>2, NoTokens
<1>5. t = x + w
  BY <1>1, TokensAdd
<1>6. w = y + z
  <2>1. /\ e + 1 <= (s - 1) + 1 /\ s - 1 <= f /\ (s - 1) + 1 = s /\ s - 1 \in Int
        /\ e + 1 \in Nat \ {0}
    BY <1>1
  <2>2. TokensIn(lines, e + 1, f) = TokensIn(lines, e + 1, s - 1) + TokensIn(lines, (s - 1) + 1, f)
    BY <1>1, <2>1, TokensAdd
  <2> QED  BY <2>1, <2>2
<1> HIDE DEF x, y, z, w, t
<1>7. t = x + z
  BY <1>3, <1>4, <1>5, <1>6
<1> QED  BY <1>3, <1>7 DEF x, z, t, s, f

LEMMA UpToMore ==
  ASSUME NEW lines, NEW x, AreCuts(lines, x), NEW a \in Nat, NEW b \in Nat, UpTo(x, a, b)
  PROVE  \A c, d \in Nat : a <= c /\ b <= d => UpTo(x, c, d)
<1>1. \A k \in DOMAIN x : x[k].span[1] \in Nat /\ x[k].span[2] \in Nat
  <2>1. \A k \in DOMAIN x : x[k] \in ChunkRecords
    BY LenProperties, ElementOfSeq DEF AreCuts
  <2> QED  BY <2>1 DEF ChunkRecords
<1> QED  BY <1>1 DEF UpTo

\* A chunk begins before it ends.
LEMMA UpToEnd ==
  ASSUME NEW lines, NEW x, AreCuts(lines, x), NEW a \in Nat, NEW b \in Nat, UpTo(x, a, b)
  PROVE  UpTo(x, b, b)
<1>1. \A k \in DOMAIN x : x[k] \in ChunkRecords /\ IsCut(lines, x[k])
  BY LenProperties, ElementOfSeq DEF AreCuts
<1>2. ASSUME NEW k \in DOMAIN x PROVE x[k].span[1] <= b /\ x[k].span[2] <= b
  <2> DEFINE c == x[k]
  <2>1. c \in ChunkRecords /\ IsCut(lines, c) /\ c.span[2] <= b
    BY <1>1 DEF UpTo
  <2> HIDE DEF c
  <2>2. c.span[1] \in Nat /\ c.span[2] \in Nat
    BY <2>1 DEF ChunkRecords
  <2>3. c.span[1] <= c.span[2]
    BY <2>1 DEF IsCut
  <2>4. c.span[1] <= b /\ c.span[2] <= b
    BY <2>1, <2>2, <2>3
  <2> QED  BY <2>4 DEF c
<1> QED  BY <1>2 DEF UpTo

\* AddParagraph keeps what was reached, and reaches the end of the paragraph.
LEMMA AddKeeps ==
  ASSUME NEW lines \in Seq(Line), NEW e, NEW held, NEW st, Reaches(lines, e, held, st),
         NEW span, Follows(lines, e, span)
  PROVE  Reaches(lines, span[2], held \cup (span[1] .. span[2]), AddParagraph(lines, st, span))
<1> DEFINE a == span[1]
           b == span[2]
           size == TokensIn(lines, a, b)
           chunks == st.chunks
           first == st.first
           last == st.last
           all == Flush(chunks, first, last)
           more == AddParagraph(lines, st, span)
           fits == first = 0 \/ TokensIn(lines, first, last) + size <= MaxTokens
           kept == held \cup (a .. b)
<1>1. /\ st \in States /\ e \in Nat /\ AreCuts(lines, chunks) /\ UpTo(chunks, e, e)
      /\ OpenIsCut(lines, chunks, first, last)
      /\ first # 0 => last = e
      /\ \A i \in held : Holds(lines, chunks, i) \/ (first # 0 /\ i \in first .. last)
  BY DEF Reaches
<1>2. chunks \in Seq(ChunkRecords) /\ first \in Nat /\ last \in Nat
  BY <1>1 DEF States
<1>3. /\ IsParagraph(lines, span) /\ span \in ToSet(ParagraphSpans(lines))
      /\ a \in Nat /\ b \in Nat /\ 1 <= a /\ a <= b /\ b <= Len(lines) /\ e < a
      /\ ~IsBlank(lines[a]) /\ ~IsBlank(lines[b])
  <2>1. /\ a \in Nat /\ b \in Nat /\ 1 <= a /\ a <= b /\ b <= Len(lines) /\ e < a
        /\ \A i \in a .. b : ~IsBlank(lines[i])
    BY DEF Follows, IsParagraph
  <2>2. a \in a .. b /\ b \in a .. b
    BY <2>1
  <2> HIDE DEF a, b
  <2> QED  BY <2>1, <2>2 DEF Follows
<1>4. Len(lines) \in Nat /\ size \in Nat /\ (size > MaxTokens \/ size <= MaxTokens)
  <2>1. a \in Nat \ {0} /\ b \in Int /\ b <= Len(lines)
    BY <1>3
  <2> HIDE DEF a, b
  <2>2. size \in Nat
    BY <2>1, TokensAre
  <2> HIDE DEF size
  <2>3. size > MaxTokens \/ size <= MaxTokens
    BY <2>2, MailTextAssumption
  <2> QED  BY <2>2, <2>3, LenProperties
<1>5. /\ AreCuts(lines, all)
      /\ first = 0 => all = chunks
      /\ first # 0 => UpTo(all, first, last)
      /\ \A i : Holds(lines, chunks, i) \/ (first # 0 /\ i \in first .. last) => Holds(lines, all, i)
  <2> HIDE DEF chunks, first, last
  <2> QED  BY <1>1, FlushKeeps
<1>6. UpTo(all, e, e)
  <2>1. CASE first = 0
    BY <1>1, <1>5, <2>1
  <2>2. CASE first # 0
    <3> HIDE DEF all, first, last
    <3> QED  BY <1>1, <1>2, <1>5, <2>2, UpToEnd
  <2> QED  BY <2>1, <2>2
<1>7. \A i \in held : Holds(lines, all, i)
  BY <1>1, <1>5
<1>8. \A c, d \in Nat : e <= c /\ e <= d => UpTo(all, c, d) /\ UpTo(chunks, c, d)
  <2> HIDE DEF all, chunks
  <2> QED  BY <1>1, <1>5, <1>6, UpToMore
<1>9. e <= a /\ e <= b
  BY <1>1, <1>3
<1>10. CASE size > MaxTokens
  <2> DEFINE cuts == Cut(lines, span)
             z == all \o cuts
  <2>1. more = [chunks |-> z, first |-> 0, last |-> 0]
    BY <1>10 DEF AddParagraph
  <2>2. /\ AreCuts(lines, cuts)
        /\ \A k \in DOMAIN cuts : cuts[k].span[1] = a /\ cuts[k].span[2] = b
        /\ \A i \in a .. b : Holds(lines, cuts, i)
    <3> QED  BY <1>3, <1>10, CutKeeps
  <2> HIDE DEF cuts, all, more
  <2>3. UpTo(all, a, b)
    BY <1>3, <1>8, <1>9
  <2>4. AllBefore(all, cuts)
    BY <2>2, <2>3 DEF AllBefore, UpTo, IsBefore
  <2>5. AreCuts(lines, z) /\ Joins(z, all, cuts)
    BY <1>5, <2>2, <2>4, CutsJoin
  <2> HIDE DEF z, a, b
  <2>6. UpTo(z, b, b)
    <3>1. UpTo(all, b, b)
      BY <1>3, <1>8, <1>9
    <3>2. \A k \in DOMAIN cuts : cuts[k].span[1] <= b /\ cuts[k].span[2] <= b
      BY <1>3, <2>2
    <3> QED  BY <2>5, <3>1, <3>2 DEF UpTo, Joins
  <2>7. \A i \in kept : Holds(lines, z, i)
    <3>1. \A i : Holds(lines, all, i) \/ Holds(lines, cuts, i) => Holds(lines, z, i)
      <4>1. /\ \A k \in DOMAIN all : \E l \in DOMAIN z : z[l] = all[k]
            /\ \A k \in DOMAIN cuts : \E l \in DOMAIN z : z[l] = cuts[k]
        BY <2>5 DEF Joins
      <4> QED  BY <4>1, HoldsMore
    <3> QED  BY <1>7, <2>2, <3>1
  <2>8. more.chunks = z /\ more.first = 0 /\ more.last = 0 /\ more \in States
    BY <2>1, <2>5 DEF States, AreCuts
  <2>9. OpenIsCut(lines, z, 0, 0)
    BY DEF OpenIsCut
  <2> HIDE DEF kept
  <2>10. Reaches(lines, b, kept, more)
    BY <1>3, <2>5, <2>6, <2>7, <2>8, <2>9 DEF Reaches
  <2> QED  BY <2>10 DEF more, a, b, kept
<1>11. CASE ~(size > MaxTokens) /\ fits
  <2> DEFINE f == IF first = 0 THEN a ELSE first
  <2>1. more = [st EXCEPT !.first = IF @ = 0 THEN a ELSE @, !.last = b]
    BY <1>11 DEF AddParagraph
  <2>2. more \in States /\ more.chunks = chunks /\ more.first = f /\ more.last = b
    <3> HIDE DEF more, a, b
    <3> QED  BY <1>1, <1>3, <2>1 DEF States
  <2>3. UpTo(chunks, b, b) /\ UpTo(chunks, a, b)
    BY <1>3, <1>8, <1>9
  <2>4. OpenIsCut(lines, chunks, f, b) /\ f # 0 /\ f <= a
    <3>1. CASE first = 0
      <4>1. f = a
        BY <3>1
      <4>2. TokensIn(lines, a, b) <= MaxTokens + Overlap
        <5>1. size <= MaxTokens
          BY <1>4, <1>11
        <5> HIDE DEF size
        <5>2. size <= MaxTokens + Overlap
          BY <1>4, <5>1, MailTextAssumption
        <5> QED  BY <5>2 DEF size
      <4> HIDE DEF a, b, f, chunks
      <4>3. a # 0 /\ a <= a
        BY <1>3
      <4> QED  BY <1>3, <2>3, <4>1, <4>2, <4>3 DEF OpenIsCut
    <3>2. CASE first # 0
      <4>1. f = first /\ last = e
        BY <1>1, <3>2
      <4>2. /\ first <= e /\ ~IsBlank(lines[first]) /\ UpTo(chunks, first, e)
        BY <1>1, <3>2, <4>1 DEF OpenIsCut
      <4>3. TokensIn(lines, first, b) <= MaxTokens + Overlap
        <5> DEFINE t == TokensIn(lines, first, b)
                   u == TokensIn(lines, first, e)
        <5>1. first <= e + 1 /\ e \in Nat \ {0} /\ first \in Nat \ {0}
          BY <1>1, <1>2, <3>2, <4>2
        <5> HIDE DEF first
        <5>2. t = u + size /\ u \in Nat
          BY <1>1, <1>2, <5>1, ParagraphTokens
        <5>3. u + size <= MaxTokens
          BY <1>11, <3>2, <4>1
        <5> HIDE DEF t, u, size
        <5>4. t <= MaxTokens + Overlap
          BY <1>4, <5>2, <5>3, MailTextAssumption
        <5> QED  BY <5>4 DEF t
      <4>4. first <= b /\ first <= a
        <5> HIDE DEF a, b, first
        <5> QED  BY <1>1, <1>2, <1>3, <4>2
      <4>5. UpTo(chunks, first, b)
        <5> HIDE DEF chunks, first, a, b
        <5> QED  BY <1>1, <1>2, <1>3, <1>9, <4>2, UpToMore
      <4> HIDE DEF a, b, f, chunks, first
      <4> QED  BY <1>2, <1>3, <3>2, <4>1, <4>2, <4>3, <4>4, <4>5 DEF OpenIsCut
    <3> QED  BY <3>1, <3>2
  <2>5. \A i \in kept : Holds(lines, chunks, i) \/ i \in f .. b
    <3>1. \A i \in a .. b : i \in f .. b
      <4>1. f \in Nat
        BY <1>2, <1>3
      <4> HIDE DEF f, a, b
      <4> QED  BY <1>3, <2>4, <4>1
    <3>2. ASSUME NEW i \in held PROVE Holds(lines, chunks, i) \/ i \in f .. b
      <4>1. Holds(lines, chunks, i) \/ (first # 0 /\ i \in first .. e)
        BY <1>1
      <4>2. CASE first # 0 /\ i \in first .. e
        <5>1. f = first
          BY <4>2
        <5> HIDE DEF f, a, b, first
        <5> QED  BY <1>1, <1>2, <1>3, <4>2, <5>1
      <4> QED  BY <4>1, <4>2
    <3> QED  BY <3>1, <3>2
  <2> HIDE DEF more, a, b, f, kept, chunks
  <2>6. Reaches(lines, b, kept, more)
    BY <1>1, <1>3, <2>2, <2>3, <2>4, <2>5 DEF Reaches
  <2> QED  BY <2>6 DEF more, a, b, kept
<1>12. CASE ~(size > MaxTokens) /\ ~fits
  <2> DEFINE s == Seed(lines, first, span)
  <2>1. more = [chunks |-> all, first |-> s, last |-> b]
    BY <1>12 DEF AddParagraph
  <2>2. first # 0 /\ last = e
    BY <1>1, <1>12
  <2>3. first <= e /\ UpTo(all, first, e) /\ ~IsBlank(lines[first]) /\ 1 <= first
    BY <1>1, <1>2, <1>5, <2>2 DEF OpenIsCut
  <2>4. s \in Nat /\ first <= s /\ s <= a /\ ~IsBlank(lines[s]) /\ TokensIn(lines, s, a - 1) <= Overlap
    <3>1. first <= a
      <4> HIDE DEF first, a
      <4> QED  BY <1>1, <1>2, <1>3, <2>3
    <3> HIDE DEF first, s
    <3> QED  BY <1>2, <1>3, <3>1, SeedIs DEF s
  <2> HIDE DEF s, more
  <2>5. TokensIn(lines, s, b) <= MaxTokens + Overlap
    <3> DEFINE t == TokensIn(lines, s, b)
               u == TokensIn(lines, s, a - 1)
               v == TokensIn(lines, a, b)
    <3> HIDE DEF a, b
    <3>1. t = u + TokensIn(lines, (a - 1) + 1, b)
      <4>1. /\ a - 1 \in Int /\ s <= (a - 1) + 1 /\ a - 1 <= b /\ b \in Int
            /\ s \in Nat \ {0}
        BY <1>2, <1>3, <2>3, <2>4
      <4> QED  BY <1>3, <4>1, TokensAdd
    <3>2. (a - 1) + 1 = a
      BY <1>3
    <3>3. t = u + v
      BY <3>1, <3>2
    <3>4. v \in Nat /\ v <= MaxTokens
      BY <1>4, <1>12
    <3>5. u \in Nat
      <4>1. a - 1 \in Int /\ s \in Nat \ {0} /\ a - 1 <= Len(lines)
        BY <1>2, <1>3, <1>4, <2>3, <2>4
      <4> QED  BY <4>1, TokensAre
    <3>6. u <= Overlap
      BY <2>4
    <3> HIDE DEF t, u, v
    <3>7. t <= MaxTokens + Overlap
      BY <3>3, <3>4, <3>5, <3>6, MailTextAssumption
    <3> QED  BY <3>7 DEF t
  <2>6. UpTo(all, s, b) /\ UpTo(all, b, b)
    <3>1. UpTo(all, b, b)
      BY <1>3, <1>8, <1>9
    <3> HIDE DEF all, first, a, b
    <3>2. UpTo(all, s, b)
      BY <1>1, <1>2, <1>3, <1>5, <1>9, <2>3, <2>4, UpToMore
    <3> QED  BY <3>1, <3>2
  <2> HIDE DEF a, b, all, first
  <2>7. s # 0 /\ s <= b
    BY <1>2, <1>3, <2>3, <2>4
  <2>8. OpenIsCut(lines, all, s, b)
    BY <1>3, <2>4, <2>5, <2>6, <2>7 DEF OpenIsCut
  <2>9. \A i \in kept : Holds(lines, all, i) \/ i \in s .. b
    <3>1. \A i \in a .. b : i \in s .. b
      BY <1>3, <2>4
    <3> QED  BY <1>7, <3>1
  <2>10. more \in States /\ more.chunks = all /\ more.first = s /\ more.last = b
    BY <1>3, <1>5, <2>1, <2>4 DEF States, AreCuts
  <2> HIDE DEF kept
  <2>11. Reaches(lines, b, kept, more)
    BY <1>3, <1>5, <2>6, <2>7, <2>8, <2>9, <2>10 DEF Reaches
  <2> QED  BY <2>11 DEF more, a, b, kept
<1> HIDE DEF size, fits, more, kept, a, b
<1>13. Reaches(lines, b, kept, more)
  BY <1>10, <1>11, <1>12 DEF more, kept, a, b
<1> QED  BY <1>13 DEF more, kept, a, b

Unstarted == [chunks |-> << >>, first |-> 0, last |-> 0]

\* f has the states after each of the first n paragraphs.
IsRun(f, lines, spans, n) ==
  f = [k \in 0 .. n |-> IF k = 0 THEN Unstarted ELSE AddParagraph(lines, f[k - 1], spans[k])]

LEMMA RunExists ==
  ASSUME NEW n \in Nat, NEW lines, NEW spans
  PROVE  \E f : IsRun(f, lines, spans, n)
<1> DEFINE T == {m \in 1 .. n : ~\E f : IsRun(f, lines, spans, m)}
           Added(x, k) == AddParagraph(lines, x, spans[k])
<1>0. \E f : IsRun(f, lines, spans, 0)
  <2> DEFINE none == [i \in 0 .. 0 |-> Unstarted]
  <2>1. \A i \in 0 .. 0 : none[i] = IF i = 0 THEN Unstarted ELSE Added(none[i - 1], i)
    OBVIOUS
  <2>2. none = [i \in 0 .. 0 |-> IF i = 0 THEN Unstarted ELSE Added(none[i - 1], i)]
    BY <2>1
  <2> HIDE DEF none
  <2> QED  BY <2>2 DEF IsRun
<1>1. CASE T = {}
  BY <1>0, <1>1
<1>2. CASE T # {}
  <2>1. PICK m \in T : m \in 1 .. n /\ (m # 1 => m - 1 \in 1 .. n /\ m - 1 \notin T)
    <3> HIDE DEF T
    <3>1. T \in SUBSET (1 .. n)
      BY DEF T
    <3> QED  BY <1>2, <3>1, LeastCounterexample
  <2>2. m \in Nat \ {0} /\ m - 1 \in Nat
    BY <2>1
  <2>3. PICK f : IsRun(f, lines, spans, m - 1)
    BY <1>0, <2>1, <2>2
  <2>4. f = [k \in 0 .. m - 1 |-> IF k = 0 THEN Unstarted ELSE Added(f[k - 1], k)]
    BY <2>3 DEF IsRun
  <2> HIDE DEF Added
  <2>5. \A k \in 0 .. m - 1 : f[k] = IF k = 0 THEN Unstarted ELSE Added(f[k - 1], k)
    BY <2>4
  <2> DEFINE longer == [i \in 0 .. m |-> IF i < m THEN f[i] ELSE Added(f[m - 1], m)]
  <2>6. ASSUME NEW i \in 0 .. m PROVE longer[i] = IF i = 0 THEN Unstarted ELSE Added(longer[i - 1], i)
    <3>2. CASE i < m
      <4>1. i \in 0 .. m - 1 /\ longer[i] = f[i] /\ (i # 0 => i - 1 \in 0 .. m /\ i - 1 < m)
        BY <2>2, <3>2
      <4>2. i # 0 => longer[i - 1] = f[i - 1]
        BY <4>1
      <4> HIDE DEF longer
      <4> QED  BY <2>5, <4>1, <4>2
    <3>3. CASE ~(i < m)
      <4>1. i = m /\ m # 0 /\ m - 1 \in 0 .. m /\ m - 1 < m
        BY <2>2, <3>3
      <4>2. longer[m] = Added(f[m - 1], m) /\ longer[m - 1] = f[m - 1]
        BY <2>2, <4>1
      <4> HIDE DEF longer
      <4> QED  BY <4>1, <4>2
    <3> QED  BY <3>2, <3>3
  <2>7. longer = [i \in 0 .. m |-> IF i = 0 THEN Unstarted ELSE Added(longer[i - 1], i)]
    <3>1. longer = [i \in 0 .. m |-> longer[i]]
      OBVIOUS
    <3> HIDE DEF longer
    <3> QED  BY <2>6, <3>1
  <2> HIDE DEF longer
  <2>8. IsRun(longer, lines, spans, m)
    BY <2>7 DEF IsRun, Added
  <2> QED  BY <2>1, <2>8
<1> QED  BY <1>1, <1>2

\* The lines of the first paragraphs.
LinesOf(spans, k) == UNION {spans[m][1] .. spans[m][2] : m \in 1 .. k}

EndOf(spans, k) == IF k = 0 THEN 0 ELSE spans[k][2]

\* What one paragraph after the other is added to.
LEMMA RunKeeps ==
  ASSUME NEW lines \in Seq(Line), NEW spans, spans = ParagraphSpans(lines),
         NEW f, IsRun(f, lines, spans, Len(spans))
  PROVE  Reaches(lines, EndOf(spans, Len(spans)), LinesOf(spans, Len(spans)), f[Len(spans)])
<1> DEFINE n == Len(spans)
           Fine(k) == Reaches(lines, EndOf(spans, k), LinesOf(spans, k), f[k])
           T == {m \in 1 .. n : ~Fine(m)}
<1>1. Paragraphs(lines, spans) /\ spans \in Seq(Nat \X Nat) /\ n \in Nat /\ DOMAIN spans = 1 .. n
  <2>1. Paragraphs(lines, spans)
    BY ParagraphsAre
  <2> QED  BY <2>1, LenProperties DEF Paragraphs
<1>2. \A k \in 0 .. n : f[k] = IF k = 0 THEN Unstarted ELSE AddParagraph(lines, f[k - 1], spans[k])
  <2> DEFINE More(x, k) == AddParagraph(lines, x, spans[k])
  <2>1. f = [k \in 0 .. n |-> IF k = 0 THEN Unstarted ELSE More(f[k - 1], k)]
    BY DEF IsRun
  <2> HIDE DEF More
  <2>2. \A k \in 0 .. n : f[k] = IF k = 0 THEN Unstarted ELSE More(f[k - 1], k)
    BY <2>1
  <2> QED  BY <2>2 DEF More
<1>3. Fine(0)
  <2>1. f[0] = Unstarted
    BY <1>1, <1>2
  <2>2. << >> \in Seq(ChunkRecords) /\ DOMAIN << >> = {}
    OBVIOUS
  <2> DEFINE none == << >>
  <2>3. none \in Seq(ChunkRecords) /\ DOMAIN none = {}
    BY <2>2
  <2>4. Unstarted = [chunks |-> none, first |-> 0, last |-> 0]
    BY DEF Unstarted
  <2> HIDE DEF none
  <2>5. Unstarted \in States /\ Unstarted.chunks = none /\ Unstarted.first = 0 /\ Unstarted.last = 0
    BY <2>3, <2>4 DEF States
  <2>6. AreCuts(lines, none) /\ UpTo(none, 0, 0) /\ OpenIsCut(lines, none, 0, 0)
    BY <2>3 DEF AreCuts, UpTo, OpenIsCut
  <2>7. LinesOf(spans, 0) = {} /\ EndOf(spans, 0) = 0
    BY DEF LinesOf, EndOf
  <2>8. Reaches(lines, 0, {}, Unstarted)
    BY <2>5, <2>6 DEF Reaches
  <2> QED  BY <2>1, <2>7, <2>8
<1>4. ASSUME NEW k \in 1 .. n PROVE Follows(lines, EndOf(spans, k - 1), spans[k])
  <2> DEFINE p == spans[k]
             e == EndOf(spans, k - 1)
  <2>1. p \in Nat \X Nat /\ p \in ToSet(ParagraphSpans(lines))
    BY <1>1, ElementOfSeq DEF ToSet
  <2>2. IsParagraph(lines, p)
    BY <1>1, <2>1 DEF Paragraphs, IsParagraph
  <2>3. CASE k = 1
    <3>1. e = 0
      BY <2>3 DEF EndOf
    <3>2. 0 < p[1]
      BY <2>1, <2>2 DEF IsParagraph
    <3> QED  BY <2>1, <2>2, <3>1, <3>2 DEF Follows
  <2>4. CASE k # 1
    <3>1. k - 1 \in 1 .. n /\ (k - 1) + 1 = k /\ k - 1 # 0
      BY <1>1, <2>4
    <3> DEFINE l == k - 1
    <3>2. e = spans[l][2]
      BY <3>1 DEF EndOf
    <3>3. l \in DOMAIN spans /\ l + 1 \in DOMAIN spans /\ p = spans[l + 1]
      BY <1>1, <3>1
    <3> HIDE DEF l, p, e
    <3>4. spans[l][2] < spans[l + 1][1] /\ \A i \in spans[l][2] + 1 .. spans[l + 1][1] - 1 : IsBlank(lines[i])
      BY <1>1, <3>3 DEF Paragraphs
    <3>5. Follows(lines, e, p)
      BY <2>1, <2>2, <3>2, <3>3, <3>4 DEF Follows
    <3> QED  BY <3>5 DEF p, e
  <2> QED  BY <2>3, <2>4
<1>5. ASSUME NEW k \in 1 .. n, Fine(k - 1) PROVE Fine(k)
  <2> DEFINE p == spans[k]
             e == EndOf(spans, k - 1)
             held == LinesOf(spans, k - 1)
             st == f[k - 1]
  <2>1. Follows(lines, e, p) /\ Reaches(lines, e, held, st)
    BY <1>4, <1>5
  <2> HIDE DEF p, e, held, st
  <2>2. Reaches(lines, p[2], held \cup (p[1] .. p[2]), AddParagraph(lines, st, p))
    BY <2>1, AddKeeps
  <2>3. k \in 0 .. n /\ k # 0
    BY <1>1
  <2>4. f[k] = AddParagraph(lines, st, p) /\ p[2] = EndOf(spans, k)
    BY <1>2, <2>3 DEF st, p, EndOf
  <2>5. LinesOf(spans, k) = held \cup (p[1] .. p[2])
    <3>1. 1 .. k = (1 .. k - 1) \cup {k}
      BY <2>3
    <3> QED  BY <3>1 DEF LinesOf, held, p
  <2> QED  BY <2>2, <2>4, <2>5
<1>6. CASE T = {}
  <2>1. n = 0 \/ n \in 1 .. n
    BY <1>1
  <2> QED  BY <1>3, <1>6, <2>1
<1>7. CASE T # {}
  <2>1. PICK m \in T : m \in 1 .. n /\ (m # 1 => m - 1 \in 1 .. n /\ m - 1 \notin T)
    <3>1. T \in SUBSET (1 .. n)
      OBVIOUS
    <3> HIDE DEF T
    <3> QED  BY <1>1, <1>7, <3>1, LeastCounterexample
  <2>2. m - 1 = 0 \/ (m - 1 \in 1 .. n /\ m - 1 \notin T)
    BY <1>1, <2>1
  <2>3. Fine(m - 1)
    <3> HIDE DEF Fine
    <3> QED  BY <1>3, <2>2
  <2>4. ~Fine(m)
    <3> HIDE DEF Fine
    <3> QED  BY <2>1
  <2> HIDE DEF Fine
  <2> QED  BY <1>5, <2>1, <2>3, <2>4
<1> QED  BY <1>6, <1>7

\* EmailAwareChunker.split: whatever the limits, the chunks are cuts in the order of the
\* text, and every line that is not blank is in one.
LEMMA SplitKeeps ==
  ASSUME NEW lines \in Seq(Line), IsStripped(lines)
  PROVE  /\ AreCuts(lines, Split(lines))
         /\ \A i \in Lines(lines) : Holds(lines, Split(lines), i)
<1> DEFINE n == Len(lines)
           words == Written(lines)
           T == Lines(lines)
<1>1. n \in Nat /\ DOMAIN lines = 1 .. n /\ T \in SUBSET (1 .. n) /\ T \in SUBSET DOMAIN lines
  BY LenProperties DEF Lines
<1>2. words \in Seq(Line) /\ Len(words) = Cardinality(T) /\ IsFiniteSet(T)
  <2>1. words = Those(lines, T)
    BY DEF Written, Lines
  <2>2. IsFiniteSet(1 .. n)
    BY <1>1, FS_Interval
  <2>3. IsFiniteSet(T)
    BY <1>1, <2>2, FS_Subset
  <2> HIDE DEF T
  <2> QED  BY <1>1, <2>1, <2>3, ThoseAre
<1>3. CASE words = << >>
  <2>1. T = {}
    <3>1. Cardinality(T) = 0
      BY <1>2, <1>3
    <3> HIDE DEF T
    <3> QED  BY <1>2, <3>1, FS_EmptySet
  <2>2. Split(lines) = << >>
    BY <1>3 DEF Split
  <2>3. << >> \in Seq(ChunkRecords) /\ DOMAIN << >> = {}
    OBVIOUS
  <2> QED  BY <2>1, <2>2, <2>3 DEF AreCuts
<1>4. CASE words # << >> /\ TokensIn(lines, 1, n) <= MaxTokens
  <2> DEFINE c == WholeLines(1, n)
             y == <<c>>
  <2>1. Split(lines) = y
    BY <1>4 DEF Split
  <2>2. n # 0
    <3>1. Len(words) \in Nat /\ Len(words) # 0
      BY <1>2, <1>4, EmptySeq, LenProperties
    <3>2. T # {}
      <4> HIDE DEF words
      <4> QED  BY <1>2, <3>1, FS_EmptySet
    <3> QED  BY <1>1, <3>2
  <2>3. ~IsBlank(lines[1]) /\ ~IsBlank(lines[n])
    <3>1. lines # << >>
      BY <1>1, <2>2, EmptySeq
    <3> QED  BY <3>1 DEF IsStripped
  <2>4. TokensIn(lines, 1, n) \in Nat
    BY <1>1, TokensAre
  <2>5. TokensIn(lines, 1, n) <= MaxTokens + Overlap
    BY <1>4, <2>4, MailTextAssumption
  <2>6. c \in ChunkRecords /\ c.window = << >> /\ c.span[1] = 1 /\ c.span[2] = n
    BY <1>1 DEF WholeLines, ChunkRecords
  <2> HIDE DEF c
  <2>7. IsCut(lines, c)
    <3>1. 1 <= 1 /\ 1 <= n /\ n <= n
      BY <1>1, <2>2
    <3> QED  BY <2>3, <2>5, <2>6, <3>1 DEF IsCut
  <2>8. AreCuts(lines, y) /\ DOMAIN y = {1} /\ y[1] = c
    BY <2>6, <2>7, OneCut
  <2> HIDE DEF y
  <2>9. \A i \in T : Holds(lines, y, i)
    BY <1>1, <2>6, <2>8 DEF Holds
  <2> QED  BY <2>1, <2>8, <2>9
<1>5. CASE words # << >> /\ ~(TokensIn(lines, 1, n) <= MaxTokens)
  <2> DEFINE spans == ParagraphSpans(lines)
             l == Len(spans)
             IsState(f) == f = [k \in 0 .. l |->
                                 IF k = 0 THEN [chunks |-> << >>, first |-> 0, last |-> 0]
                                 ELSE AddParagraph(lines, f[k - 1], spans[k])]
             state == CHOOSE f : IsState(f)
             end == state[l]
  <2>1. Split(lines) = Flush(end.chunks, end.first, end.last)
    BY <1>5 DEF Split
  <2>2. \A f : IsState(f) <=> IsRun(f, lines, spans, l)
    BY DEF IsRun, Unstarted
  <2> HIDE DEF IsState
  <2>3. Paragraphs(lines, spans)
    BY ParagraphsAre
  <2>4. spans \in Seq(Nat \X Nat) /\ l \in Nat /\ DOMAIN spans = 1 .. l
    <3> HIDE DEF spans
    <3>1. spans \in Seq(Nat \X Nat)
      BY <2>3 DEF Paragraphs
    <3> QED  BY <3>1, LenProperties
  <2>5. \E f : IsState(f)
    <3> HIDE DEF l, spans
    <3> QED  BY <2>2, <2>4, RunExists
  <2>6. IsRun(state, lines, spans, l)
    BY <2>2, <2>5
  <2> HIDE DEF state
  <2>7. Reaches(lines, EndOf(spans, l), LinesOf(spans, l), end)
    <3> HIDE DEF end
    <3>1. Reaches(lines, EndOf(spans, Len(spans)), LinesOf(spans, Len(spans)), state[Len(spans)])
      BY <2>6, RunKeeps
    <3> QED  BY <3>1 DEF end
  <2> HIDE DEF end, l, spans
  <2>8. AreCuts(lines, end.chunks) /\ OpenIsCut(lines, end.chunks, end.first, end.last)
    BY <2>7 DEF Reaches
  <2>9. /\ AreCuts(lines, Split(lines))
        /\ \A i : Holds(lines, end.chunks, i) \/ (end.first # 0 /\ i \in end.first .. end.last)
                    => Holds(lines, Split(lines), i)
    BY <2>1, <2>8, FlushKeeps
  <2>10. ASSUME NEW i \in T PROVE i \in LinesOf(spans, l)
    <3>1. PICK k \in DOMAIN spans : i \in spans[k][1] .. spans[k][2]
      BY <2>3 DEF Paragraphs
    <3> QED  BY <2>4, <3>1 DEF LinesOf
  <2>11. \A i \in T : Holds(lines, Split(lines), i)
    BY <2>7, <2>9, <2>10 DEF Reaches
  <2> QED  BY <2>9, <2>11
<1> QED  BY <1>3, <1>4, <1>5

-----------------------------------------------------------------------------
(* What is embedded.                                                         *)

\* A text ends whatever it is put behind.
LEMMA EndsWith ==
  ASSUME NEW S, NEW a \in Seq(S), NEW b \in Seq(S)
  PROVE  IsSuffix(b, a \o b)
<1> DEFINE c == a \o b
           m == Len(a)
           n == Len(b)
           rb == Reverse(b)
           rc == Reverse(c)
<1>1. /\ m \in Nat /\ n \in Nat /\ c \in Seq(S) /\ Len(c) = m + n
      /\ \A i \in 1 .. n : c[m + i] = b[i]
  BY LenProperties, ConcatProperties
<1> HIDE DEF c, m, n
<1>2. /\ rb = [i \in 1 .. n |-> b[(n - i) + 1]]
      /\ rc = [i \in 1 .. m + n |-> c[((m + n) - i) + 1]]
  BY <1>1 DEF Reverse, n
<1>3. /\ \A i \in 1 .. n : (n - i) + 1 \in 1 .. n /\ i \in 1 .. m + n
      /\ \A i \in 1 .. n : ((m + n) - i) + 1 = m + ((n - i) + 1)
      /\ \A i \in 1 .. m + n : ((m + n) - i) + 1 \in 1 .. m + n
  BY <1>1
<1>4. \A i \in 1 .. n : b[i] \in S
  BY ElementOfSeq DEF n
<1>5. \A i \in 1 .. m + n : c[i] \in S
  BY <1>1, ElementOfSeq
<1>6. rb \in [1 .. n -> S] /\ rc \in [1 .. m + n -> S]
  <2> HIDE DEF rb, rc
  <2> QED  BY <1>2, <1>3, <1>4, <1>5
<1>7. \A i \in 1 .. n : rb[i] = rc[i]
  <2> HIDE DEF rb, rc
  <2> QED  BY <1>1, <1>2, <1>3
<1> HIDE DEF rb, rc
<1>8. rb \in Seq(S) /\ Len(rb) = n /\ rc \in Seq(S) /\ Len(rc) = m + n
  <2>1. m + n \in Nat
    BY <1>1
  <2>2. rb \in Seq(S) /\ rc \in Seq(S)
    BY <1>1, <1>6, <2>1, SeqDef
  <2>3. DOMAIN rb = 1 .. n /\ DOMAIN rc = 1 .. m + n
    BY <1>6
  <2>4. Len(rb) = n
    BY <1>1, <2>2, <2>3, LenProperties
  <2>5. Len(rc) = m + n
    BY <2>1, <2>2, <2>3, LenProperties
  <2> QED  BY <2>2, <2>4, <2>5
<1> DEFINE x == SubSeq(rb, 1, n)
           y == SubSeq(rc, 1, n)
<1>9. /\ x \in Seq(S) /\ Len(x) = n /\ \A i \in 1 .. n : x[i] = rb[i]
      /\ y \in Seq(S) /\ Len(y) = n /\ \A i \in 1 .. n : y[i] = rc[i]
  <2>1. n \in Int /\ 1 <= n + 1 /\ n <= Len(rb) /\ n <= Len(rc) /\ n - 1 + 1 = n
    BY <1>1, <1>8
  <2>2. \A i \in 1 .. n : 1 + i - 1 = i
    BY <1>1
  <2> QED  BY <1>8, <2>1, <2>2, PartOfText
<1> HIDE DEF x, y
<1>10. x = [i \in 1 .. n |-> x[i]] /\ y = [i \in 1 .. n |-> y[i]]
  BY <1>9, LenProperties
<1>11. \A i \in 1 .. n : x[i] = y[i]
  BY <1>7, <1>9
<1>12. x = y
  BY <1>10, <1>11
<1>13. n <= m + n
  BY <1>1
<1> QED  BY <1>8, <1>12, <1>13 DEF IsSuffix, IsPrefix, x, y, rb, rc, c

LEMMA SevenListed ==
  ASSUME NEW S, NEW a \in S, NEW b \in S, NEW c \in S, NEW d \in S, NEW e \in S, NEW f \in S, NEW g \in S
  PROVE  <<a, b, c, d, e, f, g>> \in Seq(S)
OBVIOUS

\* build_embed_text puts the text last.
LEMMA TextIsLast ==
  ASSUME NEW S, NEW text \in Seq(S), NEW present
  PROVE  IsSuffix(text, EmbedText(text, present, << >>))
<1> DEFINE Known == {"From", "To", "Cc", "Date", "Subject", "Thread-ID", "In-Reply-To"}
           U == S \cup {Heading(field) : field \in Known} \cup {Blank}
           T == {i \in DOMAIN Fields : Fields[i] \in present}
           fields == Those(Fields, T)
           headers == [k \in DOMAIN fields |-> Heading(fields[k])]
           a == IF headers = << >> THEN << >> ELSE Append(headers, Blank)
           b == IF << >> = << >> THEN << >> ELSE Append(<< >>, Blank)
<1>1. text \in Seq(U)
  BY SeqOfMore
<1>2. Blank \in U /\ \A field \in Known : Heading(field) \in U
  OBVIOUS
<1>3. EmbedText(text, present, << >>) = a \o b \o text
  BY DEF EmbedText
<1> HIDE DEF U
<1>4. Fields \in Seq(Known)
  BY SevenListed DEF Fields
<1>5. headers \in Seq(U)
  <2>1. T \in SUBSET DOMAIN Fields
    OBVIOUS
  <2> HIDE DEF T, Known
  <2>2. fields \in Seq(Known)
    BY <1>4, <2>1, ThoseAre
  <2> HIDE DEF fields
  <2>3. DOMAIN fields = 1 .. Len(fields) /\ Len(fields) \in Nat
    BY <2>2, LenProperties
  <2>4. \A k \in DOMAIN fields : fields[k] \in Known
    BY <2>2, <2>3, ElementOfSeq
  <2>5. headers \in [1 .. Len(fields) -> U]
    BY <1>2, <2>3, <2>4
  <2> QED  BY <2>3, <2>5, SeqDef
<1> HIDE DEF headers
<1>6. << >> \in Seq(U) /\ a \in Seq(U)
  <2>1. << >> \in Seq(U)
    OBVIOUS
  <2>2. Append(headers, Blank) \in Seq(U)
    BY <1>2, <1>5, AppendProperties
  <2> QED  BY <2>1, <2>2
<1>7. b = << >>
  OBVIOUS
<1> HIDE DEF a, b
<1>8. a \o b \in Seq(U)
  BY <1>6, <1>7, ConcatProperties
<1> QED  BY <1>1, <1>3, <1>8, EndsWith

\* A cut, as the chunk of a mail it becomes.
LEMMA ChunksAreCuts ==
  ASSUME NEW text \in Seq(Line), NEW c \in ChunkRecords, IsCut(text, c), NEW present,
         NEW chunk, chunk.text = TextOf(text, c), chunk.span = c.span,
         chunk.embed = EmbedText(chunk.text, present, << >>)
  PROVE  ChunkIsCut(text, chunk)
<1> DEFINE a == c.span[1]
           b == c.span[2]
           source == SubSeq(text, a, b)
           words == Words(source)
           n == b - a + 1
           l == Len(words)
           tokens == TokensIn(text, a, b)
           lines == TextOf(text, c)
<1>1. a \in Nat /\ b \in Nat /\ Len(text) \in Nat
  BY LenProperties DEF ChunkRecords
<1>2. /\ 1 <= a /\ a <= b /\ b <= Len(text) /\ ~IsBlank(text[a]) /\ ~IsBlank(text[b])
      /\ c.window = << >> => tokens <= MaxTokens + Overlap
      /\ c.window # << >> =>
           /\ tokens > MaxTokens /\ \A i \in a .. b : ~IsBlank(text[i])
           /\ c.window[1] \in 1 .. l /\ c.window[2] \in c.window[1] .. l
           /\ c.window[2] - c.window[1] < MaxTokens
  BY DEF IsCut
<1>3. lines = IF c.window = << >> THEN source ELSE OneLine(SubSeq(words, c.window[1], c.window[2]))
  BY DEF TextOf
<1>4. /\ chunk.text = lines /\ chunk.span[1] = a /\ chunk.span[2] = b
      /\ chunk.embed = EmbedText(lines, present, << >>)
  OBVIOUS
<1>5. source \in Seq(Line) /\ Len(source) = n /\ \A i \in 1 .. n : source[i] = text[a + i - 1]
  <2> HIDE DEF a, b
  <2> QED  BY <1>1, <1>2, PartOfText
<1> HIDE DEF a, b, lines, source, tokens
<1>6. n \in Nat /\ 1 \in 1 .. n /\ n \in 1 .. n /\ a + 1 - 1 = a /\ a + n - 1 = b
  BY <1>1, <1>2
<1>7. SubSeq(text, chunk.span[1], chunk.span[2]) = source /\ TokensIn(text, chunk.span[1], chunk.span[2]) = tokens
  BY <1>4 DEF source, tokens
<1>8. DOMAIN source = 1 .. n
  BY <1>5, <1>6, LenProperties
<1>9. lines \in Seq(Line) => IsSuffix(lines, EmbedText(lines, present, << >>))
  BY TextIsLast
<1>10. CASE c.window = << >>
  <2>1. lines = source /\ tokens <= MaxTokens + Overlap
    BY <1>2, <1>3, <1>10
  <2>2. source # << >> /\ source[1] = text[a] /\ source[Len(source)] = text[b]
    <3>1. source # << >>
      BY <1>5, <1>6, EmptySeq
    <3> QED  BY <1>5, <1>6, <3>1
  <2>3. IsSuffix(lines, EmbedText(lines, present, << >>))
    BY <1>5, <1>9, <2>1
  <2> QED  BY <1>2, <1>4, <1>7, <2>1, <2>2, <2>3 DEF ChunkIsCut
<1>11. CASE c.window # << >>
  <2> DEFINE f == c.window[1]
             g == c.window[2]
             some == SubSeq(words, f, g)
  <2>1. /\ tokens > MaxTokens /\ \A i \in a .. b : ~IsBlank(text[i])
        /\ f \in 1 .. l /\ g \in f .. l /\ g - f < MaxTokens /\ lines = OneLine(some)
    BY <1>2, <1>3, <1>11
  <2>2. words \in Seq(Nat) /\ l \in Nat \ {0}
    <3>1. a \in Nat \ {0}
      BY <1>1, <1>2
    <3> QED  BY <1>1, <1>2, <2>1, <3>1, WordsAre DEF source
  <2> HIDE DEF f, g, words
  <2>3. DOMAIN words = 1 .. l /\ l \in Nat
    BY <2>2, LenProperties
  <2> HIDE DEF l
  <2>4. f \in Int /\ g \in Int /\ 1 <= f /\ f <= g /\ g <= l /\ f \in 1 .. l /\ g \in 1 .. l
    BY <2>1, <2>3
  <2>5. some \in Seq(Nat) /\ Len(some) = g - f + 1
    <3>1. f <= g + 1 /\ g <= Len(words)
      BY <2>3, <2>4 DEF l
    <3> QED  BY <2>2, <2>4, <3>1, PartOfText
  <2> HIDE DEF some
  <2>6. some # << >>
    <3>1. Len(some) # 0
      BY <2>4, <2>5
    <3> QED  BY <2>5, <3>1, EmptySeq
  <2> DEFINE line == [sees |-> "prose", words |-> some]
  <2>7. line \in Line /\ ~IsBlank(line)
    BY <2>5, <2>6 DEF Line, LineKinds, IsBlank
  <2>8. lines = <<line>>
    BY <2>1 DEF OneLine
  <2> HIDE DEF line
  <2>9. lines \in Seq(Line) /\ lines # << >> /\ Len(lines) = 1 /\ lines[1] = line
    BY <2>7, <2>8
  <2>10. \A i \in DOMAIN source : ~IsBlank(source[i])
    <3>1. ASSUME NEW i \in 1 .. n PROVE ~IsBlank(source[i])
      <4>1. a + i - 1 \in a .. b
        BY <1>1, <1>6
      <4> QED  BY <1>5, <2>1, <4>1
    <3> QED  BY <1>8, <3>1
  <2>11. IsWindow(source, lines)
    BY <2>1, <2>3, <2>4 DEF IsWindow, some, words
  <2>12. IsSuffix(lines, EmbedText(lines, present, << >>))
    BY <1>9, <2>9
  <2> QED  BY <1>4, <1>7, <2>1, <2>7, <2>9, <2>10, <2>11, <2>12 DEF ChunkIsCut
<1> QED  BY <1>10, <1>11

\* segment_email_body and chunk_email (rag/email_segmentation.py, rag/chunking.py): of any
\* body, whatever the limits and the headers, nothing that is written is lost, no line that
\* starts quoted history is in what is the sender's own, and every line of authored text
\* is in a chunk. A chunk begins and ends with text and ends what is embedded for it; it
\* has the lines of its span, with at most the overlap more tokens than the limit, or, where
\* one paragraph exceeds the limit, no more words of it than the limit, joined again; these
\* windows leave no word of the paragraph out.
THEOREM MailsAreKept ==
  ASSUME NEW body \in Seq(Line), NEW present
  PROVE  MailIsKept(body, Segment(body), ChunkEmail(body, present))
<1> DEFINE text == NormalizeBody(body)
           s == Segment(body)
           own == s.authored \o s.signature \o s.disclaimer
           authored == s.authored
           cuts == Split(authored)
           chunks == ChunkEmail(body, present)
<1>1. text \in Seq(Line) /\ IsStripped(text) /\ Written(text) = Written(body)
  BY NormalizeKeeps
<1>2. s = SegmentText(text)
  BY DEF Segment
<1> HIDE DEF text, s
<1>3. IsWhole(text, s)
  BY <1>1, <1>2, SegmentsAreWhole
<1>4. /\ Written(own \o s.quoted) = Written(text)
      /\ \A line \in ToSet(own) : line.sees \notin {"quoted", "original", "on wrote"}
  BY <1>1, <1>3, SegmentsRead
<1>5. authored \in Seq(Line) /\ IsStripped(authored)
  BY <1>1, <1>2, AuthoredIsStripped
<1>6. /\ chunks = [k \in DOMAIN cuts |->
                    LET lines == TextOf(authored, cuts[k])
                    IN  [text |-> lines, span |-> cuts[k].span, embed |-> EmbedText(lines, present, << >>)]]
  BY DEF ChunkEmail, s
<1> HIDE DEF authored
<1>7. AreCuts(authored, cuts) /\ \A i \in Lines(authored) : Holds(authored, cuts, i)
  BY <1>5, SplitKeeps
<1> HIDE DEF cuts, chunks
<1>8. DOMAIN chunks = DOMAIN cuts
  BY <1>6
<1>9. ASSUME NEW k \in DOMAIN chunks
      PROVE  /\ chunks[k].text = TextOf(authored, cuts[k])
             /\ chunks[k].span = cuts[k].span
             /\ chunks[k].embed = EmbedText(chunks[k].text, present, << >>)
  BY <1>6, <1>8
<1>10. ASSUME NEW k \in DOMAIN chunks PROVE ChunkIsCut(authored, chunks[k])
  <2> DEFINE c == cuts[k]
             chunk == chunks[k]
  <2>1. c \in ChunkRecords /\ IsCut(authored, c)
    BY <1>7, <1>8, LenProperties, ElementOfSeq DEF AreCuts
  <2>2. /\ chunk.text = TextOf(authored, c) /\ chunk.span = c.span
        /\ chunk.embed = EmbedText(chunk.text, present, << >>)
    BY <1>9
  <2> HIDE DEF c, chunk
  <2>3. ChunkIsCut(authored, chunk)
    BY <1>5, <2>1, <2>2, ChunksAreCuts
  <2> QED  BY <2>3 DEF chunk
<1>11. \A i \in DOMAIN authored : IsBlank(authored[i]) \/ Holds(authored, cuts, i)
  BY <1>7 DEF Lines
<1>12. \A i, j \in DOMAIN chunks : i < j =>
         chunks[i].span[1] <= chunks[j].span[1] /\ chunks[i].span[2] <= chunks[j].span[2]
  BY <1>7, <1>8, <1>9 DEF AreCuts, IsBefore
<1>13. Written(own \o s.quoted) = Written(body)
  BY <1>1, <1>4
<1> QED  BY <1>3, <1>4, <1>10, <1>11, <1>12, <1>13 DEF MailIsKept, authored, cuts, chunks, s, text

-----------------------------------------------------------------------------
(* The inputs that are enumerated are such drafts, extractions, mailboxes.  *)

LEMMA ShortOnesAreSeqs ==
  ASSUME NEW S, NEW n \in Nat
  PROVE  SeqOf(S, n) \subseteq Seq(S)
<1> SUFFICES ASSUME NEW s \in SeqOf(S, n) PROVE s \in Seq(S)
  OBVIOUS
<1>1. PICK m \in 0 .. n : s \in [1 .. m -> S]
  BY DEF SeqOf
<1>2. m \in Nat
  OBVIOUS
<1> QED  BY <1>1, <1>2, SeqDef

IsAsked(asked, Ids, Chars, Chunks) ==
  /\ asked.texts \in [Chunks -> Seq(Chars)] /\ asked.hits \in Seq(Chunks) /\ asked.budget \in Int
  /\ asked.draft \in [claims : Seq(Seq(Cited(Ids, Chars))), flagged : BOOLEAN]

LEMMA OneQuoteIsAsked ==
  ASSUME NEW asked \in OneQuote
  PROVE  IsAsked(asked, {"c1"}, Letters, {"c1"})
<1>1. PICK text \in Texts, quote \in SeqOf(Letters, 3), start \in {None} \cup -2 .. 2 :
        asked = [texts |-> [c1 |-> text], hits |-> <<"c1">>, budget |-> 1,
                 draft |-> [claims |-> <<<<Quote("c1", quote, start)>>>>, flagged |-> FALSE]]
  BY DEF OneQuote
<1>2. text \in Seq(Letters) /\ quote \in Seq(Letters)
  BY ShortOnesAreSeqs DEF Texts
<1>3. Quote("c1", quote, start) \in Cited({"c1"}, Letters)
  BY <1>2 DEF Quote, Cited
<1>4. <<<<Quote("c1", quote, start)>>>> \in Seq(Seq(Cited({"c1"}, Letters)))
  BY <1>3
<1>5. [c1 |-> text] \in [{"c1"} -> Seq(Letters)]
  BY <1>2
<1>6. <<"c1">> \in Seq({"c1"})
  OBVIOUS
<1> QED  BY <1>1, <1>4, <1>5, <1>6 DEF IsAsked

LEMMA DraftsAreAsked ==
  ASSUME NEW asked \in Drafts
  PROVE  IsAsked(asked, {"c1", "c2"}, Letters, {"c1", "c2", "c3"})
<1> DEFINE Ids == {"c1", "c2"}
           Chunks == {"c1", "c2", "c3"}
           C == Cited(Ids, Letters)
<1>1. PICK hits \in SeqOf({"c1", "c2"}, 3), budget \in 0 .. 2, flagged \in BOOLEAN,
           claims \in SeqOf(SeqOf(SomeQuotes, 1), 2) \cup SeqOf(SeqOf(SomeQuotes, 2), 1) :
        asked = [texts |-> Box, hits |-> hits, budget |-> budget,
                 draft |-> [claims |-> claims, flagged |-> flagged]]
  BY DEF Drafts
<1>0. "a" \in Letters /\ " " \in Letters /\ Break \in Letters
  BY DEF Letters
<1>2. SomeQuotes \subseteq C
  <2>1. <<"a", " ", "a">> \in Seq(Letters) /\ <<"a">> \in Seq(Letters) /\ <<"a", "a">> \in Seq(Letters)
    BY <1>0, ListedOnes
  <2>2. \A id \in Ids : \A quote \in Seq(Letters) : \A start \in Int \cup {None} : Quote(id, quote, start) \in C
    BY DEF Quote, Cited
  <2>3. {"c1", "c2"} \subseteq Ids /\ {None, 3, -1} \subseteq Int \cup {None}
    OBVIOUS
  <2> HIDE DEF C, Ids
  <2>4. /\ Quote("c1", <<"a", " ", "a">>, None) \in C /\ Quote("c1", <<"a">>, 3) \in C
        /\ Quote("c1", <<"a">>, -1) \in C /\ Quote("c2", <<"a", "a">>, None) \in C
        /\ Quote("c2", <<"a">>, None) \in C
    BY <2>1, <2>2, <2>3
  <2> QED  BY <2>4 DEF SomeQuotes
<1> HIDE DEF C
<1>3. claims \in Seq(Seq(C))
  <2>1. \A n \in Nat : \A s \in SeqOf(SomeQuotes, n) : s \in Seq(C)
    <3>1. \A n \in Nat : \A s \in SeqOf(SomeQuotes, n) : s \in Seq(SomeQuotes)
      BY ShortOnesAreSeqs
    <3> QED  BY <1>2, <3>1, SeqMonotonic
  <2>2. ASSUME NEW n \in Nat, NEW m \in Nat, NEW s \in SeqOf(SeqOf(SomeQuotes, n), m) PROVE s \in Seq(Seq(C))
    <3> DEFINE T == SeqOf(SomeQuotes, n)
    <3>1. T \subseteq Seq(C)
      BY <2>1
    <3> HIDE DEF T
    <3>2. s \in Seq(T)
      BY ShortOnesAreSeqs DEF T
    <3> QED  BY <3>1, <3>2, SeqMonotonic
  <2> QED  BY <2>2
<1>4. hits \in Seq(Chunks)
  <2>1. hits \in Seq({"c1", "c2"})
    BY ShortOnesAreSeqs
  <2> QED  BY <2>1, SeqMonotonic
<1>5. Box \in [Chunks -> Seq(Letters)]
  <2> DEFINE L == Seq(Letters)
  <2>1. <<"a", " ", Break, "a">> \in L /\ <<"a">> \in L /\ << >> \in L
    BY <1>0, ListedOnes
  <2> HIDE DEF L
  <2>2. \A x, y, z \in L : [c1 |-> x, c2 |-> y, c3 |-> z] \in [Chunks -> L]
    OBVIOUS
  <2>3. Box = [c1 |-> <<"a", " ", Break, "a">>, c2 |-> <<"a">>, c3 |-> << >>]
    BY DEF Box
  <2> QED  BY <2>1, <2>2, <2>3 DEF L
<1> HIDE DEF Chunks
<1> QED  BY <1>1, <1>3, <1>4, <1>5 DEF IsAsked, C, Chunks

IsExtraction(x, Chars, Items, Addresses) ==
  /\ \A i \in Items : IsItem(i, Chars)
  /\ x.raw.entities \in Seq(Items) /\ x.raw.relations \in Seq(Items) /\ x.raw.facts \in Seq(Items)
  /\ x.state.text \in Seq(Chars) /\ x.state.sourceStart \in Nat \cup {None}
  /\ x.state.recipients \in Seq(Addresses) /\ x.state.cc \in Seq(Addresses)
  /\ x.home.body \in Seq(Chars) /\ HasRoom(x.state, x.home)

Stated(predicate, evidence) ==
  [subject |-> "ann", predicate |-> predicate, object |-> "bob", evidence |-> evidence]

AllItems ==
  Extracted \cup {Claim(subject, evidence) : subject \in {"ann", None}, evidence \in Evidence}
    \cup {Stated(predicate, evidence) : predicate \in {"APPROVED", "LIKES"}, evidence \in Evidence}

Signs == Tokens \cup {Break}

\* A chunk that takes no more room than its span in the body has.
IsPassage(chunk) ==
  /\ chunk.text \in Seq(Signs) /\ chunk.start \in Nat \cup {None} /\ chunk.home.body \in Seq(Signs)
  /\ chunk.start # None => /\ chunk.home.end \in Nat /\ chunk.home.end <= Len(chunk.home.body)
                           /\ chunk.start + Len(chunk.text) <= chunk.home.end

LEMMA NormalIsShorter ==
  ASSUME NEW Chars, NEW text \in Seq(Chars)
  PROVE  /\ NormalizeWs(text) \in Seq(Chars \cup {" "})
         /\ Len(NormalizeWs(text)) \in Nat /\ Len(NormalizeWs(text)) <= Len(text)
<1>1. Len(text) \in Nat /\ DOMAIN text = 1 .. Len(text) /\ Kept(text) \subseteq 1 .. Len(text)
  BY LenProperties DEF Kept
<1>2. NormalizeWs(text) \in Seq(Chars \cup {" "}) /\ Len(NormalizeWs(text)) = Cardinality(Kept(text))
  BY NormalizedIs
<1>3. IsFiniteSet(1 .. Len(text)) /\ Cardinality(1 .. Len(text)) = Len(text)
  <2> DEFINE n == Len(text)
  <2>1. n \in Nat /\ 1 \in Int
    BY <1>1
  <2> HIDE DEF n
  <2>2. IsFiniteSet(1 .. n) /\ Cardinality(1 .. n) = IF 1 > n THEN 0 ELSE n - 1 + 1
    BY <2>1, FS_Interval
  <2> QED  BY <2>1, <2>2 DEF n
<1>4. Cardinality(Kept(text)) <= Cardinality(1 .. Len(text)) /\ Cardinality(Kept(text)) \in Nat
  BY <1>1, <1>3, FS_Subset, FS_CardinalityType
<1> QED  BY <1>2, <1>3, <1>4

LEMMA ChunksArePassages ==
  ASSUME NEW chunk \in ChunksOfMails
  PROVE  IsPassage(chunk)
<1> DEFINE T == Seq(Signs)
           Whole(text) == Chunk(text, 0, text, Len(text))
           Slices == {Chunk(PySlice(Body, span[1], span[2]), span[1], Body, span[2]) :
                       span \in {<<0, 3>>, <<5, 11>>, <<0, 11>>}}
           Windowed == {Chunk(NormalizeWs(PySlice(Body, span[1], span[2])), 5, Body, 11) :
                         span \in {<<5, 8>>, <<7, 11>>, <<10, 11>>}}
<1>1. \A text, start, body, end :
        /\ Chunk(text, start, body, end).text = text /\ Chunk(text, start, body, end).start = start
        /\ Chunk(text, start, body, end).home.body = body /\ Chunk(text, start, body, end).home.end = end
  BY DEF Chunk
<1>2. \A n \in Nat : SeqOf(Tokens, n) \subseteq T
  <2>1. \A n \in Nat : SeqOf(Tokens, n) \subseteq Seq(Tokens)
    BY ShortOnesAreSeqs
  <2>2. Tokens \subseteq Signs
    BY DEF Signs
  <2>3. Seq(Tokens) \subseteq Seq(Signs)
    BY <2>2, SeqMonotonic
  <2> QED  BY <2>1, <2>3
<1>3. Body \in T /\ Len(Body) = 11
  <2>1. "a" \in Signs /\ " " \in Signs /\ "now" \in Signs /\ Break \in Signs
    BY DEF Tokens, Signs
  <2>2. Body = <<"a", " ", "now", Break, Break, "now", " ", "a", " ", " ", "now">>
    BY DEF Body
  <2>3. \A a, b, c, d \in Signs :
          <<a, b, c, d, d, c, b, a, b, b, c>> \in T /\ Len(<<a, b, c, d, d, c, b, a, b, b, c>>) = 11
    <3> HIDE DEF Signs
    <3> QED  OBVIOUS
  <2> HIDE DEF T, Signs
  <2> QED  BY <2>1, <2>2, <2>3
<1>4. << >> \in T
  OBVIOUS
<1>5. \A s \in 0 .. 11, e \in 0 .. 11 :
        s <= e => PySlice(Body, s, e) \in T /\ Len(PySlice(Body, s, e)) = e - s
  <2> SUFFICES ASSUME NEW s \in 0 .. 11, NEW e \in 0 .. 11, s <= e
               PROVE  PySlice(Body, s, e) \in T /\ Len(PySlice(Body, s, e)) = e - s
    OBVIOUS
  <2>1. PySlice(Body, s, e) = SubSeq(Body, s + 1, e)
    BY <1>3, SliceWithin
  <2> DEFINE a == s + 1
  <2>2. a \in Int /\ e \in Int /\ 1 <= a /\ a <= e + 1 /\ e <= Len(Body)
    BY <1>3
  <2> HIDE DEF a
  <2>3. SubSeq(Body, a, e) \in T /\ Len(SubSeq(Body, a, e)) = e - a + 1
    BY <1>3, <2>2, PartOfText
  <2>4. e - a + 1 = e - s
    BY DEF a
  <2> QED  BY <2>1, <2>3, <2>4 DEF a
<1>6. \A text \in T : /\ NormalizeWs(text) \in T /\ Len(NormalizeWs(text)) \in Nat
                      /\ Len(NormalizeWs(text)) <= Len(text)
  <2>1. Signs \cup {" "} = Signs
    BY DEF Signs, Tokens
  <2> QED  BY <2>1, NormalIsShorter
<1>7. ChunksOfMails = {Whole(text) : text \in SeqOf(Tokens, 3) \ {<< >>}} \cup Slices \cup Windowed
                       \cup {Chunk(text, None, << >>, 0) : text \in SeqOf(Tokens, 2)}
  BY DEF ChunksOfMails
<1> HIDE DEF Signs
<1>8. CASE \E text \in SeqOf(Tokens, 3) : chunk = Whole(text)
  <2>1. PICK text \in SeqOf(Tokens, 3) : chunk = Chunk(text, 0, text, Len(text))
    BY <1>8
  <2>2. text \in T
    BY <1>2
  <2>3. Len(text) \in Nat
    BY <2>2, LenProperties
  <2> QED  BY <1>1, <2>1, <2>2, <2>3 DEF IsPassage
<1>9. CASE chunk \in Slices
  <2>1. PICK s, e : /\ chunk = Chunk(PySlice(Body, s, e), s, Body, e)
                    /\ <<s, e>> \in {<<0, 3>>, <<5, 11>>, <<0, 11>>}
    BY <1>9
  <2>2. s \in 0 .. 11 /\ e \in 0 .. 11 /\ s <= e
    BY <2>1
  <2>3. PySlice(Body, s, e) \in T /\ Len(PySlice(Body, s, e)) = e - s
    BY <1>5, <2>2
  <2> DEFINE text == PySlice(Body, s, e)
  <2> HIDE DEF text, T
  <2>4. chunk.text = text /\ chunk.start = s /\ chunk.home.body = Body /\ chunk.home.end = e
    BY <1>1, <2>1 DEF text
  <2>5. s + Len(text) <= e
    BY <2>2, <2>3 DEF text
  <2>6. text \in T
    BY <2>3 DEF text
  <2>7. s \in Nat /\ e \in Nat /\ e <= Len(Body)
    BY <1>3, <2>2
  <2> QED  BY <1>3, <2>4, <2>5, <2>6, <2>7 DEF IsPassage, T
<1>10. CASE chunk \in Windowed
  <2>1. PICK s, e : /\ chunk = Chunk(NormalizeWs(PySlice(Body, s, e)), 5, Body, 11)
                    /\ <<s, e>> \in {<<5, 8>>, <<7, 11>>, <<10, 11>>}
    BY <1>10
  <2>2. s \in 0 .. 11 /\ e \in 0 .. 11 /\ s <= e /\ e - s <= 6
    BY <2>1
  <2>3. PySlice(Body, s, e) \in T /\ Len(PySlice(Body, s, e)) = e - s
    BY <1>5, <2>2
  <2> DEFINE text == NormalizeWs(PySlice(Body, s, e))
  <2>4. text \in T /\ Len(text) \in Nat /\ Len(text) <= e - s
    BY <1>6, <2>3
  <2> HIDE DEF text, T
  <2>5. chunk.text = text /\ chunk.start = 5 /\ chunk.home.body = Body /\ chunk.home.end = 11
    BY <1>1, <2>1 DEF text
  <2>6. 5 + Len(text) <= 11
    BY <2>2, <2>4
  <2>7. 11 \in Nat /\ 5 \in Nat /\ 11 <= Len(Body)
    BY <1>3
  <2> QED  BY <1>3, <2>4, <2>5, <2>6, <2>7 DEF IsPassage, T
<1>11. CASE \E text \in SeqOf(Tokens, 2) : chunk = Chunk(text, None, << >>, 0)
  <2>1. PICK text \in SeqOf(Tokens, 2) : chunk = Chunk(text, None, << >>, 0)
    BY <1>11
  <2>2. text \in T
    BY <1>2
  <2>3. chunk.text = text /\ chunk.start = None /\ chunk.home.body = << >>
    BY <1>1, <2>1
  <2> QED  BY <1>4, <2>2, <2>3 DEF IsPassage
<1> QED  BY <1>7, <1>8, <1>9, <1>10, <1>11

LEMMA ExtractionsAreTyped ==
  ASSUME NEW x \in Extractions
  PROVE  IsExtraction(x, Signs, AllItems, {"ann", "bob"})
<1>1. PICK entities \in SeqOf(Extracted, 2), predicate \in {"APPROVED", "LIKES"}, evidence \in Evidence,
           chunk \in ChunksOfMails, h \in Headers :
        x = [raw |-> [entities |-> entities,
                      relations |-> <<Stated(predicate, evidence)>>,
                      facts |-> <<Claim("ann", evidence), Claim(None, evidence)>>],
             state |-> [text |-> chunk.text, sourceStart |-> chunk.start, sender |-> h.sender,
                        recipients |-> h.recipients, cc |-> h.cc, inReplyTo |-> h.inReplyTo,
                        parentSender |-> h.parentSender],
             home |-> chunk.home]
  BY DEF Extractions, Stated
<1>0. "a" \in Signs /\ " " \in Signs /\ "now" \in Signs
  BY DEF Tokens, Signs
<1>2. \A e \in Evidence : e \in Seq(Signs)
  <2> DEFINE T == Seq(Signs)
  <2>1. << >> \in T /\ <<"a">> \in T /\ <<"now">> \in T /\ <<"a", "now">> \in T /\ <<" ", "now">> \in T
       /\ <<" ">> \in T /\ <<"a", " ", "now">> \in T
    BY <1>0, ListedOnes
  <2> HIDE DEF T
  <2>2. \A e \in Evidence : e \in T
    BY <2>1 DEF Evidence
  <2> QED  BY <2>2 DEF T
<1>3. \A e \in Extracted : IsItem(e, Signs)
  <2> DEFINE T == Seq(Signs)
  <2>1. <<"a">> \in T /\ <<"now">> \in T /\ <<"a", " ">> \in T
    BY <1>0, ListedOnes
  <2> HIDE DEF T
  <2> DEFINE Item(name, type, quote) == [name |-> name, type |-> type, evidence |-> quote]
  <2>2. \A name, type, quote : quote \in T => "evidence" \in DOMAIN Item(name, type, quote) /\ Item(name, type, quote).evidence \in T
    OBVIOUS
  <2>3. Extracted = {Item("Ann", "PERSON", <<"a">>), Item("ann", "ORG", <<"now">>),
                     Item("bob", "PERSON", <<"a", " ">>), Item("bob", "PLACE", <<"a">>),
                     Item(None, "PERSON", <<"a">>)}
    BY DEF Extracted
  <2> HIDE DEF Item
  <2>4. \A e \in Extracted : "evidence" \in DOMAIN e /\ e.evidence \in T
    BY <2>1, <2>2, <2>3
  <2> QED  BY <2>4 DEF T, IsItem
<1>4. \A i \in AllItems : IsItem(i, Signs)
  <2> DEFINE T == Seq(Signs)
  <2>1. \A subject, quote : "evidence" \in DOMAIN Claim(subject, quote) /\ Claim(subject, quote).evidence = quote
    BY DEF Claim
  <2>2. \A word, quote : "evidence" \in DOMAIN Stated(word, quote) /\ Stated(word, quote).evidence = quote
    BY DEF Stated
  <2> QED  BY <1>2, <1>3, <2>1, <2>2 DEF AllItems, IsItem
<1>5. /\ x.state.text = chunk.text /\ x.state.sourceStart = chunk.start /\ x.home = chunk.home
      /\ IsPassage(chunk)
  BY <1>1, ChunksArePassages
<1>6. h.recipients \in Seq({"ann", "bob"}) /\ h.cc \in Seq({"ann", "bob"})
  <2> DEFINE A == Seq({"ann", "bob"})
  <2>1. << >> \in A /\ <<"ann">> \in A /\ <<"bob">> \in A
    BY ListedOnes
  <2> HIDE DEF A
  <2>2. \A g \in Headers : g.recipients \in A /\ g.cc \in A
    BY <2>1 DEF Headers
  <2> QED  BY <2>2 DEF A
<1>7. entities \in Seq(AllItems)
  <2>1. entities \in Seq(Extracted)
    BY ShortOnesAreSeqs
  <2>2. Extracted \subseteq AllItems
    BY DEF AllItems
  <2> QED  BY <2>1, <2>2, SeqMonotonic
<1>8. /\ <<Stated(predicate, evidence)>> \in Seq(AllItems)
      /\ <<Claim("ann", evidence), Claim(None, evidence)>> \in Seq(AllItems)
  <2>1. /\ Stated(predicate, evidence) \in AllItems
        /\ Claim("ann", evidence) \in AllItems /\ Claim(None, evidence) \in AllItems
    BY DEF AllItems
  <2> HIDE DEF AllItems
  <2> QED  BY <2>1
<1>9. x.home.body \in Seq(Signs) /\ HasRoom(x.state, x.home)
  BY <1>5 DEF IsPassage, HasRoom
<1>10. x.state.text \in Seq(Signs) /\ x.state.sourceStart \in Nat \cup {None}
  BY <1>5 DEF IsPassage
<1> HIDE DEF AllItems, Signs
<1> QED  BY <1>1, <1>4, <1>6, <1>7, <1>8, <1>9, <1>10 DEF IsExtraction

\* What the run evaluates and QuotesAreReal states.
QuotesInv ==
  /\ area = "quote" => input \in OneQuote
  /\ area = "draft" => input \in Drafts
  /\ area = "extraction" => input \in Extractions
  /\ QuotesAreReal

\* QuotesAreReal, of every evaluation that MCAnswering makes of ValidateDraft and
\* ResolveExtraction: nothing a model quotes is believed unless it is there (rag/grounded_answer.py,
\* graph/extract.py). The two theorems above say it of any input.
THEOREM QuotesAreRealCorrect == Spec => []QuotesAreReal
<1>1. Init => QuotesInv
  BY DEF Init, Inputs, QuotesInv, QuotesAreReal
<1>2. QuotesInv /\ [Next]_vars => QuotesInv'
  <2> SUFFICES ASSUME QuotesInv, [Next]_vars PROVE QuotesInv'
    OBVIOUS
  <2>1. CASE EvaluateDraft
    <3>1. area \in {"quote", "draft"} /\ result' = Attempt(input) /\ area' = area /\ input' = input
      BY <2>1 DEF EvaluateDraft
    <3>2. AnswerIsReal(input, Attempt(input))
      <4>1. CASE area = "quote"
        <5>1. IsAsked(input, {"c1"}, Letters, {"c1"})
          BY <4>1, OneQuoteIsAsked DEF QuotesInv
        <5> QED  BY <5>1, AnswersAreReal DEF IsAsked
      <4>2. CASE area = "draft"
        <5>1. IsAsked(input, {"c1", "c2"}, Letters, {"c1", "c2", "c3"})
          BY <4>2, DraftsAreAsked DEF QuotesInv
        <5> QED  BY <5>1, AnswersAreReal DEF IsAsked
      <4> QED  BY <3>1, <4>1, <4>2
    <3>3. QuotesAreReal'
      BY <3>1, <3>2 DEF QuotesAreReal
    <3> QED  BY <3>1, <3>3 DEF QuotesInv
  <2>2. CASE EvaluateExtraction
    <3>1. /\ area = "extraction" /\ result' \in ResolveExtraction(input.raw, input.state)
          /\ area' = area /\ input' = input
      BY <2>2 DEF EvaluateExtraction
    <3>2. IsExtraction(input, Signs, AllItems, {"ann", "bob"})
      BY <3>1, ExtractionsAreTyped DEF QuotesInv
    <3>3. GraphIsReal(input.raw, input.state, input.home, result')
      BY <3>1, <3>2, GraphsAreReal DEF IsExtraction
    <3>4. QuotesAreReal'
      BY <3>1, <3>3 DEF QuotesAreReal
    <3> QED  BY <3>1, <3>4 DEF QuotesInv
  <2>3. ASSUME area \notin {"quote", "draft", "extraction"}, area' = area PROVE QuotesInv'
    BY <2>3 DEF QuotesInv, QuotesAreReal
  <2>4. CASE EvaluateMail \/ EvaluatePage \/ EvaluateSearch \/ EvaluateAnswer \/ EvaluateDialogue
    BY <2>3, <2>4 DEF EvaluateMail, EvaluatePage, EvaluateSearch, EvaluateAnswer, EvaluateDialogue
  <2>5. CASE UNCHANGED vars
    BY <2>5 DEF vars, QuotesInv, QuotesAreReal
  <2> QED  BY <2>1, <2>2, <2>4, <2>5 DEF Next
<1>3. QuotesInv => QuotesAreReal
  BY DEF QuotesInv
<1> QED  BY <1>1, <1>2, <1>3, PTL DEF Spec

LEMMA ToIsFinite ==
  ASSUME NEW n \in Nat
  PROVE  IsFiniteSet(1 .. n)
BY FS_Interval

LEMMA SearchesAreTyped ==
  ASSUME NEW x \in Searches
  PROVE  IsMailbox(x.db, 1 .. 3) /\ IsGraph(Graph(x.mentioned), 1 .. 4)
<1>1. x.db \in Databases /\ x.mentioned \in {{2}, {1, 2}}
  BY DEF Searches
<1> DEFINE F(places, words, near, liked) ==
             [c \in 1 .. 3 |-> [box |-> places[c][1], thread |-> places[c][2], words |-> words[c],
                                near |-> near[c], liked |-> liked[c]]]
           Scores == [1 .. 3 -> 0 .. 2]
           Likings == {<<0, 0, 0>>, <<0, 2, 1>>, <<2, 1, 0>>}
<1>2. PICK places \in Places3, words \in Scores, near \in Scores, liked \in Likings :
        x.db = F(places, words, near, liked)
  <2>1. Databases = {F(places, words, near, liked) :
                       places \in Places3, words \in Scores, near \in Scores, liked \in Likings}
    BY DEF Databases
  <2> HIDE DEF F, Scores, Likings
  <2> QED  BY <1>1, <2>1
<1>3. \A c \in 1 .. 3 : words[c] \in Int /\ near[c] \in Int /\ liked[c] \in Int
  <2>1. \A c \in 1 .. 3 : words[c] \in 0 .. 2 /\ near[c] \in 0 .. 2
    OBVIOUS
  <2>2. \A c \in 1 .. 3 : c = 1 \/ c = 2 \/ c = 3
    OBVIOUS
  <2>3. \A c \in 1 .. 3 : liked[c] \in Int
    BY <2>2
  <2> QED  BY <2>1, <2>3
<1>4. IsMailbox(x.db, 1 .. 3)
  <2>1. IsFiniteSet(1 .. 3)
    BY ToIsFinite
  <2> QED  BY <1>2, <1>3, <2>1 DEF IsMailbox
<1>5. IsGraph(Graph(x.mentioned), 1 .. 4)
  <2>1. IsFiniteSet(1 .. 4)
    BY ToIsFinite
  <2> DEFINE graph == Graph(x.mentioned)
  <2>2. \A m \in graph.mentions : m.chunk \in 1 .. 4
    <3>1. graph.mentions = {[box |-> Mine, entity |-> "e1", chunk |-> c] : c \in x.mentioned}
                             \cup {[box |-> "other", entity |-> "e2", chunk |-> 3]}
      BY DEF Graph
    <3>2. x.mentioned \subseteq 1 .. 4
      BY <1>1
    <3> QED  BY <3>1, <3>2
  <2>3. \A f \in graph.facts : f.chunks \subseteq 1 .. 4
    <3>1. graph.facts = {Fact(Mine, "atlas", "superseded", {1}), Fact(Mine, "atlas", "active", {2}),
                         Fact(Mine, "rent", "active", {1, 4}), Fact("other", "atlas", "active", {3})}
      BY DEF Graph
    <3>2. \A box, subject, status, chunks : Fact(box, subject, status, chunks).chunks = chunks
      BY DEF Fact
    <3>3. {1} \subseteq 1 .. 4 /\ {2} \subseteq 1 .. 4 /\ {1, 4} \subseteq 1 .. 4 /\ {3} \subseteq 1 .. 4
      OBVIOUS
    <3> HIDE DEF graph
    <3> QED  BY <3>1, <3>2, <3>3
  <2> HIDE DEF graph
  <2>4. 1 .. 4 \in SUBSET Int
    OBVIOUS
  <2> QED  BY <2>1, <2>2, <2>3, <2>4 DEF IsGraph, graph
<1> QED  BY <1>4, <1>5

SearchInv ==
  /\ area = "search" => input \in Searches
  /\ EvidenceIsInScope

\* EvidenceIsInScope, of every search that MCAnswering makes. The three theorems above say it
\* of any mailbox, graph and question.
THEOREM EvidenceIsInScopeCorrect == Spec => []EvidenceIsInScope
<1>1. Init => SearchInv
  BY DEF Init, Inputs, SearchInv, EvidenceIsInScope
<1>2. SearchInv /\ [Next]_vars => SearchInv'
  <2> SUFFICES ASSUME SearchInv, [Next]_vars PROVE SearchInv'
    OBVIOUS
  <2>1. CASE EvaluateSearch
    <3> DEFINE graph == Graph(input.mentioned)
               database == SearchDatabase(input.db, graph, input.question, input.thread)
               hybrid == HybridSearch(input.db, input.thread, FusedTopK)
               memory == SearchMemory(input.db, input.thread)
    <3>1. /\ area = "search" /\ area' = area /\ input' = input
          /\ result' = [database |-> database, hybrid |-> hybrid, memory |-> memory]
      BY <2>1 DEF EvaluateSearch
    <3>2. IsMailbox(input.db, 1 .. 3) /\ IsGraph(graph, 1 .. 4) /\ input \in Searches
      BY <3>1, SearchesAreTyped DEF SearchInv
    <3> HIDE DEF graph
    <3>3. FusedTopK \in Nat
      BY RetrievalAssumption
    <3>4. /\ \A hit \in ToSet(database.reranked) :
               hit.chunk \in DOMAIN input.db /\ InScope(input.db, input.thread, hit.chunk)
          /\ WellRanked(database)
      BY <3>2, DatabaseSearchIsRight
    <3>5. /\ \A c \in ToSet(hybrid.fused) : c \in DOMAIN input.db /\ InScope(input.db, input.thread, c)
          /\ WellFused(hybrid)
      BY <3>2, <3>3, HybridSearchIsRight
    <3>6. /\ \A hit \in ToSet(memory.reranked) : hit.chunk \in InThread(input.db, input.thread)
          /\ WellRanked(memory)
      BY <3>2, MemorySearchIsRight
    <3> HIDE DEF database, hybrid, memory
    <3>7. result'.database = database /\ result'.hybrid = hybrid /\ result'.memory = memory
      BY <3>1
    <3>8. EvidenceIsInScope'
      BY <3>1, <3>4, <3>5, <3>6, <3>7 DEF EvidenceIsInScope
    <3> QED  BY <3>1, <3>2, <3>8 DEF SearchInv
  <2>2. ASSUME area # "search", area' = area PROVE SearchInv'
    BY <2>2 DEF SearchInv, EvidenceIsInScope
  <2>3. CASE EvaluateMail \/ EvaluatePage \/ EvaluateDraft \/ EvaluateExtraction \/ EvaluateAnswer
               \/ EvaluateDialogue
    BY <2>2, <2>3
    DEF EvaluateMail, EvaluatePage, EvaluateDraft, EvaluateExtraction, EvaluateAnswer, EvaluateDialogue
  <2>4. CASE UNCHANGED vars
    BY <2>4 DEF vars, SearchInv, EvidenceIsInScope
  <2> QED  BY <2>1, <2>3, <2>4 DEF Next
<1>3. SearchInv => EvidenceIsInScope
  BY DEF SearchInv
<1> QED  BY <1>1, <1>2, <1>3, PTL DEF Spec

LEMMA BodiesAreTyped == Bodies \subseteq Seq(Line)
<1>1. << >> \in Seq(Nat) /\ <<0>> \in Seq(Nat) /\ <<1>> \in Seq(Nat) /\ <<2>> \in Seq(Nat)
      /\ <<1, 1>> \in Seq(Nat)
  OBVIOUS
<1>2. \A kind \in LineKinds : LineOf(kind) \in Line
  BY <1>1 DEF LineOf, Line
<1>3. LinesLike(LineKinds) \subseteq Line
  BY <1>2 DEF LinesLike
<1>4. LinesLike({"prose", "blank", "signoff", "on"}) \subseteq Line /\ LinesLike({"prose", "blank"}) \subseteq Line
  <2>1. {"prose", "blank", "signoff", "on"} \subseteq LineKinds /\ {"prose", "blank"} \subseteq LineKinds
    BY DEF LineKinds
  <2> QED  BY <1>2, <2>1 DEF LinesLike
<1>5. Prose \cup {Blank} \subseteq Line
  <2>1. Prose \subseteq Line
    BY <1>1 DEF Prose, Line, LineKinds
  <2>2. Blank \in Line
    BY <1>1 DEF Blank, Line, LineKinds
  <2> QED  BY <2>1, <2>2
<1>6. \A T \in SUBSET Line : \A n \in Nat : SeqOf(T, n) \subseteq Seq(Line)
  <2>1. ASSUME NEW T \in SUBSET Line, NEW n \in Nat, NEW s \in SeqOf(T, n) PROVE s \in Seq(Line)
    <3>1. s \in Seq(T)
      BY <2>1, ShortOnesAreSeqs
    <3>2. T \cup Line = Line
      OBVIOUS
    <3> QED  BY <3>1, <3>2, SeqOfMore
  <2> QED  BY <2>1
<1> QED  BY <1>3, <1>4, <1>5, <1>6 DEF Bodies

\* The bodies and pages that are enumerated.
TextInv ==
  /\ area = "mail" => input \in Bodies
  /\ area = "page" => input \in Pages
  /\ TextIsKept

\* TextIsKept, of every mail and page that MCAnswering cuts. MailsAreKept and PagesAreKept say
\* it of any body, page, limit and overlap (rag/email_segmentation.py, rag/chunking.py).
THEOREM TextIsKeptCorrect == Spec => []TextIsKept
<1>1. Init => TextInv
  BY DEF Init, Inputs, TextInv, TextIsKept
<1>2. TextInv /\ [Next]_vars => TextInv'
  <2> SUFFICES ASSUME TextInv, [Next]_vars PROVE TextInv'
    OBVIOUS
  <2>1. CASE EvaluateMail
    <3> DEFINE s == Segment(input)
               chunks == ChunkEmail(input, {"From", "Subject"})
    <3>1. /\ area = "mail" /\ area' = area /\ input' = input
          /\ result' = [segments |-> s, chunks |-> chunks]
      BY <2>1 DEF EvaluateMail
    <3>2. input \in Bodies
      BY <3>1 DEF TextInv
    <3>3. input \in Seq(Line)
      BY <3>2, BodiesAreTyped
    <3>4. MailIsKept(input, s, chunks)
      BY <3>3, MailsAreKept
    <3> HIDE DEF s, chunks
    <3>5. result'.segments = s /\ result'.chunks = chunks
      BY <3>1
    <3>6. TextIsKept'
      BY <3>1, <3>4, <3>5 DEF TextIsKept
    <3> QED  BY <3>1, <3>2, <3>6 DEF TextInv
  <2>2. CASE EvaluatePage
    <3>1. area = "page" /\ area' = area /\ input' = input /\ result' = ChunkPage(input)
      BY <2>2 DEF EvaluatePage
    <3>2. input \in Pages
      BY <3>1 DEF TextInv
    <3>3. input.words \in Seq({"w1", "w2"})
      <4>1. input.words \in SeqOf({"w1", "w2"}, 4)
        BY <3>2 DEF Pages
      <4> QED  BY <4>1, ShortOnesAreSeqs
    <3>4. PageIsKept(input, ChunkPage(input))
      BY <3>3, PagesAreKept
    <3>5. TextIsKept'
      BY <3>1, <3>4 DEF TextIsKept
    <3> QED  BY <3>1, <3>2, <3>5 DEF TextInv
  <2>3. ASSUME area \notin {"mail", "page"}, area' = area PROVE TextInv'
    BY <2>3 DEF TextInv, TextIsKept
  <2>4. CASE EvaluateDraft \/ EvaluateExtraction \/ EvaluateSearch \/ EvaluateAnswer \/ EvaluateDialogue
    BY <2>3, <2>4 DEF EvaluateDraft, EvaluateExtraction, EvaluateSearch, EvaluateAnswer, EvaluateDialogue
  <2>5. CASE UNCHANGED vars
    BY <2>5 DEF vars, TextInv, TextIsKept
  <2> QED  BY <2>1, <2>2, <2>4, <2>5 DEF Next
<1>3. TextInv => TextIsKept
  BY DEF TextInv
<1> QED  BY <1>1, <1>2, <1>3, PTL DEF Spec
=============================================================================
