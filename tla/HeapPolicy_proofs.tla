------------------------- MODULE HeapPolicy_proofs -------------------------
(***************************************************************************)
(* The list of chunks and the page table are of the same memory, and the   *)
(* slices keep up with the program: for pages, chunks, tables and settings *)
(* of every size.                                                          *)
(***************************************************************************)
EXTENDS HeapPolicy, FiniteSetTheorems, SequenceTheorems, WellFoundedInduction, TLAPS

Multiple(n, unit) == \E k \in Nat : n = unit * k

(* The sizes of config.h: a value has at least two bytes, a page is some   *)
(* words, the largest chunk some pages.  With more than 100 per cent a     *)
(* slice has less than no work.                                            *)
PolicyOK ==
  /\ WordSize \in Nat /\ WordSize >= 2
  /\ Page_size \in Nat \ {0} /\ Multiple(Page_size, WordSize)
  /\ Heap_chunk_max \in Nat \ {0} /\ Multiple(Heap_chunk_max, Page_size)
  /\ Minor_heap_min \in Nat /\ Minor_heap_max \in Nat
  /\ Unrolled \in Nat \ {0} /\ UnrolledShort \in Nat \ {0}
  /\ Wosizes \subseteq Nat /\ Increments \subseteq Nat \ {0} /\ MinorSizes \subseteq Nat
  /\ Percents \subseteq 1 .. 100 /\ Speeds \subseteq Nat \X Nat
  /\ MaxPage \in Nat

-----------------------------------------------------------------------------
(* Numbers.                                                                *)

LEMMA DivIs ==
  ASSUME NEW a \in Nat, NEW b \in Nat \ {0}
  PROVE  /\ a \div b \in Nat /\ a % b \in 0 .. b - 1 /\ a = b * (a \div b) + (a % b)
         /\ b * (a \div b) <= a /\ a < b * (a \div b) + b
OBVIOUS

LEMMA DivOf ==
  ASSUME NEW q \in Nat, NEW r \in Nat, NEW b \in Nat \ {0}, r < b
  PROVE  (b * q + r) \div b = q /\ (b * q + r) % b = r
OBVIOUS

LEMMA Product ==
  ASSUME NEW a \in Nat, NEW b \in Nat, NEW c \in Nat, b <= c
  PROVE  a * b \in Nat /\ a * b <= a * c
OBVIOUS

LEMMA Cancel ==
  ASSUME NEW a \in Nat \ {0}, NEW b \in Nat, NEW c \in Nat, a * b <= a * c
  PROVE  b <= c
OBVIOUS

LEMMA MaxIs ==
  ASSUME NEW a \in Int, NEW b \in Int
  PROVE  Max({a, b}) = IF a >= b THEN a ELSE b
<1> DEFINE m == IF a >= b THEN a ELSE b
<1>1. m \in {a, b} /\ \A y \in {a, b} : m >= y
  OBVIOUS
<1>2. \A x \in {a, b} : (\A y \in {a, b} : x >= y) => x = m
  OBVIOUS
<1> HIDE DEF m
<1>3. (CHOOSE x \in {a, b} : \A y \in {a, b} : x >= y) = m
  BY <1>1, <1>2
<1> QED
  BY <1>3 DEF Max, m

LEMMA MinIs ==
  ASSUME NEW a \in Int, NEW b \in Int
  PROVE  Min({a, b}) = IF a <= b THEN a ELSE b
<1> DEFINE m == IF a <= b THEN a ELSE b
<1>1. m \in {a, b} /\ \A y \in {a, b} : m <= y
  OBVIOUS
<1>2. \A x \in {a, b} : (\A y \in {a, b} : x <= y) => x = m
  OBVIOUS
<1> HIDE DEF m
<1>3. (CHOOSE x \in {a, b} : \A y \in {a, b} : x <= y) = m
  BY <1>1, <1>2
<1> QED
  BY <1>3 DEF Min, m

(* Sizes are rounded up to some units.                                     *)
LEMMA RoundUpIs ==
  ASSUME NEW n \in Nat, NEW unit \in Nat \ {0}
  PROVE  /\ RoundUp(n, unit) \in Nat /\ Multiple(RoundUp(n, unit), unit)
         /\ n <= RoundUp(n, unit) /\ (n > 0 => unit <= RoundUp(n, unit))
<1>1. PICK q : q = (n + unit - 1) \div unit
  OBVIOUS
<1>2. n + unit - 1 \in Nat
  OBVIOUS
<1>3. q \in Nat /\ n + unit - 1 < unit * q + unit
  BY <1>1, <1>2, DivIs
<1>4. RoundUp(n, unit) = unit * q /\ unit * q \in Nat
  <2>1. RoundUp(n, unit) = q * unit
    BY <1>1 DEF RoundUp
  <2> QED
    BY <2>1, <1>3
<1>5. n <= unit * q
  BY <1>3, <1>4
<1>6. ASSUME n > 0 PROVE unit <= unit * q
  <2>1. q # 0
    BY <1>3, <1>6
  <2> QED
    BY <1>3, <2>1, Product
<1> QED
  BY <1>3, <1>4, <1>5, <1>6 DEF Multiple

LEMMA MultipleSum ==
  ASSUME NEW a \in Nat, NEW b \in Nat, NEW unit \in Nat \ {0},
         Multiple(a, unit), Multiple(b, unit)
  PROVE  /\ Multiple(a + b, unit) /\ (a + b) \div unit = (a \div unit) + (b \div unit)
<1>1. PICK i \in Nat, j \in Nat : a = unit * i /\ b = unit * j
  BY DEF Multiple
<1>2. a + b = unit * (i + j) /\ i + j \in Nat
  BY <1>1
<1>3. a \div unit = i /\ b \div unit = j /\ (a + b) \div unit = i + j
  <2>1. a = unit * i + 0 /\ b = unit * j + 0 /\ a + b = unit * (i + j) + 0 /\ 0 < unit /\ 0 \in Nat
    BY <1>1, <1>2
  <2> QED
    BY <1>2, <2>1, DivOf
<1> QED
  BY <1>2, <1>3 DEF Multiple

LEMMA MultipleOf ==
  ASSUME NEW n \in Nat, NEW u \in Nat, NEW w \in Nat, Multiple(n, u), Multiple(u, w)
  PROVE  Multiple(n, w)
<1>1. PICK i \in Nat, j \in Nat : n = u * i /\ u = w * j
  BY DEF Multiple
<1>2. n = w * (j * i) /\ j * i \in Nat
  BY <1>1
<1> QED
  BY <1>2 DEF Multiple

-----------------------------------------------------------------------------
(* The sum of what a function gives for the elements of a set, whatever    *)
(* order they are taken in.                                                *)

LEMMA Least ==
  ASSUME NEW T \in SUBSET Nat, T # {}
  PROVE  \E m \in T : \A n \in T : m <= n
<1> DEFINE R == {ss \in Nat \X Nat : ss[1] < ss[2]}
<1>1. IsWellFoundedOn(R, Nat)
  BY NatLessThanWellFounded DEF OpToRel
<1> HIDE DEF R
<1>2. PICK m \in T : \A n \in T : ~ (<<n, m>> \in R)
  BY <1>1, WFMin
<1>3. \A n \in T : <<n, m>> \in R <=> n < m
  BY DEF R
<1>4. \A n \in T : ~ (n < m) /\ n \in Nat /\ m \in Nat
  BY <1>2, <1>3
<1>5. \A n \in T : m <= n
  BY <1>4
<1> QED
  BY <1>5

SumOf(f, S) == MapThenSumSet(LAMBDA c : f[c], S)

Picked(s) == CHOOSE x \in s : TRUE

(* g is the sum of f for the subsets of S of at most k elements.           *)
Small(S, k) == {s \in SUBSET S : Cardinality(s) <= k}

IsSum(f, S, k, g) ==
  /\ DOMAIN g = Small(S, k) /\ g = [s \in Small(S, k) |-> g[s]]
  /\ \A s \in Small(S, k) : g[s] = IF s = {} THEN 0 ELSE f[Picked(s)] + g[s \ {Picked(s)}]

(* A subset, and what is left of it without one of its elements.           *)
LEMMA Smaller ==
  ASSUME NEW S, IsFiniteSet(S), NEW s \in SUBSET S
  PROVE  /\ IsFiniteSet(s) /\ Cardinality(s) \in Nat /\ Cardinality(s) <= Cardinality(S)
         /\ Cardinality(S) \in Nat /\ (Cardinality(s) = 0 <=> s = {})
         /\ \A x \in s : s \ {x} \in SUBSET S /\ Cardinality(s \ {x}) = Cardinality(s) - 1
         /\ s # {} => Picked(s) \in s
<1>1. IsFiniteSet(s) /\ Cardinality(s) <= Cardinality(S)
  BY FS_Subset
<1>2. Cardinality(s) \in Nat /\ Cardinality(S) \in Nat
  BY <1>1, FS_CardinalityType
<1>3. Cardinality(s) = 0 <=> s = {}
  BY <1>1, FS_EmptySet
<1>4. ASSUME NEW x \in s PROVE Cardinality(s \ {x}) = Cardinality(s) - 1
  BY <1>1, FS_RemoveElement
<1>5. s # {} => Picked(s) \in s
  BY DEF Picked
<1> QED
  BY <1>1, <1>2, <1>3, <1>4, <1>5

LEMMA SumExists ==
  ASSUME NEW f, NEW S, IsFiniteSet(S), NEW n \in Nat
  PROVE  \E g : IsSum(f, S, n, g)
<1> DEFINE T == {k \in Nat : ~ \E g : IsSum(f, S, k, g)}
<1>1. SUFFICES ASSUME T # {} PROVE FALSE
  OBVIOUS
<1>2. PICK m \in T : \A k \in T : m <= k
  BY <1>1, Least
<1>3. CASE m = 0
  <2>1. Small(S, 0) = {{}}
    <3>1. {} \in SUBSET S
      OBVIOUS
    <3>2. Cardinality({}) = 0
      BY FS_EmptySet
    <3>3. ASSUME NEW s \in Small(S, 0) PROVE s = {}
      <4>1. s \in SUBSET S /\ Cardinality(s) <= 0
        BY DEF Small
      <4> QED
        BY <4>1, Smaller
    <3>4. {} \in Small(S, 0)
      BY <3>1, <3>2 DEF Small
    <3> QED
      BY <3>3, <3>4
  <2>2. PICK g : g = [s \in Small(S, 0) |-> 0]
    OBVIOUS
  <2>3. IsSum(f, S, 0, g)
    BY <2>1, <2>2 DEF IsSum
  <2> QED
    BY <1>3, <2>3
<1>4. CASE m # 0
  <2>1. m - 1 \in Nat /\ ~ (m <= m - 1)
    BY <1>4
  <2>2. PICK f1 : IsSum(f, S, m - 1, f1)
    BY <1>2, <2>1
  <2>3. PICK g : g = [s \in Small(S, m) |-> IF s \in Small(S, m - 1) THEN f1[s]
                                            ELSE f[Picked(s)] + f1[s \ {Picked(s)}]]
    OBVIOUS
  <2>4. DOMAIN g = Small(S, m) /\ g = [s \in Small(S, m) |-> g[s]]
    BY <2>3
  <2>5. ASSUME NEW s \in Small(S, m), s # {}
        PROVE  s \ {Picked(s)} \in Small(S, m - 1) /\ g[s \ {Picked(s)}] = f1[s \ {Picked(s)}]
    <3>1. s \in SUBSET S /\ Cardinality(s) <= m
      BY DEF Small
    <3>2. PICK r : r = s \ {Picked(s)}
      OBVIOUS
    <3>3. r \in SUBSET S /\ Cardinality(r) = Cardinality(s) - 1 /\ Cardinality(s) \in Nat /\ Cardinality(r) \in Nat
      <4>1. r \in SUBSET S /\ Cardinality(r) = Cardinality(s) - 1 /\ Cardinality(s) \in Nat
        BY <2>5, <3>1, <3>2, Smaller
      <4> QED
        BY <4>1, Smaller
    <3>4. r \in Small(S, m - 1) /\ r \in Small(S, m)
      BY <3>1, <3>3, <2>1 DEF Small
    <3> QED
      BY <3>2, <3>4, <2>3
  <2>6. ASSUME NEW s \in Small(S, m)
        PROVE  g[s] = IF s = {} THEN 0 ELSE f[Picked(s)] + g[s \ {Picked(s)}]
    <3>1. CASE s \in Small(S, m - 1)
      <4>1. g[s] = f1[s]
        BY <2>3, <3>1
      <4>2. f1[s] = IF s = {} THEN 0 ELSE f[Picked(s)] + f1[s \ {Picked(s)}]
        BY <2>2, <3>1 DEF IsSum
      <4> QED
        BY <4>1, <4>2, <2>5
    <3>2. CASE s \notin Small(S, m - 1)
      <4>1. s # {}
        <5>1. {} \in SUBSET S /\ Cardinality({}) = 0
          BY FS_EmptySet
        <5> QED
          BY <5>1, <3>2, <2>1 DEF Small
      <4>2. g[s] = f[Picked(s)] + f1[s \ {Picked(s)}]
        BY <2>3, <3>2
      <4> QED
        BY <4>1, <4>2, <2>5
    <3> QED
      BY <3>1, <3>2
  <2>7. IsSum(f, S, m, g)
    BY <2>4, <2>6 DEF IsSum
  <2> QED
    BY <2>7
<1> QED
  BY <1>3, <1>4

LEMMA SumIs ==
  ASSUME NEW f, NEW S, IsFiniteSet(S)
  PROVE  \E g : IsSum(f, S, Cardinality(S), g) /\ SumOf(f, S) = g[S]
<1> DEFINE Sums(g) == [s \in SUBSET S |-> IF s = {} THEN 0
                                          ELSE LET x == CHOOSE x \in s : TRUE IN f[x] + g[s \ {x}]]
<1> DEFINE sum == CHOOSE g : g = Sums(g)
<1>1. SumOf(f, S) = sum[S]
  BY DEF SumOf, MapThenSumSet, MapThenFoldSet
<1>2. Cardinality(S) \in Nat
  BY FS_CardinalityType
<1>3. PICK k : k = Cardinality(S)
  OBVIOUS
<1>4. PICK g : IsSum(f, S, k, g)
  BY <1>2, <1>3, SumExists
<1>5. Small(S, k) = SUBSET S
  <2>1. ASSUME NEW s \in SUBSET S PROVE s \in Small(S, k)
    BY <1>3, Smaller DEF Small
  <2> QED
    BY <2>1 DEF Small
<1>6. g = Sums(g)
  BY <1>4, <1>5 DEF IsSum, Picked
<1>7. sum = Sums(sum)
  BY <1>6
<1>8. PICK h : h = sum
  OBVIOUS
<1>9. h = Sums(h) /\ SumOf(f, S) = h[S]
  BY ZenonT(40), <1>1, <1>7, <1>8
<1>10. IsSum(f, S, k, h)
  BY <1>5, <1>9 DEF IsSum, Picked
<1> HIDE DEF sum, Sums
<1> QED
  BY <1>3, <1>9, <1>10

(* Any element may be taken first.                                         *)
LEMMA SumTakes ==
  ASSUME NEW f, NEW S, IsFiniteSet(S), \A x \in S : f[x] \in Nat, NEW g, IsSum(f, S, Cardinality(S), g),
         NEW t \in SUBSET S
  PROVE  g[t] \in Nat /\ (t = {} => g[t] = 0) /\ \A x \in t : g[t] = f[x] + g[t \ {x}]
<1> DEFINE Good(s) == g[s] \in Nat /\ (s = {} => g[s] = 0) /\ \A x \in s : g[s] = f[x] + g[s \ {x}]
<1> DEFINE T == {k \in Nat : \E s \in SUBSET S : Cardinality(s) = k /\ ~ Good(s)}
<1>1. SUFFICES ASSUME T # {} PROVE FALSE
  <2>1. Cardinality(t) \in Nat
    BY Smaller
  <2> QED
    BY <2>1
<1>2. PICK m \in T : \A k \in T : m <= k
  BY <1>1, Least
<1>3. PICK s \in SUBSET S : Cardinality(s) = m /\ ~ Good(s)
  OBVIOUS
<1>4. ASSUME NEW r \in SUBSET S, Cardinality(r) = m - 1, m # 0 PROVE Good(r)
  <2>1. m - 1 \in Nat /\ ~ (m <= m - 1)
    BY <1>4
  <2>2. m - 1 \notin T
    BY <1>2, <2>1
  <2> QED
    BY <1>4, <2>1, <2>2
<1>5. g[s] = IF s = {} THEN 0 ELSE f[Picked(s)] + g[s \ {Picked(s)}]
  <2>1. s \in Small(S, Cardinality(S))
    BY Smaller DEF Small
  <2> QED
    BY <2>1 DEF IsSum
<1>6. s # {}
  BY <1>3, <1>5
<1>7. m # 0
  BY <1>3, <1>6, Smaller
<1>8. PICK y \in s : y = Picked(s)
  BY <1>6 DEF Picked
<1>9. PICK sy : sy = s \ {y}
  OBVIOUS
<1>10. sy \in SUBSET S /\ Cardinality(sy) = m - 1
  BY <1>3, <1>9, Smaller
<1>11. Good(sy)
  BY <1>4, <1>7, <1>10
<1>12. g[s] = f[y] + g[sy] /\ f[y] \in Nat /\ g[sy] \in Nat
  BY <1>5, <1>6, <1>8, <1>9, <1>11
<1>13. ASSUME NEW x \in s PROVE g[s] = f[x] + g[s \ {x}]
  <2>1. CASE x = y
    BY <2>1, <1>9, <1>12
  <2>2. CASE x # y
    <3>1. PICK sx, r : sx = s \ {x} /\ r = (s \ {x}) \ {y}
      OBVIOUS
    <3>2. sx \in SUBSET S /\ Cardinality(sx) = m - 1
      BY <1>3, <3>1, Smaller
    <3>3. Good(sx)
      BY <1>4, <1>7, <3>2
    <3>4. y \in sx /\ x \in sy /\ sx \ {y} = r /\ sy \ {x} = r /\ r \in SUBSET S
      BY <2>2, <3>1, <1>9
    <3>5. g[sx] = f[y] + g[r]
      BY <3>3, <3>4
    <3>6. g[sy] = f[x] + g[r]
      BY <1>11, <3>4
    <3>7. g[r] \in Nat
      <4>1. Cardinality(sx) \in Nat /\ Cardinality(r) = Cardinality(sx) - 1
        BY <3>2, <3>4, Smaller
      <4>2. Cardinality(r) \in Nat /\ m - 2 = Cardinality(r)
        BY <3>2, <3>4, <4>1, Smaller
      <4>3. Cardinality(r) \notin T
        BY <1>2, <4>2
      <4> QED
        BY <3>4, <4>2, <4>3
    <3>8. f[x] \in Nat /\ f[y] \in Nat
      OBVIOUS
    <3>9. g[s] = f[x] + g[sx]
      BY <1>12, <3>5, <3>6, <3>7, <3>8
    <3> QED
      BY <3>1, <3>9
  <2> QED
    BY <2>1, <2>2
<1>14. g[s] \in Nat
  BY <1>12
<1> QED
  BY <1>3, <1>6, <1>13, <1>14

(* One element more.                                                       *)
LEMMA SumMore ==
  ASSUME NEW f, NEW h, NEW S, IsFiniteSet(S), NEW m, m \notin S,
         \A x \in S : f[x] \in Nat /\ h[x] = f[x], h[m] \in Nat
  PROVE  SumOf(f, S) \in Nat /\ SumOf(h, S \cup {m}) = SumOf(f, S) + h[m]
<1>1. PICK U : U = S \cup {m}
  OBVIOUS
<1>2. IsFiniteSet(U) /\ m \in U /\ U \ {m} = S /\ S \in SUBSET U /\ U \in SUBSET U /\ S \in SUBSET S
  BY <1>1, FS_AddElement
<1>3. \A x \in U : h[x] \in Nat
  BY <1>1
<1>4. PICK a : IsSum(f, S, Cardinality(S), a) /\ SumOf(f, S) = a[S]
  BY SumIs
<1>5. PICK b : IsSum(h, U, Cardinality(U), b) /\ SumOf(h, U) = b[U]
  BY <1>2, SumIs
<1>6. ASSUME NEW s \in SUBSET S PROVE /\ a[s] \in Nat /\ (s = {} => a[s] = 0) /\ \A x \in s : a[s] = f[x] + a[s \ {x}]
  BY <1>4, SumTakes
<1>7. ASSUME NEW s \in SUBSET U PROVE /\ b[s] \in Nat /\ (s = {} => b[s] = 0) /\ \A x \in s : b[s] = h[x] + b[s \ {x}]
  BY <1>2, <1>3, <1>5, SumTakes
<1>8. a[S] = b[S]
  <2> DEFINE T == {k \in Nat : \E s \in SUBSET S : Cardinality(s) = k /\ a[s] # b[s]}
  <2>1. SUFFICES ASSUME T # {} PROVE FALSE
    <3>1. Cardinality(S) \in Nat
      BY FS_CardinalityType
    <3> QED
      BY <1>2, <3>1
  <2>2. PICK k \in T : \A l \in T : k <= l
    BY <2>1, Least
  <2>3. PICK s \in SUBSET S : Cardinality(s) = k /\ a[s] # b[s]
    OBVIOUS
  <2>4. s \in SUBSET U
    BY <1>1, <2>3
  <2>5. s # {}
    BY <1>6, <1>7, <2>3, <2>4
  <2>6. PICK x \in s : TRUE
    BY <2>5
  <2>7. PICK r : r = s \ {x}
    OBVIOUS
  <2>8. r \in SUBSET S /\ Cardinality(r) = k - 1 /\ Cardinality(r) \in Nat
    <3>1. r \in SUBSET S /\ Cardinality(r) = k - 1
      BY <2>3, <2>6, <2>7, Smaller
    <3> QED
      BY <3>1, Smaller
  <2>9. k - 1 \notin T
    BY <2>2, <2>8
  <2>10. a[r] = b[r]
    BY <2>8, <2>9
  <2>11. a[s] = f[x] + a[r] /\ b[s] = h[x] + b[r] /\ h[x] = f[x]
    BY <1>6, <1>7, <2>3, <2>4, <2>6, <2>7
  <2> QED
    BY <2>3, <2>10, <2>11
<1>9. b[U] = h[m] + b[S] /\ b[S] \in Nat /\ a[S] \in Nat
  BY <1>2, <1>6, <1>7
<1> QED
  BY <1>1, <1>4, <1>5, <1>8, <1>9

LEMMA SumOne ==
  ASSUME NEW h, NEW m, h[m] \in Nat
  PROVE  SumOf(h, {m}) = h[m]
<1>1. IsFiniteSet({}) /\ m \notin {} /\ (\A x \in {} : h[x] \in Nat /\ h[x] = h[x]) /\ {} \cup {m} = {m}
  BY FS_EmptySet
<1>2. SumOf(h, {}) \in Nat /\ SumOf(h, {} \cup {m}) = SumOf(h, {}) + h[m]
  BY ONLY <1>1, SumMore, h[m] \in Nat
<1>3. SumOf(h, {}) = 0
  <2>1. PICK g : IsSum(h, {}, Cardinality({}), g) /\ SumOf(h, {}) = g[{}]
    BY <1>1, SumIs
  <2>2. {} \in SUBSET {} /\ \A x \in {} : h[x] \in Nat
    OBVIOUS
  <2> QED
    BY <1>1, <2>1, <2>2, SumTakes
<1> QED
  BY <1>1, <1>2, <1>3

-----------------------------------------------------------------------------
(* The work of the slices.  The slices of a phase have had e words of      *)
(* credit: what the program allocated for them is at most that part of the *)
(* free memory, and what is left of the phase is less by their work.       *)

MarkCredit(e, h, p, l, c) ==
  /\ 3 * c <= 2 * (p * e) /\ 100 * e <= h
  /\ l + (100 - p) * e <= (h * (100 - p)) \div 100

SweepCredit(e, h, p, l, c) ==
  3 * c <= 2 * (p * e) /\ l + 100 * e <= h

(* Rounding loses less than one unit of effort.                            *)
LEMMA EffortIs ==
  ASSUME allocated_words \in Nat, extra_heap_memory \in Nat, NEW p \in 1 .. 100
  PROVE  Effort(p) \in Nat /\ 3 * allocated_words <= 2 * (p * (Effort(p) + 1))
<1>1. PICK q, r : q = (allocated_words * 3) \div p /\ r = q \div 2
  OBVIOUS
<1>2. p \in Nat \ {0} /\ 2 \in Nat \ {0} /\ allocated_words * 3 \in Nat
  OBVIOUS
<1>3. q \in Nat /\ allocated_words * 3 < p * q + p
  BY <1>1, <1>2, DivIs
<1>4. r \in Nat /\ q < 2 * r + 2
  BY <1>1, <1>2, <1>3, DivIs
<1>5. Effort(p) = r + 100 * extra_heap_memory
  BY <1>1 DEF Effort
<1>6. PICK e \in Nat : e = Effort(p) /\ r <= e
  BY <1>4, <1>5
<1>7. q + 1 <= 2 * (e + 1) /\ q + 1 \in Nat /\ 2 * (e + 1) \in Nat
  BY <1>3, <1>4, <1>6
<1>8. p * (q + 1) <= p * (2 * (e + 1))
  BY <1>2, <1>7, Product
<1>9. p * (q + 1) = p * q + p /\ p * (2 * (e + 1)) = 2 * (p * (e + 1)) /\ p * q \in Nat /\ p * (e + 1) \in Nat
  BY <1>2, <1>3, <1>6
<1> QED
  BY <1>3, <1>6, <1>8, <1>9

LEMMA LiveIs ==
  ASSUME NEW h \in Nat, NEW k \in Nat, h <= k, NEW p \in 1 .. 100
  PROVE  /\ (h * (100 - p)) \div 100 \in Nat /\ 100 * ((h * (100 - p)) \div 100) <= h * (100 - p)
         /\ (h * (100 - p)) \div 100 <= (k * (100 - p)) \div 100
<1>1. PICK r \in Nat : r = 100 - p
  OBVIOUS
<1>2. h * r \in Nat /\ k * r \in Nat /\ h * r <= k * r
  <2>1. h * r = r * h /\ k * r = r * k
    BY <1>1
  <2> QED
    BY <2>1, <1>1, Product
<1>3. PICK i, j : i = (h * r) \div 100 /\ j = (k * r) \div 100
  OBVIOUS
<1>4. i \in Nat /\ 100 * i <= h * r /\ j \in Nat /\ k * r < 100 * j + 100
  BY <1>2, <1>3, DivIs
<1>5. i <= j
  BY <1>2, <1>4
<1> QED
  BY <1>1, <1>3, <1>4, <1>5

LEMMA MarkBegins ==
  ASSUME NEW h \in Nat, NEW p \in 1 .. 100, NEW l \in Nat, l <= (h * (100 - p)) \div 100
  PROVE  MarkCredit(0, h, p, l, 0)
<1>1. p * 0 = 0 /\ (100 - p) * 0 = 0 /\ l + 0 = l
  OBVIOUS
<1> QED
  BY <1>1, LiveIs DEF MarkCredit

LEMMA MarkGrows ==
  ASSUME NEW h \in Nat, NEW k \in Nat, h <= k, NEW p \in 1 .. 100, NEW l \in Nat, NEW c \in Nat,
         NEW e \in Nat, MarkCredit(e, h, p, l, c)
  PROVE  MarkCredit(e, k, p, l, c)
<1>1. PICK i, j : i = (h * (100 - p)) \div 100 /\ j = (k * (100 - p)) \div 100
  OBVIOUS
<1>2. i \in Nat /\ j \in Nat /\ i <= j
  <2>1. k <= k
    OBVIOUS
  <2> QED
    BY <1>1, <2>1, LiveIs
<1>3. PICK x : x = (100 - p) * e /\ x \in Nat
  OBVIOUS
<1> QED
  BY <1>1, <1>2, <1>3 DEF MarkCredit

(* A slice that leaves something to be marked.                             *)
LEMMA MarkPart ==
  ASSUME NEW h \in Nat, NEW p \in 1 .. 100, NEW l \in Nat, NEW c \in Nat, NEW e \in Nat,
         MarkCredit(e, h, p, l, c),
         NEW a \in Nat, NEW u \in Nat, 3 * a <= 2 * (p * (u + 1)),
         NEW w, w = 2 * (100 - p) * u + 100, w <= l
  PROVE  l - w \in Nat /\ MarkCredit(e + u + 1, h, p, l - w, c + a)
<1>1. PICK r \in Nat : r = 100 - p
  OBVIOUS
<1>2. PICK live \in Nat : live = (h * r) \div 100 /\ 100 * live <= h * r
  BY <1>1, LiveIs
<1>3. PICK x, y : x = r * e /\ y = r * u /\ x \in Nat /\ y \in Nat
  BY <1>1
<1>4. w = 2 * y + 100
  BY <1>1, <1>3
<1>5. l + x <= live
  BY <1>1, <1>2, <1>3 DEF MarkCredit
<1>6. r * (e + u + 1) = x + y + r /\ r <= 100
  BY <1>1, <1>3
<1>7. l - w \in Nat /\ (l - w) + r * (e + u + 1) <= live
  BY <1>3, <1>4, <1>5, <1>6, <1>1
<1>8. r # 0
  <2>1. ASSUME r = 0 PROVE FALSE
    <3>1. h * r = 0 /\ live = 0
      BY <2>1, <1>2
    <3> QED
      BY <3>1, <1>3, <1>4, <1>5
  <2> QED
    BY <2>1
<1>9. 100 * (e + u + 1) <= h
  <2>1. PICK n \in Nat : n = 100 * (e + u + 1)
    OBVIOUS
  <2>2. r * n <= r * h
    <3>1. r * n = 100 * (r * (e + u + 1)) /\ r * h = h * r /\ r * (e + u + 1) \in Nat
      BY <1>1, <2>1
    <3>2. r * (e + u + 1) <= live
      BY <1>7, <3>1, <1>2
    <3> QED
      BY <3>1, <3>2, <1>2
  <2>3. n <= h
    BY <2>2, <1>8, Cancel
  <2> QED
    BY <2>1, <2>3
<1>10. 3 * (c + a) <= 2 * (p * (e + u + 1))
  <2>1. PICK s, t : s = p * e /\ t = p * (u + 1) /\ s \in Nat /\ t \in Nat
    OBVIOUS
  <2>2. p * (e + u + 1) = s + t
    BY <2>1
  <2>3. 3 * c <= 2 * s /\ 3 * a <= 2 * t
    BY <2>1 DEF MarkCredit
  <2> QED
    BY <2>2, <2>3, <2>1
<1> QED
  BY <1>1, <1>2, <1>7, <1>9, <1>10 DEF MarkCredit

(* A slice that leaves something to be swept.                              *)
LEMMA SweepPart ==
  ASSUME NEW h \in Nat, NEW p \in 1 .. 100, NEW l \in Nat, NEW c \in Nat, NEW e \in Nat,
         SweepCredit(e, h, p, l, c),
         NEW a \in Nat, NEW u \in Nat, 3 * a <= 2 * (p * (u + 1)),
         NEW w, w = 200 * u + 100, w <= l
  PROVE  l - w \in Nat /\ SweepCredit(e + u + 1, h, p, l - w, c + a)
<1>1. PICK s, t : s = p * e /\ t = p * (u + 1) /\ s \in Nat /\ t \in Nat
  OBVIOUS
<1>2. p * (e + u + 1) = s + t
  BY <1>1
<1>3. 3 * c <= 2 * s /\ 3 * a <= 2 * t /\ l + 100 * e <= h
  BY <1>1 DEF SweepCredit
<1>4. 3 * (c + a) <= 2 * (p * (e + u + 1))
  BY <1>1, <1>2, <1>3
<1>5. l - w \in Nat /\ (l - w) + 100 * (e + u + 1) <= h
  BY <1>3
<1> QED
  BY <1>4, <1>5 DEF SweepCredit

LEMMA CreditBounds ==
  ASSUME NEW h \in Nat, NEW p \in 1 .. 100, NEW c \in Nat, NEW e \in Nat,
         3 * c <= 2 * (p * e), 100 * e <= h
  PROVE  300 * c <= 2 * h * p
<1>1. p * (100 * e) <= p * h
  BY Product
<1>2. PICK x, y : x = p * e /\ y = p * h /\ x \in Nat /\ y \in Nat
  OBVIOUS
<1>3. p * (100 * e) = 100 * x /\ 2 * h * p = 2 * y
  BY <1>2
<1> QED
  BY <1>1, <1>2, <1>3

-----------------------------------------------------------------------------
(* The settings, the counters of a phase and the size of the heap, in      *)
(* which each phase keeps its pace.                                        *)

SettingsInv ==
  /\ percent_free \in 1 .. 100 /\ minor_heap_size \in Nat
  /\ major_heap_increment \in Nat /\ Multiple(major_heap_increment, Page_size)
  /\ major_heap_increment >= Page_size

WorkInv ==
  /\ allocated_words \in Nat /\ extra_heap_memory \in Nat
  /\ gc_phase \in {"mark", "weak", "sweep"}
  /\ left \in Nat /\ consumed \in Nat /\ steady \in BOOLEAN

HeapSize == stat_heap_size \in Nat /\ Multiple(stat_heap_size, WordSize)

InPace(phase, h, p, l, c) ==
  /\ phase = "mark" => \E e \in Nat : MarkCredit(e, h, p, l, c)
  /\ phase = "weak" => c = 0
  /\ phase = "sweep" => \E e \in Nat : SweepCredit(e, h, p, l, c)

Words == Wsize_bsize(stat_heap_size)

PaceInv ==
  /\ SettingsInv /\ WorkInv /\ HeapSize
  /\ steady => InPace(gc_phase, Words, percent_free, left, consumed)

LEMMA WordsAre ==
  ASSUME PolicyOK, HeapSize
  PROVE  Words \in Nat /\ WordSize \in Nat \ {0}
BY DivIs DEF PolicyOK, HeapSize, Words, Wsize_bsize

(* What the increment of the heap is made.                                 *)
LEMMA NormIncr ==
  ASSUME PolicyOK, NEW i \in Nat \ {0}
  PROVE  /\ norm_heapincr(i) \in Nat /\ Multiple(norm_heapincr(i), Page_size)
         /\ norm_heapincr(i) >= Page_size
<1>1. /\ Page_size \in Nat \ {0} /\ WordSize \in Nat \ {0} /\ WordSize >= 2
      /\ Heap_chunk_max \in Nat /\ Heap_chunk_max > 0 /\ Multiple(Heap_chunk_max, Page_size)
  BY DEF PolicyOK
<1>2. PICK r \in Nat : r = RoundUp(i, Page_size) /\ Multiple(r, Page_size) /\ Page_size <= r
  BY <1>1, RoundUpIs
<1>3. PICK m \in Nat : m = Heap_chunk_min /\ m <= Page_size
  <2>1. PICK m : m = Heap_chunk_min
    OBVIOUS
  <2>2. 2 * Page_size \in Nat /\ m = (2 * Page_size) \div WordSize
    BY <1>1, <2>1 DEF Heap_chunk_min
  <2>3. m \in Nat /\ WordSize * m <= 2 * Page_size
    BY <1>1, <2>2, DivIs
  <2>4. m * 2 <= m * WordSize
    BY <1>1, <2>3, Product
  <2>5. m * WordSize = WordSize * m /\ WordSize * m \in Nat
    BY <1>1, <2>3
  <2> QED
    BY <1>1, <2>1, <2>3, <2>4, <2>5
<1>4. Max({r, m}) = r
  BY <1>1, <1>2, <1>3, MaxIs
<1>5. Page_size <= Heap_chunk_max
  <2>1. PICK k \in Nat : Heap_chunk_max = Page_size * k
    BY <1>1 DEF Multiple
  <2>2. k # 0
    BY <1>1, <2>1
  <2>3. Page_size * 1 <= Page_size * k
    BY <1>1, <2>2, Product
  <2> QED
    BY <1>1, <2>1, <2>3
<1>6. norm_heapincr(i) = Min({r, Heap_chunk_max})
  BY <1>2, <1>3, <1>4 DEF norm_heapincr
<1>7. Min({r, Heap_chunk_max}) = IF r <= Heap_chunk_max THEN r ELSE Heap_chunk_max
  BY <1>1, <1>2, MinIs
<1> QED
  BY <1>1, <1>2, <1>5, <1>6, <1>7

LEMMA NormOthers ==
  ASSUME PolicyOK, NEW n \in Nat
  PROVE  norm_minsize(n) \in Nat /\ (n \in 1 .. 100 => norm_pfree(n) = n)
<1>1. Minor_heap_min \in Nat /\ Minor_heap_max \in Nat
  BY DEF PolicyOK
<1>2. Max({n, Minor_heap_min}) \in Nat
  BY <1>1, MaxIs
<1>3. norm_minsize(n) \in Nat
  BY <1>1, <1>2, MinIs DEF norm_minsize
<1>4. n \in 1 .. 100 => norm_pfree(n) = n
  BY MaxIs DEF norm_pfree
<1> QED
  BY <1>3, <1>4

(* What gc_set is given: the wishes, or what gc_get has given.             *)
LEMMA WishIs ==
  ASSUME PolicyOK, SettingsInv, NEW v \in Wishes \cup {gc_get}
  PROVE  v.incr \in Nat \ {0} /\ v.minor \in Nat /\ v.percent \in 1 .. 100
<1>1. CASE v \in Wishes
  BY <1>1 DEF Wishes, PolicyOK
<1>2. CASE v = gc_get
  <2>1. /\ v.incr = Long_val(Wsize_bsize(Val_long(major_heap_increment)))
        /\ v.minor = Long_val(Wsize_bsize(Val_long(minor_heap_size)))
        /\ v.percent = percent_free
    BY <1>2 DEF gc_get
  <2>2. WordSize \in Nat \ {0} /\ 2 \in Nat \ {0} /\ Page_size \in Nat \ {0}
    BY DEF PolicyOK
  <2>3. PICK m \in Nat : m = minor_heap_size
    BY DEF SettingsInv
  <2>4. v.minor = ((2 * m + 1) \div WordSize) \div 2 /\ 2 * m + 1 \in Nat
    BY <2>1, <2>3 DEF Long_val, Wsize_bsize, Val_long
  <2>5. v.minor \in Nat
    BY <2>2, <2>4, DivIs
  <2>6. PICK i \in Nat : i = major_heap_increment /\ i >= Page_size /\ 2 * i + 1 \in Nat
    BY DEF SettingsInv
  <2>7. PICK q : q = (2 * i + 1) \div WordSize
    OBVIOUS
  <2>8. v.incr = q \div 2
    BY <2>1, <2>6, <2>7 DEF Long_val, Wsize_bsize, Val_long
  <2>9. q \in Nat /\ 2 * i + 1 < WordSize * q + WordSize
    BY <2>2, <2>6, <2>7, DivIs
  <2>10. WordSize <= Page_size
    <3>1. PICK k \in Nat : Page_size = WordSize * k
      BY DEF PolicyOK, Multiple
    <3>2. k # 0
      BY <2>2, <3>1
    <3>3. WordSize * 1 <= WordSize * k
      BY <2>2, <3>2, Product
    <3> QED
      BY <2>2, <3>1, <3>3
  <2>11. q >= 2
    <3>1. ASSUME q <= 1 PROVE FALSE
      <4>1. WordSize * q <= WordSize * 1
        BY <2>2, <2>9, <3>1, Product
      <4> QED
        BY <4>1, <2>2, <2>6, <2>9, <2>10
    <3> QED
      BY <2>9, <3>1
  <2>12. v.incr \in Nat \ {0}
    BY <2>8, <2>9, <2>11
  <2> QED
    BY <2>1, <2>5, <2>12 DEF SettingsInv
<1> QED
  BY <1>1, <1>2

(* The size of a chunk.                                                    *)
LEMMA ChunkSizeIs ==
  ASSUME PolicyOK, SettingsInv, NEW request \in Nat, NEW size, size = round_heap_chunk_size(request),
         size # NoRoom
  PROVE  /\ size \in Nat /\ Multiple(size, Page_size) /\ size >= Page_size
         /\ Multiple(size, WordSize)
<1>1. /\ Page_size \in Nat \ {0} /\ WordSize \in Nat \ {0} /\ Multiple(Page_size, WordSize)
      /\ major_heap_increment \in Nat /\ major_heap_increment >= Page_size
  BY DEF PolicyOK, SettingsInv
<1>2. size \in Nat /\ Multiple(size, Page_size) /\ size >= Page_size
  <2>1. CASE request < major_heap_increment
    <3>1. size = major_heap_increment
      BY <2>1 DEF round_heap_chunk_size
    <3> QED
      BY <3>1 DEF SettingsInv
  <2>2. CASE ~ (request < major_heap_increment)
    <3>1. size = RoundUp(request, Page_size)
      BY <2>2 DEF round_heap_chunk_size
    <3>2. request > 0
      BY <1>1, <2>2
    <3> QED
      BY <1>1, <3>1, <3>2, RoundUpIs
  <2> QED
    BY <2>1, <2>2
<1> QED
  BY <1>1, <1>2, MultipleOf

LEMMA RequestIs ==
  ASSUME PolicyOK, NEW w \in Wosizes
  PROVE  w \in Nat /\ Bhsize_wosize(w) \in Nat
BY DEF PolicyOK, Bhsize_wosize, Bsize_wsize

(* Every operation keeps the settings in their ranges.                     *)
LEMMA SettingsKept ==
  ASSUME PolicyOK, SettingsInv, NEW v \in Wishes \cup {gc_get}, gc_set(v)
  PROVE  SettingsInv' /\ percent_free' = v.percent
<1>1. v.incr \in Nat \ {0} /\ v.minor \in Nat /\ v.percent \in 1 .. 100
  BY WishIs
<1>2. WordSize \in Nat \ {0}
  BY DEF PolicyOK
<1>3. percent_free' = v.percent
  <2>1. PICK n \in 1 .. 100 : n = v.percent
    BY <1>1
  <2>2. percent_free' = norm_pfree(n)
    BY <2>1 DEF gc_set
  <2>3. n \in Nat
    OBVIOUS
  <2> QED
    BY <2>1, <2>2, <2>3, NormOthers
<1>4. PICK i, m : i = Bsize_wsize(v.incr) /\ m = Bsize_wsize(v.minor)
  OBVIOUS
<1>5. i \in Nat \ {0} /\ m \in Nat
  <2>1. i = v.incr * WordSize /\ m = v.minor * WordSize
    BY <1>4 DEF Bsize_wsize
  <2> QED
    BY <1>1, <1>2, <2>1
<1>6. major_heap_increment' = norm_heapincr(i) \/ major_heap_increment' = major_heap_increment
  BY <1>4 DEF gc_set
<1>7. /\ major_heap_increment' \in Nat /\ Multiple(major_heap_increment', Page_size)
      /\ major_heap_increment' >= Page_size
  BY <1>5, <1>6, NormIncr DEF SettingsInv
<1>8. minor_heap_size' \in {norm_minsize(m), minor_heap_size}
  BY <1>4 DEF gc_set, set_minor_heap_size
<1>9. minor_heap_size' \in Nat
  BY <1>5, <1>8, NormOthers DEF SettingsInv
<1> QED
  BY <1>1, <1>3, <1>7, <1>9 DEF SettingsInv

-----------------------------------------------------------------------------
(* The pace, one lemma for each operation.                                 *)

LEMMA PaceInit ==
  ASSUME PolicyOK, Init
  PROVE  PaceInv
<1>1. PICK v \in Wishes : init_gc(v)
  BY DEF Init
<1>2. v.incr \in Nat \ {0} /\ v.minor \in Nat /\ v.percent \in 1 .. 100
  BY DEF Wishes, PolicyOK
<1>3. WordSize \in Nat \ {0} /\ Page_size \in Nat \ {0}
  BY DEF PolicyOK
<1>4. PICK i \in Nat : i = norm_heapincr(v.incr) /\ Multiple(i, Page_size) /\ i >= Page_size
  BY <1>2, NormIncr
<1>5. SettingsInv
  <2>1. percent_free = v.percent
    <3>1. PICK n \in 1 .. 100 : n = v.percent
      BY <1>2
    <3>2. percent_free = norm_pfree(n) /\ n \in Nat
      BY <1>1, <3>1 DEF init_gc
    <3> QED
      BY <3>1, <3>2, NormOthers
  <2>2. minor_heap_size = norm_minsize(v.minor) * WordSize
    BY <1>1 DEF init_gc, Bsize_wsize
  <2>3. minor_heap_size \in Nat
    BY <1>2, <1>3, <2>2, NormOthers
  <2>4. major_heap_increment = i * WordSize
    BY <1>1, <1>4 DEF init_gc, Bsize_wsize
  <2>5. PICK k \in Nat : i = Page_size * k
    BY <1>4 DEF Multiple
  <2>6. major_heap_increment = Page_size * (k * WordSize) /\ k * WordSize \in Nat
    BY <1>3, <2>4, <2>5
  <2>7. i * 1 <= i * WordSize /\ i * WordSize \in Nat
    BY <1>3, Product
  <2>8. major_heap_increment \in Nat /\ major_heap_increment >= Page_size
    BY <1>3, <1>4, <2>4, <2>7
  <2> QED
    BY <1>2, <2>1, <2>3, <2>6, <2>8 DEF SettingsInv, Multiple
<1>6. PICK size : size = round_heap_chunk_size(major_heap_increment)
  OBVIOUS
<1>7. /\ size # NoRoom /\ stat_heap_size = size
      /\ gc_phase = "mark" /\ left = 0 /\ allocated_words = 0 /\ extra_heap_memory = 0
      /\ consumed = 0 /\ steady = TRUE
  BY <1>6 DEF Init, init_major_heap
<1>8. HeapSize
  BY <1>5, <1>6, <1>7, ChunkSizeIs DEF HeapSize, SettingsInv
<1>9. Words \in Nat /\ percent_free \in 1 .. 100
  BY <1>5, <1>8, WordsAre DEF SettingsInv
<1>10. MarkCredit(0, Words, percent_free, 0, 0)
  <2>1. PICK h, p : h = Words /\ p = percent_free
    OBVIOUS
  <2>2. h \in Nat /\ p \in 1 .. 100 /\ h <= h
    BY <1>9, <2>1
  <2>3. (h * (100 - p)) \div 100 \in Nat
    BY <2>2, LiveIs
  <2>4. 0 \in Nat /\ 0 <= (h * (100 - p)) \div 100
    BY <2>3
  <2>5. MarkCredit(0, h, p, 0, 0)
    BY <2>2, <2>4, MarkBegins
  <2> QED
    BY <2>1, <2>5
<1>11. InPace(gc_phase, Words, percent_free, left, consumed)
  BY <1>7, <1>10 DEF InPace
<1> QED
  BY <1>5, <1>7, <1>8, <1>11 DEF PaceInv, WorkInv

(* Words of the heap that grows.                                           *)
LEMMA MoreWords ==
  ASSUME PolicyOK, HeapSize, NEW size \in Nat, Multiple(size, WordSize),
         stat_heap_size' = stat_heap_size + size
  PROVE  HeapSize' /\ Words' = Words + Wsize_bsize(size) /\ Wsize_bsize(size) \in Nat
<1>1. WordSize \in Nat \ {0} /\ stat_heap_size \in Nat /\ Multiple(stat_heap_size, WordSize)
  BY DEF PolicyOK, HeapSize
<1>2. /\ Multiple(stat_heap_size + size, WordSize)
      /\ (stat_heap_size + size) \div WordSize = (stat_heap_size \div WordSize) + (size \div WordSize)
  BY <1>1, MultipleSum
<1>3. stat_heap_size + size \in Nat /\ size \div WordSize \in Nat
  BY <1>1, DivIs
<1> QED
  BY <1>2, <1>3 DEF HeapSize, Words, Wsize_bsize

(* A block is allocated, from a chunk that is added or from the free list. *)
LEMMA AllocPace ==
  ASSUME PolicyOK, PaceInv, NEW w \in Wosizes, AllocFound(w) \/ AllocGrows(w)
  PROVE  PaceInv'
<1>1. w \in Nat /\ CountBlock(w)
  BY RequestIs DEF AllocFound, AllocGrows
<1>2. UNCHANGED <<settings, extra_heap_memory, gc_phase, consumed, steady>>
      /\ allocated_words' = allocated_words + w + 1
  BY <1>1 DEF CountBlock
<1>3. SettingsInv'
  BY <1>2 DEF SettingsInv, settings, PaceInv
<1>4. ASSUME left' \in Nat, HeapSize', steady => InPace(gc_phase, Words', percent_free, left', consumed)
      PROVE  PaceInv'
  <2>1. WorkInv'
    BY <1>1, <1>2, <1>4 DEF PaceInv, WorkInv
  <2> QED
    BY <1>2, <1>3, <1>4, <2>1 DEF PaceInv, settings
<1>5. CASE AllocFound(w)
  <2>1. stat_heap_size' = stat_heap_size /\ left' = left
    BY <1>5 DEF AllocFound, heapVars
  <2>2. HeapSize' /\ Words' = Words
    BY <2>1 DEF PaceInv, HeapSize, Words, Wsize_bsize
  <2> QED
    BY <2>1, <2>2, <1>4 DEF PaceInv, WorkInv
<1>6. CASE AllocGrows(w)
  <2>1. PICK size : size = round_heap_chunk_size(Bhsize_wosize(w))
    OBVIOUS
  <2>2. /\ size # NoRoom /\ stat_heap_size' = stat_heap_size + size
        /\ left' = IF gc_phase = "sweep" THEN left + Wsize_bsize(size) ELSE left
    BY <1>6, <2>1 DEF AllocGrows, expand_heap
  <2>3. size \in Nat /\ Multiple(size, WordSize)
    BY <2>1, <2>2, RequestIs, ChunkSizeIs DEF PaceInv
  <2>4. HeapSize' /\ Words' = Words + Wsize_bsize(size) /\ Wsize_bsize(size) \in Nat
    BY <2>2, <2>3, MoreWords DEF PaceInv
  <2>5. PICK h, k, g : h = Words /\ k = Words' /\ g = Wsize_bsize(size)
    OBVIOUS
  <2>6. h \in Nat /\ g \in Nat /\ k = h + g /\ k \in Nat /\ h <= k
    <3>1. Words \in Nat
      BY WordsAre DEF PaceInv
    <3> QED
      BY <3>1, <2>4, <2>5
  <2>7. PICK p, l, c : p = percent_free /\ l = left /\ c = consumed
    OBVIOUS
  <2>8. p \in 1 .. 100 /\ l \in Nat /\ c \in Nat
    BY <2>7 DEF PaceInv, SettingsInv, WorkInv
  <2>9. left' \in Nat
    BY <2>2, <2>5, <2>6, <2>7, <2>8
  <2>10. ASSUME steady PROVE InPace(gc_phase, k, p, left', c)
    <3>1. InPace(gc_phase, h, p, l, c)
      BY <2>10, <2>5, <2>7 DEF PaceInv
    <3>2. CASE gc_phase = "mark"
      <4>1. PICK e \in Nat : MarkCredit(e, h, p, l, c)
        BY <3>1, <3>2 DEF InPace
      <4>2. MarkCredit(e, k, p, l, c)
        BY <4>1, <2>6, <2>8, MarkGrows
      <4> QED
        BY <3>2, <4>2, <2>2, <2>7 DEF InPace
    <3>3. CASE gc_phase = "weak"
      BY <3>1, <3>3 DEF InPace
    <3>4. CASE gc_phase = "sweep"
      <4>1. PICK e \in Nat : SweepCredit(e, h, p, l, c)
        BY <3>1, <3>4 DEF InPace
      <4>2. left' = l + g
        BY <3>4, <2>2, <2>5, <2>7
      <4>3. SweepCredit(e, k, p, l + g, c)
        BY <4>1, <2>6, <2>8 DEF SweepCredit
      <4> QED
        BY <3>4, <4>2, <4>3 DEF InPace
    <3> QED
      BY <3>2, <3>3, <3>4 DEF PaceInv, WorkInv
  <2> QED
    BY <1>4, <2>4, <2>5, <2>7, <2>9, <2>10
<1> QED
  BY <1>5, <1>6

LEMMA SpeedPace ==
  ASSUME PolicyOK, PaceInv, NEW s \in Speeds, adjust_gc_speed(s[1], s[2])
  PROVE  PaceInv'
<1>1. s[1] \in Nat /\ s[2] \in Nat
  BY DEF PolicyOK
<1>2. PICK part : part = (s[1] * stat_heap_size) \div (IF s[2] = 0 THEN 1 ELSE s[2])
  OBVIOUS
<1>3. stat_heap_size \in Nat /\ extra_heap_memory \in Nat
  BY DEF PaceInv, HeapSize, WorkInv
<1>4. part \in Nat
  <2>1. PICK d \in Nat \ {0} : d = IF s[2] = 0 THEN 1 ELSE s[2]
    BY <1>1
  <2>2. s[1] * stat_heap_size \in Nat
    BY <1>1, <1>3
  <2> QED
    BY <1>2, <2>1, <2>2, DivIs
<1>5. Min({part, stat_heap_size}) \in Nat
  BY <1>3, <1>4, MinIs
<1>6. PICK x \in Nat, k \in Nat : x = extra_heap_memory + Min({part, stat_heap_size}) /\ k = stat_heap_size
  BY <1>3, <1>5
<1>7. Min({x, k}) \in Nat
  BY MinIs
<1>8. extra_heap_memory' \in Nat
  BY <1>2, <1>6, <1>7 DEF adjust_gc_speed
<1>9. UNCHANGED <<stat_heap_size, settings, allocated_words, gc_phase, left, consumed, steady>>
  BY DEF adjust_gc_speed, heapVars
<1> QED
  BY <1>8, <1>9 DEF PaceInv, SettingsInv, WorkInv, HeapSize, Words, Wsize_bsize, settings

(* The beginning of a cycle.                                               *)
LEMMA BegunPace ==
  ASSUME PolicyOK, PaceInv, SettingsInv', Begun(percent_free'),
         allocated_words' = 0, extra_heap_memory' = 0, stat_heap_size' = stat_heap_size
  PROVE  PaceInv'
<1>1. PICK h, p : h = Words /\ p = percent_free'
  OBVIOUS
<1>2. HeapSize' /\ Words' = h
  BY <1>1 DEF PaceInv, HeapSize, Words, Wsize_bsize
<1>3. h \in Nat /\ p \in 1 .. 100 /\ h <= h
  BY <1>1, WordsAre DEF PaceInv, SettingsInv
<1>4. PICK l : l = (h * (100 - p)) \div 100 /\ l \in Nat /\ l <= l
  <2>1. (h * (100 - p)) \div 100 \in Nat
    BY <1>3, LiveIs
  <2> QED
    BY <2>1
<1>5. gc_phase' = "mark" /\ left' = l /\ consumed' = 0 /\ steady' = TRUE
  BY <1>1, <1>4 DEF Begun, Live, Words
<1>6. MarkCredit(0, h, p, l, 0)
  BY <1>3, <1>4, MarkBegins
<1>7. InPace(gc_phase', h, p, left', consumed')
  BY <1>5, <1>6 DEF InPace
<1>8. WorkInv'
  BY <1>4, <1>5 DEF WorkInv
<1> QED
  BY <1>1, <1>2, <1>7, <1>8 DEF PaceInv

(* A slice.                                                                *)
LEMMA SlicePace ==
  ASSUME PolicyOK, PaceInv, SettingsInv', NEW still \in BOOLEAN,
         still => steady /\ percent_free' = percent_free,
         major_collection_slice(percent_free', still), stat_heap_size' = stat_heap_size
  PROVE  PaceInv'
<1>1. PICK h, p, l, c, a : h = Words /\ p = percent_free' /\ l = left /\ c = consumed /\ a = allocated_words
  OBVIOUS
<1>2. /\ h \in Nat /\ p \in 1 .. 100 /\ l \in Nat /\ c \in Nat /\ a \in Nat
      /\ gc_phase \in {"mark", "weak", "sweep"} /\ extra_heap_memory \in Nat
  BY <1>1, WordsAre DEF PaceInv, SettingsInv, WorkInv
<1>3. HeapSize' /\ Words' = h /\ allocated_words' = 0 /\ extra_heap_memory' = 0
  BY <1>1 DEF PaceInv, HeapSize, Words, Wsize_bsize, major_collection_slice
<1>4. still => InPace(gc_phase, h, p, l, c)
  BY <1>1 DEF PaceInv
<1>5. PICK u : u = Effort(p) /\ u \in Nat /\ 3 * a <= 2 * (p * (u + 1))
  BY <1>1, <1>2, EffortIs
<1>6. ASSUME left' \in Nat, consumed' \in Nat, steady' = still, gc_phase' \in {"mark", "weak", "sweep"},
             still => InPace(gc_phase', h, p, left', consumed')
      PROVE  PaceInv'
  <2>1. WorkInv'
    BY <1>3, <1>6 DEF WorkInv
  <2> QED
    BY <1>1, <1>3, <1>6, <2>1 DEF PaceInv
<1>7. CASE gc_phase = "mark" /\ MarkWork(p) > l
  <2>1. gc_phase' = "weak" /\ left' = 0 /\ consumed' = 0 /\ steady' = still
    BY <1>1, <1>7 DEF major_collection_slice
  <2>2. InPace("weak", h, p, 0, 0)
    BY DEF InPace
  <2> QED
    BY <2>1, <2>2, <1>6
<1>8. CASE gc_phase = "mark" /\ ~ (MarkWork(p) > l)
  <2>1. PICK w : w = MarkWork(p)
    OBVIOUS
  <2>2. w = 2 * (100 - p) * u + 100 /\ w \in Nat
    <3>1. PICK r \in Nat : r = 100 - p
      BY <1>2
    <3>2. w = 2 * r * u + 100
      BY <1>5, <2>1, <3>1 DEF MarkWork, Margin
    <3> QED
      BY <3>1, <3>2, <1>5
  <2>3. w <= l
    BY <1>2, <1>8, <2>1, <2>2
  <2>4. /\ left' = l - w /\ steady' = still /\ consumed' = (IF still THEN c + a ELSE 0)
        /\ gc_phase' = gc_phase
    BY <1>1, <1>8, <2>1 DEF major_collection_slice, Part
  <2>5. l - w \in Nat /\ consumed' \in Nat
    BY <1>2, <2>2, <2>3, <2>4
  <2>6. ASSUME still PROVE InPace(gc_phase', h, p, left', consumed')
    <3>1. PICK e \in Nat : MarkCredit(e, h, p, l, c)
      BY <1>4, <1>8, <2>6 DEF InPace
    <3>2. MarkCredit(e + u + 1, h, p, l - w, c + a)
      <4>1. /\ h \in Nat /\ p \in 1 .. 100 /\ l \in Nat /\ c \in Nat /\ e \in Nat /\ a \in Nat /\ u \in Nat
            /\ MarkCredit(e, h, p, l, c) /\ 3 * a <= 2 * (p * (u + 1))
            /\ w = 2 * (100 - p) * u + 100 /\ w \in Nat /\ w <= l
        BY <3>1, <1>2, <1>5, <2>2, <2>3
      <4> QED
        BY ONLY <4>1, ZenonT(40), MarkPart
    <3>3. e + u + 1 \in Nat
      BY <3>1, <1>5
    <3>4. gc_phase' = "mark" /\ left' = l - w /\ consumed' = c + a
      BY <1>8, <2>4, <2>6
    <3> QED
      BY <3>2, <3>3, <3>4 DEF InPace
  <2> QED
    BY <2>4, <2>5, <2>6, <1>2, <1>6
<1>9. CASE gc_phase = "weak"
  <2>1. gc_phase' = "sweep" /\ left' = h /\ consumed' = c /\ steady' = still
    BY <1>1, <1>9 DEF major_collection_slice, Words
  <2>2. ASSUME still PROVE InPace("sweep", h, p, h, c)
    <3>1. c = 0
      BY <1>4, <1>9, <2>2 DEF InPace
    <3>2. SweepCredit(0, h, p, h, 0)
      BY <1>2 DEF SweepCredit
    <3> QED
      BY <3>1, <3>2 DEF InPace
  <2> QED
    BY <2>1, <2>2, <1>2, <1>6
<1>10. CASE gc_phase = "sweep" /\ SweepWork(p) > l
  <2>1. Begun(percent_free')
    BY <1>1, <1>10 DEF major_collection_slice
  <2> QED
    BY <2>1, <1>3, BegunPace
<1>11. CASE gc_phase = "sweep" /\ ~ (SweepWork(p) > l)
  <2>1. PICK w : w = SweepWork(p)
    OBVIOUS
  <2>2. w = 200 * u + 100 /\ w \in Nat
    BY <1>5, <2>1 DEF SweepWork, Margin
  <2>3. w <= l
    BY <1>2, <1>11, <2>1, <2>2
  <2>4. /\ left' = l - w /\ steady' = still /\ consumed' = (IF still THEN c + a ELSE 0)
        /\ gc_phase' = gc_phase
    BY <1>1, <1>11, <2>1 DEF major_collection_slice, Part
  <2>5. l - w \in Nat /\ consumed' \in Nat
    BY <1>2, <2>2, <2>3, <2>4
  <2>6. ASSUME still PROVE InPace(gc_phase', h, p, left', consumed')
    <3>1. PICK e \in Nat : SweepCredit(e, h, p, l, c)
      BY <1>4, <1>11, <2>6 DEF InPace
    <3>2. SweepCredit(e + u + 1, h, p, l - w, c + a)
      <4>1. /\ h \in Nat /\ p \in 1 .. 100 /\ l \in Nat /\ c \in Nat /\ e \in Nat /\ a \in Nat /\ u \in Nat
            /\ SweepCredit(e, h, p, l, c) /\ 3 * a <= 2 * (p * (u + 1)) /\ w = 200 * u + 100 /\ w <= l
        BY <3>1, <1>2, <1>5, <2>2, <2>3
      <4> QED
        BY ONLY <4>1, ZenonT(40), SweepPart
    <3>3. e + u + 1 \in Nat
      BY <3>1, <1>5
    <3>4. gc_phase' = "sweep" /\ left' = l - w /\ consumed' = c + a
      BY <1>11, <2>4, <2>6
    <3> QED
      BY <3>2, <3>3, <3>4 DEF InPace
  <2> QED
    BY <2>4, <2>5, <2>6, <1>2, <1>6
<1> QED
  BY <1>2, <1>7, <1>8, <1>9, <1>10, <1>11

LEMMA GcSetPace ==
  ASSUME PolicyOK, PaceInv, NEW v \in Wishes \cup {gc_get}, gc_set(v)
  PROVE  PaceInv'
<1>1. SettingsInv' /\ percent_free' = v.percent /\ v.percent \in 1 .. 100
  BY SettingsKept, WishIs DEF PaceInv
<1>2. norm_pfree(v.percent) = v.percent
  BY <1>1, NormOthers
<1>3. PICK still : still = (steady /\ percent_free' = percent_free)
  OBVIOUS
<1>4. still \in BOOLEAN /\ (still => steady /\ percent_free' = percent_free)
  BY <1>3 DEF PaceInv, WorkInv
<1>5. stat_heap_size' = stat_heap_size
  BY DEF gc_set, heapVars
<1>6. \/ major_collection_slice(percent_free', still)
      \/ UNCHANGED <<allocated_words, extra_heap_memory, gc_phase, left, consumed>> /\ steady' = still
  BY <1>1, <1>2, <1>3 DEF gc_set, set_minor_heap_size
<1>7. CASE major_collection_slice(percent_free', still)
  BY <1>1, <1>4, <1>5, <1>7, SlicePace
<1>8. CASE UNCHANGED <<allocated_words, extra_heap_memory, gc_phase, left, consumed>> /\ steady' = still
  <2>1. HeapSize' /\ Words' = Words
    BY <1>5 DEF PaceInv, HeapSize, Words, Wsize_bsize
  <2>2. WorkInv'
    BY <1>4, <1>8 DEF PaceInv, WorkInv
  <2>3. steady' => InPace(gc_phase', Words', percent_free', left', consumed')
    BY <1>4, <1>8, <2>1 DEF PaceInv
  <2> QED
    BY <1>1, <2>1, <2>2, <2>3 DEF PaceInv
<1> QED
  BY <1>6, <1>7, <1>8

LEMMA PaceNext ==
  ASSUME PolicyOK, PaceInv, [Next]_vars
  PROVE  PaceInv'
<1>1. ASSUME NEW w \in Wosizes, AllocFound(w) \/ AllocGrows(w) PROVE PaceInv'
  BY <1>1, AllocPace
<1>2. ASSUME NEW s \in Speeds, adjust_gc_speed(s[1], s[2]) PROVE PaceInv'
  BY <1>2, SpeedPace
<1>3. ASSUME NEW v \in Wishes \cup {gc_get}, gc_set(v) PROVE PaceInv'
  BY <1>3, GcSetPace
<1>4. CASE MinorCollection
  <2>1. major_collection_slice(percent_free, steady) /\ UNCHANGED <<heapVars, settings>>
    BY <1>4 DEF MinorCollection
  <2>2. stat_heap_size' = stat_heap_size /\ percent_free' = percent_free /\ SettingsInv'
    BY <2>1 DEF heapVars, settings, PaceInv, SettingsInv
  <2>3. steady \in BOOLEAN
    BY DEF PaceInv, WorkInv
  <2> QED
    BY <2>1, <2>2, <2>3, SlicePace
<1>5. CASE GcMajor
  <2>1. /\ Begun(percent_free) /\ allocated_words' = 0 /\ extra_heap_memory' = 0
        /\ UNCHANGED <<heapVars, settings>>
    BY <1>5 DEF GcMajor
  <2>2. stat_heap_size' = stat_heap_size /\ percent_free' = percent_free /\ SettingsInv'
    BY <2>1 DEF heapVars, settings, PaceInv, SettingsInv
  <2> QED
    BY <2>1, <2>2, BegunPace
<1>6. CASE UNCHANGED vars
  BY <1>6 DEF vars, heapVars, settings, paceVars, PaceInv, SettingsInv, WorkInv, HeapSize, Words, Wsize_bsize
<1> QED
  BY <1>1, <1>2, <1>3, <1>4, <1>5, <1>6 DEF Next

LEMMA PaceMeans ==
  ASSUME PolicyOK, PaceInv
  PROVE  Paced
<1>1. SUFFICES ASSUME steady PROVE 300 * consumed <= 2 * Words * percent_free
  BY DEF Paced, Words
<1>2. PICK h, p, l, c : h = Words /\ p = percent_free /\ l = left /\ c = consumed
  OBVIOUS
<1>3. h \in Nat /\ p \in 1 .. 100 /\ l \in Nat /\ c \in Nat /\ gc_phase \in {"mark", "weak", "sweep"}
  BY <1>2, WordsAre DEF PaceInv, SettingsInv, WorkInv
<1>4. InPace(gc_phase, h, p, l, c)
  BY <1>1, <1>2 DEF PaceInv
<1>5. \E e \in Nat : 3 * c <= 2 * (p * e) /\ 100 * e <= h
  <2>1. CASE gc_phase = "mark"
    BY <2>1, <1>4 DEF InPace, MarkCredit
  <2>2. CASE gc_phase = "weak"
    <3>1. c = 0 /\ 0 \in Nat /\ 3 * 0 <= 2 * (p * 0) /\ 100 * 0 <= h
      BY <2>2, <1>3, <1>4 DEF InPace
    <3> QED
      BY <3>1
  <2>3. CASE gc_phase = "sweep"
    <3>1. PICK e \in Nat : SweepCredit(e, h, p, l, c)
      BY <2>3, <1>4 DEF InPace
    <3> QED
      BY <3>1, <1>3 DEF SweepCredit
  <2> QED
    BY <1>3, <2>1, <2>2, <2>3
<1>6. 300 * c <= 2 * h * p
  BY <1>3, <1>5, CreditBounds
<1> QED
  BY <1>2, <1>6

(* Marking and sweeping keep up with the program, as far as the comment in *)
(* major_collection_slice reckons: in every state of every run.            *)
THEOREM PacedTheorem ==
  ASSUME PolicyOK
  PROVE  Spec => []Paced
<1>1. Init => PaceInv
  BY PaceInit
<1>2. PaceInv /\ [Next]_vars => PaceInv'
  BY PaceNext
<1>3. PaceInv => Paced
  BY PaceMeans
<1> QED
  BY <1>1, <1>2, <1>3, PTL DEF Spec

-----------------------------------------------------------------------------
(* The chunks: page-aligned, apart from each other, in the list in the     *)
(* order of their addresses, and each in the page table.                   *)

IsChunk(c, size) ==
  /\ c \in Nat /\ Multiple(c, Page_size)
  /\ size \in Nat /\ Multiple(size, Page_size) /\ size >= Page_size

ChunksApart ==
  /\ IsFiniteSet(DOMAIN chunk_size)
  /\ \A c \in DOMAIN chunk_size : IsChunk(c, chunk_size[c])
  /\ \A c, d \in DOMAIN chunk_size : c < d => c + chunk_size[c] <= d

Rising(s) == \A i, j \in DOMAIN s : i < j => s[i] < s[j]

ChunksListed ==
  /\ chunks \in Seq(Nat) /\ chunks # <<>> /\ Rising(chunks)
  /\ ToSet(chunks) = DOMAIN chunk_size
  /\ heap_end = Last(chunks) + chunk_size[Last(chunks)]

ChunksEntered ==
  /\ p_table \in Seq([low : Nat, high : Nat])
  /\ \A i \in DOMAIN p_table : \E c \in DOMAIN chunk_size : p_table[i] = Entry(c, chunk_size[c])
  /\ \A c \in DOMAIN chunk_size : \E i \in DOMAIN p_table : p_table[i] = Entry(c, chunk_size[c])

MapInv ==
  /\ SettingsInv /\ ChunksApart /\ ChunksListed /\ ChunksEntered
  /\ stat_heap_size = SumOf(chunk_size, DOMAIN chunk_size)

(* A sequence of m elements, and then another of n.                        *)
IsJoin(s, t, m, n, r) ==
  /\ r \in Seq(Nat) /\ Len(r) = m + n
  /\ \A i \in 1 .. m : r[i] = s[i]
  /\ \A i \in 1 .. n : r[m + i] = t[i]

LEMMA Joined ==
  ASSUME NEW s \in Seq(Nat), NEW t \in Seq(Nat), NEW m, m = Len(s), NEW n, n = Len(t), NEW r, r = s \o t
  PROVE  IsJoin(s, t, m, n, r)
<1>1. m \in Nat /\ n \in Nat
  OBVIOUS
<1>2. r \in Seq(Nat) /\ Len(r) = m + n
  BY ConcatProperties
<1>3. ASSUME NEW i \in 1 .. m PROVE r[i] = s[i]
  <2>1. i \in 1 .. Len(s) + Len(t)
    BY <1>1
  <2>2. (s \o t)[i] = IF i <= Len(s) THEN s[i] ELSE t[i - Len(s)]
    BY <2>1, ConcatProperties
  <2> QED
    BY <1>1, <2>2
<1>4. ASSUME NEW i \in 1 .. n PROVE r[m + i] = t[i]
  <2>1. PICK j : j = m + i
    OBVIOUS
  <2>2. j \in 1 .. Len(s) + Len(t)
    BY <1>1, <2>1
  <2>3. (s \o t)[j] = IF j <= Len(s) THEN s[j] ELSE t[j - Len(s)]
    BY <2>2, ConcatProperties
  <2>4. ~ (j <= Len(s)) /\ j - Len(s) = i
    BY <1>1, <2>1
  <2> QED
    BY <2>1, <2>3, <2>4
<1> QED
  BY <1>2, <1>3, <1>4 DEF IsJoin

(* A sequence of n elements with one more put in after the first k.        *)
IsInsert(s, n, k, m, r) ==
  /\ r \in Seq(Nat) /\ Len(r) = n + 1
  /\ \A i \in 1 .. k : r[i] = s[i]
  /\ r[k + 1] = m
  /\ \A i \in k + 1 .. n : r[i + 1] = s[i]

LEMMA Inserted ==
  ASSUME NEW s \in Seq(Nat), NEW n, n = Len(s), NEW k \in 0 .. n, NEW m \in Nat, NEW r,
         r = SubSeq(s, 1, k) \o <<m>> \o SubSeq(s, k + 1, n)
  PROVE  IsInsert(s, n, k, m, r)
<1>1. n \in Nat /\ k \in 0 .. n /\ \A i \in 1 .. n : s[i] \in Nat
  OBVIOUS
<1>2. PICK a, b, d : a = SubSeq(s, 1, k) /\ b = SubSeq(s, k + 1, n) /\ d = <<m>>
  OBVIOUS
<1>3. a \in Seq(Nat) /\ Len(a) = k /\ \A i \in 1 .. k : a[i] = s[i]
  <2>1. 1 \in Int /\ k \in Int /\ \A i \in 1 .. k : s[i] \in Nat
    BY <1>1
  <2>2. a \in Seq(Nat)
    BY <1>2, <2>1, SubSeqProperties
  <2>3. Len(a) = IF 1 <= k THEN k - 1 + 1 ELSE 0
    BY <1>2, <2>1, SubSeqProperties
  <2>4. \A i \in 1 .. k - 1 + 1 : a[i] = s[1 + i - 1]
    BY <1>2, <2>1, SubSeqProperties
  <2>5. k - 1 + 1 = k /\ \A i \in 1 .. k : 1 + i - 1 = i
    BY <1>1
  <2> QED
    BY <1>1, <2>2, <2>3, <2>4, <2>5
<1>4. b \in Seq(Nat) /\ Len(b) = n - k /\ \A i \in 1 .. n - k : b[i] = s[k + i]
  <2>1. PICK p \in Int : p = k + 1
    BY <1>1
  <2>2. \A i \in p .. n : s[i] \in Nat
    BY <1>1, <2>1
  <2>3. b \in Seq(Nat) /\ Len(b) = (IF p <= n THEN n - p + 1 ELSE 0) /\ \A i \in 1 .. n - p + 1 : b[i] = s[p + i - 1]
    <3>1. b = SubSeq(s, p, n) /\ n \in Int
      BY <1>1, <1>2, <2>1
    <3>2. b \in Seq(Nat)
      BY <2>2, <3>1, SubSeqProperties
    <3>3. Len(b) = IF p <= n THEN n - p + 1 ELSE 0
      BY <2>2, <3>1, SubSeqProperties
    <3>4. \A i \in 1 .. n - p + 1 : b[i] = s[p + i - 1]
      BY <2>2, <3>1, SubSeqProperties
    <3> QED
      BY <3>2, <3>3, <3>4
  <2>4. n - p + 1 = n - k /\ \A i \in 1 .. n - k : p + i - 1 = k + i
    BY <1>1, <2>1
  <2> QED
    BY <1>1, <2>1, <2>3, <2>4
<1>5. d \in Seq(Nat) /\ Len(d) = 1 /\ d[1] = m
  BY <1>2
<1>6. PICK c : c = a \o d
  OBVIOUS
<1>7. c \in Seq(Nat) /\ Len(c) = k + 1 /\ (\A i \in 1 .. k : c[i] = a[i]) /\ c[k + 1] = m
  <2>1. IsJoin(a, d, k, 1, c)
    BY <1>3, <1>5, <1>6, Joined
  <2> QED
    BY <1>5, <2>1 DEF IsJoin
<1>8. PICK q, w : q = k + 1 /\ w = n - k
  OBVIOUS
<1>9. /\ r \in Seq(Nat) /\ Len(r) = q + w
      /\ \A i \in 1 .. q : r[i] = c[i]
      /\ \A i \in 1 .. w : r[q + i] = b[i]
  <2>1. r = c \o b /\ q = Len(c) /\ w = Len(b)
    BY <1>2, <1>4, <1>6, <1>7, <1>8
  <2>2. IsJoin(c, b, q, w, r)
    BY <1>4, <1>7, <2>1, Joined
  <2> QED
    BY <2>2 DEF IsJoin
<1>10. q + w = n + 1 /\ q \in 1 .. q /\ \A i \in 1 .. k : i \in 1 .. q
  BY <1>1, <1>8
<1>11. ASSUME NEW i \in k + 1 .. n PROVE r[i + 1] = s[i]
  <2>1. PICK j : j = i - k
    OBVIOUS
  <2>2. j \in 1 .. w /\ q + j = i + 1 /\ k + j = i
    BY <1>1, <1>8, <2>1
  <2>3. r[q + j] = b[j] /\ b[j] = s[k + j]
    BY <1>4, <1>8, <1>9, <2>2
  <2> QED
    BY <2>2, <2>3
<1>12. r \in Seq(Nat) /\ Len(r) = n + 1 /\ r[k + 1] = m
  BY <1>7, <1>8, <1>9, <1>10
<1>13. ASSUME NEW i \in 1 .. k PROVE r[i] = s[i]
  BY <1>3, <1>7, <1>8, <1>9, <1>10
<1> QED
  BY <1>11, <1>12, <1>13 DEF IsInsert

(* expand_heap keeps the list in order.                                    *)
LEMMA LinkedIs ==
  ASSUME chunks \in Seq(Nat), chunks # <<>>, Rising(chunks),
         NEW mem \in Nat, mem \notin ToSet(chunks), NEW l, l = Linked(mem)
  PROVE  /\ l \in Seq(Nat) /\ l # <<>> /\ Rising(l) /\ ToSet(l) = ToSet(chunks) \cup {mem}
         /\ Last(chunks) \in ToSet(chunks)
         /\ Last(l) = IF Last(chunks) < mem THEN mem ELSE Last(chunks)
<1>1. PICK n \in Nat : n = Len(chunks) /\ n >= 1 /\ DOMAIN chunks = 1 .. n
  OBVIOUS
<1>2. \A i \in 1 .. n : chunks[i] \in Nat /\ chunks[i] # mem
  BY <1>1 DEF ToSet
<1>3. PICK k \in 0 .. n : /\ \A i \in 1 .. k : chunks[i] < mem
                          /\ k < n => mem < chunks[k + 1]
  <2> DEFINE T == {i \in 1 .. n + 1 : i <= n => mem < chunks[i]}
  <2>1. n + 1 \in T
    OBVIOUS
  <2>2. PICK t \in T : \A i \in T : t <= i
    <3>1. T \in SUBSET Nat
      OBVIOUS
    <3> HIDE DEF T
    <3> QED
      BY <2>1, <3>1, Least
  <2>3. t \in 1 .. n + 1 /\ (t <= n => mem < chunks[t])
    OBVIOUS
  <2>4. ASSUME NEW i \in 1 .. t - 1 PROVE chunks[i] < mem
    <3>1. i \in 1 .. n /\ ~ (t <= i)
      BY <2>3
    <3>2. i \notin T
      BY <2>2, <3>1
    <3>3. ~ (mem < chunks[i])
      BY <3>1, <3>2
    <3> QED
      BY <3>1, <3>3, <1>2
  <2>5. t - 1 \in 0 .. n /\ (t - 1) + 1 = t
    BY <2>3
  <2> HIDE DEF T
  <2> QED
    BY <2>3, <2>4, <2>5
<1>4. ASSUME NEW i \in k + 1 .. n PROVE mem < chunks[i]
  <2>1. PICK q \in 1 .. n : q = k + 1
    OBVIOUS
  <2>2. i \in 1 .. n /\ q <= i /\ k < n
    BY <2>1
  <2>3. mem < chunks[q]
    BY <1>3, <2>1, <2>2
  <2>4. i = q \/ chunks[q] < chunks[i]
    BY <1>1, <2>2 DEF Rising
  <2>5. chunks[q] \in Nat /\ chunks[i] \in Nat
    BY <1>2, <2>2
  <2> QED
    BY <2>3, <2>4, <2>5
<1>5. {i \in DOMAIN chunks : \A j \in 1 .. i : chunks[j] < mem} = 1 .. k
  <2>1. ASSUME NEW i \in 1 .. n, i > k PROVE ~ (chunks[i] < mem)
    <3>1. i \in k + 1 .. n
      BY <2>1
    <3> QED
      BY <1>2, <1>4, <3>1
  <2> QED
    BY <1>1, <1>3, <2>1
<1>6. Cardinality(1 .. k) = k
  BY FS_Interval
<1>7. l = SubSeq(chunks, 1, k) \o <<mem>> \o SubSeq(chunks, k + 1, n)
  BY <1>1, <1>5, <1>6 DEF Linked
<1>8. /\ l \in Seq(Nat) /\ Len(l) = n + 1
      /\ \A i \in 1 .. k : l[i] = chunks[i]
      /\ l[k + 1] = mem
      /\ \A i \in k + 1 .. n : l[i + 1] = chunks[i]
  <2>1. IsInsert(chunks, n, k, mem, l)
    BY <1>1, <1>7, Inserted
  <2> QED
    BY <2>1 DEF IsInsert
<1>9. DOMAIN l = 1 .. n + 1 /\ l # <<>>
  BY <1>1, <1>8
<1>10. ASSUME NEW i \in 1 .. n + 1
       PROVE  \/ i \in 1 .. k /\ i \in 1 .. n /\ l[i] = chunks[i]
              \/ i = k + 1 /\ l[i] = mem
              \/ \E h \in k + 1 .. n : i = h + 1 /\ h \in 1 .. n /\ l[i] = chunks[h]
  <2>1. i \in 1 .. k \/ i = k + 1 \/ i - 1 \in k + 1 .. n
    BY <1>1
  <2>2. ASSUME i - 1 \in k + 1 .. n PROVE \E h \in k + 1 .. n : i = h + 1 /\ h \in 1 .. n /\ l[i] = chunks[h]
    <3>1. PICK h \in k + 1 .. n : h = i - 1
      BY <2>2
    <3>2. i = h + 1 /\ h \in 1 .. n
      BY <1>1, <3>1
    <3> QED
      BY <1>8, <3>2
  <2>3. i \in 1 .. k => i \in 1 .. n
    BY <1>1
  <2> QED
    BY <1>8, <2>1, <2>2, <2>3
<1>11. Rising(l)
  <2>1. ASSUME NEW i \in 1 .. n + 1, NEW j \in 1 .. n + 1, i < j PROVE l[i] < l[j]
    <3>1. CASE j \in 1 .. k
      <4>1. i \in 1 .. k /\ i \in 1 .. n /\ j \in 1 .. n
        BY <2>1, <3>1, <1>1
      <4>2. chunks[i] < chunks[j]
        BY <2>1, <4>1, <1>1 DEF Rising
      <4> QED
        BY <3>1, <4>1, <4>2, <1>8
    <3>2. CASE j = k + 1
      <4>1. i \in 1 .. k
        BY <2>1, <3>2, <1>1
      <4> QED
        BY <3>2, <4>1, <1>3, <1>8
    <3>3. ASSUME NEW h \in k + 1 .. n, j = h + 1, h \in 1 .. n, l[j] = chunks[h] PROVE l[i] < l[j]
      <4>1. CASE i = k + 1
        BY <3>3, <4>1, <1>4, <1>8
      <4>2. CASE i \in 1 .. k /\ i \in 1 .. n /\ l[i] = chunks[i]
        <5>1. i < h
          BY <4>2, <1>1
        <5>2. chunks[i] < chunks[h]
          BY <3>3, <4>2, <5>1, <1>1 DEF Rising
        <5> QED
          BY <3>3, <4>2, <5>2
      <4>3. ASSUME NEW g \in k + 1 .. n, i = g + 1, g \in 1 .. n, l[i] = chunks[g] PROVE l[i] < l[j]
        <5>1. g < h
          BY <2>1, <3>3, <4>3
        <5>2. chunks[g] < chunks[h]
          BY <3>3, <4>3, <5>1, <1>1 DEF Rising
        <5> QED
          BY <3>3, <4>3, <5>2
      <4> QED
        BY <1>10, <4>1, <4>2, <4>3
    <3> QED
      BY <1>10, <3>1, <3>2, <3>3
  <2> QED
    BY <2>1, <1>9 DEF Rising
<1>12. ToSet(l) = ToSet(chunks) \cup {mem}
  <2>1. ASSUME NEW i \in 1 .. n + 1 PROVE l[i] \in ToSet(chunks) \cup {mem}
    BY <1>1, <1>10 DEF ToSet
  <2>2. ASSUME NEW i \in 1 .. n PROVE \E j \in 1 .. n + 1 : l[j] = chunks[i]
    <3>1. CASE i \in 1 .. k
      <4>1. i \in 1 .. n + 1
        BY <1>1
      <4> QED
        BY <3>1, <4>1, <1>8
    <3>2. CASE i \in k + 1 .. n
      <4>1. i + 1 \in 1 .. n + 1
        BY <1>1
      <4> QED
        BY <3>2, <4>1, <1>8
    <3>3. i \in 1 .. k \/ i \in k + 1 .. n
      BY <1>1
    <3> QED
      BY <3>1, <3>2, <3>3
  <2>3. \E j \in 1 .. n + 1 : l[j] = mem
    <3>1. k + 1 \in 1 .. n + 1
      BY <1>1
    <3> QED
      BY <3>1, <1>8
  <2>4. ToSet(l) = {l[j] : j \in 1 .. n + 1} /\ ToSet(chunks) = {chunks[j] : j \in 1 .. n}
    BY <1>1, <1>9 DEF ToSet
  <2> QED
    BY <2>1, <2>2, <2>3, <2>4
<1>13. Last(chunks) = chunks[n] /\ Last(l) = l[n + 1] /\ n \in 1 .. n /\ n + 1 \in 1 .. n + 1
  BY <1>1, <1>8 DEF Last
<1>14. Last(l) = IF Last(chunks) < mem THEN mem ELSE Last(chunks)
  <2>1. CASE k = n
    <3>1. l[n + 1] = mem /\ chunks[n] < mem
      BY <2>1, <1>1, <1>3, <1>8
    <3> QED
      BY <3>1, <1>13
  <2>2. CASE k # n
    <3>1. n \in k + 1 .. n
      BY <2>2, <1>1
    <3>2. l[n + 1] = chunks[n] /\ mem < chunks[n] /\ chunks[n] \in Nat
      BY <3>1, <1>1, <1>2, <1>4, <1>8
    <3> QED
      BY <3>2, <1>13
  <2> QED
    BY <2>1, <2>2
<1>15. Last(chunks) \in ToSet(chunks)
  BY <1>1, <1>13 DEF ToSet
<1> QED
  BY <1>8, <1>9, <1>11, <1>12, <1>14, <1>15

(* A table of one entry more, and its entries.                             *)
LEMMA EntryIs ==
  ASSUME PolicyOK, NEW c, NEW size, IsChunk(c, size)
  PROVE  Entry(c, size) \in [low : Nat, high : Nat]
<1>1. Page_size \in Nat \ {0} /\ c \in Nat /\ c + size \in Nat
  BY DEF PolicyOK, IsChunk
<1>2. c \div Page_size \in Nat /\ (c + size) \div Page_size \in Nat
  BY <1>1, DivIs
<1> QED
  BY <1>2 DEF Entry, RawPage

LEMMA MapInit ==
  ASSUME PolicyOK, Init
  PROVE  MapInv
<1>1. SettingsInv
  BY PaceInit DEF PaceInv
<1>2. PICK size : size = round_heap_chunk_size(major_heap_increment)
  OBVIOUS
<1>3. size # NoRoom /\ init_major_heap(size)
  BY <1>2 DEF Init, init_major_heap
<1>4. PICK mem : \E p \in 1 .. MaxPage :
        /\ mem = p * Page_size
        /\ chunks = <<mem>> /\ chunk_size = [c \in {mem} |-> size] /\ heap_end = mem + size
        /\ stat_heap_size = size /\ p_table = <<Entry(mem, size)>>
  BY <1>3 DEF init_major_heap
<1>5. IsChunk(mem, size)
  <2>1. PICK p \in Nat : mem = p * Page_size /\ Page_size \in Nat
    BY <1>4 DEF PolicyOK
  <2>2. mem \in Nat /\ mem = Page_size * p
    BY <1>4, <2>1
  <2>3. major_heap_increment \in Nat
    BY <1>1 DEF SettingsInv
  <2>4. size \in Nat /\ Multiple(size, Page_size) /\ size >= Page_size
    BY <1>1, <1>2, <1>3, <2>3, ChunkSizeIs
  <2> QED
    BY <2>1, <2>2, <2>4 DEF IsChunk, Multiple
<1>6. DOMAIN chunk_size = {mem} /\ chunk_size[mem] = size /\ mem \in Nat /\ size \in Nat
  BY <1>4, <1>5 DEF IsChunk
<1>7. ChunksApart
  <2>1. IsFiniteSet({mem})
    BY FS_Singleton
  <2> QED
    BY <2>1, <1>5, <1>6 DEF ChunksApart
<1>8. ChunksListed
  <2>1. chunks \in Seq(Nat) /\ chunks # <<>> /\ DOMAIN chunks = {1} /\ Len(chunks) = 1 /\ chunks[1] = mem
    BY <1>4, <1>6
  <2> QED
    BY <2>1, <1>4, <1>6 DEF ChunksListed, Rising, ToSet, Last
<1>9. ChunksEntered
  <2>1. Entry(mem, size) \in [low : Nat, high : Nat]
    BY <1>5, EntryIs
  <2>2. p_table \in Seq([low : Nat, high : Nat]) /\ DOMAIN p_table = {1} /\ p_table[1] = Entry(mem, size)
    BY <1>4, <2>1
  <2> QED
    BY <2>2, <1>6 DEF ChunksEntered
<1>10. stat_heap_size = SumOf(chunk_size, DOMAIN chunk_size)
  BY <1>4, <1>6, SumOne
<1> QED
  BY <1>1, <1>7, <1>8, <1>9, <1>10 DEF MapInv

(* A chunk in free memory.                                                 *)
LEMMA ExpandMap ==
  ASSUME PolicyOK, MapInv, SettingsInv',
         NEW size \in Nat, Multiple(size, Page_size), size >= Page_size,
         NEW mem \in FreePages(size), expand_heap(mem, size)
  PROVE  MapInv'
<1>1. Page_size \in Nat \ {0} /\ MaxPage \in Nat
  BY DEF PolicyOK
<1>2. PICK p \in 1 .. MaxPage :
        /\ mem = p * Page_size
        /\ \A c \in DOMAIN chunk_size :
             c + chunk_size[c] + Page_size <= p * Page_size \/ p * Page_size + size + Page_size <= c
  BY DEF FreePages
<1>3. IsChunk(mem, size)
  <2>1. p \in Nat /\ mem \in Nat /\ mem = Page_size * p
    BY <1>1, <1>2
  <2> QED
    BY <2>1 DEF IsChunk, Multiple
<1>4. mem \in Nat
  BY <1>3 DEF IsChunk
<1>5. PICK D, f, D1, f1 : /\ D = DOMAIN chunk_size /\ f = chunk_size
                          /\ D1 = DOMAIN chunk_size' /\ f1 = chunk_size'
  OBVIOUS
<1>6. IsFiniteSet(D) /\ \A c \in D : IsChunk(c, f[c]) /\ c \in Nat /\ f[c] \in Nat /\ f[c] >= Page_size
  BY <1>5 DEF MapInv, ChunksApart, IsChunk
<1>7. \A c \in D : (c + f[c] <= mem /\ c < mem) \/ (mem + size <= c /\ mem < c)
  <2>1. ASSUME NEW c \in D PROVE (c + f[c] <= mem /\ c < mem) \/ (mem + size <= c /\ mem < c)
    <3>1. c + f[c] + Page_size <= mem \/ mem + size + Page_size <= c
      BY <1>2, <1>5
    <3> QED
      BY <3>1, <1>1, <1>4, <1>6
  <2> QED
    BY <2>1
<1>8. mem \notin D
  BY <1>4, <1>6, <1>7
<1>9. D1 = D \cup {mem} /\ f1[mem] = size /\ \A c \in D : f1[c] = f[c]
  BY <1>5, <1>8 DEF expand_heap
<1>10. ChunksApart'
  <2>1. IsFiniteSet(D1)
    BY <1>6, <1>9, FS_AddElement
  <2>2. \A c \in D1 : IsChunk(c, f1[c])
    BY <1>3, <1>6, <1>9
  <2>3. ASSUME NEW c \in D1, NEW d \in D1, c < d PROVE c + f1[c] <= d
    <3>1. CASE c \in D /\ d \in D
      <4>1. c + f[c] <= d
        BY <2>3, <3>1, <1>5 DEF MapInv, ChunksApart
      <4> QED
        BY <3>1, <4>1, <1>9
    <3>2. CASE c = mem /\ d \in D
      <4>1. ~ (d < mem) /\ f1[c] = size
        BY <2>3, <3>2, <1>4, <1>6, <1>9
      <4> QED
        BY <3>2, <4>1, <1>7
    <3>3. CASE d = mem /\ c \in D
      <4>1. ~ (mem < c) /\ f1[c] = f[c]
        BY <2>3, <3>3, <1>4, <1>6, <1>9
      <4> QED
        BY <3>3, <4>1, <1>7
    <3> QED
      BY <2>3, <3>1, <3>2, <3>3, <1>4, <1>9
  <2> QED
    BY <1>5, <2>1, <2>2, <2>3 DEF ChunksApart, IsChunk
<1>11. ChunksListed'
  <2>1. chunks \in Seq(Nat) /\ chunks # <<>> /\ Rising(chunks) /\ ToSet(chunks) = D
    BY <1>5 DEF MapInv, ChunksListed
  <2>2. PICK l : l = Linked(mem)
    OBVIOUS
  <2>3. /\ l \in Seq(Nat) /\ l # <<>> /\ Rising(l) /\ ToSet(l) = ToSet(chunks) \cup {mem}
        /\ Last(chunks) \in ToSet(chunks)
        /\ Last(l) = IF Last(chunks) < mem THEN mem ELSE Last(chunks)
    BY <1>4, <1>8, <2>1, <2>2, LinkedIs
  <2>4. chunks' = l
    BY <2>2 DEF expand_heap
  <2>5. PICK t : t = Last(chunks)
    OBVIOUS
  <2>6. t \in D /\ heap_end = t + f[t] /\ heap_end' = IF mem >= heap_end THEN mem + size ELSE heap_end
    BY <1>5, <2>1, <2>3, <2>5 DEF MapInv, ChunksListed, expand_heap
  <2>7. heap_end' = Last(l) + f1[Last(l)]
    <3>1. CASE t < mem
      <4>1. heap_end <= mem
        BY <3>1, <2>6, <1>4, <1>6, <1>7
      <4>2. heap_end \in Nat
        BY <2>6, <1>6
      <4>3. heap_end' = mem + size
        BY <4>1, <4>2, <2>6, <1>4
      <4>4. Last(l) = mem
        BY <3>1, <2>3, <2>5
      <4> QED
        BY <4>3, <4>4, <1>9
    <3>2. CASE ~ (t < mem)
      <4>1. ~ (mem >= heap_end)
        BY <3>2, <2>6, <1>4, <1>6, <1>7
      <4>2. Last(l) = t
        BY <3>2, <2>3, <2>5
      <4> QED
        BY <4>1, <4>2, <2>6, <1>9
    <3> QED
      BY <3>1, <3>2
  <2>8. ToSet(l) = D1
    BY <2>1, <2>3, <1>9
  <2> QED
    BY <2>3, <2>4, <2>7, <2>8, <1>5 DEF ChunksListed, Rising, ToSet, Last
<1>12. ChunksEntered'
  <2>1. PICK t \in Seq([low : Nat, high : Nat]) : t = p_table
    BY DEF MapInv, ChunksEntered
  <2>2. PICK e \in [low : Nat, high : Nat] : e = Entry(mem, size)
    BY <1>3, EntryIs
  <2>3. p_table' = Append(t, e)
    BY <2>1, <2>2 DEF expand_heap, p_table_add_pages
  <2>4. PICK n \in Nat : n = Len(t) /\ DOMAIN t = 1 .. n
    BY <2>1
  <2>5. PICK u : u = Append(t, e)
    OBVIOUS
  <2>6. /\ u \in Seq([low : Nat, high : Nat]) /\ DOMAIN u = 1 .. n + 1
        /\ (\A i \in 1 .. n : u[i] = t[i]) /\ u[n + 1] = e
    <3>1. u \in Seq([low : Nat, high : Nat]) /\ Len(u) = n + 1
      BY <2>4, <2>5, AppendProperties
    <3>2. (\A i \in 1 .. n : u[i] = t[i]) /\ u[n + 1] = e
      BY <2>4, <2>5, AppendProperties
    <3> QED
      BY <3>1, <3>2
  <2>7. \A i \in 1 .. n : \E c \in D : t[i] = Entry(c, f[c])
    BY <1>5, <2>1, <2>4 DEF MapInv, ChunksEntered
  <2>8. \A c \in D : \E i \in 1 .. n : t[i] = Entry(c, f[c])
    BY <1>5, <2>1, <2>4 DEF MapInv, ChunksEntered
  <2>9. ASSUME NEW i \in 1 .. n + 1 PROVE \E c \in D1 : u[i] = Entry(c, f1[c])
    <3>1. CASE i = n + 1
      <4>1. mem \in D1 /\ u[i] = Entry(mem, f1[mem])
        BY <3>1, <1>9, <2>2, <2>6
      <4> QED
        BY <4>1
    <3>2. CASE i \in 1 .. n
      <4>1. PICK c \in D : t[i] = Entry(c, f[c])
        BY <2>7, <3>2
      <4>2. c \in D1 /\ u[i] = Entry(c, f1[c])
        BY <4>1, <3>2, <1>9, <2>6
      <4> QED
        BY <4>2
    <3> QED
      BY <2>4, <3>1, <3>2
  <2>10. ASSUME NEW c \in D1 PROVE \E i \in 1 .. n + 1 : u[i] = Entry(c, f1[c])
    <3>1. CASE c = mem
      <4>1. n + 1 \in 1 .. n + 1 /\ u[n + 1] = Entry(c, f1[c])
        BY <3>1, <1>9, <2>2, <2>4, <2>6
      <4> QED
        BY <4>1
    <3>2. CASE c \in D
      <4>1. PICK i \in 1 .. n : t[i] = Entry(c, f[c])
        BY <2>8, <3>2
      <4>2. i \in 1 .. n + 1 /\ u[i] = Entry(c, f1[c])
        BY <4>1, <3>2, <1>9, <2>4, <2>6
      <4> QED
        BY <4>2
    <3> QED
      BY <1>9, <3>1, <3>2
  <2>11. /\ p_table' \in Seq([low : Nat, high : Nat])
         /\ \A i \in DOMAIN p_table' : \E c \in DOMAIN chunk_size' : p_table'[i] = Entry(c, chunk_size'[c])
         /\ \A c \in DOMAIN chunk_size' : \E i \in DOMAIN p_table' : p_table'[i] = Entry(c, chunk_size'[c])
    BY <1>5, <2>3, <2>5, <2>6, <2>9, <2>10
  <2> QED
    BY <2>11 DEF ChunksEntered, Entry, RawPage
<1>13. (stat_heap_size = SumOf(chunk_size, DOMAIN chunk_size))'
  <2>1. \A x \in D : f[x] \in Nat /\ f1[x] = f[x]
    BY <1>6, <1>9
  <2>2. SumOf(f1, D \cup {mem}) = SumOf(f, D) + f1[mem]
    BY <1>6, <1>8, <1>9, <2>1, SumMore
  <2>3. stat_heap_size' = SumOf(f1, D1)
    BY <1>5, <1>9, <2>2 DEF MapInv, expand_heap
  <2>4. SumOf(chunk_size, DOMAIN chunk_size)' = SumOf(chunk_size', DOMAIN chunk_size')
    OBVIOUS
  <2> QED
    BY <1>5, <2>3, <2>4
<1> QED
  BY <1>10, <1>11, <1>12, <1>13 DEF MapInv

(* Nothing else changes the chunks or the table.                           *)
LEMMA MapKept ==
  ASSUME MapInv, SettingsInv', UNCHANGED heapVars
  PROVE  MapInv'
<1>1. ChunksApart' /\ ChunksListed' /\ ChunksEntered'
  BY DEF MapInv, heapVars, ChunksApart, IsChunk, ChunksListed, Rising, ToSet, Last, ChunksEntered, Entry, RawPage
<1>2. (stat_heap_size = SumOf(chunk_size, DOMAIN chunk_size))'
  BY DEF MapInv, heapVars
<1> QED
  BY <1>1, <1>2 DEF MapInv

LEMMA MapNext ==
  ASSUME PolicyOK, MapInv, [Next]_vars
  PROVE  MapInv'
<1>1. ASSUME NEW w \in Wosizes, AllocGrows(w) PROVE MapInv'
  <2>1. PICK size : size = round_heap_chunk_size(Bhsize_wosize(w))
    OBVIOUS
  <2>2. SettingsInv' /\ SettingsInv
    BY <1>1 DEF AllocGrows, CountBlock, settings, SettingsInv, MapInv
  <2>3. size # NoRoom /\ \E mem \in FreePages(size) : expand_heap(mem, size)
    BY <1>1, <2>1 DEF AllocGrows
  <2>4. size \in Nat /\ Multiple(size, Page_size) /\ size >= Page_size
    <3>1. Bhsize_wosize(w) \in Nat
      BY RequestIs
    <3> QED
      BY <2>1, <2>2, <2>3, <3>1, ChunkSizeIs
  <2> QED
    BY <2>2, <2>3, <2>4, ExpandMap
<1>2. ASSUME NEW w \in Wosizes, AllocFound(w) PROVE MapInv'
  <2>1. SettingsInv' /\ UNCHANGED heapVars
    BY <1>2 DEF AllocFound, CountBlock, settings, SettingsInv, MapInv
  <2> QED
    BY <2>1, MapKept
<1>3. ASSUME NEW s \in Speeds, adjust_gc_speed(s[1], s[2]) PROVE MapInv'
  <2>1. SettingsInv' /\ UNCHANGED heapVars
    BY <1>3 DEF adjust_gc_speed, settings, SettingsInv, MapInv
  <2> QED
    BY <2>1, MapKept
<1>4. ASSUME NEW v \in Wishes \cup {gc_get}, gc_set(v) PROVE MapInv'
  <2>1. SettingsInv'
    BY <1>4, SettingsKept DEF MapInv
  <2>2. UNCHANGED heapVars
    BY <1>4 DEF gc_set
  <2> QED
    BY <2>1, <2>2, MapKept
<1>5. CASE MinorCollection \/ GcMajor
  <2>1. SettingsInv' /\ UNCHANGED heapVars
    BY <1>5 DEF MinorCollection, GcMajor, settings, SettingsInv, MapInv
  <2> QED
    BY <2>1, MapKept
<1>6. CASE UNCHANGED vars
  <2>1. SettingsInv' /\ UNCHANGED heapVars
    BY <1>6 DEF vars, settings, SettingsInv, MapInv
  <2> QED
    BY <2>1, MapKept
<1> QED
  BY <1>1, <1>2, <1>3, <1>4, <1>5, <1>6 DEF Next

(* Pages are compared as addresses are.                                    *)
LEMMA PageOf ==
  ASSUME NEW a \in Nat, NEW u \in Nat \ {0}, NEW b \in Nat, Multiple(b, u)
  PROVE  b <= a <=> b \div u <= a \div u
<1>1. PICK q, r : q = a \div u /\ r = a % u
  OBVIOUS
<1>2. q \in Nat /\ u * q <= a /\ a < u * q + u
  BY <1>1, DivIs
<1>3. PICK i \in Nat : b = u * i
  BY DEF Multiple
<1>4. b \div u = i
  <2>1. b = u * i + 0 /\ 0 \in Nat /\ 0 < u
    BY <1>3
  <2> QED
    BY <2>1, DivOf
<1>5. ASSUME i <= q PROVE u * i <= u * q
  BY <1>2, <1>5, Product
<1>6. ASSUME b <= a PROVE i <= q
  <2>1. SUFFICES ASSUME q + 1 <= i PROVE FALSE
    BY <1>2
  <2>2. u * (q + 1) <= u * i /\ u * (q + 1) = u * q + u
    BY <1>2, <2>1, Product
  <2> QED
    BY <1>2, <1>3, <1>6, <2>2
<1>7. u * i \in Nat /\ u * q \in Nat
  BY <1>2
<1> QED
  BY <1>1, <1>2, <1>3, <1>4, <1>5, <1>6, <1>7

(* Rounds of n entries and the rest of the table are the whole of it.      *)
LEMMA SearchIs ==
  ASSUME ChunksEntered, NEW p, NEW n \in Nat \ {0}
  PROVE  Rounds(p, n) \/ Rest(p, n) <=> \E i \in DOMAIN p_table : Within(p, i)
<1>1. PICK N \in Nat : N = Len(p_table) /\ DOMAIN p_table = 1 .. N
  BY DEF ChunksEntered
<1>2. PICK Q, R : Q = N \div n /\ R = N % n
  OBVIOUS
<1>3. Q \in Nat /\ R \in 0 .. n - 1 /\ N = n * Q + R /\ n * Q \in Nat
  <2>1. Q \in Nat /\ R \in 0 .. n - 1 /\ N = n * Q + R
    BY <1>1, <1>2, DivIs
  <2> QED
    BY <2>1
<1>4. Rounds(p, n) => \E i \in 1 .. N : Within(p, i)
  <2>1. SUFFICES ASSUME NEW i \in 1 .. N, i + n - 1 <= N, NEW k \in 0 .. n - 1, Within(p, i + k)
                 PROVE  \E j \in 1 .. N : Within(p, j)
    BY <1>1 DEF Rounds
  <2>2. i + k \in 1 .. N
    BY <1>1, <2>1
  <2> QED
    BY <2>1, <2>2
<1>5. Rest(p, n) => \E i \in 1 .. N : Within(p, i)
  <2>1. SUFFICES ASSUME NEW i \in (N - R) + 1 .. N, Within(p, i) PROVE \E j \in 1 .. N : Within(p, j)
    BY <1>1, <1>2 DEF Rest
  <2>2. i \in 1 .. N
    BY <1>1, <1>3
  <2> QED
    BY <2>1, <2>2
<1>6. ASSUME NEW i \in 1 .. N, Within(p, i) PROVE Rounds(p, n) \/ Rest(p, n)
  <2>1. PICK j \in Nat : j = i - 1
    BY <1>1
  <2>2. PICK q, r : q = j \div n /\ r = j % n
    OBVIOUS
  <2>3. q \in Nat /\ r \in 0 .. n - 1 /\ j = n * q + r /\ n * q \in Nat
    <3>1. q \in Nat /\ r \in 0 .. n - 1 /\ j = n * q + r
      BY <2>2, DivIs
    <3> QED
      BY <3>1
  <2>4. PICK s \in Nat : s = n * q + 1
    BY <2>3
  <2>5. s + r = i /\ s \in 1 .. N
    BY <1>1, <2>1, <2>3, <2>4
  <2>6. CASE s + n - 1 <= N
    <3>1. s % n = 1 % n
      <4>1. CASE n = 1
        BY <4>1, <2>4
      <4>2. CASE n # 1
        <5>1. 1 < n /\ 1 \in Nat
          BY <4>2
        <5>2. (n * q + 1) % n = 1
          BY <2>3, <5>1, DivOf
        <5>3. 1 % n = 1
          <6>1. 1 = n * 0 + 1 /\ 0 \in Nat
            OBVIOUS
          <6> QED
            BY <5>1, <6>1, DivOf
        <5> QED
          BY <2>4, <5>2, <5>3
      <4> QED
        BY <4>1, <4>2
    <3>2. Rounds(p, n)
      BY <1>1, <1>6, <2>3, <2>5, <2>6, <3>1 DEF Rounds
    <3> QED
      BY <3>2
  <2>7. CASE ~ (s + n - 1 <= N)
    <3>1. Q = q
      <4>1. ASSUME q + 1 <= Q PROVE FALSE
        <5>1. n * (q + 1) <= n * Q /\ n * (q + 1) = n * q + n
          BY <1>3, <2>3, <4>1, Product
        <5> QED
          BY <5>1, <1>1, <1>3, <2>3, <2>4, <2>7
      <4>2. ASSUME Q + 1 <= q PROVE FALSE
        <5>1. n * (Q + 1) <= n * q /\ n * (Q + 1) = n * Q + n
          BY <1>3, <2>3, <4>2, Product
        <5> QED
          BY <5>1, <1>1, <1>3, <2>1, <2>3
      <4> QED
        BY <1>3, <2>3, <4>1, <4>2
    <3>2. i \in (N - R) + 1 .. N
      BY <3>1, <1>1, <1>3, <2>1, <2>3
    <3>3. Rest(p, n)
      BY <1>1, <1>2, <1>6, <3>2 DEF Rest
    <3> QED
      BY <3>3
  <2> QED
    BY <1>1, <2>4, <2>6, <2>7
<1> QED
  BY <1>1, <1>4, <1>5, <1>6

(* What a search of the whole table finds.                                 *)
LEMMA FoundIs ==
  ASSUME PolicyOK, ChunksApart, ChunksEntered, NEW a \in Nat
  PROVE  (\E i \in DOMAIN p_table : Within(RawPage(a), i))
           <=> \E c \in DOMAIN chunk_size : c <= a /\ a < c + chunk_size[c]
<1>1. ASSUME NEW i \in DOMAIN p_table, NEW c \in DOMAIN chunk_size, p_table[i] = Entry(c, chunk_size[c])
      PROVE  Within(RawPage(a), i) <=> c <= a /\ a < c + chunk_size[c]
  <2>1. PICK u, size : u \in Nat \ {0} /\ u = Page_size /\ size = chunk_size[c]
    BY DEF PolicyOK
  <2>2. c \in Nat /\ Multiple(c, u) /\ size \in Nat /\ Multiple(size, u)
    BY <2>1 DEF ChunksApart, IsChunk
  <2>3. PICK d \in Nat : d = c + size
    BY <2>2
  <2>4. Multiple(d, u)
    BY <2>1, <2>2, <2>3, MultipleSum
  <2>5. (c <= a <=> c \div u <= a \div u) /\ (d <= a <=> d \div u <= a \div u)
    BY <2>1, <2>2, <2>4, PageOf
  <2>6. a \div u \in Nat /\ d \div u \in Nat
    BY <2>1, <2>3, DivIs
  <2>7. p_table[i].low = c \div u /\ p_table[i].high = d \div u /\ RawPage(a) = a \div u
    BY <1>1, <2>1, <2>3 DEF Entry, RawPage
  <2>8. d <= a <=> ~ (a < d)
    BY <2>3
  <2>9. (d \div u <= a \div u) <=> ~ (a \div u < d \div u)
    BY <2>6
  <2> QED
    BY <2>1, <2>3, <2>5, <2>7, <2>8, <2>9 DEF Within
<1>2. \A i \in DOMAIN p_table : \E c \in DOMAIN chunk_size : p_table[i] = Entry(c, chunk_size[c])
  BY DEF ChunksEntered
<1>3. \A c \in DOMAIN chunk_size : \E i \in DOMAIN p_table : p_table[i] = Entry(c, chunk_size[c])
  BY DEF ChunksEntered
<1> QED
  BY <1>1, <1>2, <1>3

LEMMA MapMeans ==
  ASSUME PolicyOK, MapInv
  PROVE  HeapMapped
<1>1. ChunksInOrder
  <2>1. PICK n \in Nat : n = Len(chunks) /\ DOMAIN chunks = 1 .. n
    BY DEF MapInv, ChunksListed
  <2>2. ASSUME NEW i \in 1 .. Len(chunks) - 1 PROVE chunks[i] + chunk_size[chunks[i]] <= chunks[i + 1]
    <3>1. i \in 1 .. n /\ i + 1 \in 1 .. n /\ i < i + 1
      BY <2>1
    <3>2. chunks[i] < chunks[i + 1]
      BY <2>1, <3>1 DEF MapInv, ChunksListed, Rising
    <3>3. chunks[i] \in DOMAIN chunk_size /\ chunks[i + 1] \in DOMAIN chunk_size
      <4>1. chunks[i] \in ToSet(chunks) /\ chunks[i + 1] \in ToSet(chunks)
        BY <2>1, <3>1 DEF ToSet
      <4> QED
        BY <4>1 DEF MapInv, ChunksListed
    <3> QED
      BY <3>2, <3>3 DEF MapInv, ChunksApart
  <2>3. stat_heap_size = MapThenSumSet(LAMBDA c : chunk_size[c], DOMAIN chunk_size)
    BY DEF MapInv, SumOf
  <2> QED
    BY <2>2, <2>3 DEF ChunksInOrder, MapInv, ChunksListed
<1>2. PagesKnown
  <2>1. SUFFICES ASSUME NEW w \in 0 .. Wsize_bsize((MaxPage + 2) * Page_size), NEW a, a = w * WordSize
                 PROVE  LET inHeap == \E c \in DOMAIN chunk_size : c <= a /\ a < c + chunk_size[c]
                        IN /\ p_table_in_heap(a) = inHeap
                           /\ p_table_in_heap_16(a) = inHeap
                           /\ p_table_in_heap_simple(a) = inHeap
    BY DEF PagesKnown
  <2>2. a \in Nat
    <3>1. WordSize \in Nat \ {0} /\ (MaxPage + 2) * Page_size \in Nat
      BY DEF PolicyOK
    <3>2. Wsize_bsize((MaxPage + 2) * Page_size) \in Nat
      BY <3>1, DivIs DEF Wsize_bsize
    <3>3. w \in Nat
      BY <3>2
    <3> QED
      BY <2>1, <3>1, <3>3
  <2>3. (\E i \in DOMAIN p_table : Within(RawPage(a), i))
          <=> \E c \in DOMAIN chunk_size : c <= a /\ a < c + chunk_size[c]
    BY <2>2, FoundIs DEF MapInv
  <2>4. Rounds(RawPage(a), Unrolled) \/ Rest(RawPage(a), Unrolled)
          <=> \E i \in DOMAIN p_table : Within(RawPage(a), i)
    <3>1. Unrolled \in Nat \ {0}
      BY DEF PolicyOK
    <3> QED
      BY <3>1, SearchIs DEF MapInv
  <2>5. Rounds(RawPage(a), UnrolledShort) \/ Rest(RawPage(a), UnrolledShort)
          <=> \E i \in DOMAIN p_table : Within(RawPage(a), i)
    <3>1. UnrolledShort \in Nat \ {0}
      BY DEF PolicyOK
    <3> QED
      BY <3>1, SearchIs DEF MapInv
  <2> QED
    BY Zenon, <2>3, <2>4, <2>5 DEF p_table_in_heap, p_table_in_heap_16, p_table_in_heap_simple
<1> QED
  BY <1>1, <1>2 DEF HeapMapped

(* The chunks, the list through them, heap_end, stat_heap_size and every   *)
(* way to search the page table agree, whatever the order in which memory  *)
(* is given to expand_heap.                                                *)
THEOREM HeapMappedTheorem ==
  ASSUME PolicyOK
  PROVE  Spec => []HeapMapped
<1>1. Init => MapInv
  BY MapInit
<1>2. MapInv /\ [Next]_vars => MapInv'
  BY MapNext
<1>3. MapInv => HeapMapped
  BY MapMeans
<1> QED
  BY <1>1, <1>2, <1>3, PTL DEF Spec
=============================================================================
