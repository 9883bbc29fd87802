-------------------------- MODULE FreeList_proofs --------------------------
(***************************************************************************)
(* The free list is sorted, complete and merged, the blocks tile the       *)
(* chunks, and no block in use is touched: for heaps of every size.        *)
(***************************************************************************)
EXTENDS FreeList, WellFoundedInduction, TLAPS

(* What malloc returns: chunks of at least two words, with a chunk head    *)
(* between any two of them.                                                *)
ChunksOK ==
  /\ MaxWord \in Nat /\ MaxWosize \in Nat \ {0}
  /\ FirstChunk \in Chunks
  /\ \A c \in Chunks : c[1] \in Word /\ c[2] \in Word /\ c[1] < c[2]
  /\ \A c, d \in Chunks : c # d => c[2] + 1 < d[1] \/ d[2] + 1 < c[1]

(* No chunk comes behind the sweep and beyond the last free block:         *)
(* fl_add_block would not move fl_merge to it.                             *)
NoneBehind ==
  \A c \in chunks' \ chunks :
    sweeping => c[1] >= gc_sweep_hp \/ \E b \in Free : c[1] < b

-----------------------------------------------------------------------------
(* The invariant, of the list as a record.                                 *)

Record == [size : [Word -> 0 .. MaxWord \cup {Null}],
           color : [Word -> {"White", "Black", "Blue"}],
           next : [Word \cup {Fl_head} -> Word \cup {Null}],
           fl_prev : Word \cup {Fl_head}, fl_merge : Word \cup {Fl_head}]

BlocksOf(sz) == {b \in Word : sz[b] # Null}
FreeIn(s)    == {b \in BlocksOf(s.size) : s.color[b] = "Blue"}
ListIn(s)    == FreeIn(s) \cup {Fl_head}
End(sz, b)   == b + 1 + sz[b]

(* Each link leads to the next block of F.                                 *)
LinksTo(F, b, q) ==
  /\ q = Null => \A x \in F : x <= b
  /\ q # Null => q \in F /\ b < q /\ \A x \in F : x <= b \/ q <= x

LinksOn(nx, F) == \A b \in F \cup {Fl_head} : LinksTo(F, b, nx[b])

(* A block lies in a chunk, and ends where the next one begins or where    *)
(* the chunk ends.                                                         *)
Fits(sz, b, c) ==
  /\ c[1] <= b /\ End(sz, b) <= c[2] + 1
  /\ End(sz, b) = c[2] + 1 \/ End(sz, b) \in BlocksOf(sz)

Tiles(sz, cs) ==
  /\ \A c \in cs : c[1] \in BlocksOf(sz)
  /\ \A b \in BlocksOf(sz) : \E c \in cs : Fits(sz, b, c)
  /\ \A b, x \in BlocksOf(sz) : b < x => End(sz, b) <= x

Merged(sz, F) == \A b \in F : End(sz, b) \notin F

RecordInv(s, cs) ==
  /\ s \in Record
  /\ LinksOn(s.next, FreeIn(s)) /\ Tiles(s.size, cs) /\ Merged(s.size, FreeIn(s))
  /\ s.fl_prev \in ListIn(s) /\ s.fl_merge \in ListIn(s)

(* fl_merge is the last on the list before hp.                             *)
MergeAt(s, hp) == s.fl_merge < hp /\ (s.next[s.fl_merge] = Null \/ s.next[s.fl_merge] >= hp)

SweepAt(cs, hp) == \E c \in cs : c[1] <= hp /\ hp <= c[2] + 1

ListInv ==
  /\ RecordInv(List, chunks)
  /\ chunks \subseteq Chunks /\ chunks # {} /\ sweeping \in BOOLEAN /\ gc_sweep_hp \in 0 .. MaxWord + 1
  /\ sweeping => MergeAt(List, gc_sweep_hp) /\ SweepAt(chunks, gc_sweep_hp)

-----------------------------------------------------------------------------
(* Numbers.                                                                *)

LEMMA Least ==
  ASSUME NEW T \in SUBSET Nat, T # {}
  PROVE  \E m \in T : \A n \in T : m <= n
<1> DEFINE R == {ss \in Nat \X Nat : ss[1] < ss[2]}
<1>1. IsWellFoundedOn(R, Nat)
  BY NatLessThanWellFounded DEF OpToRel
<1> HIDE DEF R
<1>2. PICK m \in T : \A n \in T : ~ (<<n, m>> \in R)
  BY <1>1, WFMin
<1>3. \A n \in T : <<n, m>> \in R <=> n < m
  BY DEF R
<1>4. \A n \in T : ~ (n < m) /\ n \in Nat /\ m \in Nat
  BY <1>2, <1>3
<1>5. \A n \in T : m <= n
  BY <1>4
<1> QED
  BY <1>5

LEMMA Greatest ==
  ASSUME NEW N \in Nat, NEW T \in SUBSET (0 .. N), T # {}
  PROVE  \E m \in T : \A n \in T : n <= m
<1> DEFINE U == {k \in Nat : \E n \in T : k = N - n}
<1>1. U \in SUBSET Nat /\ U # {}
  <2>1. PICK n \in T : TRUE
    OBVIOUS
  <2>2. N - n \in Nat
    OBVIOUS
  <2> QED
    BY <2>1, <2>2
<1>2. PICK k \in U : \A l \in U : k <= l
  BY <1>1, Least
<1>3. PICK m \in T : k = N - m
  OBVIOUS
<1>4. ASSUME NEW n \in T PROVE n <= m
  <2>1. N - n \in Nat
    OBVIOUS
  <2>2. N - n \in U
    BY <2>1
  <2>3. k <= N - n
    BY <1>2, <2>2
  <2>4. m \in Nat /\ n \in Nat
    OBVIOUS
  <2> QED
    BY <2>3, <2>4, <1>3
<1> QED
  BY <1>4

-----------------------------------------------------------------------------
(* Walks.                                                                  *)

Spot == Word \cup {Fl_head}
Links == [Spot -> Word \cup {Null}]

(* A walk along the links, as long as there is one or n steps.             *)
IsWalk(nx, p, n, w) ==
  /\ w \in Seq(Spot) /\ Len(w) \in 1 .. n + 1 /\ w[1] = p
  /\ \A i \in 1 .. Len(w) - 1 : w[i + 1] = nx[w[i]] /\ nx[w[i]] # Null
  /\ nx[w[Len(w)]] = Null \/ Len(w) = n + 1

OneMore(nx, w) == IF nx[Last(w)] = Null THEN w ELSE Append(w, nx[Last(w)])

LEMMA WalkStep ==
  ASSUME NEW nx \in Links, NEW p \in Spot, NEW n \in Nat, NEW w, IsWalk(nx, p, n, w)
  PROVE  IsWalk(nx, p, n + 1, OneMore(nx, w))
<1>1. w \in Seq(Spot) /\ Len(w) \in Nat /\ Len(w) >= 1 /\ Last(w) = w[Len(w)] /\ w[Len(w)] \in Spot
  BY DEF IsWalk, Last
<1>2. CASE nx[Last(w)] = Null
  BY <1>1, <1>2 DEF IsWalk, OneMore
<1>3. CASE nx[Last(w)] # Null
  <2>1. PICK q \in Word : q = nx[Last(w)]
    BY <1>1, <1>3 DEF Links
  <2>2. PICK v : v = Append(w, q)
    OBVIOUS
  <2>3. v \in Seq(Spot) /\ Len(v) = Len(w) + 1 /\ (\A i \in 1 .. Len(w) : v[i] = w[i]) /\ v[Len(w) + 1] = q
    BY <1>1, <2>1, <2>2 DEF Spot
  <2>4. Len(w) = n + 1
    BY <1>1, <1>3 DEF IsWalk
  <2>5. \A i \in 1 .. Len(v) - 1 : v[i + 1] = nx[v[i]] /\ nx[v[i]] # Null
    <3>1. ASSUME NEW i \in 1 .. Len(w) PROVE v[i + 1] = nx[v[i]] /\ nx[v[i]] # Null
      <4>1. CASE i = Len(w)
        BY <4>1, <1>1, <1>3, <2>1, <2>3
      <4>2. CASE i # Len(w)
        <5>1. i \in 1 .. Len(w) - 1 /\ i + 1 \in 1 .. Len(w)
          BY <4>2, <1>1
        <5> QED
          BY <5>1, <2>3 DEF IsWalk
      <4> QED
        BY <4>1, <4>2
    <3> QED
      BY <3>1, <2>3, <1>1
  <2>6. OneMore(nx, w) = v
    BY <1>3, <2>1, <2>2 DEF OneMore
  <2>7. v[1] = p /\ Len(v) \in 1 .. (n + 1) + 1 /\ Len(v) = (n + 1) + 1
    BY <1>1, <2>3, <2>4 DEF IsWalk
  <2>8. IsWalk(nx, p, n + 1, v)
    BY <2>3, <2>5, <2>7 DEF IsWalk
  <2> QED
    BY <2>6, <2>8
<1> QED
  BY <1>2, <1>3

(* The walk of n steps, as a function of n, up to some number of steps.    *)
IsRun(nx, p, n, f) ==
  /\ DOMAIN f = 0 .. n /\ f = [k \in 0 .. n |-> f[k]]
  /\ f[0] = <<p>> /\ \A k \in 1 .. n : f[k] = OneMore(nx, f[k - 1])

LEMMA RunExists ==
  ASSUME NEW nx, NEW p, NEW n \in Nat
  PROVE  \E f : IsRun(nx, p, n, f)
<1> DEFINE T == {k \in Nat : ~ \E f : IsRun(nx, p, k, f)}
<1>1. SUFFICES ASSUME T # {} PROVE FALSE
  OBVIOUS
<1>2. PICK m \in T : \A k \in T : m <= k
  BY <1>1, Least
<1>3. CASE m = 0
  <2>1. IsRun(nx, p, 0, [k \in 0 .. 0 |-> <<p>>])
    BY DEF IsRun
  <2> QED
    BY <1>3, <2>1
<1>4. CASE m # 0
  <2>1. m - 1 \in Nat /\ ~ (m <= m - 1)
    BY <1>4
  <2>2. PICK f : IsRun(nx, p, m - 1, f)
    BY <1>2, <2>1
  <2>3. PICK g : g = [k \in 0 .. m |-> IF k = m THEN OneMore(nx, f[m - 1]) ELSE f[k]]
    OBVIOUS
  <2>4. DOMAIN g = 0 .. m /\ g = [k \in 0 .. m |-> g[k]] /\ g[0] = <<p>>
    BY <2>1, <2>2, <2>3 DEF IsRun
  <2>5. ASSUME NEW k \in 1 .. m PROVE g[k] = OneMore(nx, g[k - 1])
    <3>1. k - 1 \in 0 .. m /\ k - 1 # m /\ k \in 0 .. m
      BY <2>1
    <3>2. g[k - 1] = f[k - 1]
      BY <2>3, <3>1
    <3>3. CASE k = m
      BY <2>3, <3>1, <3>2, <3>3
    <3>4. CASE k # m
      <4>1. k \in 1 .. m - 1
        BY <3>4, <2>1
      <4>2. f[k] = OneMore(nx, f[k - 1])
        BY <4>1, <2>2 DEF IsRun
      <4> QED
        BY <2>3, <3>1, <3>2, <3>4, <4>2
    <3> QED
      BY <3>3, <3>4
  <2>6. IsRun(nx, p, m, g)
    BY <2>4, <2>5 DEF IsRun
  <2> QED
    BY <2>6
<1> QED
  BY <1>3, <1>4

LEMMA RunWalks ==
  ASSUME NEW nx \in Links, NEW p \in Spot, NEW n \in Nat, NEW f, IsRun(nx, p, n, f)
  PROVE  IsWalk(nx, p, n, f[n])
<1> DEFINE T == {k \in 0 .. n : ~ IsWalk(nx, p, k, f[k])}
<1>1. SUFFICES ASSUME T # {} PROVE FALSE
  OBVIOUS
<1>2. T \in SUBSET Nat
  OBVIOUS
<1>3. PICK m \in T : \A k \in T : m <= k
  BY <1>1, <1>2, Least
<1>4. CASE m = 0
  <2>1. IsWalk(nx, p, 0, <<p>>)
    BY DEF IsWalk
  <2> QED
    BY <1>4, <2>1 DEF IsRun
<1>5. CASE m # 0
  <2>1. m - 1 \in Nat /\ m - 1 \in 0 .. n /\ ~ (m <= m - 1) /\ m \in 1 .. n
    BY <1>5
  <2>2. IsWalk(nx, p, m - 1, f[m - 1])
    BY <1>3, <2>1
  <2>3. IsWalk(nx, p, (m - 1) + 1, OneMore(nx, f[m - 1]))
    BY <2>1, <2>2, WalkStep
  <2>4. f[m] = OneMore(nx, f[m - 1])
    BY <2>1 DEF IsRun
  <2>5. (m - 1) + 1 = m
    BY <2>1
  <2>6. IsWalk(nx, p, m, f[m])
    BY <2>3, <2>4, <2>5
  <2> QED
    BY <2>6, <1>3
<1> QED
  BY <1>4, <1>5

LEMMA WalkIs ==
  ASSUME ChunksOK, NEW nx \in Links, NEW p \in Spot
  PROVE  IsWalk(nx, p, MaxWord, Walk(nx, p))
<1> DEFINE Steps(g) == [n \in 0 .. MaxWord |->
                          IF n = 0 THEN <<p>>
                          ELSE LET w == g[n - 1]
                                   q == nx[Last(w)]
                               IN IF q = Null THEN w ELSE Append(w, q)]
<1> DEFINE walk == CHOOSE g : g = Steps(g)
<1>1. MaxWord \in Nat
  BY DEF ChunksOK
<1>2. Walk(nx, p) = walk[MaxWord]
  BY DEF Walk
<1>3. PICK f : IsRun(nx, p, MaxWord, f)
  BY <1>1, RunExists
<1>4. f = Steps(f)
  <2>1. ASSUME NEW n \in 0 .. MaxWord PROVE f[n] = Steps(f)[n]
    <3>1. CASE n = 0
      BY <1>3, <3>1 DEF IsRun
    <3>2. CASE n # 0
      <4>1. n \in 1 .. MaxWord
        BY <3>2, <1>1
      <4> QED
        BY <1>3, <3>2, <4>1 DEF IsRun, OneMore
    <3> QED
      BY <3>1, <3>2
  <2> QED
    BY <2>1, <1>3 DEF IsRun
<1>5. walk = Steps(walk)
  BY <1>4
<1>6. PICK g : g = walk
  OBVIOUS
<1>7. g = Steps(g) /\ Walk(nx, p) = g[MaxWord]
  BY ZenonT(40), <1>2, <1>5, <1>6
<1>8. IsRun(nx, p, MaxWord, g)
  <2>1. ASSUME NEW k \in 1 .. MaxWord PROVE g[k] = OneMore(nx, g[k - 1])
    <3>1. k \in 0 .. MaxWord /\ k # 0
      BY <1>1
    <3>2. g[k] = Steps(g)[k]
      BY <1>7
    <3> QED
      BY <3>1, <3>2 DEF OneMore
  <2>2. DOMAIN g = 0 .. MaxWord /\ g = [k \in 0 .. MaxWord |-> g[k]] /\ g[0] = <<p>>
    BY <1>1, <1>7
  <2> QED
    BY <2>1, <2>2 DEF IsRun
<1> HIDE DEF walk, Steps
<1> QED
  BY <1>1, <1>7, <1>8, RunWalks

(* The links nx stay in L and lead upwards.                                *)
Upwards(nx, L) == \A b \in L : nx[b] # Null => nx[b] \in L /\ b < nx[b]

LEMMA WalkOn ==
  ASSUME ChunksOK, NEW nx \in Links, NEW L \in SUBSET Spot, NEW p \in L, Upwards(nx, L), NEW w, w = Walk(nx, p)
  PROVE  /\ w \in Seq(Spot) /\ Len(w) \in Nat \ {0} /\ w[1] = p /\ Last(w) = w[Len(w)]
         /\ \A i \in 1 .. Len(w) : w[i] \in L
         /\ \A i \in 1 .. Len(w) - 1 : w[i + 1] = nx[w[i]] /\ nx[w[i]] # Null
         /\ nx[w[Len(w)]] = Null
<1>1. IsWalk(nx, p, MaxWord, w) /\ MaxWord \in Nat
  BY WalkIs DEF ChunksOK
<1>2. w \in Seq(Spot) /\ Len(w) \in Nat \ {0} /\ w[1] = p /\ Last(w) = w[Len(w)]
  BY <1>1 DEF IsWalk, Last
<1>3. \A i \in 1 .. Len(w) - 1 : w[i + 1] = nx[w[i]] /\ nx[w[i]] # Null
  BY <1>1 DEF IsWalk
<1>4. Spot \subseteq Nat
  BY <1>1 DEF Spot, Word, Fl_head
<1>5. \A i \in 1 .. Len(w) : w[i] \in L /\ i - 1 <= w[i]
  <2> DEFINE T == {i \in 1 .. Len(w) : ~ (w[i] \in L /\ i - 1 <= w[i])}
  <2>1. SUFFICES ASSUME T # {} PROVE FALSE
    OBVIOUS
  <2>2. T \in SUBSET Nat
    BY <1>2
  <2>3. PICK m \in T : \A i \in T : m <= i
    BY <2>1, <2>2, Least
  <2>4. m \in 1 .. Len(w) /\ ~ (w[m] \in L /\ m - 1 <= w[m])
    BY <2>3
  <2>5. CASE m = 1
    <3>1. p \in Nat
      BY <1>4
    <3> QED
      BY <2>4, <2>5, <1>2, <3>1
  <2>6. CASE m # 1
    <3>1. m - 1 \in 1 .. Len(w) - 1 /\ m - 1 \in 1 .. Len(w) /\ ~ (m <= m - 1) /\ (m - 1) + 1 = m
      BY <2>4, <2>6, <1>2
    <3>2. w[m - 1] \in L /\ (m - 1) - 1 <= w[m - 1]
      BY <2>3, <3>1
    <3>3. w[m] = nx[w[m - 1]] /\ nx[w[m - 1]] # Null
      BY <1>3, <3>1
    <3>4. w[m] \in L /\ w[m - 1] < w[m]
      BY <3>2, <3>3 DEF Upwards
    <3>5. w[m] \in Nat /\ w[m - 1] \in Nat /\ m \in Nat
      <4>1. \A x \in L : x \in Nat
        BY <1>4
      <4>2. m \in Nat
        BY <2>2, <2>3
      <4> QED
        BY <3>2, <3>4, <4>1, <4>2
    <3>6. m - 1 <= w[m]
      BY <3>2, <3>4, <3>5
    <3> QED
      BY <2>4, <3>4, <3>6
  <2> QED
    BY <2>5, <2>6
<1>6. nx[w[Len(w)]] = Null
  <2>1. SUFFICES ASSUME nx[w[Len(w)]] # Null PROVE FALSE
    OBVIOUS
  <2>2. Len(w) = MaxWord + 1
    BY <1>1, <2>1 DEF IsWalk
  <2>3. w[Len(w)] \in L /\ Len(w) - 1 <= w[Len(w)]
    BY <1>2, <1>5
  <2>4. nx[w[Len(w)]] \in Word /\ w[Len(w)] < nx[w[Len(w)]]
    BY <2>1, <2>3 DEF Upwards, Links
  <2>5. w[Len(w)] \in Nat /\ MaxWord <= w[Len(w)]
    <3>1. \A x \in L : x \in Nat
      BY <1>4
    <3> QED
      BY <2>2, <2>3, <3>1, <1>1
  <2> QED
    BY <2>4, <2>5, <1>1 DEF Word
<1> QED
  BY <1>2, <1>3, <1>5, <1>6

(* From p the links of the list lead through the free blocks behind p, to  *)
(* the last of them.                                                       *)
LEMMA ListWalk ==
  ASSUME ChunksOK, NEW s \in Record, LinksOn(s.next, FreeIn(s)), NEW p \in ListIn(s), NEW w, w = Walk(s.next, p)
  PROVE  /\ Len(w) \in Nat \ {0} /\ w[1] = p /\ Last(w) = w[Len(w)]
         /\ \A i \in 1 .. Len(w) : w[i] \in ListIn(s)
         /\ \A i \in 1 .. Len(w) - 1 : w[i + 1] = s.next[w[i]] /\ s.next[w[i]] # Null
         /\ s.next[w[Len(w)]] = Null
         /\ \A x \in FreeIn(s) : p < x => \E i \in 1 .. Len(w) : w[i] = x
<1>1. PICK nx : nx = s.next
  OBVIOUS
<1>2. PICK L : L = ListIn(s)
  OBVIOUS
<1>3. nx \in Links /\ L \in SUBSET Spot /\ p \in L
  BY <1>1, <1>2 DEF Record, Links, Spot, ListIn, FreeIn, BlocksOf
<1>4. Upwards(nx, L)
  BY <1>1, <1>2 DEF Upwards, LinksOn, LinksTo, ListIn
<1>5. /\ w \in Seq(Spot) /\ Len(w) \in Nat \ {0} /\ w[1] = p /\ Last(w) = w[Len(w)]
      /\ \A i \in 1 .. Len(w) : w[i] \in L
      /\ \A i \in 1 .. Len(w) - 1 : w[i + 1] = nx[w[i]] /\ nx[w[i]] # Null
      /\ nx[w[Len(w)]] = Null
  BY <1>1, <1>3, <1>4, WalkOn
<1>6. Spot \subseteq Nat /\ FreeIn(s) \subseteq Nat
  BY DEF ChunksOK, Spot, Word, Fl_head, FreeIn, BlocksOf
<1>7. ASSUME NEW x \in FreeIn(s), p < x PROVE \E i \in 1 .. Len(w) : w[i] = x
  <2> DEFINE T == {i \in 1 .. Len(w) : w[i] <= x}
  <2>1. T \in SUBSET (0 .. Len(w)) /\ T # {}
    <3>1. 1 \in T
      BY <1>3, <1>5, <1>6, <1>7
    <3> QED
      BY <3>1, <1>5
  <2>2. PICK m \in T : \A i \in T : i <= m
    BY <2>1, <1>5, Greatest
  <2>3. m \in 1 .. Len(w) /\ w[m] <= x /\ w[m] \in L
    BY <2>2, <1>5
  <2>4. LinksTo(FreeIn(s), w[m], nx[w[m]])
    BY <2>3, <1>1, <1>2 DEF LinksOn, ListIn
  <2>5. w[m] \in Nat /\ x \in Nat
    BY <2>3, <1>3, <1>6
  <2>6. CASE m = Len(w)
    <3>1. x <= w[m]
      BY <2>4, <2>6, <1>5 DEF LinksTo
    <3> QED
      BY <2>3, <2>5, <3>1
  <2>7. CASE m # Len(w)
    <3>1. m \in 1 .. Len(w) - 1 /\ m + 1 \in 1 .. Len(w) /\ ~ (m + 1 <= m)
      BY <2>3, <2>7, <1>5
    <3>2. w[m + 1] = nx[w[m]] /\ nx[w[m]] # Null
      BY <3>1, <1>5
    <3>3. ~ (w[m + 1] <= x)
      BY <2>2, <3>1
    <3>4. x <= w[m]
      BY <2>4, <3>2, <3>3 DEF LinksTo
    <3> QED
      BY <2>3, <2>5, <3>4
  <2> QED
    BY <2>6, <2>7
<1> QED
  BY <1>1, <1>2, <1>5, <1>7

(* What a search finds is on the list, behind its predecessor.             *)
LEMMA FitIs ==
  ASSUME ChunksOK, NEW s \in Record, LinksOn(s.next, FreeIn(s)), s.fl_prev \in ListIn(s),
         NEW wo \in Nat, NEW fit \in FirstFit(s, wo)
  PROVE  /\ fit.prev \in ListIn(s) /\ fit.cur = s.next[fit.prev]
         /\ fit.cur # Null /\ s.size[fit.cur] >= wo
<1>1. PICK behind : behind = Walk(s.next, s.fl_prev)
  OBVIOUS
<1>2. PICK all : all = Walk(s.next, Fl_head)
  OBVIOUS
<1> DEFINE fits(w) == {n \in 2 .. Len(w) : s.size[w[n]] >= wo}
<1> DEFINE Found(w) ==
      \E n \in fits(w) : fit = [prev |-> w[n - 1], cur |-> w[n]]
<1> DEFINE before == {n \in fits(all) : \A k \in 1 .. n - 1 : all[k] # s.fl_prev}
<1>3. \A T \in SUBSET Nat : T # {} => Min(T) \in T
  <2>1. SUFFICES ASSUME NEW T \in SUBSET Nat, T # {} PROVE Min(T) \in T
    OBVIOUS
  <2>2. PICK m \in T : \A n \in T : m <= n
    BY <2>1, Least
  <2> QED
    BY <2>2 DEF Min
<1>4. \A w : fits(w) \in SUBSET Nat
  OBVIOUS
<1>5. Found(behind) \/ Found(all)
  <2>1. CASE fits(behind) # {}
    <3>1. Min(fits(behind)) \in fits(behind)
      BY <1>3, <1>4, <2>1
    <3>2. FirstFit(s, wo) = {[prev |-> behind[Min(fits(behind)) - 1], cur |-> behind[Min(fits(behind))]]}
      BY <1>1, <2>1, ZenonT(40) DEF FirstFit
    <3> QED
      BY <3>1, <3>2
  <2>2. CASE fits(behind) = {} /\ before # {}
    <3>1. before \in SUBSET fits(all)
      OBVIOUS
    <3>2. Min(before) \in before
      BY <1>3, <1>4, <2>2, <3>1
    <3>3. FirstFit(s, wo) = {[prev |-> all[Min(before) - 1], cur |-> all[Min(before)]]}
      BY <1>1, <1>2, <2>2, ZenonT(40) DEF FirstFit
    <3> QED
      BY <3>1, <3>2, <3>3
  <2>3. CASE fits(behind) = {} /\ before = {}
    BY <1>1, <1>2, <2>3 DEF FirstFit
  <2> QED
    BY <2>1, <2>2, <2>3
<1>6. ASSUME NEW p \in ListIn(s), NEW w, w = Walk(s.next, p), Found(w)
      PROVE  /\ fit.prev \in ListIn(s) /\ fit.cur = s.next[fit.prev]
             /\ fit.cur # Null /\ s.size[fit.cur] >= wo
  <2>1. PICK n \in fits(w) : fit = [prev |-> w[n - 1], cur |-> w[n]]
    BY <1>6
  <2>2. /\ Len(w) \in Nat \ {0}
        /\ \A i \in 1 .. Len(w) : w[i] \in ListIn(s)
        /\ \A i \in 1 .. Len(w) - 1 : w[i + 1] = s.next[w[i]] /\ s.next[w[i]] # Null
    BY SMTT(30), <1>6, ListWalk
  <2>3. n - 1 \in 1 .. Len(w) - 1 /\ n - 1 \in 1 .. Len(w) /\ (n - 1) + 1 = n /\ s.size[w[n]] >= wo
    BY <2>1, <2>2
  <2> QED
    BY <2>1, <2>2, <2>3
<1>7. Fl_head \in ListIn(s)
  BY DEF ListIn
<1> QED
  BY <1>1, <1>2, <1>5, <1>6, <1>7

-----------------------------------------------------------------------------
(* Blocks and chunks.                                                      *)

Sizes == [Word -> 0 .. MaxWord \cup {Null}]

LEMMA BlockFacts ==
  ASSUME ChunksOK, NEW sz \in Sizes, NEW cs \in SUBSET Chunks, Tiles(sz, cs), NEW b \in BlocksOf(sz)
  PROVE  /\ b \in Word /\ b \in Nat /\ sz[b] \in Nat /\ End(sz, b) \in Nat /\ b < End(sz, b)
         /\ End(sz, b) <= MaxWord + 1
<1>1. b \in Word /\ b \in Nat /\ sz[b] \in Nat
  BY DEF ChunksOK, Sizes, BlocksOf, Word
<1>2. PICK c \in cs : Fits(sz, b, c)
  BY DEF Tiles
<1>3. c[2] \in Nat /\ c[2] <= MaxWord
  BY DEF ChunksOK, Word
<1> QED
  BY <1>1, <1>2, <1>3 DEF End, Fits, ChunksOK

LEMMA ChunkFacts ==
  ASSUME ChunksOK, NEW c \in Chunks
  PROVE  /\ c[1] \in Word /\ c[2] \in Word /\ c[1] \in Nat /\ c[2] \in Nat /\ c[1] < c[2]
         /\ \A d \in Chunks : c # d => c[2] + 1 < d[1] \/ d[2] + 1 < c[1]
  BY DEF ChunksOK, Word

(* The block that follows one of a chunk is in the same chunk, and first   *)
(* in none.                                                                *)
LEMMA SameChunk ==
  ASSUME ChunksOK, NEW sz \in Sizes, NEW cs \in SUBSET Chunks, Tiles(sz, cs),
         NEW b \in BlocksOf(sz), NEW c \in cs, Fits(sz, b, c), End(sz, b) \in BlocksOf(sz)
  PROVE  Fits(sz, End(sz, b), c) /\ \A d \in cs : d[1] # End(sz, b)
<1>1. PICK x : x = End(sz, b)
  OBVIOUS
<1>2. PICK e \in cs : Fits(sz, x, e)
  BY <1>1 DEF Tiles
<1>3. x \in Nat /\ b \in Nat /\ b < x /\ End(sz, x) \in Nat /\ x < End(sz, x)
  BY <1>1, BlockFacts
<1>4. c[1] <= b /\ x <= c[2] + 1 /\ e[1] <= x /\ End(sz, x) <= e[2] + 1
  BY <1>1, <1>2 DEF Fits
<1>5. e = c
  BY <1>3, <1>4, ChunkFacts
<1>6. ASSUME NEW d \in cs PROVE d[1] # x
  BY <1>3, <1>4, ChunkFacts
<1> QED
  BY <1>1, <1>2, <1>5, <1>6

(* The right end of a block becomes a block of its own.                    *)
LEMMA SplitTiles ==
  ASSUME ChunksOK, NEW sz \in Sizes, NEW cs \in SUBSET Chunks, Tiles(sz, cs),
         NEW b \in BlocksOf(sz), NEW wo \in Nat, NEW r \in Nat, sz[b] = r + wo + 1, NEW n, n = b + r + 1,
         NEW u, u = [sz EXCEPT ![b] = r, ![n] = wo]
  PROVE  /\ u \in Sizes /\ Tiles(u, cs) /\ n \notin BlocksOf(sz) /\ n \in Word
         /\ BlocksOf(u) = BlocksOf(sz) \cup {n} /\ End(u, b) = n /\ End(u, n) = End(sz, b)
<1>1. /\ b \in Word /\ b \in Nat /\ End(sz, b) \in Nat /\ End(sz, b) <= MaxWord + 1
      /\ End(sz, b) = b + 1 + sz[b] /\ MaxWord \in Nat
  BY BlockFacts DEF End, ChunksOK
<1>2. n \in Word /\ n \in Nat /\ b < n /\ n < End(sz, b)
  BY <1>1 DEF Word
<1>3. r \in 0 .. MaxWord /\ wo \in 0 .. MaxWord
  BY <1>1
<1>4. u \in Sizes /\ u[b] = r /\ u[n] = wo /\ \A x \in Word : x # b /\ x # n => u[x] = sz[x]
  BY <1>1, <1>2, <1>3 DEF Sizes
<1>5. n \notin BlocksOf(sz)
  BY <1>2, <1>1, BlockFacts DEF Tiles
<1>6. BlocksOf(u) = BlocksOf(sz) \cup {n}
  <2>1. u[b] # Null /\ u[n] # Null
    BY <1>4 DEF Null
  <2>2. \A x \in Word : x \in BlocksOf(u) <=> x \in BlocksOf(sz) \/ x = n
    BY <1>2, <1>4, <2>1 DEF BlocksOf
  <2> QED
    BY <1>2, <2>2 DEF BlocksOf
<1>7. End(u, b) = n /\ End(u, n) = End(sz, b)
  BY <1>1, <1>4 DEF End
<1>8. \A x \in BlocksOf(sz) : x # b => End(u, x) = End(sz, x)
  BY <1>4, <1>5 DEF End, BlocksOf
<1>9. Tiles(u, cs)
  <2>1. \A c \in cs : c[1] \in BlocksOf(u)
    BY <1>6 DEF Tiles
  <2>2. ASSUME NEW x \in BlocksOf(u) PROVE \E c \in cs : Fits(u, x, c)
    <3>1. CASE x # b /\ x # n
      BY <3>1, <2>2, <1>6, <1>8 DEF Tiles, Fits
    <3>2. PICK c \in cs : Fits(sz, b, c)
      BY DEF Tiles
    <3>3. c[1] \in Nat /\ c[2] \in Nat
      BY ChunkFacts
    <3>4. PICK e, p, q : e = End(sz, b) /\ p = c[1] /\ q = c[2]
      OBVIOUS
    <3>5. p <= b /\ e <= q + 1 /\ (e = q + 1 \/ e \in BlocksOf(sz))
      BY <3>2, <3>4 DEF Fits
    <3>6. p \in Nat /\ q \in Nat /\ e \in Nat /\ n \in Nat /\ b \in Nat /\ b < n /\ n < e
      BY <3>3, <3>4, <1>1, <1>2
    <3>7. p <= b /\ p <= n /\ n <= q + 1
      BY <3>5, <3>6
    <3>8. Fits(u, b, c) /\ Fits(u, n, c)
      BY <3>4, <3>5, <3>7, <1>6, <1>7 DEF Fits
    <3> QED
      BY <3>1, <3>8
  <2>3. ASSUME NEW x \in BlocksOf(u), NEW y \in BlocksOf(u), x < y PROVE End(u, x) <= y
    <3>1. x \in Nat /\ y \in Nat
      BY <1>2, <1>6, BlockFacts
    <3>2. CASE x \in BlocksOf(sz) /\ y \in BlocksOf(sz)
      <4>1. End(sz, x) <= y
        BY <2>3, <3>2 DEF Tiles
      <4>2. CASE x = b
        <5>1. PICK e : e = End(sz, b)
          OBVIOUS
        <5>2. e \in Nat /\ n < e /\ n \in Nat /\ e <= y
          BY <4>1, <4>2, <5>1, <1>1, <1>2
        <5>3. n <= y
          BY <3>1, <5>2
        <5> QED
          BY <4>2, <5>3, <1>7
      <4>3. CASE x # b
        BY <3>2, <4>1, <4>3, <1>8
      <4> QED
        BY <4>2, <4>3
    <3>3. CASE x \in BlocksOf(sz) /\ y = n
      <4>1. CASE x = b
        BY <3>3, <4>1, <1>2, <1>7
      <4>2. CASE x < b
        <5>1. End(sz, x) <= b
          BY <3>3, <4>2 DEF Tiles
        <5>2. PICK e : e = End(sz, x)
          OBVIOUS
        <5>3. e \in Nat /\ e <= b
          BY <3>3, <5>1, <5>2, BlockFacts
        <5>4. x # b
          BY <3>1, <4>2, <1>1
        <5>5. e <= n
          BY <5>3, <1>1, <1>2
        <5> QED
          BY <3>3, <5>2, <5>4, <5>5, <1>8
      <4>3. CASE b < x
        <5>1. End(sz, b) <= x
          BY <3>3, <4>3 DEF Tiles
        <5> QED
          BY <2>3, <3>1, <3>3, <5>1, <1>1, <1>2
      <4> QED
        BY <3>1, <1>1, <4>1, <4>2, <4>3
    <3>4. CASE x = n /\ y \in BlocksOf(sz)
      <4>1. b < y
        BY <2>3, <3>1, <3>4, <1>1, <1>2
      <4>2. End(sz, b) <= y
        BY <3>4, <4>1 DEF Tiles
      <4> QED
        BY <3>4, <4>2, <1>7
    <3>5. x # y
      BY <2>3, <3>1
    <3> QED
      BY <3>2, <3>3, <3>4, <3>5, <1>6
  <2> QED
    BY <2>1, <2>2, <2>3 DEF Tiles
<1> QED
  BY <1>2, <1>4, <1>5, <1>6, <1>7, <1>9

(* The sizes u are those of sz with x part of the block b.                 *)
JoinedTile(sz, u, cs, b, x) ==
  /\ u \in Sizes /\ Tiles(u, cs) /\ BlocksOf(u) = BlocksOf(sz) \ {x}
  /\ End(u, b) = End(sz, x)
  /\ \A y \in BlocksOf(u) : y # b => u[y] = sz[y] /\ End(u, y) = End(sz, y)

(* A block takes in the one behind it.                                     *)
LEMMA JoinTiles ==
  ASSUME ChunksOK, NEW sz \in Sizes, NEW cs \in SUBSET Chunks, Tiles(sz, cs),
         NEW b \in BlocksOf(sz), NEW x \in BlocksOf(sz), End(sz, b) = x,
         NEW u, u = [sz EXCEPT ![b] = sz[b] + sz[x] + 1, ![x] = Null]
  PROVE  JoinedTile(sz, u, cs, b, x)
<1>1. /\ b \in Word /\ b \in Nat /\ sz[b] \in Nat /\ x \in Word /\ x \in Nat /\ sz[x] \in Nat /\ b < x
      /\ End(sz, x) \in Nat /\ End(sz, x) <= MaxWord + 1 /\ x < End(sz, x)
      /\ x = b + 1 + sz[b] /\ End(sz, x) = x + 1 + sz[x] /\ MaxWord \in Nat
  <2>1. x = b + 1 + sz[b] /\ End(sz, x) = x + 1 + sz[x]
    BY DEF End
  <2> QED
    BY <2>1, BlockFacts DEF ChunksOK
<1>2. PICK v : v = sz[b] + sz[x] + 1
  OBVIOUS
<1>3. v \in 0 .. MaxWord /\ v \in Nat
  BY <1>1, <1>2 DEF Word
<1>4. u \in Sizes /\ u[b] = v /\ u[x] = Null /\ \A y \in Word : y # b /\ y # x => u[y] = sz[y]
  BY <1>1, <1>2, <1>3 DEF Sizes
<1>5. BlocksOf(u) = BlocksOf(sz) \ {x}
  <2>1. u[b] # Null
    BY <1>3, <1>4 DEF Null
  <2>2. \A y \in Word : y \in BlocksOf(u) <=> y \in BlocksOf(sz) /\ y # x
    BY <1>4, <2>1 DEF BlocksOf
  <2> QED
    BY <2>2 DEF BlocksOf
<1>6. End(u, b) = End(sz, x)
  BY <1>1, <1>2, <1>4 DEF End
<1>7. \A y \in BlocksOf(u) : y # b => u[y] = sz[y] /\ End(u, y) = End(sz, y)
  BY <1>4, <1>5 DEF End, BlocksOf
<1>8. PICK c \in cs : Fits(sz, b, c)
  BY DEF Tiles
<1>9. Fits(sz, x, c) /\ \A d \in cs : d[1] # x
  BY <1>8, SameChunk
<1>10. \A y \in BlocksOf(sz) : y # b => End(sz, y) # x
  <2>1. SUFFICES ASSUME NEW y \in BlocksOf(sz), y # b, End(sz, y) = x PROVE FALSE
    OBVIOUS
  <2>2. y \in Nat /\ y < x
    BY <2>1, BlockFacts
  <2>3. CASE y < b
    <3>1. End(sz, y) <= b
      BY <2>3 DEF Tiles
    <3> QED
      BY <3>1, <2>1, <1>1
  <2>4. CASE b < y
    <3>1. End(sz, b) <= y
      BY <2>4 DEF Tiles
    <3> QED
      BY <3>1, <2>2, <1>1
  <2> QED
    BY <2>1, <2>2, <2>3, <2>4, <1>1
<1>11. Tiles(u, cs)
  <2>1. \A d \in cs : d[1] \in BlocksOf(u)
    BY <1>5, <1>9 DEF Tiles
  <2>2. ASSUME NEW y \in BlocksOf(u) PROVE \E d \in cs : Fits(u, y, d)
    <3>1. CASE y # b
      <4>1. y \in BlocksOf(sz) /\ End(u, y) = End(sz, y) /\ End(sz, y) # x
        BY <3>1, <1>5, <1>7, <1>10
      <4>2. PICK d \in cs : Fits(sz, y, d)
        BY <4>1 DEF Tiles
      <4> QED
        BY <4>1, <4>2, <1>5 DEF Fits
    <3>2. CASE y = b
      <4>1. c[1] <= b
        BY <1>8 DEF Fits
      <4>2. End(sz, x) <= c[2] + 1 /\ (End(sz, x) = c[2] + 1 \/ End(sz, x) \in BlocksOf(sz))
        BY <1>9 DEF Fits
      <4>3. End(sz, x) # x
        BY <1>1
      <4>4. Fits(u, b, c)
        BY <4>1, <4>2, <4>3, <1>6, <1>5 DEF Fits
      <4> QED
        BY <3>2, <4>4
    <3> QED
      BY <3>1, <3>2
  <2>3. ASSUME NEW y \in BlocksOf(u), NEW z \in BlocksOf(u), y < z PROVE End(u, y) <= z
    <3>1. y \in BlocksOf(sz) /\ z \in BlocksOf(sz) /\ z # x
      BY <1>5
    <3>2. End(sz, y) <= z
      BY <2>3, <3>1 DEF Tiles
    <3>3. CASE y # b
      BY <3>2, <3>3, <1>7
    <3>4. CASE y = b
      <4>1. x <= z /\ z \in Nat
        BY <3>1, <3>2, <3>4, BlockFacts
      <4>2. End(sz, x) <= z
        BY <3>1, <4>1, <1>1 DEF Tiles
      <4> QED
        BY <3>4, <4>2, <1>6
    <3> QED
      BY <3>3, <3>4
  <2> QED
    BY <2>1, <2>2, <2>3 DEF Tiles
<1> QED
  BY <1>4, <1>5, <1>6, <1>7, <1>11 DEF JoinedTile

(* The sizes u are those of sz and one block from p to q.                  *)
ChunkTile(sz, u, cs, p, q) ==
  /\ u \in Sizes /\ Tiles(u, cs) /\ p \notin BlocksOf(sz) /\ p \in Word
  /\ BlocksOf(u) = BlocksOf(sz) \cup {p} /\ End(u, p) = q + 1
  /\ q + 1 \notin BlocksOf(u)
  /\ \A y \in BlocksOf(sz) : u[y] = sz[y] /\ End(u, y) = End(sz, y) /\ End(sz, y) # p

(* A new chunk is one block.                                               *)
LEMMA AddTiles ==
  ASSUME ChunksOK, NEW sz \in Sizes, NEW cs \in SUBSET Chunks, Tiles(sz, cs),
         NEW c \in Chunks \ cs, NEW u, u = [sz EXCEPT ![c[1]] = c[2] - c[1]]
  PROVE  ChunkTile(sz, u, cs \cup {c}, c[1], c[2])
<1>1. PICK p, q : p = c[1] /\ q = c[2]
  OBVIOUS
<1>2. p \in Word /\ q \in Word /\ p \in Nat /\ q \in Nat /\ p < q /\ MaxWord \in Nat
  BY <1>1, ChunkFacts DEF ChunksOK
<1>3. \A y \in BlocksOf(sz) : y \in Nat /\ End(sz, y) \in Nat /\ y < End(sz, y) /\ (End(sz, y) < p \/ q + 1 < y)
  <2>1. SUFFICES ASSUME NEW y \in BlocksOf(sz)
        PROVE y \in Nat /\ End(sz, y) \in Nat /\ y < End(sz, y) /\ (End(sz, y) < p \/ q + 1 < y)
    OBVIOUS
  <2>2. y \in Nat /\ End(sz, y) \in Nat /\ y < End(sz, y)
    BY BlockFacts
  <2>3. PICK d \in cs : Fits(sz, y, d)
    BY DEF Tiles
  <2>4. d[1] <= y /\ End(sz, y) <= d[2] + 1
    BY <2>3 DEF Fits
  <2>5. d[1] \in Nat /\ d[2] \in Nat /\ (d[2] + 1 < p \/ q + 1 < d[1])
    BY <1>1, ChunkFacts
  <2> QED
    BY <2>2, <2>4, <2>5, <1>2
<1>4. p \notin BlocksOf(sz) /\ q + 1 \notin BlocksOf(sz)
  BY <1>2, <1>3
<1>5. q - p \in 0 .. MaxWord /\ q - p \in Nat
  BY <1>2 DEF Word
<1>6. u \in Sizes /\ u[p] = q - p /\ \A y \in Word : y # p => u[y] = sz[y]
  BY <1>1, <1>2, <1>5 DEF Sizes
<1>7. BlocksOf(u) = BlocksOf(sz) \cup {p}
  <2>1. u[p] # Null
    BY <1>5, <1>6 DEF Null
  <2>2. \A y \in Word : y \in BlocksOf(u) <=> y \in BlocksOf(sz) \/ y = p
    BY <1>6, <2>1 DEF BlocksOf
  <2> QED
    BY <1>2, <2>2 DEF BlocksOf
<1>8. End(u, p) = q + 1
  BY <1>2, <1>6 DEF End
<1>9. \A y \in BlocksOf(sz) : u[y] = sz[y] /\ End(u, y) = End(sz, y) /\ End(sz, y) # p
  BY <1>2, <1>3, <1>4, <1>6 DEF End, BlocksOf
<1>10. q + 1 \notin BlocksOf(u)
  <2>1. q + 1 # p
    BY <1>2
  <2> QED
    BY <1>4, <1>7, <2>1
<1>11. Tiles(u, cs \cup {c})
  <2>1. \A d \in cs \cup {c} : d[1] \in BlocksOf(u)
    BY <1>1, <1>7 DEF Tiles
  <2>2. ASSUME NEW y \in BlocksOf(u) PROVE \E d \in cs \cup {c} : Fits(u, y, d)
    <3>1. CASE y \in BlocksOf(sz)
      BY <3>1, <1>7, <1>9 DEF Tiles, Fits
    <3>2. CASE y = p
      <4>1. Fits(u, p, c)
        BY <1>1, <1>2, <1>8 DEF Fits
      <4> QED
        BY <3>2, <4>1
    <3> QED
      BY <3>1, <3>2, <1>7
  <2>3. ASSUME NEW y \in BlocksOf(u), NEW z \in BlocksOf(u), y < z PROVE End(u, y) <= z
    <3>1. CASE y \in BlocksOf(sz) /\ z \in BlocksOf(sz)
      BY <2>3, <3>1, <1>9 DEF Tiles
    <3>2. CASE y \in BlocksOf(sz) /\ z = p
      <4>1. PICK e : e = End(sz, y)
        OBVIOUS
      <4>2. y \in Nat /\ e \in Nat /\ y < e /\ (e < p \/ q + 1 < y) /\ End(u, y) = e
        BY <3>2, <4>1, <1>3, <1>9
      <4>3. y < p
        BY <2>3, <3>2
      <4>4. e <= p
        BY <4>2, <4>3, <1>2
      <4> QED
        BY <3>2, <4>2, <4>4
    <3>3. CASE y = p /\ z \in BlocksOf(sz)
      <4>1. PICK e : e = End(sz, z)
        OBVIOUS
      <4>2. z \in Nat /\ e \in Nat /\ z < e /\ (e < p \/ q + 1 < z)
        BY <3>3, <4>1, <1>3
      <4>3. p < z
        BY <2>3, <3>3
      <4>4. q + 1 <= z
        BY <4>2, <4>3, <1>2
      <4> QED
        BY <3>3, <4>4, <1>8
    <3>4. y \in Nat /\ z \in Nat
      BY <1>2, <1>3, <1>7
    <3>5. y # z
      BY <2>3, <3>4
    <3> QED
      BY <3>1, <3>2, <3>3, <3>5, <1>7
  <2> QED
    BY <2>1, <2>2, <2>3 DEF Tiles
<1> QED
  BY <1>1, <1>2, <1>4, <1>6, <1>7, <1>8, <1>9, <1>10, <1>11 DEF ChunkTile

-----------------------------------------------------------------------------
(* Links.                                                                  *)

LEMMA LinkFacts ==
  ASSUME ChunksOK, NEW F \in SUBSET Word, NEW nx \in Links, LinksOn(nx, F), NEW p \in F \cup {Fl_head}
  PROVE  /\ p \in Spot /\ p \in Nat
         /\ nx[p] = Null => \A x \in F : x <= p
         /\ nx[p] # Null => nx[p] \in F /\ nx[p] \in Nat /\ p < nx[p] /\ \A x \in F : x <= p \/ nx[p] <= x
<1>1. p \in Spot /\ p \in Nat /\ \A x \in F : x \in Nat
  BY DEF ChunksOK, Spot, Word, Fl_head
<1> QED
  BY <1>1 DEF LinksOn, LinksTo

(* A block is taken off the list.                                          *)
Unlinked(nx, p, c) == [nx EXCEPT ![p] = nx[c], ![c] = Null]

(* The links ny are those of nx without the block c behind p.              *)
OffList(F, nx, p, c, ny) ==
  /\ ny \in Links /\ LinksOn(ny, F \ {c}) /\ c \in F /\ p \in (F \ {c}) \cup {Fl_head}
  /\ p < c /\ ny[p] = nx[c] /\ \A b \in (F \ {c}) \cup {Fl_head} : b # p => ny[b] = nx[b] /\ nx[b] # c

LEMMA Unlink ==
  ASSUME ChunksOK, NEW F \in SUBSET Word, NEW nx \in Links, LinksOn(nx, F),
         NEW p \in F \cup {Fl_head}, NEW c, c = nx[p], c # Null,
         NEW ny, ny = Unlinked(nx, p, c)
  PROVE  OffList(F, nx, p, c, ny)
<1>1. p \in Spot /\ p \in Nat /\ c \in F /\ c \in Nat /\ p < c /\ c \in Spot /\ \A x \in F : x <= p \/ c <= x
  BY LinkFacts
<1>2. ny \in Links /\ ny[p] = nx[c] /\ \A b \in Spot : b # p /\ b # c => ny[b] = nx[b]
  <2>1. nx[c] \in Word \cup {Null} /\ p # c
    BY <1>1 DEF Links
  <2>2. ny \in Links
    BY <2>1, <1>1 DEF Links, Unlinked
  <2>3. ny[p] = nx[c]
    BY <2>1, <1>1 DEF Links, Unlinked
  <2> QED
    BY <2>2, <2>3 DEF Links, Unlinked
<1>3. c # Fl_head
  BY <1>1 DEF Word, Fl_head
<1>4. \A b \in (F \ {c}) \cup {Fl_head} : b # p => ny[b] = nx[b] /\ nx[b] # c
  <2>1. SUFFICES ASSUME NEW b \in (F \ {c}) \cup {Fl_head}, b # p PROVE ny[b] = nx[b] /\ nx[b] # c
    OBVIOUS
  <2>2. b \in Spot /\ b \in Nat /\ b # c
    BY <1>3, LinkFacts
  <2>3. SUFFICES ASSUME nx[b] = c PROVE FALSE
    BY <1>2, <2>1, <2>2
  <2>4. b < c /\ \A x \in F : x <= b \/ c <= x
    <3>1. b \in F \cup {Fl_head}
      OBVIOUS
    <3>2. nx[b] # Null
      BY <2>3
    <3>3. b < nx[b] /\ \A x \in F : x <= b \/ nx[b] <= x
      BY <3>1, <3>2, LinkFacts
    <3> QED
      BY <2>3, <3>3
  <2>5. p <= b
    <3>1. CASE p \in F
      BY <3>1, <2>4, <1>1
    <3>2. CASE p = Fl_head
      BY <3>2, <2>2 DEF Fl_head
    <3> QED
      BY <3>1, <3>2
  <2>6. b <= p
    <3>1. CASE b \in F
      BY <3>1, <2>4, <2>2, <1>1
    <3>2. CASE b = Fl_head
      BY <3>2, <1>1 DEF Fl_head
    <3> QED
      BY <3>1, <3>2
  <2> QED
    BY <2>1, <2>2, <2>5, <2>6, <1>1
<1>5. ASSUME NEW b \in (F \ {c}) \cup {Fl_head} PROVE LinksTo(F \ {c}, b, ny[b])
  <2>1. CASE b # p
    <3>1. LinksTo(F, b, nx[b]) /\ ny[b] = nx[b] /\ nx[b] # c
      BY <2>1, <1>4 DEF LinksOn
    <3> QED
      BY <3>1 DEF LinksTo
  <2>2. CASE b = p
    <3>1. LinksTo(F, c, nx[c])
      BY <1>1 DEF LinksOn
    <3>2. CASE nx[c] = Null
      <4>1. \A x \in F : x <= c
        BY <3>1, <3>2 DEF LinksTo
      <4>2. \A x \in F \ {c} : x <= p
        <5>1. SUFFICES ASSUME NEW x \in F \ {c} PROVE x <= p
          OBVIOUS
        <5>2. x \in Nat
          BY LinkFacts
        <5> QED
          BY <4>1, <5>2, <1>1
      <4> QED
        BY <2>2, <3>2, <4>2, <1>2 DEF LinksTo
    <3>3. CASE nx[c] # Null
      <4>1. PICK q : q = nx[c]
        OBVIOUS
      <4>2. q \in F /\ c < q /\ q \in Nat /\ \A x \in F : x <= c \/ q <= x
        BY <3>3, <4>1, <1>1, LinkFacts
      <4>3. q # c /\ p < q
        BY <4>2, <1>1
      <4>4. \A x \in F \ {c} : x <= p \/ q <= x
        <5>1. SUFFICES ASSUME NEW x \in F \ {c} PROVE x <= p \/ q <= x
          OBVIOUS
        <5>2. x \in Nat
          BY LinkFacts
        <5> QED
          BY <4>2, <5>2, <1>1
      <4> QED
        BY <2>2, <3>3, <4>1, <4>2, <4>3, <4>4, <1>2 DEF LinksTo
    <3> QED
      BY <3>2, <3>3
  <2> QED
    BY <2>1, <2>2
<1>6. p \in (F \ {c}) \cup {Fl_head}
  BY <1>1
<1> QED
  BY <1>1, <1>2, <1>4, <1>5, <1>6 DEF LinksOn, OffList

(* The links ny are those of nx with the block c behind p.                 *)
OnListBehind(F, nx, p, c, ny) ==
  /\ ny \in Links /\ LinksOn(ny, F \cup {c}) /\ ny[p] = c /\ ny[c] = nx[p]
  /\ \A b \in F \cup {Fl_head} : b # p => ny[b] = nx[b]

(* A block is linked in between two others.                                *)
LEMMA LinkIn ==
  ASSUME ChunksOK, NEW F \in SUBSET Word, NEW nx \in Links, LinksOn(nx, F),
         NEW p \in F \cup {Fl_head}, NEW c \in Word \ F, p < c, nx[p] = Null \/ c < nx[p],
         NEW ny, ny = Linked(nx, p, c, nx[p])
  PROVE  OnListBehind(F, nx, p, c, ny)
<1>1. p \in Spot /\ p \in Nat /\ c \in Nat /\ c \in Spot /\ c # p /\ c # Fl_head
  BY LinkFacts DEF ChunksOK, Spot, Word, Fl_head
<1>2. nx[p] \in Word \cup {Null}
  BY <1>1 DEF Links
<1>3. /\ ny \in Links /\ ny[p] = c /\ ny[c] = nx[p]
      /\ \A b \in Spot : b # p /\ b # c => ny[b] = nx[b]
  BY <1>1, <1>2 DEF Linked, Links, Spot
<1>4. \A b \in F \cup {Fl_head} : b # p => ny[b] = nx[b] /\ b # c
  BY <1>1, <1>3, LinkFacts
<1>5. /\ nx[p] = Null => \A x \in F : x <= p
      /\ nx[p] # Null => nx[p] \in Nat /\ \A x \in F : x <= p \/ nx[p] <= x
  BY LinkFacts
<1>6. ASSUME NEW b \in F \cup {c} \cup {Fl_head} PROVE LinksTo(F \cup {c}, b, ny[b])
  <2>1. CASE b = p
    <3>1. \A x \in F : x <= p \/ c <= x
      <4>1. SUFFICES ASSUME NEW x \in F PROVE x <= p \/ c <= x
        OBVIOUS
      <4>2. x \in Nat
        BY LinkFacts
      <4>3. x <= p \/ (nx[p] # Null /\ nx[p] <= x /\ nx[p] \in Nat)
        BY LinkFacts
      <4> QED
        BY <4>2, <4>3, <1>1
    <3>2. c # Null /\ c <= c
      BY <1>1 DEF Null
    <3> QED
      BY <2>1, <3>1, <3>2, <1>3 DEF LinksTo
  <2>2. CASE b = c
    <3>1. CASE nx[p] = Null
      <4>1. \A x \in F : x <= c
        <5>1. SUFFICES ASSUME NEW x \in F PROVE x <= c
          OBVIOUS
        <5>2. x \in Nat /\ x <= p
          BY <3>1, LinkFacts
        <5> QED
          BY <5>2, <1>1
      <4>2. c <= c
        BY <1>1
      <4> QED
        BY <2>2, <3>1, <4>1, <4>2, <1>3 DEF LinksTo
    <3>2. CASE nx[p] # Null
      <4>1. PICK q : q = nx[p]
        OBVIOUS
      <4>2. q \in F /\ q \in Nat /\ c < q /\ \A x \in F : x <= p \/ q <= x
        BY <3>2, <4>1, LinkFacts
      <4>3. \A x \in F : x <= c \/ q <= x
        <5>1. SUFFICES ASSUME NEW x \in F PROVE x <= c \/ q <= x
          OBVIOUS
        <5>2. x \in Nat
          BY LinkFacts
        <5> QED
          BY <4>2, <5>2, <1>1
      <4>4. c <= c
        BY <1>1
      <4> QED
        BY <2>2, <3>2, <4>1, <4>2, <4>3, <4>4, <1>3 DEF LinksTo
    <3> QED
      BY <3>1, <3>2
  <2>3. CASE b # p /\ b # c
    <3>1. b \in F \cup {Fl_head} /\ ny[b] = nx[b] /\ b \in Nat
      BY <2>3, <1>4, LinkFacts
    <3>2. CASE nx[b] = Null
      <4>1. \A x \in F : x <= b
        BY <3>1, <3>2, LinkFacts
      <4>2. p < b
        <5>1. CASE p \in F
          BY <4>1, <5>1, <2>3, <1>1, <3>1
        <5>2. CASE p = Fl_head
          BY <5>2, <2>3, <3>1 DEF Fl_head
        <5> QED
          BY <5>1, <5>2
      <4>3. b \in F
        BY <4>2, <3>1, <1>1 DEF Fl_head
      <4>4. nx[p] # Null /\ nx[p] <= b /\ nx[p] \in Nat
        BY <4>2, <4>3, <3>1, <1>1, <1>5
      <4>5. c <= b
        BY <4>4, <3>1, <1>1
      <4> QED
        BY <3>1, <3>2, <4>1, <4>5 DEF LinksTo
    <3>3. CASE nx[b] # Null
      <4>1. PICK q : q = nx[b]
        OBVIOUS
      <4>2. q \in F /\ q \in Nat /\ b < q /\ \A x \in F : x <= b \/ q <= x
        BY <3>1, <3>3, <4>1, LinkFacts
      <4>3. c <= b \/ q <= c
        <5>1. CASE p < b
          <6>1. b \in F
            BY <5>1, <3>1, <1>1 DEF Fl_head
          <6>2. nx[p] # Null /\ nx[p] <= b /\ nx[p] \in Nat
            BY <5>1, <6>1, <3>1, <1>1, <1>5
          <6> QED
            BY <6>2, <3>1, <1>1
        <5>2. CASE b < p
          <6>1. p \in F
            BY <5>2, <3>1, <1>1 DEF Fl_head
          <6>2. q <= p
            BY <5>2, <6>1, <4>2, <3>1, <1>1
          <6> QED
            BY <6>2, <4>2, <1>1
        <5> QED
          BY <5>1, <5>2, <2>3, <3>1, <1>1
      <4> QED
        BY <3>1, <3>3, <4>1, <4>2, <4>3 DEF LinksTo
    <3> QED
      BY <3>2, <3>3
  <2> QED
    BY <2>1, <2>2, <2>3
<1> QED
  BY <1>3, <1>4, <1>6 DEF LinksOn, OnListBehind

-----------------------------------------------------------------------------
(* Allocation.                                                             *)

LEMMA RecordFacts ==
  ASSUME ChunksOK, NEW cs \in SUBSET Chunks, NEW s, RecordInv(s, cs)
  PROVE  /\ s.size \in Sizes /\ s.next \in Links /\ s.color \in [Word -> {"White", "Black", "Blue"}]
         /\ FreeIn(s) \in SUBSET Word /\ FreeIn(s) \subseteq BlocksOf(s.size)
         /\ LinksOn(s.next, FreeIn(s)) /\ Tiles(s.size, cs) /\ Merged(s.size, FreeIn(s))
         /\ s.fl_prev \in FreeIn(s) \cup {Fl_head} /\ s.fl_merge \in FreeIn(s) \cup {Fl_head}
<1>1. FreeIn(s) \subseteq BlocksOf(s.size) /\ FreeIn(s) \in SUBSET Word
  BY DEF FreeIn, BlocksOf
<1> QED
  BY <1>1 DEF RecordInv, Record, Sizes, Links, Spot, ListIn

(* The record from its parts.                                              *)
LEMMA RecordFrom ==
  ASSUME ChunksOK, NEW cs, NEW t,
         t = [size |-> t.size, color |-> t.color, next |-> t.next,
              fl_prev |-> t.fl_prev, fl_merge |-> t.fl_merge],
         t.size \in Sizes, t.next \in Links, t.color \in [Word -> {"White", "Black", "Blue"}],
         NEW F, FreeIn(t) = F, LinksOn(t.next, F), Tiles(t.size, cs), Merged(t.size, F),
         t.fl_prev \in F \cup {Fl_head}, t.fl_merge \in F \cup {Fl_head}
  PROVE  RecordInv(t, cs)
<1>1. F \subseteq Word
  BY DEF FreeIn, BlocksOf
<1>2. t \in Record
  BY <1>1 DEF Record, Sizes, Links, Spot
<1> QED
  BY <1>2 DEF RecordInv, ListIn

Plain(t) == t = [size |-> t.size, color |-> t.color, next |-> t.next,
                 fl_prev |-> t.fl_prev, fl_merge |-> t.fl_merge]

(* What allocate_block makes of s when q words are left in the block cur   *)
(* behind prev, and the one at n gets wo words and the color col.          *)
Took(s, t, prev, cur, wo, n, q, col) ==
  /\ Plain(t) /\ t.fl_prev = prev
  /\ q > 0 =>
       /\ t.size = [s.size EXCEPT ![cur] = q, ![n] = wo]
       /\ t.color = [s.color EXCEPT ![n] = col]
       /\ t.next = s.next /\ t.fl_merge = s.fl_merge
  /\ ~ q > 0 =>
       /\ t.size = [s.size EXCEPT ![cur] = 0, ![n] = wo]
       /\ t.color = [s.color EXCEPT ![cur] = "White", ![n] = col]
       /\ t.next = [s.next EXCEPT ![prev] = s.next[cur], ![cur] = Null]
       /\ t.fl_merge = MovedOff(s.fl_merge, prev, cur)

LEMMA TakeIs ==
  ASSUME NEW s \in Record, NEW prev \in Spot, NEW cur \in Word, NEW wo,
         NEW n, n = cur + s.size[cur] - wo, NEW t, t = TakeBlock(s, prev, cur, wo)
  PROVE  \E col \in {"White", "Black"} : Took(s, t, prev, cur, wo, n, RestWosize(s, cur, wo), col)
<1>1. PICK rest : rest = IF RestWosize(s, cur, wo) > 0
                 THEN [s EXCEPT !.size[cur] = RestWosize(s, cur, wo)]
                 ELSE [s EXCEPT !.size[cur] = 0, !.color[cur] = "White",
                                !.next[prev] = s.next[cur], !.next[cur] = Null,
                                !.fl_merge = MovedOff(@, prev, cur)]
  OBVIOUS
<1>2. PICK col : col = IF ~ sweeping \/ n >= gc_sweep_hp THEN "Black" ELSE "White"
  OBVIOUS
<1>3. t = [rest EXCEPT !.fl_prev = prev, !.size[n] = wo, !.color[n] = col]
  BY <1>1, <1>2 DEF TakeBlock
<1>4. Plain(rest)
  <2>1. CASE RestWosize(s, cur, wo) > 0
    BY <1>1, <2>1 DEF Plain, Record
  <2>2. CASE ~ RestWosize(s, cur, wo) > 0
    BY <1>1, <2>2 DEF Plain, Record
  <2> QED
    BY <2>1, <2>2
<1>5. /\ Plain(t) /\ t.fl_prev = prev /\ t.size = [rest.size EXCEPT ![n] = wo]
      /\ t.color = [rest.color EXCEPT ![n] = col] /\ t.next = rest.next /\ t.fl_merge = rest.fl_merge
  BY <1>3, <1>4 DEF Plain
<1>6. RestWosize(s, cur, wo) > 0 =>
        /\ rest.size = [s.size EXCEPT ![cur] = RestWosize(s, cur, wo)]
        /\ rest.color = s.color /\ rest.next = s.next /\ rest.fl_merge = s.fl_merge
  BY <1>1 DEF Record
<1>7. ~ RestWosize(s, cur, wo) > 0 =>
        /\ rest.size = [s.size EXCEPT ![cur] = 0]
        /\ rest.color = [s.color EXCEPT ![cur] = "White"]
        /\ rest.next = [s.next EXCEPT ![prev] = s.next[cur], ![cur] = Null]
        /\ rest.fl_merge = MovedOff(s.fl_merge, prev, cur)
  BY <1>1 DEF Record
<1>8. col \in {"White", "Black"}
  BY <1>2
<1> QED
  BY <1>5, <1>6, <1>7, <1>8 DEF Took

(* The blocks in use of s are as they were.                                *)
KeptIn(s, t) ==
  \A b \in BlocksOf(s.size) \ FreeIn(s) : t.size[b] = s.size[b] /\ t.color[b] = s.color[b]

LEMMA TakeKeeps ==
  ASSUME ChunksOK, NEW cs \in SUBSET Chunks, NEW s, RecordInv(s, cs),
         NEW prev \in ListIn(s), NEW cur, cur = s.next[prev], cur # Null,
         NEW wo \in Nat \ {0}, s.size[cur] >= wo, NEW t, t = TakeBlock(s, prev, cur, wo)
  PROVE  /\ RecordInv(t, cs) /\ KeptIn(s, t)
         /\ \A hp \in Nat : MergeAt(s, hp) => MergeAt(t, hp)
<1>1. /\ s.size \in Sizes /\ s.next \in Links /\ s.color \in [Word -> {"White", "Black", "Blue"}]
      /\ FreeIn(s) \in SUBSET Word /\ FreeIn(s) \subseteq BlocksOf(s.size)
      /\ LinksOn(s.next, FreeIn(s)) /\ Tiles(s.size, cs) /\ Merged(s.size, FreeIn(s))
      /\ s.fl_merge \in FreeIn(s) \cup {Fl_head} /\ prev \in FreeIn(s) \cup {Fl_head} /\ s \in Record
  BY RecordFacts DEF ListIn, RecordInv
<1>2. PICK F : F = FreeIn(s)
  OBVIOUS
<1>3. /\ prev \in Spot /\ prev \in Nat /\ cur \in F /\ cur \in Nat /\ prev < cur
      /\ cur \in BlocksOf(s.size) /\ cur \in Word
  BY <1>1, <1>2, LinkFacts
<1>4. s.size[cur] \in Nat /\ End(s.size, cur) \in Nat /\ End(s.size, cur) = cur + 1 + s.size[cur]
  BY <1>1, <1>3, BlockFacts DEF End
<1>5. PICK n, r : n = cur + s.size[cur] - wo /\ r = RestWosize(s, cur, wo)
  OBVIOUS
<1>6. r = s.size[cur] - (wo + 1) /\ n = cur + r + 1 /\ r \in Int /\ r >= -1
  BY <1>3, <1>4, <1>5 DEF RestWosize
<1>7. PICK col \in {"White", "Black"} : Took(s, t, prev, cur, wo, n, r, col)
  BY <1>1, <1>3, <1>5, TakeIs
<1>8. CASE r > 0
  <2>1. r \in Nat /\ s.size[cur] = r + wo + 1
    BY <1>4, <1>6, <1>8
  <2>2. /\ t.size \in Sizes /\ Tiles(t.size, cs) /\ n \notin BlocksOf(s.size) /\ n \in Word
        /\ BlocksOf(t.size) = BlocksOf(s.size) \cup {n} /\ End(t.size, cur) = n
    <3>1. t.size = [s.size EXCEPT ![cur] = r, ![n] = wo]
      BY <1>7, <1>8 DEF Took
    <3> QED
      BY SMTT(30), <2>1, <3>1, <1>1, <1>3, <1>6, SplitTiles
  <2>3. t.color \in [Word -> {"White", "Black", "Blue"}] /\ t.color[n] # "Blue"
        /\ \A b \in Word : b # n => t.color[b] = s.color[b]
    BY <2>2, <1>1, <1>7, <1>8 DEF Took
  <2>4. FreeIn(t) = F
    BY <2>2, <2>3, <1>2 DEF FreeIn, BlocksOf
  <2>5. \A b \in BlocksOf(s.size) : b # cur => t.size[b] = s.size[b]
    BY <2>2, <1>1, <1>7, <1>8 DEF Sizes, BlocksOf, Took
  <2>6. Merged(t.size, F)
    <3>1. ASSUME NEW b \in F PROVE End(t.size, b) \notin F
      <4>1. CASE b = cur
        BY <4>1, <2>2, <1>1, <1>2
      <4>2. CASE b # cur
        BY <4>2, <2>5, <1>1, <1>2 DEF Merged, End
      <4> QED
        BY <4>1, <4>2
    <3> QED
      BY <3>1 DEF Merged
  <2>7. RecordInv(t, cs)
    BY <2>2, <2>3, <2>4, <2>6, <1>1, <1>2, <1>7, <1>8, RecordFrom DEF Plain, Took
  <2>8. KeptIn(s, t)
    BY <2>2, <2>3, <2>5, <1>2, <1>3 DEF KeptIn, BlocksOf
  <2>9. \A hp \in Nat : MergeAt(s, hp) => MergeAt(t, hp)
    BY <1>7, <1>8 DEF MergeAt, Took
  <2> QED
    BY <2>7, <2>8, <2>9
<1>9. CASE ~ r > 0
  <2>1. PICK ny : ny = [s.next EXCEPT ![prev] = s.next[cur], ![cur] = Null]
    OBVIOUS
  <2>2. t.next = ny /\ t.fl_merge = IF s.fl_merge = cur THEN prev ELSE s.fl_merge
    BY <2>1, <1>7, <1>9 DEF MovedOff, Took
  <2>3. /\ ny \in Links /\ LinksOn(ny, F \ {cur}) /\ prev \in (F \ {cur}) \cup {Fl_head}
        /\ ny[prev] = s.next[cur] /\ \A b \in (F \ {cur}) \cup {Fl_head} : b # prev => ny[b] = s.next[b]
    <3>1. PICK nx : nx = s.next
      OBVIOUS
    <3>2. nx \in Links /\ LinksOn(nx, F) /\ F \in SUBSET Word /\ prev \in F \cup {Fl_head} /\ cur = nx[prev]
      BY <3>1, <1>1, <1>2
    <3>3. ny = Unlinked(nx, prev, cur)
      BY <2>1, <3>1 DEF Unlinked
    <3>4. /\ ny \in Links /\ LinksOn(ny, F \ {cur}) /\ prev \in (F \ {cur}) \cup {Fl_head}
          /\ cur \in F /\ prev < cur /\ ny[prev] = nx[cur]
          /\ \A b \in (F \ {cur}) \cup {Fl_head} : b # prev => ny[b] = nx[b] /\ nx[b] # cur
      <4>1. OffList(F, nx, prev, cur, ny)
        BY <3>2, <3>3, Unlink
      <4> QED
        BY <4>1 DEF OffList
    <3> QED
      BY <3>1, <3>4
  <2>4. /\ t.size \in Sizes /\ Tiles(t.size, cs) /\ n \in Word /\ (n = cur \/ n \notin BlocksOf(s.size))
        /\ BlocksOf(t.size) = BlocksOf(s.size) \cup {n}
        /\ \A b \in BlocksOf(s.size) : b # cur => t.size[b] = s.size[b]
    <3>1. CASE r = 0
      <4>1. s.size[cur] = 0 + wo + 1 /\ n = cur + 0 + 1 /\ t.size = [s.size EXCEPT ![cur] = 0, ![n] = wo]
        BY <3>1, <1>3, <1>4, <1>6, <1>7, <1>9 DEF Took
      <4>2. /\ t.size \in Sizes /\ Tiles(t.size, cs) /\ n \notin BlocksOf(s.size) /\ n \in Word
            /\ BlocksOf(t.size) = BlocksOf(s.size) \cup {n}
        BY <4>1, <1>1, <1>3, SplitTiles
      <4>3. \A b \in BlocksOf(s.size) : b # cur => t.size[b] = s.size[b]
        BY <4>1, <4>2, <1>1 DEF Sizes, BlocksOf
      <4> QED
        BY <4>2, <4>3
    <3>2. CASE r = -1
      <4>1. s.size[cur] = wo /\ n = cur
        <5>1. PICK z : z = s.size[cur]
          OBVIOUS
        <5>2. z \in Nat /\ -1 = z - (wo + 1) /\ n = cur + -1 + 1
          BY <3>2, <5>1, <1>4, <1>6
        <5>3. z = wo /\ n = cur
          BY <5>2, <1>3
        <5> QED
          BY <5>1, <5>3
      <4>2. t.size = s.size
        BY <4>1, <1>1, <1>3, <1>7, <1>9 DEF Sizes, Took
      <4> QED
        BY <4>1, <4>2, <1>1, <1>3
    <3> QED
      BY <3>1, <3>2, <1>6, <1>9
  <2>5. t.color \in [Word -> {"White", "Black", "Blue"}] /\ t.color[n] # "Blue" /\ t.color[cur] # "Blue"
        /\ \A b \in Word : b # n /\ b # cur => t.color[b] = s.color[b]
    BY <2>4, <1>1, <1>3, <1>7, <1>9 DEF Took
  <2>6. FreeIn(t) = F \ {cur}
    <3>1. \A b \in Word : b \in FreeIn(t) <=> b \in F /\ b # cur
      BY <2>4, <2>5, <1>2, <1>3 DEF FreeIn, BlocksOf
    <3> QED
      BY <3>1, <1>1, <1>2 DEF FreeIn, BlocksOf
  <2>7. Merged(t.size, F \ {cur})
    BY <2>4, <1>1, <1>2 DEF Merged, End
  <2>8. t.fl_merge \in (F \ {cur}) \cup {Fl_head}
    BY <2>2, <2>3, <1>1, <1>2
  <2>9. RecordInv(t, cs)
    BY SMTT(30), <2>2, <2>3, <2>4, <2>5, <2>6, <2>7, <2>8, <1>7, RecordFrom DEF Plain, Took
  <2>10. KeptIn(s, t)
    BY <2>4, <2>5, <1>2, <1>3 DEF KeptIn, BlocksOf
  <2>11. ASSUME NEW hp \in Nat, MergeAt(s, hp) PROVE MergeAt(t, hp)
    <3>1. s.next[cur] = Null \/ (cur < s.next[cur] /\ s.next[cur] \in Nat)
      BY <1>1, <1>2, <1>3, LinkFacts
    <3>2. CASE s.fl_merge = cur
      <4>1. t.fl_merge = prev /\ t.next[prev] = s.next[cur] /\ cur < hp /\ (s.next[cur] = Null \/ s.next[cur] >= hp)
        BY <3>2, <2>2, <2>3, <2>11 DEF MergeAt
      <4>2. prev < hp
        BY <4>1, <1>3
      <4> QED
        BY <4>1, <4>2 DEF MergeAt
    <3>3. CASE s.fl_merge # cur /\ s.fl_merge = prev
      <4>1. t.fl_merge = prev /\ t.next[prev] = s.next[cur] /\ prev < hp /\ cur >= hp
        BY <3>3, <2>2, <2>3, <2>11 DEF MergeAt
      <4>2. s.next[cur] = Null \/ s.next[cur] >= hp
        BY <4>1, <3>1, <1>3
      <4> QED
        BY <4>1, <4>2 DEF MergeAt
    <3>4. CASE s.fl_merge # cur /\ s.fl_merge # prev
      BY <3>4, <2>2, <2>3, <2>8, <2>11 DEF MergeAt
    <3> QED
      BY <3>2, <3>3, <3>4
  <2> QED
    BY <2>9, <2>10, <2>11
<1> QED
  BY <1>8, <1>9

-----------------------------------------------------------------------------
(* A new chunk.                                                            *)

(* What fl_add_block makes of s when the chunk c comes behind prev.        *)
Added(s, t, prev, c) ==
  /\ Plain(t) /\ t.size = [s.size EXCEPT ![c[1]] = c[2] - c[1]] /\ t.color = [s.color EXCEPT ![c[1]] = "Blue"]
  /\ t.next = Linked(s.next, prev, c[1], s.next[prev]) /\ t.fl_prev = s.fl_prev
  /\ \/ s.next[prev] = Null /\ t.fl_merge = s.fl_merge
     \/ t.fl_merge = IF s.fl_merge = prev /\ c[1] <= gc_sweep_hp THEN c[1] ELSE s.fl_merge

LEMMA AddIs ==
  ASSUME ChunksOK, NEW cs \in SUBSET Chunks, NEW s, RecordInv(s, cs), NEW c \in Chunks \ cs,
         c[1] \notin BlocksOf(s.size), NEW t, t = AddBlock(s, c)
  PROVE  \E prev \in ListIn(s) :
           prev < c[1] /\ (s.next[prev] = Null \/ c[1] < s.next[prev]) /\ Added(s, t, prev, c)
<1>1. /\ s \in Record /\ s.next \in Links /\ FreeIn(s) \in SUBSET Word /\ FreeIn(s) \subseteq BlocksOf(s.size)
      /\ LinksOn(s.next, FreeIn(s)) /\ s.fl_prev \in ListIn(s) /\ Fl_head \in ListIn(s)
      /\ ListIn(s) \in SUBSET Spot
  <2>1. s \in Record /\ s.fl_prev \in ListIn(s)
    BY DEF RecordInv
  <2> QED
    BY <2>1, RecordFacts DEF ListIn, Spot
<1>2. PICK bp : bp = c[1]
  OBVIOUS
<1>3. bp \in Word /\ bp \in Nat /\ bp # Fl_head /\ bp # Null
  BY <1>2, ChunkFacts DEF Word, Fl_head, Null
<1>4. PICK last : last = Last(Walk(s.next, s.fl_prev))
  OBVIOUS
<1>5. last \in ListIn(s) /\ s.next[last] = Null
  <2>1. PICK w : w = Walk(s.next, s.fl_prev)
    OBVIOUS
  <2>2. /\ Len(w) \in Nat \ {0} /\ Last(w) = w[Len(w)] /\ s.next[w[Len(w)]] = Null
        /\ \A i \in 1 .. Len(w) : w[i] \in ListIn(s)
    BY <2>1, <1>1, ListWalk
  <2> QED
    BY <2>1, <2>2, <1>4
<1>6. PICK below : below = [b \in DOMAIN s.next |-> IF s.next[b] < bp THEN s.next[b] ELSE Null]
  OBVIOUS
<1>7. PICK prev : prev = Last(Walk(below, Fl_head))
  OBVIOUS
<1>8. prev \in ListIn(s) /\ prev < bp /\ (s.next[prev] = Null \/ bp < s.next[prev])
  <2>1. PICK L : L = {b \in ListIn(s) : b < bp}
    OBVIOUS
  <2>2. L \in SUBSET Spot /\ Fl_head \in L
    BY <2>1, <1>1, <1>3 DEF Fl_head
  <2>3. below \in Links /\ \A b \in Spot : below[b] = IF s.next[b] < bp THEN s.next[b] ELSE Null
    BY <1>1, <1>6 DEF Links
  <2>4. Upwards(below, L)
    <3>1. SUFFICES ASSUME NEW b \in L, below[b] # Null PROVE below[b] \in L /\ b < below[b]
      BY DEF Upwards
    <3>2. below[b] = s.next[b] /\ s.next[b] < bp /\ s.next[b] # Null
      BY <3>1, <2>2, <2>3
    <3>3. b \in FreeIn(s) \cup {Fl_head}
      BY <2>1 DEF ListIn
    <3>4. s.next[b] \in FreeIn(s) /\ b < s.next[b]
      BY <3>2, <3>3, <1>1, LinkFacts
    <3> QED
      BY <3>2, <3>4, <2>1 DEF ListIn
  <2>5. PICK w : w = Walk(below, Fl_head)
    OBVIOUS
  <2>6. /\ Len(w) \in Nat \ {0} /\ Last(w) = w[Len(w)] /\ below[w[Len(w)]] = Null
        /\ \A i \in 1 .. Len(w) : w[i] \in L
    BY <2>2, <2>3, <2>4, <2>5, WalkOn
  <2>7. prev \in L /\ below[prev] = Null
    BY <2>5, <2>6, <1>7
  <2>8. prev \in ListIn(s) /\ prev < bp /\ prev \in Spot
    BY <2>1, <2>2, <2>7
  <2>9. s.next[prev] = Null \/ ~ (s.next[prev] < bp)
    BY <2>3, <2>7, <2>8
  <2>10. s.next[prev] # Null => s.next[prev] \in FreeIn(s) /\ s.next[prev] \in Nat
    BY <2>8, <1>1, LinkFacts DEF ListIn
  <2>11. s.next[prev] # bp
    BY <2>10, <1>1, <1>2, <1>3
  <2> QED
    BY <2>8, <2>9, <2>10, <2>11, <1>3
<1>9. CASE bp > last
  <2>1. t = [[s EXCEPT !.size[bp] = c[2] - bp, !.color[bp] = "Blue"] EXCEPT !.next = Linked(@, last, bp, Null)]
    BY <1>2, <1>4, <1>9 DEF AddBlock
  <2>2. Added(s, t, last, c)
    BY <2>1, <1>1, <1>2, <1>5 DEF Added, Plain, Record
  <2> QED
    BY <2>2, <1>2, <1>5, <1>9
<1>10. CASE ~ bp > last
  <2>1. t = [[s EXCEPT !.size[bp] = c[2] - bp, !.color[bp] = "Blue"] EXCEPT
               !.next = Linked(@, prev, bp, s.next[prev]),
               !.fl_merge = IF @ = prev /\ bp <= gc_sweep_hp THEN bp ELSE @]
    BY <1>2, <1>4, <1>6, <1>7, <1>10 DEF AddBlock
  <2>2. Added(s, t, prev, c)
    BY <2>1, <1>1, <1>2 DEF Added, Plain, Record
  <2> QED
    BY <2>2, <1>2, <1>8
<1> QED
  BY <1>9, <1>10

LEMMA AddKeeps ==
  ASSUME ChunksOK, NEW cs \in SUBSET Chunks, NEW s, RecordInv(s, cs), NEW c \in Chunks \ cs,
         NEW t, t = AddBlock(s, c)
  PROVE  /\ RecordInv(t, cs \cup {c}) /\ KeptIn(s, t)
         /\ gc_sweep_hp \in Nat /\ MergeAt(s, gc_sweep_hp) /\ SweepAt(cs, gc_sweep_hp)
              /\ (c[1] >= gc_sweep_hp \/ \E b \in FreeIn(s) : c[1] < b)
            => MergeAt(t, gc_sweep_hp)
<1>1. /\ s.size \in Sizes /\ s.next \in Links /\ s.color \in [Word -> {"White", "Black", "Blue"}]
      /\ FreeIn(s) \in SUBSET Word /\ FreeIn(s) \subseteq BlocksOf(s.size)
      /\ LinksOn(s.next, FreeIn(s)) /\ Tiles(s.size, cs) /\ Merged(s.size, FreeIn(s))
      /\ s.fl_prev \in FreeIn(s) \cup {Fl_head} /\ s.fl_merge \in FreeIn(s) \cup {Fl_head}
  BY RecordFacts
<1>2. PICK F, bp, q, u : F = FreeIn(s) /\ bp = c[1] /\ q = c[2] /\ u = [s.size EXCEPT ![c[1]] = c[2] - c[1]]
  OBVIOUS
<1>3. /\ u \in Sizes /\ Tiles(u, cs \cup {c}) /\ bp \notin BlocksOf(s.size) /\ bp \in Word
      /\ BlocksOf(u) = BlocksOf(s.size) \cup {bp} /\ End(u, bp) = q + 1 /\ q + 1 \notin BlocksOf(u)
      /\ \A y \in BlocksOf(s.size) : u[y] = s.size[y] /\ End(u, y) = End(s.size, y) /\ End(s.size, y) # bp
  <2>1. ChunkTile(s.size, u, cs \cup {c}, c[1], c[2])
    BY <1>1, <1>2, AddTiles
  <2>2. ChunkTile(s.size, u, cs \cup {c}, bp, q)
    BY <2>1, <1>2
  <2> QED
    BY <2>2 DEF ChunkTile
<1>4. PICK prev \in ListIn(s) :
        prev < bp /\ (s.next[prev] = Null \/ bp < s.next[prev]) /\ Added(s, t, prev, c)
  BY <1>2, <1>3, AddIs
<1>5. /\ Plain(t) /\ t.size = u /\ t.color = [s.color EXCEPT ![bp] = "Blue"]
      /\ t.next = Linked(s.next, prev, bp, s.next[prev]) /\ t.fl_prev = s.fl_prev
      /\ \/ s.next[prev] = Null /\ t.fl_merge = s.fl_merge
         \/ t.fl_merge = IF s.fl_merge = prev /\ bp <= gc_sweep_hp THEN bp ELSE s.fl_merge
  BY <1>2, <1>4 DEF Added
<1>6. PICK nx, ny : nx = s.next /\ ny = t.next
  OBVIOUS
<1>7. bp \in Word \ F /\ prev \in F \cup {Fl_head} /\ bp \in Nat /\ prev \in Nat
  <2>1. prev \in F \cup {Fl_head}
    BY <1>2 DEF ListIn
  <2>2. prev \in Nat
    BY <2>1, <1>1, <1>2, LinkFacts
  <2>3. bp \in Word \ F
    BY <1>1, <1>2, <1>3
  <2>4. bp \in Nat
    BY <1>2, ChunkFacts
  <2> QED
    BY <2>1, <2>2, <2>3, <2>4
<1>8. OnListBehind(F, nx, prev, bp, ny)
  BY <1>1, <1>2, <1>4, <1>5, <1>6, <1>7, LinkIn
<1>9. /\ ny \in Links /\ LinksOn(ny, F \cup {bp}) /\ ny[prev] = bp /\ ny[bp] = nx[prev]
      /\ \A b \in F \cup {Fl_head} : b # prev => ny[b] = nx[b]
  BY <1>8 DEF OnListBehind
<1>10. t.color \in [Word -> {"White", "Black", "Blue"}] /\ t.color[bp] = "Blue"
       /\ \A b \in Word : b # bp => t.color[b] = s.color[b]
  BY <1>1, <1>3, <1>5
<1>11. FreeIn(t) = F \cup {bp}
  <2>1. \A b \in Word : b \in FreeIn(t) <=> b \in F \/ b = bp
    BY <1>2, <1>3, <1>5, <1>10 DEF FreeIn, BlocksOf
  <2> QED
    BY <2>1, <1>1, <1>2, <1>3 DEF FreeIn, BlocksOf
<1>12. Merged(t.size, F \cup {bp})
  <2>1. ASSUME NEW b \in F \cup {bp} PROVE End(u, b) \notin F \cup {bp}
    <3>1. CASE b \in F
      BY <3>1, <1>1, <1>2, <1>3 DEF Merged
    <3>2. CASE b = bp
      BY <3>2, <1>1, <1>2, <1>3
    <3> QED
      BY <3>1, <3>2
  <2> QED
    BY <2>1, <1>5 DEF Merged
<1>13. t.fl_prev \in F \cup {bp} \cup {Fl_head} /\ t.fl_merge \in F \cup {bp} \cup {Fl_head}
  BY <1>1, <1>2, <1>5
<1>14. RecordInv(t, cs \cup {c})
  BY <1>3, <1>5, <1>6, <1>9, <1>10, <1>11, <1>12, <1>13, RecordFrom DEF Plain
<1>15. KeptIn(s, t)
  BY <1>2, <1>3, <1>5, <1>10 DEF KeptIn, BlocksOf
<1>16. ASSUME gc_sweep_hp \in Nat, MergeAt(s, gc_sweep_hp), SweepAt(cs, gc_sweep_hp),
              bp >= gc_sweep_hp \/ \E b \in F : bp < b
       PROVE  MergeAt(t, gc_sweep_hp)
  <2>1. PICK hp : hp = gc_sweep_hp
    OBVIOUS
  <2>2. PICK d \in cs : d[1] <= hp /\ hp <= d[2] + 1
    BY <2>1, <1>16 DEF SweepAt
  <2>3. bp # hp
    <3>1. d \in Chunks /\ d # c
      OBVIOUS
    <3>2. d[1] \in Nat /\ d[2] \in Nat /\ q \in Nat /\ (d[2] + 1 < bp \/ q + 1 < d[1]) /\ bp < q
      BY <3>1, <1>2, ChunkFacts
    <3> QED
      BY <3>2, <2>2, <1>7
  <2>4. s.fl_merge < hp /\ (nx[s.fl_merge] = Null \/ nx[s.fl_merge] >= hp)
    BY <2>1, <1>6, <1>16 DEF MergeAt
  <2>5. CASE s.fl_merge # prev
    <3>1. t.fl_merge = s.fl_merge /\ ny[s.fl_merge] = nx[s.fl_merge]
      BY <2>5, <1>1, <1>2, <1>5, <1>9
    <3> QED
      BY <3>1, <2>1, <2>4, <1>6 DEF MergeAt
  <2>6. CASE s.fl_merge = prev /\ t.fl_merge = bp /\ bp <= hp
    BY <2>1, <2>3, <2>4, <2>6, <1>6, <1>7, <1>9, <1>16 DEF MergeAt
  <2>7. CASE s.fl_merge = prev /\ t.fl_merge = prev /\ bp > hp
    BY <2>1, <2>4, <2>7, <1>6, <1>7, <1>9, <1>16 DEF MergeAt
  <2>8. CASE s.fl_merge = prev /\ nx[prev] = Null /\ t.fl_merge = prev
    <3>1. \A b \in F : b <= prev /\ b \in Nat
      BY <2>8, <1>1, <1>2, <1>6, <1>7, LinkFacts
    <3>2. ~ \E b \in F : bp < b
      BY <3>1, <1>4, <1>7
    <3>3. bp >= hp
      BY <3>2, <2>1, <1>16
    <3> QED
      BY <3>3, <2>1, <2>4, <2>8, <1>6, <1>7, <1>9, <1>16 DEF MergeAt
  <2> QED
    BY <2>1, <2>5, <2>6, <2>7, <2>8, <1>5, <1>6, <1>7, <1>16
<1> QED
  BY <1>2, <1>14, <1>15, <1>16

-----------------------------------------------------------------------------
(* Merging.                                                                *)

(* The list is F, and the block bp behind fl_merge is not on it.           *)
Between(t, cs, F, bp) ==
  /\ Plain(t) /\ t.size \in Sizes /\ t.color \in [Word -> {"White", "Black", "Blue"}] /\ t.next \in Links
  /\ F \in SUBSET Word /\ FreeIn(t) \ {bp} = F /\ bp \in BlocksOf(t.size) \ F
  /\ LinksOn(t.next, F) /\ Tiles(t.size, cs) /\ Merged(t.size, F) /\ End(t.size, bp) \notin F
  /\ t.fl_prev \in F \cup {Fl_head} /\ t.fl_merge \in F \cup {Fl_head} /\ t.fl_merge < bp
  /\ t.next[t.fl_merge] = Null \/ t.next[t.fl_merge] >= End(t.size, bp)
  /\ t.size[bp] = 0 => t.color[bp] # "Blue"

(* The blocks in use but bp are as they were.                              *)
KeptBut(s, t, G, bp) ==
  \A b \in BlocksOf(s.size) \ G : b # bp => t.size[b] = s.size[b] /\ t.color[b] = s.color[b]

(* What the first part of fl_merge_block makes of s.                       *)
JoinedNext(s, bp, prev, cur) ==
  IF Joins(s, bp, cur)
    THEN [s EXCEPT !.size[bp] = @ + s.size[cur] + 1, !.size[cur] = Null,
                   !.color[bp] = "Blue", !.color[cur] = "White",
                   !.next[prev] = s.next[cur], !.next[cur] = Null,
                   !.fl_prev = MovedOff(@, prev, cur)]
    ELSE s

(* What the second part makes of it.                                       *)
JoinedPrev(s, t, bp, prev) ==
  IF prev # Fl_head /\ prev + 1 + s.size[prev] = bp
    THEN [t EXCEPT !.size[prev] = @ + t.size[bp] + 1, !.size[bp] = Null, !.color[bp] = "White"]
  ELSE IF t.size[bp] > 0
    THEN [t EXCEPT !.color[bp] = "Blue", !.next = Linked(@, prev, bp, t.next[prev]), !.fl_merge = bp]
  ELSE t

LEMMA MergeIs ==
  ASSUME NEW s, NEW bp, NEW prev, prev = s.fl_merge, NEW cur, cur = s.next[prev],
         NEW t, t = JoinedNext(s, bp, prev, cur)
  PROVE  MergeBlock(s, bp) = [hp |-> bp + 1 + t.size[bp], s |-> JoinedPrev(s, t, bp, prev)]
<1>1. MergeBlock(s, bp)
        = [hp |-> bp + 1 + JoinedNext(s, bp, s.fl_merge, s.next[s.fl_merge]).size[bp],
           s  |-> JoinedPrev(s, JoinedNext(s, bp, s.fl_merge, s.next[s.fl_merge]), bp, s.fl_merge)]
  BY DEF MergeBlock, JoinedNext, JoinedPrev
<1> QED
  BY <1>1

LEMMA JoinNextKeeps ==
  ASSUME ChunksOK, NEW cs \in SUBSET Chunks, NEW s, RecordInv(s, cs),
         NEW bp \in BlocksOf(s.size) \ FreeIn(s), NEW prev, prev = s.fl_merge, NEW cur, cur = s.next[prev],
         prev < bp, cur = Null \/ bp < cur, NEW t, t = JoinedNext(s, bp, prev, cur)
  PROVE  /\ \E F : Between(t, cs, F, bp)
         /\ t.fl_merge = prev /\ KeptBut(s, t, FreeIn(s), bp)
         /\ prev # Fl_head => t.size[prev] = s.size[prev]
<1>1. /\ s.size \in Sizes /\ s.next \in Links /\ s.color \in [Word -> {"White", "Black", "Blue"}]
      /\ FreeIn(s) \in SUBSET Word /\ FreeIn(s) \subseteq BlocksOf(s.size)
      /\ LinksOn(s.next, FreeIn(s)) /\ Tiles(s.size, cs) /\ Merged(s.size, FreeIn(s))
      /\ s.fl_prev \in FreeIn(s) \cup {Fl_head} /\ prev \in FreeIn(s) \cup {Fl_head} /\ s \in Record
  BY RecordFacts DEF RecordInv
<1>2. PICK F : F = FreeIn(s)
  OBVIOUS
<1>3. bp \in BlocksOf(s.size) /\ bp \notin F /\ bp \in Word /\ bp \in Nat /\ prev \in Nat /\ End(s.size, bp) \in Nat
  BY <1>1, <1>2, BlockFacts, LinkFacts
<1>4. cur # Null => cur \in F /\ cur \in BlocksOf(s.size) /\ cur \in Word /\ cur \in Nat /\ prev < cur
                    /\ cur >= End(s.size, bp)
  <2>1. SUFFICES ASSUME cur # Null
        PROVE cur \in F /\ cur \in BlocksOf(s.size) /\ cur \in Word /\ cur \in Nat /\ prev < cur
              /\ cur >= End(s.size, bp)
    OBVIOUS
  <2>2. cur \in F /\ cur \in Nat /\ prev < cur
    BY ZenonT(40), <2>1, <1>1, <1>2, LinkFacts
  <2>3. cur \in BlocksOf(s.size) /\ cur \in Word
    BY <2>2, <1>1, <1>2
  <2>4. End(s.size, bp) <= cur
    BY <2>1, <2>3, <1>1, <1>3 DEF Tiles
  <2> QED
    BY <2>2, <2>3, <2>4, <1>3
<1>5. Plain(s)
  BY <1>1 DEF Record, Plain
<1>6. CASE ~ Joins(s, bp, cur)
  <2>1. t = s
    BY <1>6 DEF JoinedNext
  <2>2. End(s.size, bp) \notin F
    <3>1. SUFFICES ASSUME End(s.size, bp) \in F PROVE FALSE
      OBVIOUS
    <3>2. PICK x : x = End(s.size, bp)
      OBVIOUS
    <3>3. x \in Nat /\ bp < x /\ x \in F
      BY <3>1, <3>2, <1>1, <1>3, BlockFacts
    <3>4. cur # Null /\ cur <= x
      <4>1. ~ (x <= prev)
        BY <3>3, <1>3
      <4>2. cur = Null => x <= prev
        BY <3>3, <1>1, <1>2, LinkFacts
      <4>3. cur # Null => x <= prev \/ cur <= x
        BY <3>3, <1>1, <1>2, LinkFacts
      <4> QED
        BY <4>1, <4>2, <4>3
    <3>5. x = cur
      BY <3>2, <3>3, <3>4, <1>4
    <3> QED
      BY <3>2, <3>4, <3>5, <1>6 DEF Joins, End
  <2>3. s.size[bp] = 0 => s.color[bp] # "Blue"
    BY <1>2, <1>3 DEF FreeIn
  <2>4. FreeIn(s) \ {bp} = F
    BY <1>2, <1>3
  <2>5. Between(s, cs, F, bp)
    BY <2>2, <2>3, <2>4, <1>1, <1>2, <1>3, <1>4, <1>5 DEF Between
  <2> QED
    BY <2>1, <2>5 DEF KeptBut
<1>7. CASE Joins(s, bp, cur)
  <2>1. cur # Null /\ End(s.size, bp) = cur
    BY <1>7 DEF Joins, End
  <2>2. PICK u, ny : u = [s.size EXCEPT ![bp] = s.size[bp] + s.size[cur] + 1, ![cur] = Null]
                     /\ ny = Unlinked(s.next, prev, cur)
    OBVIOUS
  <2>3. /\ Plain(t) /\ t.size = u /\ t.color = [s.color EXCEPT ![bp] = "Blue", ![cur] = "White"]
        /\ t.next = ny /\ t.fl_prev = MovedOff(s.fl_prev, prev, cur) /\ t.fl_merge = prev
    BY <2>2, <1>1, <1>7 DEF JoinedNext, Plain, Record, Unlinked
  <2>4. /\ u \in Sizes /\ Tiles(u, cs) /\ BlocksOf(u) = BlocksOf(s.size) \ {cur}
        /\ End(u, bp) = End(s.size, cur)
        /\ \A y \in BlocksOf(u) : y # bp => u[y] = s.size[y] /\ End(u, y) = End(s.size, y)
    <3>1. JoinedTile(s.size, u, cs, bp, cur)
      BY <2>1, <2>2, <1>1, <1>3, <1>4, JoinTiles
    <3> QED
      BY <3>1 DEF JoinedTile
  <2>5. OffList(F, s.next, prev, cur, ny)
    BY <2>1, <2>2, <1>1, <1>2, Unlink
  <2>6. PICK G : G = F \ {cur}
    OBVIOUS
  <2>7. ny \in Links /\ LinksOn(ny, G) /\ prev \in G \cup {Fl_head} /\ prev < cur /\ ny[prev] = s.next[cur]
    BY <2>5, <2>6 DEF OffList
  <2>8. t.color \in [Word -> {"White", "Black", "Blue"}] /\ t.color[cur] = "White"
        /\ \A b \in Word : b # bp /\ b # cur => t.color[b] = s.color[b]
    BY <2>1, <2>3, <1>1, <1>3, <1>4
  <2>9. FreeIn(t) \ {bp} = G
    <3>1. \A b \in Word : b \in FreeIn(t) \ {bp} <=> b \in G
      BY <2>3, <2>4, <2>6, <2>8, <1>2, <1>3 DEF FreeIn, BlocksOf
    <3> QED
      BY <3>1, <2>6, <1>1, <1>2 DEF FreeIn, BlocksOf
  <2>10. Merged(u, G)
    <3>1. ASSUME NEW b \in G PROVE End(u, b) \notin G
      <4>1. b \in BlocksOf(u) /\ b # bp /\ b \in F
        BY <2>4, <2>6, <1>1, <1>2, <1>3
      <4> QED
        BY <4>1, <2>4, <2>6, <1>1, <1>2 DEF Merged
    <3> QED
      BY <3>1 DEF Merged
  <2>11. End(u, bp) \notin G
    BY <2>1, <2>4, <2>6, <1>1, <1>2, <1>4 DEF Merged
  <2>12. ny[prev] = Null \/ ny[prev] >= End(u, bp)
    <3>1. SUFFICES ASSUME ny[prev] # Null PROVE ny[prev] >= End(u, bp)
      OBVIOUS
    <3>2. PICK y : y = ny[prev]
      OBVIOUS
    <3>3. y \in F /\ y \in Nat /\ cur < y
      BY <3>1, <3>2, <2>1, <2>7, <1>1, <1>2, <1>4, LinkFacts
    <3>4. End(s.size, cur) <= y
      BY <3>3, <2>1, <1>1, <1>2, <1>4 DEF Tiles
    <3>5. End(s.size, cur) \in Nat
      BY <2>1, <1>1, <1>4, BlockFacts
    <3> QED
      BY <3>2, <3>3, <3>4, <3>5, <2>4
  <2>13. u[bp] # 0
    <3>1. s.size[bp] \in Nat /\ s.size[cur] \in Nat
      BY <2>1, <1>1, <1>3, <1>4, BlockFacts
    <3>2. u[bp] = s.size[bp] + s.size[cur] + 1
      BY <2>1, <2>2, <1>1, <1>3, <1>4 DEF Sizes
    <3> QED
      BY <3>1, <3>2
  <2>14. t.fl_prev \in G \cup {Fl_head}
    BY <2>3, <2>6, <2>7, <1>1, <1>2 DEF MovedOff
  <2>15. bp \in BlocksOf(u) \ G /\ G \in SUBSET Word
    BY <2>1, <2>4, <2>6, <1>1, <1>2, <1>3, <1>4
  <2>16. Between(t, cs, G, bp)
    BY <2>3, <2>4, <2>7, <2>8, <2>9, <2>10, <2>11, <2>12, <2>13, <2>14, <2>15 DEF Between
  <2>17. KeptBut(s, t, FreeIn(s), bp)
    <3>1. SUFFICES ASSUME NEW b \in BlocksOf(s.size) \ F, b # bp
          PROVE t.size[b] = s.size[b] /\ t.color[b] = s.color[b]
      BY <1>2 DEF KeptBut
    <3>2. b # cur /\ b \in Word
      BY <2>1, <1>4 DEF BlocksOf
    <3> QED
      BY <3>1, <3>2, <2>3, <2>4, <2>8
  <2>18. prev # Fl_head => t.size[prev] = s.size[prev]
    <3>1. SUFFICES ASSUME prev # Fl_head PROVE t.size[prev] = s.size[prev]
      OBVIOUS
    <3>2. prev \in BlocksOf(u) /\ prev # bp
      BY <3>1, <2>4, <2>6, <2>7, <1>1, <1>2, <1>3
    <3> QED
      BY <3>2, <2>3, <2>4
  <2> QED
    BY <2>3, <2>16, <2>17, <2>18
<1> QED
  BY <1>6, <1>7

LEMMA JoinPrevKeeps ==
  ASSUME ChunksOK, NEW cs \in SUBSET Chunks, NEW s, NEW G, NEW t, NEW F, NEW bp, Between(t, cs, F, bp),
         NEW prev, prev = t.fl_merge, prev # Fl_head => t.size[prev] = s.size[prev],
         NEW o, o = JoinedPrev(s, t, bp, prev),
         KeptBut(s, t, G, bp), G \in SUBSET Word, prev # Fl_head => prev \in G
  PROVE  /\ RecordInv(o, cs) /\ MergeAt(o, End(t.size, bp)) /\ KeptBut(s, o, G, bp)
         /\ End(t.size, bp) \in Nat /\ End(t.size, bp) <= MaxWord + 1 /\ SweepAt(cs, End(t.size, bp))
<1>1. /\ Plain(t) /\ t.size \in Sizes /\ t.color \in [Word -> {"White", "Black", "Blue"}] /\ t.next \in Links
      /\ F \in SUBSET Word /\ FreeIn(t) \ {bp} = F /\ bp \in BlocksOf(t.size) \ F
      /\ LinksOn(t.next, F) /\ Tiles(t.size, cs) /\ Merged(t.size, F) /\ End(t.size, bp) \notin F
      /\ t.fl_prev \in F \cup {Fl_head} /\ prev \in F \cup {Fl_head} /\ prev < bp
      /\ t.next[prev] = Null \/ t.next[prev] >= End(t.size, bp)
      /\ t.size[bp] = 0 => t.color[bp] # "Blue"
  BY DEF Between
<1>2. PICK hp : hp = End(t.size, bp)
  OBVIOUS
<1>3. /\ bp \in Word /\ bp \in Nat /\ prev \in Nat /\ hp \in Nat /\ bp < hp /\ hp <= MaxWord + 1
      /\ t.size[bp] \in Nat
  BY <1>1, <1>2, BlockFacts, LinkFacts
<1>4. SweepAt(cs, hp)
  <2>1. PICK c \in cs : Fits(t.size, bp, c)
    BY <1>1 DEF Tiles
  <2>2. c[1] \in Nat /\ c[2] \in Nat
    BY ChunkFacts
  <2>3. c[1] <= hp /\ hp <= c[2] + 1
    BY <2>1, <2>2, <1>2, <1>3 DEF Fits
  <2> QED
    BY <2>3 DEF SweepAt
<1>5. F \subseteq BlocksOf(t.size)
  BY <1>1 DEF FreeIn
<1>6. CASE prev # Fl_head /\ prev + 1 + s.size[prev] = bp
  <2>1. prev \in F /\ prev \in BlocksOf(t.size) /\ End(t.size, prev) = bp /\ prev \in Word
    BY <1>1, <1>5, <1>6 DEF End
  <2>2. PICK u : u = [t.size EXCEPT ![prev] = t.size[prev] + t.size[bp] + 1, ![bp] = Null]
    OBVIOUS
  <2>3. /\ Plain(o) /\ o.size = u /\ o.color = [t.color EXCEPT ![bp] = "White"]
        /\ o.next = t.next /\ o.fl_prev = t.fl_prev /\ o.fl_merge = prev
    BY <2>2, <1>1, <1>6 DEF JoinedPrev, Plain
  <2>4. JoinedTile(t.size, u, cs, prev, bp)
    BY <2>1, <2>2, <1>1, JoinTiles
  <2>5. /\ u \in Sizes /\ Tiles(u, cs) /\ BlocksOf(u) = BlocksOf(t.size) \ {bp}
        /\ End(u, prev) = hp
        /\ \A y \in BlocksOf(u) : y # prev => u[y] = t.size[y] /\ End(u, y) = End(t.size, y)
    BY <2>4, <1>2 DEF JoinedTile
  <2>6. o.color \in [Word -> {"White", "Black", "Blue"}] /\ \A b \in Word : b # bp => o.color[b] = t.color[b]
    BY ZenonT(40), <2>3, <1>1
  <2>7. FreeIn(o) = F
    <3>1. \A b \in Word : b \in FreeIn(o) <=> b \in FreeIn(t) \ {bp}
      BY <2>3, <2>5, <2>6 DEF FreeIn, BlocksOf
    <3> QED
      BY <3>1, <1>1 DEF FreeIn, BlocksOf
  <2>8. Merged(u, F)
    <3>1. ASSUME NEW b \in F PROVE End(u, b) \notin F
      <4>1. b \in BlocksOf(u)
        BY <2>5, <1>1, <1>5
      <4> QED
        BY <4>1, <2>5, <1>1, <1>2 DEF Merged
    <3> QED
      BY <3>1 DEF Merged
  <2>9. RecordInv(o, cs)
    BY <2>3, <2>5, <2>6, <2>7, <2>8, <1>1, RecordFrom DEF Plain
  <2>10. MergeAt(o, hp)
    BY <2>3, <1>1, <1>2, <1>3 DEF MergeAt
  <2>11. KeptBut(s, o, G, bp)
    <3>1. SUFFICES ASSUME NEW b \in BlocksOf(s.size) \ G, b # bp
          PROVE o.size[b] = s.size[b] /\ o.color[b] = s.color[b]
      BY DEF KeptBut
    <3>2. t.size[b] = s.size[b] /\ t.color[b] = s.color[b]
      BY <3>1 DEF KeptBut
    <3>3. b # prev /\ b \in Word
      BY <1>6 DEF BlocksOf
    <3>4. u[b] = t.size[b]
      BY <3>1, <3>3, <2>2, <1>1 DEF Sizes
    <3> QED
      BY <3>1, <3>2, <3>3, <3>4, <2>3, <2>6
  <2> QED
    BY <2>9, <2>10, <2>11, <1>2, <1>3, <1>4
<1>7. CASE ~ (prev # Fl_head /\ prev + 1 + s.size[prev] = bp) /\ t.size[bp] > 0
  <2>1. PICK ny : ny = Linked(t.next, prev, bp, t.next[prev])
    OBVIOUS
  <2>2. /\ Plain(o) /\ o.size = t.size /\ o.color = [t.color EXCEPT ![bp] = "Blue"]
        /\ o.next = ny /\ o.fl_prev = t.fl_prev /\ o.fl_merge = bp
    BY <2>1, <1>1, <1>7 DEF JoinedPrev, Plain
  <2>3. t.next[prev] = Null \/ bp < t.next[prev]
    <3>1. CASE t.next[prev] # Null
      <4>1. t.next[prev] \in Nat /\ t.next[prev] >= hp
        BY <3>1, <1>1, <1>2, LinkFacts
      <4> QED
        BY <4>1, <1>3
    <3> QED
      BY <3>1
  <2>4. OnListBehind(F, t.next, prev, bp, ny)
    BY <2>1, <2>3, <1>1, <1>3, LinkIn
  <2>5. ny \in Links /\ LinksOn(ny, F \cup {bp}) /\ ny[bp] = t.next[prev]
    BY <2>4 DEF OnListBehind
  <2>6. o.color \in [Word -> {"White", "Black", "Blue"}] /\ o.color[bp] = "Blue"
        /\ \A b \in Word : b # bp => o.color[b] = t.color[b]
    BY <2>2, <1>1, <1>3
  <2>7. FreeIn(o) = F \cup {bp}
    <3>1. \A b \in Word : b \in FreeIn(o) <=> b \in (FreeIn(t) \ {bp}) \cup {bp}
      BY <2>2, <2>6, <1>1 DEF FreeIn, BlocksOf
    <3> QED
      BY <3>1, <1>1, <1>3 DEF FreeIn, BlocksOf
  <2>8. \A b \in F : End(t.size, b) # bp
    <3>1. SUFFICES ASSUME NEW b \in F, End(t.size, b) = bp PROVE FALSE
      OBVIOUS
    <3>2. b \in Nat /\ b < bp /\ b \in BlocksOf(t.size)
      BY <3>1, <1>1, <1>5, BlockFacts
    <3>3. b <= prev
      <4>1. t.next[prev] = Null => b <= prev
        BY ZenonT(40), <1>1, LinkFacts
      <4>2. t.next[prev] # Null => b <= prev \/ t.next[prev] <= b
        BY <1>1, LinkFacts
      <4>3. t.next[prev] # Null => t.next[prev] \in Nat
        BY <1>1, LinkFacts
      <4> QED
        BY <4>1, <4>2, <4>3, <3>2, <2>3, <1>3
    <3>4. prev \in F
      BY <3>2, <3>3, <1>1, <1>3 DEF Fl_head, Word, ChunksOK
    <3>5. CASE b < prev
      <4>1. End(t.size, b) <= prev
        BY <3>2, <3>4, <3>5, <1>1, <1>5 DEF Tiles
      <4> QED
        BY <4>1, <3>1, <1>1, <1>3
    <3>6. CASE b = prev
      <4>1. prev # Fl_head
        BY <3>4, <1>1 DEF Fl_head, Word
      <4> QED
        BY <4>1, <3>1, <3>6, <1>7 DEF End
    <3> QED
      BY <3>2, <3>3, <3>5, <3>6, <1>3
  <2>9. Merged(t.size, F \cup {bp})
    <3>1. End(t.size, bp) # bp
      BY <1>2, <1>3
    <3> QED
      BY <3>1, <2>8, <1>1 DEF Merged
  <2>10. RecordInv(o, cs)
    BY <2>2, <2>5, <2>6, <2>7, <2>9, <1>1, RecordFrom DEF Plain
  <2>11. MergeAt(o, hp)
    BY <2>2, <2>5, <1>1, <1>2, <1>3 DEF MergeAt
  <2>12. KeptBut(s, o, G, bp)
    <3>1. SUFFICES ASSUME NEW b \in BlocksOf(s.size) \ G, b # bp
          PROVE o.size[b] = s.size[b] /\ o.color[b] = s.color[b]
      BY DEF KeptBut
    <3>2. t.size[b] = s.size[b] /\ t.color[b] = s.color[b] /\ b \in Word
      BY <3>1 DEF KeptBut, BlocksOf
    <3> QED
      BY <3>1, <3>2, <2>2, <2>6
  <2> QED
    BY <2>10, <2>11, <2>12, <1>2, <1>3, <1>4
<1>8. CASE ~ (prev # Fl_head /\ prev + 1 + s.size[prev] = bp) /\ ~ (t.size[bp] > 0)
  <2>1. o = t
    BY <1>8 DEF JoinedPrev
  <2>2. t.color[bp] # "Blue"
    BY <1>1, <1>3, <1>8
  <2>3. FreeIn(t) = F
    BY <2>2, <1>1 DEF FreeIn
  <2>4. RecordInv(t, cs)
    BY <2>3, <1>1, RecordFrom DEF Plain
  <2>5. MergeAt(t, hp)
    BY <1>1, <1>2, <1>3 DEF MergeAt
  <2> QED
    BY <2>1, <2>4, <2>5, <1>2, <1>3, <1>4
<1> QED
  BY <1>6, <1>7, <1>8

(* fl_merge is the last of the list before the block the sweep comes to.   *)
LEMMA MergeNear ==
  ASSUME ChunksOK, NEW cs \in SUBSET Chunks, NEW s, RecordInv(s, cs), NEW hp \in Nat, MergeAt(s, hp),
         NEW bp \in BlocksOf(s.size), hp <= bp, \A x \in BlocksOf(s.size) : hp <= x => bp <= x
  PROVE  /\ s.fl_merge < bp /\ (s.next[s.fl_merge] = Null \/ bp <= s.next[s.fl_merge])
         /\ s.fl_merge \in FreeIn(s) \cup {Fl_head} /\ s.fl_merge \in Nat
         /\ s.next[s.fl_merge] # Null => s.next[s.fl_merge] \in FreeIn(s) /\ s.next[s.fl_merge] \in Nat
<1>1. /\ s.size \in Sizes /\ s.next \in Links /\ FreeIn(s) \in SUBSET Word /\ FreeIn(s) \subseteq BlocksOf(s.size)
      /\ LinksOn(s.next, FreeIn(s)) /\ Tiles(s.size, cs) /\ s.fl_merge \in FreeIn(s) \cup {Fl_head}
  BY RecordFacts
<1>2. PICK prev, cur : prev = s.fl_merge /\ cur = s.next[prev]
  OBVIOUS
<1>3. prev \in Nat /\ (cur # Null => cur \in FreeIn(s) /\ cur \in Nat) /\ bp \in Nat
  BY <1>1, <1>2, LinkFacts, BlockFacts
<1>4. prev < hp /\ (cur = Null \/ cur >= hp)
  BY <1>2 DEF MergeAt
<1>5. cur # Null => bp <= cur
  BY <1>1, <1>3, <1>4
<1> QED
  BY <1>1, <1>2, <1>3, <1>4, <1>5

LEMMA MergeKeeps ==
  ASSUME ChunksOK, NEW cs \in SUBSET Chunks, NEW s, RecordInv(s, cs), NEW hp \in Nat, MergeAt(s, hp),
         NEW bp \in BlocksOf(s.size) \ FreeIn(s), hp <= bp, \A x \in BlocksOf(s.size) : hp <= x => bp <= x,
         NEW o, o = MergeBlock(s, bp).s, NEW h, h = MergeBlock(s, bp).hp
  PROVE  /\ RecordInv(o, cs) /\ MergeAt(o, h) /\ KeptBut(s, o, FreeIn(s), bp)
         /\ h \in 0 .. MaxWord + 1 /\ SweepAt(cs, h)
<1>1. PICK prev, cur : prev = s.fl_merge /\ cur = s.next[prev]
  OBVIOUS
<1>2. PICK t : t = JoinedNext(s, bp, prev, cur)
  OBVIOUS
<1>3. o = JoinedPrev(s, t, bp, prev) /\ h = bp + 1 + t.size[bp]
  BY <1>1, <1>2, MergeIs
<1>4. /\ prev < bp /\ (cur = Null \/ bp <= cur) /\ prev \in FreeIn(s) \cup {Fl_head} /\ prev \in Nat
      /\ cur # Null => cur \in FreeIn(s) /\ cur \in Nat
  BY <1>1, MergeNear
<1>5. bp \in Nat
  BY DEF BlocksOf, Word, ChunksOK
<1>6. cur = Null \/ bp < cur
  BY <1>4, <1>5
<1>7. /\ \E F : Between(t, cs, F, bp)
      /\ t.fl_merge = prev /\ KeptBut(s, t, FreeIn(s), bp)
      /\ prev # Fl_head => t.size[prev] = s.size[prev]
  BY <1>1, <1>2, <1>4, <1>6, JoinNextKeeps
<1>8. PICK F : Between(t, cs, F, bp)
  BY <1>7
<1>9. FreeIn(s) \in SUBSET Word /\ (prev # Fl_head => prev \in FreeIn(s))
  BY <1>4 DEF FreeIn, BlocksOf
<1>10. /\ RecordInv(o, cs) /\ MergeAt(o, End(t.size, bp)) /\ KeptBut(s, o, FreeIn(s), bp)
       /\ End(t.size, bp) \in Nat /\ End(t.size, bp) <= MaxWord + 1 /\ SweepAt(cs, End(t.size, bp))
  BY <1>3, <1>7, <1>8, <1>9, JoinPrevKeeps
<1>11. h = End(t.size, bp) /\ MaxWord \in Nat
  BY <1>3 DEF End, ChunksOK
<1> QED
  BY <1>10, <1>11

-----------------------------------------------------------------------------
(* The steps.                                                              *)

LEMMA ListIs ==
  /\ Blocks = BlocksOf(List.size) /\ Free = FreeIn(List)
  /\ List.size = size /\ List.color = color /\ List.next = next
  /\ List.fl_prev = fl_prev /\ List.fl_merge = fl_merge
  BY DEF Blocks, Free, BlocksOf, FreeIn, List

LEMMA BecomesIs ==
  ASSUME NEW t \in Record, Becomes(t)
  PROVE  List' = t
  BY DEF Becomes, List, Record

LEMMA InitListInv ==
  ASSUME ChunksOK, Init
  PROVE  ListInv
<1>1. PICK p, q : p = FirstChunk[1] /\ q = FirstChunk[2]
  OBVIOUS
<1>2. p \in Word /\ q \in Word /\ p \in Nat /\ q \in Nat /\ p < q /\ FirstChunk \in Chunks /\ MaxWord \in Nat
  BY <1>1, ChunkFacts DEF ChunksOK
<1>3. q - p \in 0 .. MaxWord /\ q - p # Null /\ p # Null
  BY <1>2 DEF Word, Null
<1>4. /\ size = [b \in Word |-> IF b = p THEN q - b ELSE Null]
      /\ color = [b \in Word |-> IF b = p THEN "Blue" ELSE "White"]
      /\ next = [b \in Word \cup {Fl_head} |-> IF b = Fl_head THEN p ELSE Null]
      /\ fl_prev = Fl_head /\ fl_merge = p
      /\ chunks = {FirstChunk} /\ sweeping = FALSE /\ gc_sweep_hp = 0
  BY <1>1 DEF Init
<1>5. size \in Sizes
  <2>1. \A b \in Word : (IF b = p THEN q - b ELSE Null) \in 0 .. MaxWord \cup {Null}
    BY <1>3
  <2> QED
    BY <2>1, <1>4 DEF Sizes
<1>6. next \in Links /\ color \in [Word -> {"White", "Black", "Blue"}]
  BY <1>2, <1>4 DEF Links, Spot
<1>7. BlocksOf(size) = {p} /\ Free = {p} /\ End(size, p) = q + 1
  BY <1>2, <1>3, <1>4 DEF BlocksOf, Free, Blocks, End
<1>8. LinksOn(next, {p})
  <2>1. next[Fl_head] = p /\ next[p] = Null /\ Fl_head < p /\ p <= p
    BY <1>2, <1>4 DEF Word, Fl_head
  <2> QED
    BY <2>1, <1>3 DEF LinksOn, LinksTo
<1>9. Tiles(size, {FirstChunk})
  <2>1. Fits(size, p, FirstChunk)
    BY <1>1, <1>2, <1>7 DEF Fits
  <2> QED
    BY <2>1, <1>1, <1>2, <1>7 DEF Tiles
<1>10. Merged(size, {p})
  BY <1>2, <1>7 DEF Merged
<1>11. PICK t : t = List
  OBVIOUS
<1>12. /\ Plain(t) /\ t.size = size /\ t.color = color /\ t.next = next
       /\ t.fl_prev = fl_prev /\ t.fl_merge = fl_merge /\ FreeIn(t) = {p}
  BY <1>7, <1>11 DEF Plain, List, FreeIn, Free, Blocks, BlocksOf
<1>13. RecordInv(t, {FirstChunk})
  BY <1>4, <1>5, <1>6, <1>8, <1>9, <1>10, <1>12, RecordFrom DEF Plain
<1>14. RecordInv(List, chunks)
  BY <1>4, <1>11, <1>13
<1>15. gc_sweep_hp \in 0 .. MaxWord + 1
  BY <1>2, <1>4
<1> QED
  BY <1>2, <1>4, <1>14, <1>15 DEF ListInv

LEMMA InvFacts ==
  ASSUME ListInv
  PROVE  /\ RecordInv(List, chunks) /\ chunks \in SUBSET Chunks /\ chunks # {} /\ sweeping \in BOOLEAN
         /\ gc_sweep_hp \in 0 .. MaxWord + 1 /\ gc_sweep_hp \in Nat
         /\ sweeping => MergeAt(List, gc_sweep_hp) /\ SweepAt(chunks, gc_sweep_hp)
  BY DEF ListInv

LEMMA KeptStep ==
  ASSUME NEW t, KeptIn(List, t), List' = t
  PROVE  InUseKeptStep
<1>1. SUFFICES ASSUME NEW b \in Blocks \ Free PROVE size'[b] = size[b] /\ color'[b] # "Blue"
  BY DEF InUseKeptStep
<1>2. t.size = size' /\ t.color = color'
  BY DEF List
<1>3. t.size[b] = size[b] /\ t.color[b] = color[b]
  BY <1>1, ListIs DEF KeptIn
<1>4. color[b] # "Blue"
  BY <1>1 DEF Free
<1> QED
  BY <1>2, <1>3, <1>4

LEMMA AllocateStep ==
  ASSUME ChunksOK, ListInv, NEW wo \in 1 .. MaxWosize, Allocate(wo)
  PROVE  ListInv' /\ InUseKeptStep
<1>1. /\ RecordInv(List, chunks) /\ chunks \in SUBSET Chunks /\ gc_sweep_hp \in Nat
      /\ sweeping => MergeAt(List, gc_sweep_hp)
  BY InvFacts
<1>2. PICK s : s = List
  OBVIOUS
<1>3. PICK fit \in FirstFit(s, wo) : Becomes(TakeBlock(s, fit.prev, fit.cur, wo))
  BY <1>2 DEF Allocate
<1>4. PICK prev, cur, t : prev = fit.prev /\ cur = fit.cur /\ t = TakeBlock(s, prev, cur, wo)
  OBVIOUS
<1>5. wo \in Nat /\ wo \in Nat \ {0}
  BY DEF ChunksOK
<1>6. s \in Record /\ LinksOn(s.next, FreeIn(s)) /\ s.fl_prev \in ListIn(s)
  BY <1>1, <1>2 DEF RecordInv
<1>7. prev \in ListIn(s) /\ cur = s.next[prev] /\ cur # Null /\ s.size[cur] >= wo
  BY <1>3, <1>4, <1>5, <1>6, FitIs
<1>8. /\ RecordInv(t, chunks) /\ KeptIn(s, t)
      /\ \A hp \in Nat : MergeAt(s, hp) => MergeAt(t, hp)
  BY <1>1, <1>2, <1>4, <1>5, <1>7, TakeKeeps
<1>9. List' = t
  BY <1>3, <1>4, <1>8, BecomesIs DEF RecordInv
<1>10. chunks' = chunks /\ sweeping' = sweeping /\ gc_sweep_hp' = gc_sweep_hp
  BY DEF Allocate
<1>11. ListInv'
  BY <1>1, <1>2, <1>8, <1>9, <1>10 DEF ListInv
<1> QED
  BY <1>2, <1>8, <1>9, <1>11, KeptStep

LEMMA ExpandStep ==
  ASSUME ChunksOK, ListInv, NoneBehind, NEW wo \in 1 .. MaxWosize, NEW c \in Chunks, Expand(wo, c)
  PROVE  ListInv' /\ InUseKeptStep
<1>1. /\ RecordInv(List, chunks) /\ chunks \in SUBSET Chunks /\ gc_sweep_hp \in Nat
      /\ sweeping => MergeAt(List, gc_sweep_hp) /\ SweepAt(chunks, gc_sweep_hp)
  BY InvFacts
<1>2. PICK r, s, cs : r = List /\ s = AddBlock(r, c) /\ cs = chunks \cup {c}
  OBVIOUS
<1>3. c \in Chunks \ chunks /\ chunks' = cs /\ sweeping' = sweeping /\ gc_sweep_hp' = gc_sweep_hp
  BY <1>2 DEF Expand
<1>4. PICK fit \in FirstFit(s, wo) : Becomes(TakeBlock(s, fit.prev, fit.cur, wo))
  BY <1>2 DEF Expand
<1>5. PICK prev, cur, t : prev = fit.prev /\ cur = fit.cur /\ t = TakeBlock(s, prev, cur, wo)
  OBVIOUS
<1>6. wo \in Nat /\ wo \in Nat \ {0} /\ cs \in SUBSET Chunks
  BY <1>1, <1>2 DEF ChunksOK
<1>7. /\ RecordInv(s, cs) /\ KeptIn(r, s)
      /\ MergeAt(r, gc_sweep_hp) /\ SweepAt(chunks, gc_sweep_hp)
           /\ (c[1] >= gc_sweep_hp \/ \E b \in FreeIn(r) : c[1] < b)
         => MergeAt(s, gc_sweep_hp)
  BY <1>1, <1>2, <1>3, AddKeeps
<1>8. sweeping => c[1] >= gc_sweep_hp \/ \E b \in FreeIn(r) : c[1] < b
  BY <1>2, <1>3, ListIs DEF NoneBehind
<1>9. sweeping => MergeAt(s, gc_sweep_hp)
  BY <1>1, <1>2, <1>7, <1>8
<1>10. s \in Record /\ LinksOn(s.next, FreeIn(s)) /\ s.fl_prev \in ListIn(s)
  BY <1>7 DEF RecordInv
<1>11. prev \in ListIn(s) /\ cur = s.next[prev] /\ cur # Null /\ s.size[cur] >= wo
  BY <1>4, <1>5, <1>6, <1>10, FitIs
<1>12. /\ RecordInv(t, cs) /\ KeptIn(s, t)
       /\ \A hp \in Nat : MergeAt(s, hp) => MergeAt(t, hp)
  BY <1>5, <1>6, <1>7, <1>11, TakeKeeps
<1>13. List' = t
  BY <1>4, <1>5, <1>12, BecomesIs DEF RecordInv
<1>14. \A hp : SweepAt(chunks, hp) => SweepAt(cs, hp)
  BY <1>2 DEF SweepAt
<1>15. ListInv'
  BY <1>1, <1>2, <1>3, <1>6, <1>9, <1>12, <1>13, <1>14, InvFacts DEF ListInv
<1>16. KeptIn(r, t)
  <2>1. SUFFICES ASSUME NEW b \in BlocksOf(r.size) \ FreeIn(r)
        PROVE t.size[b] = r.size[b] /\ t.color[b] = r.color[b]
    BY DEF KeptIn
  <2>2. s.size[b] = r.size[b] /\ s.color[b] = r.color[b]
    BY <2>1, <1>7 DEF KeptIn
  <2>3. b \in BlocksOf(s.size) \ FreeIn(s)
    BY <2>1, <2>2 DEF BlocksOf, FreeIn
  <2> QED
    BY <2>2, <2>3, <1>12 DEF KeptIn
<1> QED
  BY <1>2, <1>13, <1>15, <1>16, KeptStep

LEMMA SweptIs ==
  ASSUME ListInv, NEW b \in SweptBlock
  PROVE  /\ b \in BlocksOf(List.size) /\ gc_sweep_hp <= b
         /\ \A x \in BlocksOf(List.size) : gc_sweep_hp <= x => b <= x
<1>1. b \in Blocks /\ b >= gc_sweep_hp /\ \A x \in Blocks : x >= gc_sweep_hp => b <= x
  BY DEF SweptBlock
<1>2. gc_sweep_hp \in Nat
  BY InvFacts
<1> QED
  BY <1>1, <1>2, ListIs

LEMMA EndSwept ==
  ASSUME ChunksOK, NEW sz \in Sizes, NEW cs \in SUBSET Chunks, Tiles(sz, cs), NEW b \in BlocksOf(sz)
  PROVE  End(sz, b) \in 0 .. MaxWord + 1 /\ SweepAt(cs, End(sz, b))
<1>1. PICK h : h = End(sz, b)
  OBVIOUS
<1>2. h \in Nat /\ b \in Nat /\ b < h /\ h <= MaxWord + 1 /\ MaxWord \in Nat
  BY <1>1, BlockFacts DEF ChunksOK
<1>3. PICK c \in cs : Fits(sz, b, c)
  BY DEF Tiles
<1>4. c[1] \in Nat /\ c[2] \in Nat
  BY ChunkFacts
<1>5. c[1] <= h /\ h <= c[2] + 1
  BY <1>1, <1>2, <1>3, <1>4 DEF Fits
<1> QED
  BY <1>1, <1>2, <1>5 DEF SweepAt

LEMMA SweepDeadStep ==
  ASSUME ChunksOK, ListInv, sweeping, NEW b \in SweptBlock, SweepDead(b), UNCHANGED <<chunks, sweeping>>
  PROVE  ListInv' /\ InUseKeptStep
<1>1. /\ RecordInv(List, chunks) /\ chunks \in SUBSET Chunks /\ chunks # {} /\ gc_sweep_hp \in Nat
      /\ MergeAt(List, gc_sweep_hp) /\ sweeping \in BOOLEAN
  BY InvFacts
<1>2. PICK s, hp, cs, o, h : s = List /\ hp = gc_sweep_hp /\ cs = chunks
                             /\ o = MergeBlock(s, b).s /\ h = MergeBlock(s, b).hp
  OBVIOUS
<1>3. b \in BlocksOf(s.size) /\ hp <= b /\ \A x \in BlocksOf(s.size) : hp <= x => b <= x
  BY <1>2, SweptIs
<1>4. b \notin FreeIn(s) /\ color[b] = "White"
  BY <1>2, ListIs DEF SweepDead, IsDead, FreeIn
<1>5. /\ RecordInv(o, cs) /\ MergeAt(o, h) /\ KeptBut(s, o, FreeIn(s), b)
      /\ h \in 0 .. MaxWord + 1 /\ SweepAt(cs, h)
  BY <1>1, <1>2, <1>3, <1>4, MergeKeeps
<1>6. List' = o /\ gc_sweep_hp' = h
  BY <1>2, <1>5, BecomesIs DEF SweepDead, RecordInv
<1>7. ListInv'
  BY <1>1, <1>2, <1>5, <1>6 DEF ListInv
<1>8. InUseKeptStep
  <2>1. SUFFICES ASSUME NEW x \in Blocks \ Free, ~ (sweeping /\ x \in SweptBlock /\ color[x] = "White")
        PROVE size'[x] = size[x] /\ color'[x] # "Blue"
    BY DEF InUseKeptStep
  <2>2. x # b
    BY <2>1, <1>4
  <2>3. o.size[x] = size[x] /\ o.color[x] = color[x]
    BY <2>1, <2>2, <1>2, <1>5, ListIs DEF KeptBut
  <2>4. o.size = size' /\ o.color = color'
    BY <1>6 DEF List
  <2>5. color[x] # "Blue"
    BY <2>1 DEF Free
  <2> QED
    BY <2>3, <2>4, <2>5
<1> QED
  BY <1>7, <1>8

(* The links and the sizes are as they were; only other colors of blocks   *)
(* in use, and other pointers.                                             *)
LEMMA Recolored ==
  ASSUME ChunksOK, ListInv, size' = size, next' = next, color' \in [Word -> {"White", "Black", "Blue"}],
         \A b \in Word : color'[b] = "Blue" <=> color[b] = "Blue",
         fl_prev' = fl_prev, fl_merge' \in Free \cup {Fl_head}
  PROVE  RecordInv(List', chunks) /\ InUseKeptStep
<1>1. PICK s, t : s = List /\ t = List'
  OBVIOUS
<1>2. /\ s.size \in Sizes /\ s.next \in Links
      /\ FreeIn(s) \in SUBSET Word /\ FreeIn(s) \subseteq BlocksOf(s.size)
      /\ LinksOn(s.next, FreeIn(s)) /\ Tiles(s.size, chunks) /\ Merged(s.size, FreeIn(s))
      /\ s.fl_prev \in FreeIn(s) \cup {Fl_head}
  BY <1>1, InvFacts, RecordFacts
<1>3. /\ Plain(t) /\ t.size = s.size /\ t.next = s.next /\ t.color = color' /\ t.fl_prev = s.fl_prev
      /\ t.fl_merge = fl_merge' /\ s.color = color
  BY <1>1 DEF List, Plain
<1>4. FreeIn(t) = FreeIn(s)
  BY <1>3 DEF FreeIn, BlocksOf
<1>5. Free = FreeIn(s)
  BY <1>1, ListIs
<1>6. RecordInv(t, chunks)
  BY <1>2, <1>3, <1>4, <1>5, RecordFrom DEF Plain
<1>7. InUseKeptStep
  BY DEF InUseKeptStep, Free, Blocks
<1> QED
  BY <1>1, <1>6, <1>7

LEMMA SweepMarkedStep ==
  ASSUME ChunksOK, ListInv, sweeping, NEW b \in SweptBlock, SweepMarked(b), UNCHANGED <<chunks, sweeping>>
  PROVE  ListInv' /\ InUseKeptStep
<1>1. /\ RecordInv(List, chunks) /\ chunks \in SUBSET Chunks /\ chunks # {} /\ gc_sweep_hp \in Nat
      /\ MergeAt(List, gc_sweep_hp) /\ sweeping \in BOOLEAN
  BY InvFacts
<1>2. PICK s, hp, cs, h : s = List /\ hp = gc_sweep_hp /\ cs = chunks /\ h = End(size, b)
  OBVIOUS
<1>3. b \in BlocksOf(s.size) /\ hp <= b /\ \A x \in BlocksOf(s.size) : hp <= x => b <= x
  BY <1>2, SweptIs
<1>4. /\ s.size \in Sizes /\ Tiles(s.size, cs) /\ s.fl_merge \in FreeIn(s) \cup {Fl_head}
      /\ FreeIn(s) \subseteq BlocksOf(s.size) /\ s.color \in [Word -> {"White", "Black", "Blue"}]
  BY <1>1, <1>2, RecordFacts
<1>5. /\ s.fl_merge < b /\ (s.next[s.fl_merge] = Null \/ b <= s.next[s.fl_merge])
      /\ s.fl_merge \in Nat
      /\ s.next[s.fl_merge] # Null => s.next[s.fl_merge] \in FreeIn(s) /\ s.next[s.fl_merge] \in Nat
  BY <1>1, <1>2, <1>3, MergeNear
<1>6. /\ color[b] = "Black" /\ color' = [color EXCEPT ![b] = "White"] /\ h = gc_sweep_hp'
      /\ size' = size /\ next' = next /\ fl_prev' = fl_prev /\ fl_merge' = fl_merge
  BY <1>2 DEF SweepMarked, After, End
<1>7. b \notin FreeIn(s) /\ b \in Word /\ b \in Nat
  <2>1. s.color[b] = "Black"
    BY <1>2, <1>6, ListIs
  <2>2. b \notin FreeIn(s)
    BY <2>1 DEF FreeIn
  <2> QED
    BY <2>2, <1>1, <1>2, <1>3, <1>4, BlockFacts
<1>8. color' \in [Word -> {"White", "Black", "Blue"}] /\ \A x \in Word : color'[x] = "Blue" <=> color[x] = "Blue"
  BY <1>2, <1>4, <1>6, <1>7, ListIs
<1>9. RecordInv(List', cs) /\ InUseKeptStep
  BY <1>2, <1>4, <1>6, <1>8, ListIs, Recolored
<1>10. h \in 0 .. MaxWord + 1 /\ SweepAt(cs, h) /\ b < h /\ h \in Nat
  BY <1>1, <1>2, <1>3, <1>4, ListIs, EndSwept, BlockFacts
<1>11. s.next[s.fl_merge] = Null \/ s.next[s.fl_merge] >= h
  <2>1. SUFFICES ASSUME s.next[s.fl_merge] # Null PROVE s.next[s.fl_merge] >= h
    OBVIOUS
  <2>2. PICK x : x = s.next[s.fl_merge]
    OBVIOUS
  <2>3. x \in FreeIn(s) /\ x \in Nat /\ b <= x
    BY <2>1, <2>2, <1>5
  <2>4. b < x /\ x \in BlocksOf(s.size)
    BY <2>3, <1>4, <1>7
  <2>5. End(s.size, b) <= x
    BY <2>4, <1>3, <1>4 DEF Tiles
  <2>6. h <= x
    BY <2>5, <1>2, ListIs
  <2> QED
    BY <2>2, <2>3, <2>6, <1>10
<1>12. s.fl_merge < h
  BY <1>5, <1>7, <1>10
<1>13. MergeAt(List', h)
  <2>1. PICK t : t = List'
    OBVIOUS
  <2>2. t.next = s.next /\ t.fl_merge = s.fl_merge
    BY <2>1, <1>2, <1>6 DEF List
  <2> QED
    BY <2>1, <2>2, <1>11, <1>12 DEF MergeAt
<1> QED
  BY <1>1, <1>2, <1>6, <1>9, <1>10, <1>13 DEF ListInv

LEMMA SweepFreeStep ==
  ASSUME ChunksOK, ListInv, sweeping, NEW b \in SweptBlock, SweepFree(b), UNCHANGED <<chunks, sweeping>>
  PROVE  ListInv' /\ InUseKeptStep
<1>1. /\ RecordInv(List, chunks) /\ chunks \in SUBSET Chunks /\ chunks # {} /\ sweeping \in BOOLEAN
  BY InvFacts
<1>2. PICK s, cs, h : s = List /\ cs = chunks /\ h = End(size, b)
  OBVIOUS
<1>3. b \in BlocksOf(s.size)
  BY <1>2, SweptIs
<1>4. /\ s.size \in Sizes /\ Tiles(s.size, cs) /\ FreeIn(s) \in SUBSET Word /\ s.next \in Links
      /\ LinksOn(s.next, FreeIn(s))
      /\ FreeIn(s) \subseteq BlocksOf(s.size) /\ s.color \in [Word -> {"White", "Black", "Blue"}]
  BY <1>1, <1>2, RecordFacts
<1>5. /\ color[b] = "Blue" /\ color' = color /\ h = gc_sweep_hp'
      /\ size' = size /\ next' = next /\ fl_prev' = fl_prev /\ fl_merge' = b
  BY <1>2 DEF SweepFree, After, End
<1>6. b \in FreeIn(s)
  BY <1>2, <1>3, <1>5, ListIs DEF FreeIn
<1>7. RecordInv(List', cs) /\ InUseKeptStep
  BY <1>2, <1>4, <1>5, <1>6, ListIs, Recolored
<1>8. h \in 0 .. MaxWord + 1 /\ SweepAt(cs, h) /\ b < h /\ h \in Nat /\ b \in Nat
  BY <1>1, <1>2, <1>3, <1>4, ListIs, EndSwept, BlockFacts
<1>9. next[b] = Null \/ next[b] >= h
  <2>1. SUFFICES ASSUME next[b] # Null PROVE next[b] >= h
    OBVIOUS
  <2>2. PICK x, nx : x = next[b] /\ nx = s.next
    OBVIOUS
  <2>3. nx[b] = x /\ nx \in Links /\ LinksOn(nx, FreeIn(s)) /\ b \in FreeIn(s) \cup {Fl_head}
    BY <2>2, <1>2, <1>4, <1>6, ListIs
  <2>4. x \in FreeIn(s) /\ x \in Nat /\ b < x
    <3>1. nx[b] # Null
      BY <2>1, <2>2, <2>3
    <3>2. nx[b] \in FreeIn(s) /\ nx[b] \in Nat /\ b < nx[b]
      BY <3>1, <2>3, <1>4, LinkFacts
    <3> QED
      BY <3>2, <2>3
  <2>5. End(s.size, b) <= x
    BY <2>4, <1>3, <1>4 DEF Tiles
  <2>6. h <= x
    BY <2>5, <1>2, ListIs
  <2> QED
    BY <2>2, <2>4, <2>6, <1>8
<1>10. MergeAt(List', h)
  <2>1. PICK t : t = List'
    OBVIOUS
  <2>2. t.next = next /\ t.fl_merge = b
    BY <2>1, <1>5 DEF List
  <2> QED
    BY <2>1, <2>2, <1>8, <1>9 DEF MergeAt
<1> QED
  BY <1>1, <1>2, <1>5, <1>7, <1>8, <1>10 DEF ListInv

LEMMA MarkDoneStep ==
  ASSUME ChunksOK, ListInv, MarkDone
  PROVE  ListInv' /\ InUseKeptStep
<1>1. /\ RecordInv(List, chunks) /\ chunks \in SUBSET Chunks /\ chunks # {}
  BY InvFacts
<1>2. /\ size' = size /\ next' = next /\ fl_prev' = fl_prev /\ chunks' = chunks
      /\ fl_merge' = Fl_head /\ sweeping' = TRUE
  BY DEF MarkDone, fl_init_merge
<1>3. PICK live \in SUBSET {b \in Blocks : color[b] = "White" /\ size[b] > 0} :
        color' = [b \in Word |-> IF b \in live THEN "Black" ELSE color[b]]
  BY DEF MarkDone
<1>4. PICK s, cs : s = List /\ cs = chunks
  OBVIOUS
<1>5. /\ s.size \in Sizes /\ Tiles(s.size, cs) /\ FreeIn(s) \in SUBSET Word /\ s.next \in Links
      /\ LinksOn(s.next, FreeIn(s))
      /\ FreeIn(s) \subseteq BlocksOf(s.size) /\ s.color \in [Word -> {"White", "Black", "Blue"}]
  BY <1>1, <1>4, RecordFacts
<1>6. color \in [Word -> {"White", "Black", "Blue"}]
  BY <1>4, <1>5, ListIs
<1>7. color' \in [Word -> {"White", "Black", "Blue"}] /\ \A b \in Word : color'[b] = "Blue" <=> color[b] = "Blue"
  <2>1. SUFFICES ASSUME NEW b \in Word
        PROVE color'[b] \in {"White", "Black", "Blue"} /\ (color'[b] = "Blue" <=> color[b] = "Blue")
    BY <1>3
  <2>2. CASE b \in live
    BY <2>2, <1>3
  <2>3. CASE b \notin live
    BY <2>3, <1>3, <1>6
  <2> QED
    BY <2>2, <2>3
<1>8. RecordInv(List', cs) /\ InUseKeptStep
  BY <1>2, <1>4, <1>7, Recolored
<1>9. PICK c \in chunks : (\A d \in chunks : c[1] <= d[1]) /\ gc_sweep_hp' = c[1]
  BY DEF MarkDone
<1>10. PICK h : h = c[1]
  OBVIOUS
<1>11. h \in Word /\ h \in Nat /\ Fl_head < h /\ MaxWord \in Nat /\ h <= c[2] + 1
  BY <1>1, <1>9, <1>10, ChunkFacts DEF Word, Fl_head, ChunksOK
<1>12. h \in 0 .. MaxWord + 1
  BY <1>11 DEF Word
<1>13. SweepAt(cs, h)
  BY <1>4, <1>9, <1>10, <1>11 DEF SweepAt
<1>14. next[Fl_head] = Null \/ next[Fl_head] >= h
  <2>1. SUFFICES ASSUME next[Fl_head] # Null PROVE next[Fl_head] >= h
    OBVIOUS
  <2>2. PICK x, nx : x = next[Fl_head] /\ nx = s.next
    OBVIOUS
  <2>3. nx[Fl_head] = x /\ nx \in Links /\ LinksOn(nx, FreeIn(s)) /\ Fl_head \in FreeIn(s) \cup {Fl_head}
    BY <2>2, <1>4, <1>5, ListIs
  <2>4. x \in FreeIn(s) /\ x \in Nat
    <3>1. nx[Fl_head] # Null
      BY <2>1, <2>2, <2>3
    <3>2. nx[Fl_head] \in FreeIn(s) /\ nx[Fl_head] \in Nat
      BY <3>1, <2>3, <1>5, LinkFacts
    <3> QED
      BY <3>2, <2>3
  <2>5. PICK d \in cs : Fits(s.size, x, d)
    BY <2>4, <1>5 DEF Tiles
  <2>6. d[1] <= x /\ h <= d[1] /\ d[1] \in Nat
    BY <2>5, <1>1, <1>4, <1>9, <1>10, ChunkFacts DEF Fits
  <2> QED
    BY <2>2, <2>4, <2>6, <1>11
<1>15. MergeAt(List', h)
  <2>1. PICK t : t = List'
    OBVIOUS
  <2>2. t.next = next /\ t.fl_merge = Fl_head
    BY <2>1, <1>2 DEF List
  <2> QED
    BY <2>1, <2>2, <1>11, <1>14 DEF MergeAt
<1> QED
  BY <1>1, <1>2, <1>4, <1>8, <1>9, <1>10, <1>12, <1>13, <1>15 DEF ListInv

LEMMA QuietStep ==
  ASSUME ChunksOK, ListInv, StartCycle \/ UNCHANGED vars
  PROVE  ListInv' /\ InUseKeptStep
<1>1. UNCHANGED listVars /\ chunks' = chunks /\ gc_sweep_hp' = gc_sweep_hp
      /\ (sweeping' = sweeping \/ sweeping' = FALSE)
  BY DEF StartCycle, vars
<1>2. List' = List /\ size' = size /\ color' = color
  BY <1>1 DEF List, listVars
<1>3. ListInv'
  <2>1. RecordInv(List', chunks')
    BY <1>1, <1>2, InvFacts
  <2>2. sweeping' => MergeAt(List', gc_sweep_hp') /\ SweepAt(chunks', gc_sweep_hp')
    BY <1>1, <1>2, InvFacts
  <2>3. sweeping' \in BOOLEAN
    BY <1>1, InvFacts
  <2> QED
    BY <2>1, <2>2, <2>3, <1>1, InvFacts DEF ListInv
<1>4. InUseKeptStep
  BY <1>2 DEF InUseKeptStep, Free
<1> QED
  BY <1>3, <1>4

LEMMA ListNext ==
  ASSUME ChunksOK, ListInv, NoneBehind, [Next]_vars
  PROVE  ListInv' /\ InUseKeptStep
<1>1. ASSUME NEW wo \in 1 .. MaxWosize, Allocate(wo) PROVE ListInv' /\ InUseKeptStep
  BY <1>1, AllocateStep
<1>2. ASSUME NEW wo \in 1 .. MaxWosize, NEW c \in Chunks, Expand(wo, c) PROVE ListInv' /\ InUseKeptStep
  BY <1>2, ExpandStep
<1>3. CASE MarkDone
  BY <1>3, MarkDoneStep
<1>4. CASE SweepBlock
  <2>1. PICK b \in SweptBlock : SweepDead(b) \/ SweepMarked(b) \/ SweepFree(b)
    BY <1>4 DEF SweepBlock
  <2>2. sweeping /\ UNCHANGED <<chunks, sweeping>>
    BY <1>4 DEF SweepBlock
  <2> QED
    BY <2>1, <2>2, SweepDeadStep, SweepMarkedStep, SweepFreeStep
<1>5. CASE StartCycle \/ UNCHANGED vars
  BY <1>5, QuietStep
<1> QED
  BY <1>1, <1>2, <1>3, <1>4, <1>5 DEF Next

(* A heap that only grows upwards keeps to it: the sweep is then in a      *)
(* chunk below the new one.                                                *)
LEMMA UpwardSuffices ==
  ASSUME ChunksOK, ListInv, chunks' \subseteq Chunks,
         \A c \in chunks' \ chunks, d \in chunks : d[2] < c[1]
  PROVE  NoneBehind
<1>1. SUFFICES ASSUME NEW c \in chunks' \ chunks, sweeping
               PROVE  c[1] >= gc_sweep_hp
  BY DEF NoneBehind
<1>2. PICK d \in chunks : d[1] <= gc_sweep_hp /\ gc_sweep_hp <= d[2] + 1
  BY <1>1, InvFacts DEF SweepAt
<1>3. c \in Chunks /\ d \in Chunks /\ d[2] < c[1] /\ gc_sweep_hp \in Nat
  BY <1>1, InvFacts
<1>4. c[1] \in Nat /\ d[2] \in Nat
  BY <1>3, ChunkFacts
<1> QED
  BY <1>2, <1>3, <1>4

-----------------------------------------------------------------------------
(* What the invariant means for the runs' properties.                      *)

LEMMA InvSound ==
  ASSUME ChunksOK, ListInv
  PROVE  ListSound /\ HeapTiled
<1>1. /\ RecordInv(List, chunks) /\ chunks \in SUBSET Chunks /\ sweeping \in BOOLEAN
      /\ gc_sweep_hp \in 0 .. MaxWord + 1
      /\ sweeping => MergeAt(List, gc_sweep_hp)
  BY InvFacts
<1>2. PICK s, F, nx : s = List /\ F = Free /\ nx = next
  OBVIOUS
<1>3. /\ s.size = size /\ s.color = color /\ s.next = nx /\ s.fl_prev = fl_prev /\ s.fl_merge = fl_merge
      /\ FreeIn(s) = F /\ BlocksOf(s.size) = Blocks /\ BlocksOf(size) = Blocks
  BY <1>2, ListIs
<1>4. /\ size \in Sizes /\ nx \in Links /\ color \in [Word -> {"White", "Black", "Blue"}]
      /\ F \in SUBSET Word /\ F \subseteq Blocks
      /\ LinksOn(nx, F) /\ Tiles(size, chunks) /\ Merged(size, F)
      /\ fl_prev \in F \cup {Fl_head} /\ fl_merge \in F \cup {Fl_head} /\ s \in Record
  BY <1>1, <1>2, <1>3, RecordFacts DEF RecordInv
<1>5. TypeOK
  BY <1>1, <1>2, <1>4 DEF TypeOK, Sizes, Links, Spot
<1>6. PICK w : w = Walk(nx, Fl_head)
  OBVIOUS
<1>7. /\ Len(w) \in Nat \ {0} /\ w[1] = Fl_head /\ Last(w) = w[Len(w)]
      /\ \A i \in 1 .. Len(w) : w[i] \in F \cup {Fl_head}
      /\ nx[w[Len(w)]] = Null
      /\ \A x \in F : Fl_head < x => \E i \in 1 .. Len(w) : w[i] = x
  <2>1. LinksOn(s.next, FreeIn(s)) /\ Fl_head \in ListIn(s) /\ w = Walk(s.next, Fl_head)
    BY <1>3, <1>4, <1>6 DEF ListIn
  <2>2. /\ Len(w) \in Nat \ {0} /\ w[1] = Fl_head /\ Last(w) = w[Len(w)]
        /\ \A i \in 1 .. Len(w) : w[i] \in ListIn(s)
        /\ \A i \in 1 .. Len(w) - 1 : w[i + 1] = s.next[w[i]] /\ s.next[w[i]] # Null
        /\ s.next[w[Len(w)]] = Null
        /\ \A x \in FreeIn(s) : Fl_head < x => \E i \in 1 .. Len(w) : w[i] = x
    BY <2>1, <1>4, ListWalk
  <2> QED
    BY <2>2, <1>3 DEF ListIn
<1>8. w \in Seq(Spot)
  BY <1>4, <1>6, WalkIs DEF IsWalk, Spot
<1>9. OnList = F \cup {Fl_head}
  <2>1. OnList = {w[i] : i \in 1 .. Len(w)}
    BY <1>2, <1>6, <1>8 DEF OnList, Range
  <2>2. \A x \in F : Fl_head < x
    BY <1>4 DEF Word, Fl_head, ChunksOK
  <2>3. Fl_head \in {w[i] : i \in 1 .. Len(w)}
    BY <1>7
  <2> QED
    BY <2>1, <2>2, <2>3, <1>7
<1>10. Sorted
  BY <1>2, <1>4, <1>9, LinkFacts DEF Sorted
<1>11. ListIsFree
  BY <1>2, <1>6, <1>7, <1>9 DEF ListIsFree
<1>12. PointersOnList
  BY <1>4, <1>9 DEF PointersOnList
<1>13. MergePointer
  BY <1>1, <1>2, <1>3 DEF MergePointer, MergeAt
<1>14. \A b : After(b) = End(size, b)
  BY DEF After, End
<1>15. Tiled
  <2>1. SUFFICES ASSUME NEW c \in chunks
        PROVE  /\ c[1] \in Blocks
               /\ \A b \in Blocks : c[1] <= b /\ b <= c[2] =>
                    /\ After(b) = c[2] + 1 \/ After(b) \in Blocks
                    /\ \A x \in Blocks : ~ (b < x /\ x < After(b))
    BY DEF Tiled
  <2>2. c[1] \in Blocks
    BY <1>3, <1>4 DEF Tiles
  <2>3. ASSUME NEW b \in Blocks, c[1] <= b, b <= c[2]
        PROVE  /\ After(b) = c[2] + 1 \/ After(b) \in Blocks
               /\ \A x \in Blocks : ~ (b < x /\ x < After(b))
    <3>1. PICK d \in chunks : Fits(size, b, d)
      BY <1>3, <1>4 DEF Tiles
    <3>2. b \in Nat /\ End(size, b) \in Nat /\ b < End(size, b)
      BY <1>1, <1>3, <1>4, BlockFacts
    <3>3. d[1] <= b /\ End(size, b) <= d[2] + 1 /\ (End(size, b) = d[2] + 1 \/ End(size, b) \in Blocks)
      BY <3>1, <1>3 DEF Fits
    <3>4. c[1] \in Nat /\ c[2] \in Nat /\ d[1] \in Nat /\ d[2] \in Nat
          /\ (c # d => c[2] + 1 < d[1] \/ d[2] + 1 < c[1])
      BY <1>1, ChunkFacts
    <3>5. d = c
      BY <2>3, <3>2, <3>3, <3>4
    <3>6. ASSUME NEW x \in Blocks PROVE ~ (b < x /\ x < After(b))
      <4>1. x \in Nat
        BY <1>1, <1>3, <1>4, BlockFacts
      <4>2. b < x => End(size, b) <= x
        BY <1>3, <1>4 DEF Tiles
      <4> QED
        BY <4>1, <4>2, <3>2, <1>14
    <3> QED
      BY <3>3, <3>5, <3>6, <1>14
  <2> QED
    BY <2>2, <2>3
<1>16. Coalesced
  BY <1>2, <1>4, <1>14 DEF Coalesced, Merged
<1> QED
  BY <1>5, <1>10, <1>11, <1>12, <1>13, <1>15, <1>16 DEF ListSound, HeapTiled

(* freelist.c and the sweep keep the list sorted, complete and merged, and *)
(* the chunks divided into blocks, as long as no chunk comes behind the    *)
(* sweep and beyond the last free block.                                   *)
THEOREM ListTheorem ==
  ASSUME ChunksOK
  PROVE  Spec /\ [][NoneBehind]_vars => [](ListSound /\ HeapTiled)
<1>1. Init => ListInv
  BY InitListInv
<1>2. ListInv /\ [Next]_vars /\ [NoneBehind]_vars => ListInv'
  <2>1. ASSUME ListInv, UNCHANGED vars PROVE ListInv'
    BY <2>1, QuietStep
  <2> QED
    BY <2>1, ListNext
<1>3. ListInv => ListSound /\ HeapTiled
  BY InvSound
<1> QED
  BY <1>1, <1>2, <1>3, PTL DEF Spec

(* A block in use keeps its place, its size and its header until the sweep *)
(* finds it white.                                                         *)
THEOREM InUseTheorem ==
  ASSUME ChunksOK
  PROVE  Spec /\ [][NoneBehind]_vars => InUseKept
<1>1. Init => ListInv
  BY InitListInv
<1>2. ListInv /\ [Next]_vars /\ [NoneBehind]_vars => ListInv' /\ [InUseKeptStep]_vars
  <2>1. ASSUME ListInv, UNCHANGED vars PROVE ListInv'
    BY <2>1, QuietStep
  <2> QED
    BY <2>1, ListNext
<1> QED
  BY <1>1, <1>2, PTL DEF Spec, InUseKept
=============================================================================
