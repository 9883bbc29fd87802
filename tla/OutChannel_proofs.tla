------------------------- MODULE OutChannel_proofs -------------------------
(***************************************************************************)
(* Theorems about OutChannel.tla, for a buffer of every size.              *)
(***************************************************************************)
EXTENDS OutChannel, SequenceTheorems, TLAPS

-----------------------------------------------------------------------------
(* Parts of sequences of bytes, and bytes written over others.             *)

LEMMA HoleIsCell == Hole \in Cells
BY DEF Cells

LEMMA SameSeq ==
  ASSUME NEW S, NEW s \in Seq(S), NEW t \in Seq(S), Len(s) = Len(t),
         \A i \in 1 .. Len(s) : s[i] = t[i]
  PROVE  s = t
BY SeqEqual

(* o is the bytes of s from place i on, up to place j.                     *)
IsBetween(o, s, i, j) ==
  o \in Seq(Cells) /\ Len(o) = j - i /\ \A k \in 1 .. j - i : o[k] = s[i + k]

LEMMA BetweenOf ==
  ASSUME NEW s \in Seq(Cells), NEW i \in Nat, NEW j \in Nat, i <= j, j <= Len(s)
  PROVE  IsBetween(Between(s, i, j), s, i, j)
<1>1. /\ \A k \in i + 1 .. j : s[k] \in Cells
      /\ i + 1 \in 1 .. Len(s) + 1 /\ j \in i .. Len(s)
  OBVIOUS
<1>2. CASE i = j
  BY <1>2 DEF Between, IsBetween
<1>3. CASE i < j
  BY <1>1, <1>3, SubSeqProperties DEF Between, IsBetween
<1> QED
  BY <1>2, <1>3

(* o is s with t in the places from p on, said of each place.              *)
IsOver(o, s, p, t) ==
  /\ o \in Seq(Cells)
  /\ Len(o) = IF Len(t) = 0 \/ p + Len(t) <= Len(s) THEN Len(s) ELSE p + Len(t)
  /\ \A i \in 1 .. Len(o) : o[i] = IF p < i /\ i <= p + Len(t) THEN t[i - p]
                                   ELSE IF i <= Len(s) THEN s[i] ELSE Hole

LEMMA OverwriteOf ==
  ASSUME NEW s \in Seq(Cells), NEW t \in Seq(Cells), NEW p \in Nat
  PROVE  IsOver(Overwrite(s, p, t), s, p, t)
<1> DEFINE end == p + Len(t)
           n   == IF end > Len(s) THEN end ELSE Len(s)
           o   == [i \in 1 .. n |-> IF p < i /\ i <= end THEN t[i - p]
                                     ELSE IF i <= Len(s) THEN s[i] ELSE Hole]
<1>1. Len(s) \in Nat /\ Len(t) \in Nat /\ end \in Nat /\ n \in Nat
  OBVIOUS
<1>2. CASE t = << >>
  <2>1. Overwrite(s, p, t) = s /\ Len(t) = 0 /\ end = p
    BY <1>2 DEF Overwrite
  <2> QED
    BY <1>1, <2>1 DEF IsOver
<1>3. CASE t # << >>
  <2>1. Overwrite(s, p, t) = o /\ Len(t) # 0
    BY <1>3, EmptySeq DEF Overwrite
  <2>2. \A i \in 1 .. n : /\ p < i /\ i <= end => t[i - p] \in Cells
                          /\ i <= Len(s) => s[i] \in Cells
    BY <1>1, ElementOfSeq
  <2>3. o \in [1 .. n -> Cells]
    BY <1>1, <2>2, HoleIsCell
  <2>4. o \in Seq(Cells) /\ Len(o) = n
    BY <1>1, <2>3
  <2>5. n = IF end <= Len(s) THEN Len(s) ELSE end
    BY <1>1
  <2> QED
    BY <2>1, <2>4, <2>5 DEF IsOver
<1> QED
  BY <1>2, <1>3

(* Writing into what was written.                                          *)
LEMMA Inside ==
  ASSUME NEW s \in Seq(Cells), NEW b \in Seq(Cells), NEW t \in Seq(Cells),
         NEW p \in Nat, NEW c \in Nat, c <= Len(b)
  PROVE  Overwrite(Overwrite(s, p, b), p + c, t) = Overwrite(s, p, Overwrite(b, c, t))
<1>1. Len(s) \in Nat /\ Len(b) \in Nat /\ Len(t) \in Nat /\ p + c \in Nat
  OBVIOUS
<1>2. PICK u : u = Overwrite(s, p, b) /\ IsOver(u, s, p, b)
  <2>1. IsOver(Overwrite(s, p, b), s, p, b)
    BY OverwriteOf
  <2> QED
    BY <2>1
<1>3. PICK v : v = Overwrite(b, c, t) /\ IsOver(v, b, c, t)
  <2>1. IsOver(Overwrite(b, c, t), b, c, t)
    BY OverwriteOf
  <2> QED
    BY <2>1
<1>a. u \in Seq(Cells) /\ v \in Seq(Cells) /\ Len(u) \in Nat /\ Len(v) \in Nat
  BY <1>2, <1>3 DEF IsOver
<1>4. PICK l : l = Overwrite(u, p + c, t) /\ IsOver(l, u, p + c, t)
  <2>1. IsOver(Overwrite(u, p + c, t), u, p + c, t)
    BY <1>1, <1>a, OverwriteOf
  <2> QED
    BY <2>1
<1>5. PICK r : r = Overwrite(s, p, v) /\ IsOver(r, s, p, v)
  <2>1. IsOver(Overwrite(s, p, v), s, p, v)
    BY <1>a, OverwriteOf
  <2> QED
    BY <2>1
<1>6. Len(l) = Len(r)
  BY <1>1, <1>2, <1>3, <1>4, <1>5, <1>a DEF IsOver
<1>7. ASSUME NEW i \in 1 .. Len(l) PROVE l[i] = r[i]
  <2>1. i \in Nat /\ i > 0 /\ i \in 1 .. Len(r)
    BY <1>4, <1>6 DEF IsOver
  <2>2. CASE i <= p
    <3>1. r[i] = IF i <= Len(s) THEN s[i] ELSE Hole
      BY <1>5, <2>1, <2>2 DEF IsOver
    <3>2. l[i] = IF i <= Len(u) THEN u[i] ELSE Hole
      BY <1>1, <1>4, <2>1, <2>2 DEF IsOver
    <3>3. i <= Len(u) => u[i] = IF i <= Len(s) THEN s[i] ELSE Hole
      BY <1>2, <2>1, <2>2 DEF IsOver
    <3>4. i <= Len(s) => i <= Len(u)
      BY <1>1, <1>2, <2>1 DEF IsOver
    <3> QED
      BY <3>1, <3>2, <3>3, <3>4
  <2>3. CASE p + c < i /\ i <= p + c + Len(t)
    <3>1. l[i] = t[i - (p + c)]
      BY <1>4, <2>3 DEF IsOver
    <3>2. i - p \in 1 .. Len(v) /\ c < i - p /\ i - p <= c + Len(t)
      BY <1>1, <1>3, <2>1, <2>3 DEF IsOver
    <3>3. r[i] = v[i - p]
      BY SMTT(30), <1>1, <1>3, <1>5, <2>1, <3>2 DEF IsOver
    <3>4. v[i - p] = t[(i - p) - c]
      BY <1>3, <3>2 DEF IsOver
    <3>5. (i - p) - c = i - (p + c)
      BY <2>1
    <3> QED
      BY <3>1, <3>3, <3>4, <3>5
  <2>4. CASE p < i /\ i <= p + Len(b) /\ ~ (p + c < i /\ i <= p + c + Len(t))
    <3>1. i <= Len(u) /\ u[i] = b[i - p]
      BY <1>1, <1>2, <2>1, <2>4 DEF IsOver
    <3>2. l[i] = u[i]
      BY <1>4, <2>4, <3>1 DEF IsOver
    <3>3. i - p \in 1 .. Len(v) /\ i - p <= Len(b) /\ ~ (c < i - p /\ i - p <= c + Len(t))
      BY <1>1, <1>3, <2>1, <2>4 DEF IsOver
    <3>4. r[i] = v[i - p]
      BY SMTT(30), <1>1, <1>3, <1>5, <2>1, <3>3 DEF IsOver
    <3> QED
      BY <1>3, <3>1, <3>2, <3>3, <3>4 DEF IsOver
  <2>5. CASE i > p + Len(b) /\ ~ (p + c < i /\ i <= p + c + Len(t))
    <3>1. l[i] = IF i <= Len(u) THEN u[i] ELSE Hole
      BY <1>4, <2>5 DEF IsOver
    <3>2. i <= Len(u) => u[i] = IF i <= Len(s) THEN s[i] ELSE Hole
      BY <1>1, <1>2, <2>1, <2>5 DEF IsOver
    <3>3. i <= Len(s) => i <= Len(u)
      BY <1>1, <1>2, <2>1 DEF IsOver
    <3>4. ~ (i <= p + Len(v))
      BY <1>1, <1>3, <2>1, <2>5 DEF IsOver
    <3>5. r[i] = IF i <= Len(s) THEN s[i] ELSE Hole
      BY <1>1, <1>3, <1>5, <2>1, <3>4 DEF IsOver
    <3> QED
      BY <3>1, <3>2, <3>3, <3>5
  <2> QED
    BY <1>1, <2>1, <2>2, <2>3, <2>4, <2>5 DEF IsOver
<1> QED
  BY <1>a, <1>2, <1>3, <1>4, <1>5, <1>6, <1>7, SameSeq DEF IsOver

(* A prefix of the buffer, before and after bytes are copied into it.      *)
LEMMA Prefix ==
  ASSUME NEW s \in Seq(Cells), NEW t \in Seq(Cells),
         NEW c \in Nat, NEW m \in Nat, c <= m, m <= Len(s), c + Len(t) <= Len(s),
         NEW n \in Nat, n = IF c + Len(t) > m THEN c + Len(t) ELSE m
  PROVE  Between(Overwrite(s, c, t), 0, n) = Overwrite(Between(s, 0, m), c, t)
<1>1. Len(s) \in Nat /\ Len(t) \in Nat /\ n <= Len(s) /\ m - 0 = m /\ n - 0 = n /\ 0 \in Nat /\ 0 <= m /\ 0 <= n
      /\ \A k \in Nat : 0 + k = k
  OBVIOUS
<1>2. PICK o : o = Overwrite(s, c, t) /\ IsOver(o, s, c, t)
  <2>1. IsOver(Overwrite(s, c, t), s, c, t)
    BY <1>1, OverwriteOf
  <2> QED
    BY <2>1
<1>b. o \in Seq(Cells) /\ Len(o) = Len(s)
  BY <1>1, <1>2 DEF IsOver
<1>3. PICK b : b = Between(s, 0, m) /\ IsBetween(b, s, 0, m)
  <2>1. IsBetween(Between(s, 0, m), s, 0, m)
    BY <1>1, BetweenOf
  <2> QED
    BY <2>1
<1>4. PICK l : l = Between(o, 0, n) /\ IsBetween(l, o, 0, n)
  <2>1. IsBetween(Between(o, 0, n), o, 0, n)
    BY <1>1, <1>b, BetweenOf
  <2> QED
    BY <2>1
<1>d. b \in Seq(Cells) /\ Len(b) = m
  BY <1>1, <1>3 DEF IsBetween
<1>5. PICK r : r = Overwrite(b, c, t) /\ IsOver(r, b, c, t)
  <2>1. IsOver(Overwrite(b, c, t), b, c, t)
    BY <1>d, OverwriteOf
  <2> QED
    BY <2>1
<1>6. Len(l) = Len(r)
  BY <1>1, <1>4, <1>5, <1>b, <1>d DEF IsOver, IsBetween
<1>7. ASSUME NEW i \in 1 .. Len(l) PROVE l[i] = r[i]
  <2>1. i \in 1 .. n /\ i \in 1 .. Len(r) /\ i \in 1 .. Len(o)
    BY <1>1, <1>2, <1>4, <1>6 DEF IsOver, IsBetween
  <2>2. CASE c < i /\ i <= c + Len(t)
    BY <1>2, <1>4, <1>5, <2>1, <2>2 DEF IsOver, IsBetween
  <2>3. CASE ~ (c < i /\ i <= c + Len(t))
    <3>1. i \in 1 .. m
      BY <1>1, <2>1, <2>3 DEF IsOver, IsBetween
    <3> QED
      BY <1>1, <1>2, <1>3, <1>4, <1>5, <1>b, <1>d, <2>1, <2>3, <3>1 DEF IsOver, IsBetween
  <2> QED
    BY <2>2, <2>3
<1> QED
  BY SMTT(30), <1>2, <1>3, <1>4, <1>5, <1>6, <1>7, SameSeq DEF IsOver, IsBetween

(* A block written in two parts.                                           *)
LEMMA TwoParts ==
  ASSUME NEW s \in Seq(Cells), NEW t \in Seq(Cells),
         NEW p \in Nat, NEW m \in Nat, m <= Len(t)
  PROVE  Overwrite(Overwrite(s, p, Between(t, 0, m)), p + m, Between(t, m, Len(t)))
           = Overwrite(s, p, t)
<1>1. Len(t) \in Nat /\ 0 \in Nat /\ m - 0 = m /\ 0 <= m /\ Len(t) - m \in Nat /\ \A k \in Nat : 0 + k = k
  OBVIOUS
<1>2. PICK a : a = Between(t, 0, m) /\ IsBetween(a, t, 0, m)
  <2>1. IsBetween(Between(t, 0, m), t, 0, m)
    BY <1>1, BetweenOf
  <2> QED
    BY <2>1
<1>3. PICK z : z = Between(t, m, Len(t)) /\ IsBetween(z, t, m, Len(t))
  <2>1. IsBetween(Between(t, m, Len(t)), t, m, Len(t))
    BY <1>1, BetweenOf
  <2> QED
    BY <2>1
<1>b. /\ a \in Seq(Cells) /\ Len(a) = m
      /\ z \in Seq(Cells) /\ Len(z) = Len(t) - m
  BY <1>1, <1>2, <1>3 DEF IsBetween
<1>4. PICK v : v = Overwrite(a, m, z) /\ IsOver(v, a, m, z)
  <2>1. IsOver(Overwrite(a, m, z), a, m, z)
    BY <1>b, OverwriteOf
  <2> QED
    BY <2>1
<1>a. Len(v) = Len(t)
  BY <1>1, <1>b, <1>4 DEF IsOver
<1>5. ASSUME NEW i \in 1 .. Len(v) PROVE v[i] = t[i]
  <2>1. CASE i <= m
    <3>1. i \in 1 .. m /\ i \in 1 .. m - 0 /\ ~ (m < i) /\ i <= Len(a) /\ 0 + i = i
      BY <1>b, <2>1
    <3>2. v[i] = a[i]
      BY <1>4, <3>1 DEF IsOver
    <3>3. a[i] = t[0 + i]
      BY <1>2, <3>1 DEF IsBetween
    <3> QED
      BY <3>1, <3>2, <3>3
  <2>2. CASE i > m
    <3>1. i - m \in 1 .. Len(t) - m /\ m + (i - m) = i /\ i <= m + Len(z)
      BY <1>1, <1>b, <1>a, <2>2 DEF IsOver, IsBetween
    <3> QED
      BY <1>1, <1>3, <1>4, <1>b, <1>a, <2>2, <3>1 DEF IsOver, IsBetween
  <2> QED
    BY <1>1, <1>4, <1>a, <2>1, <2>2 DEF IsOver, IsBetween
<1>6. v = t
  BY <1>4, <1>a, <1>5, SameSeq DEF IsOver, IsBetween
<1>7. Overwrite(Overwrite(s, p, a), p + m, z) = Overwrite(s, p, v)
  <2>1. m <= Len(a)
    BY <1>b
  <2>2. Overwrite(Overwrite(s, p, a), p + m, z) = Overwrite(s, p, Overwrite(a, m, z))
    <3>1. a \in Seq(Cells) /\ z \in Seq(Cells)
      BY <1>b
    <3> QED
      BY <2>1, <3>1, Inside
  <2> QED
    BY <1>4, <2>2
<1> QED
  BY <1>2, <1>3, <1>6, <1>7 DEF IsOver, IsBetween

(* What is written at the start of the buffer alone.                       *)
LEMMA FromStart ==
  ASSUME NEW s \in Seq(Cells), NEW t \in Seq(Cells), Len(t) <= Len(s)
  PROVE  Between(Overwrite(s, 0, t), 0, Len(t)) = t
<1>1. Len(s) \in Nat /\ Len(t) \in Nat /\ 0 \in Nat /\ 0 <= Len(t) /\ Len(t) - 0 = Len(t)
      /\ 0 + Len(t) = Len(t)
  OBVIOUS
<1>2. PICK o : o = Overwrite(s, 0, t) /\ IsOver(o, s, 0, t)
  <2>1. IsOver(Overwrite(s, 0, t), s, 0, t)
    BY <1>1, OverwriteOf
  <2> QED
    BY <2>1
<1>3. o \in Seq(Cells) /\ Len(o) = Len(s)
  BY <1>1, <1>2 DEF IsOver
<1>4. PICK l : l = Between(o, 0, Len(t)) /\ IsBetween(l, o, 0, Len(t))
  <2>1. IsBetween(Between(o, 0, Len(t)), o, 0, Len(t))
    BY <1>1, <1>3, BetweenOf
  <2> QED
    BY <2>1
<1>5. l \in Seq(Cells) /\ Len(l) = Len(t)
  BY <1>1, <1>4 DEF IsBetween
<1>6. ASSUME NEW i \in 1 .. Len(t) PROVE l[i] = t[i]
  <2>1. i \in 1 .. Len(t) - 0 /\ i \in 1 .. Len(o) /\ 0 + i = i /\ 0 < i /\ i <= 0 + Len(t)
        /\ i - 0 = i
    BY <1>1, <1>3
  <2>2. l[i] = o[0 + i]
    BY <1>4, <2>1 DEF IsBetween
  <2>3. o[i] = t[i - 0]
    BY <1>2, <2>1 DEF IsOver
  <2> QED
    BY <2>1, <2>2, <2>3
<1> QED
  BY <1>2, <1>4, <1>5, <1>6, SameSeq

LEMMA WholeIs ==
  ASSUME NEW s \in Seq(Cells)
  PROVE  Between(s, 0, Len(s)) = s
<1>1. Len(s) \in Nat /\ 0 \in Nat /\ 0 <= Len(s) /\ Len(s) <= Len(s) /\ Len(s) - 0 = Len(s)
  OBVIOUS
<1>2. PICK l : l = Between(s, 0, Len(s)) /\ IsBetween(l, s, 0, Len(s))
  <2>1. IsBetween(Between(s, 0, Len(s)), s, 0, Len(s))
    BY <1>1, BetweenOf
  <2> QED
    BY <2>1
<1>3. l \in Seq(Cells) /\ Len(l) = Len(s)
  BY <1>1, <1>2 DEF IsBetween
<1>4. ASSUME NEW k \in 1 .. Len(l) PROVE l[k] = s[k]
  <2>1. k \in 1 .. Len(s) - 0 /\ 0 + k = k
    BY <1>1, <1>3
  <2>2. l[k] = s[0 + k]
    BY <1>2, <2>1 DEF IsBetween
  <2> QED
    BY <2>1, <2>2
<1> QED
  BY <1>2, <1>3, <1>4, SameSeq

LEMMA Lengths ==
  ASSUME NEW s \in Seq(Cells), NEW t \in Seq(Cells), NEW p \in Nat
  PROVE  /\ Overwrite(s, p, t) \in Seq(Cells) /\ Len(Overwrite(s, p, t)) \in Nat
         /\ Len(Overwrite(s, p, t)) <= Len(s) \/ Len(Overwrite(s, p, t)) <= p + Len(t)
         /\ p + Len(t) <= Len(s) => Len(Overwrite(s, p, t)) = Len(s)
<1>1. IsOver(Overwrite(s, p, t), s, p, t)
  BY OverwriteOf
<1> QED
  BY <1>1 DEF IsOver

LEMMA Bounded ==
  ASSUME NEW s \in Seq(Cells), NEW t \in Seq(Cells), NEW p \in Nat, NEW n \in Nat,
         Len(s) <= n, p + Len(t) <= n
  PROVE  Overwrite(s, p, t) \in Seq(Cells) /\ Len(Overwrite(s, p, t)) <= n
<1>1. Len(s) \in Nat /\ Len(t) \in Nat /\ p + Len(t) \in Nat
  OBVIOUS
<1> QED
  BY <1>1, Lengths

(* Nothing written over a file leaves it as it is.                         *)
LEMMA EmptyIs ==
  ASSUME NEW f, NEW o, NEW b
  PROVE  Overwrite(f, o, Between(b, 0, 0)) = f
<1>1. Between(b, 0, 0) = << >>
  BY DEF Between
<1> QED
  BY <1>1 DEF Overwrite

(* What is before the place where something is written stays.              *)
LEMMA BeforeStays ==
  ASSUME NEW f \in Seq(Cells), NEW t \in Seq(Cells), NEW p \in Nat, NEW i \in 1 .. p, i <= Len(f)
  PROVE  i <= Len(Overwrite(f, p, t)) /\ Overwrite(f, p, t)[i] = f[i]
<1>1. PICK o : o = Overwrite(f, p, t) /\ IsOver(o, f, p, t)
  <2>1. IsOver(Overwrite(f, p, t), f, p, t)
    BY OverwriteOf
  <2> QED
    BY <2>1
<1>2. Len(f) \in Nat /\ Len(t) \in Nat /\ i \in Nat
  OBVIOUS
<1>3. Len(o) \in Nat /\ i \in 1 .. Len(o)
  BY <1>1, <1>2 DEF IsOver
<1>4. o[i] = f[i]
  BY <1>1, <1>2, <1>3 DEF IsOver
<1> QED
  BY <1>1, <1>3, <1>4

LEMMA TwiceStays ==
  ASSUME NEW f \in Seq(Cells), NEW s \in Seq(Cells), NEW t \in Seq(Cells), NEW p \in Nat,
         NEW n \in Nat, NEW i \in 1 .. p, i <= Len(f)
  PROVE  Overwrite(Overwrite(f, p, s), p + n, t)[i] = f[i]
<1>1. PICK o : o = Overwrite(f, p, s)
  OBVIOUS
<1>2. o \in Seq(Cells) /\ i <= Len(o) /\ o[i] = f[i]
  BY <1>1, BeforeStays, Lengths
<1>3. PICK q : q = p + n
  OBVIOUS
<1>4. q \in Nat /\ i \in 1 .. q
  BY <1>3
<1>5. Overwrite(o, q, t)[i] = o[i]
  BY <1>2, <1>4, BeforeStays
<1> QED
  BY <1>1, <1>2, <1>3, <1>5

-----------------------------------------------------------------------------
(* The sizes a channel can have: IO_BUFFER_SIZE is positive.               *)
SizesOK == BufSize \in Nat \ {0} /\ MaxBlock \in Nat \ {0} /\ MaxFile \in Nat

Cont == Overwrite(file, offset, Buffered(Channel))

LEMMA BufferIsSeq ==
  ASSUME SizesOK, TypeOK
  PROVE  /\ buff \in Seq(Cells) /\ Len(buff) = BufSize
         /\ file \in Seq(Cells) /\ Len(file) \in Nat
         /\ Buffered(Channel) \in Seq(Cells) /\ Len(Buffered(Channel)) = max
         /\ Buffered(Channel) = Between(buff, 0, max)
         /\ max \in Nat /\ curr \in Nat /\ curr <= max /\ max <= BufSize
         /\ fdpos \in Nat /\ offset \in Nat
<1>1. max \in Nat /\ curr \in Nat /\ curr <= max /\ max <= BufSize /\ fdpos \in Nat /\ offset \in Nat
      /\ 0 \in Nat /\ 0 <= max /\ max - 0 = max
  BY DEF TypeOK, SizesOK
<1>2. buff \in Seq(Cells) /\ Len(buff) = BufSize /\ file \in Seq(Cells)
  BY DEF TypeOK, SizesOK, Cells
<1>3. Buffered(Channel) = Between(buff, 0, max)
  BY DEF Buffered, Channel
<1>4. IsBetween(Between(buff, 0, max), buff, 0, max)
  BY <1>1, <1>2, BetweenOf
<1> QED
  BY <1>1, <1>2, <1>3, <1>4 DEF IsBetween

-----------------------------------------------------------------------------
(* What each operation does to the channel, said of its variables.         *)

Rec(f, d, o, c, m, b) ==
  [file |-> f, fdpos |-> d, offset |-> o, curr |-> c, max |-> m, buff |-> b]

Moved(r, x, y) == [r EXCEPT !.fdpos = x, !.offset = y]

LEMMA MovedIs ==
  ASSUME NEW f, NEW d, NEW o, NEW c, NEW m, NEW b, NEW x, NEW y
  PROVE  Moved(Rec(f, d, o, c, m, b), x, y) = Rec(f, x, y, c, m, b)
<1>1. Moved(Rec(f, d, o, c, m, b), x, y)
        = [[Rec(f, d, o, c, m, b) EXCEPT !.fdpos = x] EXCEPT !.offset = y]
  BY DEF Moved
<1>2. [Rec(f, d, o, c, m, b) EXCEPT !.fdpos = x] = Rec(f, x, o, c, m, b)
  BY DEF Rec
<1>3. [Rec(f, x, o, c, m, b) EXCEPT !.offset = y] = Rec(f, x, y, c, m, b)
  BY DEF Rec
<1> QED
  BY <1>1, <1>2, <1>3

LEMMA WriteIs ==
  ASSUME NEW f, NEW d, NEW o, NEW c, NEW m, NEW b, NEW s
  PROVE  really_write(Rec(f, d, o, c, m, b), s) = Rec(Overwrite(f, d, s), d + Len(s), o, c, m, b)
<1> DEFINE r == Rec(f, d, o, c, m, b)
<1>1. r.file = f /\ r.fdpos = d
  BY DEF Rec
<1>2. [r EXCEPT !.file = Overwrite(f, d, s), !.fdpos = d + Len(s)]
        = [[r EXCEPT !.file = Overwrite(f, d, s)] EXCEPT !.fdpos = d + Len(s)]
  OBVIOUS
<1>3. [r EXCEPT !.file = Overwrite(f, d, s)] = Rec(Overwrite(f, d, s), d, o, c, m, b)
  BY DEF Rec
<1>4. [Rec(Overwrite(f, d, s), d, o, c, m, b) EXCEPT !.fdpos = d + Len(s)]
        = Rec(Overwrite(f, d, s), d + Len(s), o, c, m, b)
  BY DEF Rec
<1>5. really_write(r, s) = [r EXCEPT !.file = Overwrite(f, d, s), !.fdpos = d + Len(s)]
  BY <1>1 DEF really_write
<1> QED
  BY <1>2, <1>3, <1>4, <1>5

LEMMA BecomesIs ==
  ASSUME NEW f, NEW d, NEW o, NEW c, NEW m, NEW b
  PROVE  Becomes(Rec(f, d, o, c, m, b)) <=>
           /\ file' = f /\ fdpos' = d /\ offset' = o /\ curr' = c /\ max' = m /\ buff' = b
BY DEF Rec, Becomes

Same == UNCHANGED <<file, fdpos, offset, curr, max, buff>>

(* The buffer is written, and left empty.                                  *)
Written ==
  /\ file' = Overwrite(file, fdpos, Buffered(Channel))
  /\ fdpos' = fdpos + max /\ offset' = offset + max
  /\ curr' = 0 /\ max' = 0 /\ buff' = buff

LEMMA FlushedIs ==
  ASSUME SizesOK, TypeOK, Becomes(flushed(Channel))
  PROVE  (max = 0 /\ Same) \/ (max > 0 /\ Written)
<1>1. max \in Nat /\ Len(Buffered(Channel)) = max
  BY BufferIsSeq
<1>2. CASE max = 0
  BY <1>2 DEF Becomes, flushed, Channel, Same
<1>3. CASE max # 0
  <2>1. max > 0
    BY <1>1, <1>3
  <2> QED
    BY <1>1, <1>3, <2>1 DEF Becomes, flushed, Channel, Written, really_write
<1> QED
  BY <1>2, <1>3

(* The bytes s are copied into the buffer at curr.                         *)
Copied(s) ==
  /\ UNCHANGED <<file, fdpos, offset>>
  /\ buff' = Overwrite(buff, curr, s)
  /\ curr' = curr + Len(s)
  /\ max' = IF curr + Len(s) > max THEN curr + Len(s) ELSE max

(* They are copied to its start, after what it held has been written.      *)
Turned(s) ==
  /\ file' = Overwrite(file, fdpos, Buffered(Channel))
  /\ fdpos' = fdpos + max /\ offset' = offset + max
  /\ buff' = Overwrite(buff, 0, s) /\ curr' = Len(s) /\ max' = Len(s)

LEMMA PutchIs ==
  ASSUME SizesOK, TypeOK, NEW ch, Becomes(putch(Channel, ch))
  PROVE  \/ curr < BufSize /\ Copied(<<ch>>)
         \/ curr = BufSize /\ max = BufSize /\ Turned(<<ch>>)
<1>1. /\ max \in Nat /\ curr \in Nat /\ curr <= max /\ max <= BufSize /\ BufSize > 0
      /\ Len(Buffered(Channel)) = max /\ BufSize \in Nat
  BY BufferIsSeq DEF SizesOK
<1>2. CASE curr < BufSize
  <2>1. putch(Channel, ch) = Filled(Channel, <<ch>>)
    BY <1>1, <1>2 DEF putch, Channel
  <2> QED
    BY <1>1, <1>2, <2>1 DEF Becomes, Filled, Channel, Copied
<1>3. CASE ~ (curr < BufSize)
  <2>1. curr = BufSize /\ max = BufSize /\ max # 0
    BY <1>1, <1>3
  <2>2. putch(Channel, ch) = Filled(flushed(Channel), <<ch>>)
    BY <2>1, <1>1 DEF putch, Channel
  <2>3. flushed(Channel) = [file |-> Overwrite(file, fdpos, Buffered(Channel)),
                            fdpos |-> fdpos + max, offset |-> offset + max,
                            curr |-> 0, max |-> 0, buff |-> buff]
    BY <1>1, <2>1 DEF flushed, Channel, really_write
  <2>4. 0 + Len(<<ch>>) = Len(<<ch>>) /\ Len(<<ch>>) > 0
    OBVIOUS
  <2> QED
    BY <1>1, <2>1, <2>2, <2>3, <2>4 DEF Becomes, Filled, Turned
<1> QED
  BY <1>2, <1>3

(* A block that is written past the buffer, or behind a part that fills    *)
(* the buffer up: what is left of it stays in the buffer, or follows.      *)
Past(s) ==
  /\ file' = Overwrite(file, fdpos, s)
  /\ fdpos' = fdpos + Len(s) /\ offset' = offset + Len(s)
  /\ UNCHANGED <<curr, max, buff>>

Upper(p) == Between(p, 0, BufSize - curr)
Lower(p) == Between(p, BufSize - curr, Len(p))
Full(p)  == Overwrite(buff, curr, Upper(p))

LowerKept(p) ==
  /\ file' = Overwrite(file, fdpos, Full(p))
  /\ fdpos' = fdpos + BufSize /\ offset' = offset + BufSize
  /\ buff' = Overwrite(Full(p), 0, Lower(p))
  /\ curr' = Len(p) - (BufSize - curr) /\ max' = Len(p) - (BufSize - curr)

LowerPast(p) ==
  /\ file' = Overwrite(Overwrite(file, fdpos, Full(p)), fdpos + BufSize, Lower(p))
  /\ fdpos' = fdpos + BufSize + (Len(p) - (BufSize - curr))
  /\ offset' = offset + BufSize + (Len(p) - (BufSize - curr))
  /\ buff' = Full(p) /\ curr' = 0 /\ max' = 0

LEMMA BlockIsSeq ==
  ASSUME SizesOK, NEW p \in Blocks
  PROVE  p \in Seq(Cells) /\ Len(p) \in Nat /\ Len(p) > 0
<1>1. PICK n \in 1 .. MaxBlock : p \in [1 .. n -> Bytes]
  BY DEF Blocks
<1> QED
  BY <1>1 DEF Cells, SizesOK

LEMMA PartsAre ==
  ASSUME SizesOK, TypeOK, NEW p \in Blocks, BufSize - curr <= Len(p)
  PROVE  /\ BufSize - curr \in Nat
         /\ Upper(p) \in Seq(Cells) /\ Len(Upper(p)) = BufSize - curr
         /\ Lower(p) \in Seq(Cells) /\ Len(Lower(p)) = Len(p) - (BufSize - curr)
         /\ Full(p) \in Seq(Cells) /\ Len(Full(p)) = BufSize
<1>1. /\ p \in Seq(Cells) /\ Len(p) \in Nat /\ buff \in Seq(Cells) /\ Len(buff) = BufSize
      /\ curr \in Nat /\ BufSize - curr \in Nat /\ curr + (BufSize - curr) = BufSize
      /\ 0 \in Nat /\ 0 <= BufSize - curr /\ (BufSize - curr) - 0 = BufSize - curr
      /\ BufSize <= BufSize
  BY BlockIsSeq, BufferIsSeq DEF SizesOK
<1>2. IsBetween(Upper(p), p, 0, BufSize - curr)
  BY <1>1, BetweenOf DEF Upper
<1>3. IsBetween(Lower(p), p, BufSize - curr, Len(p))
  BY <1>1, BetweenOf DEF Lower
<1>4. Upper(p) \in Seq(Cells) /\ Len(Upper(p)) = BufSize - curr
  BY <1>1, <1>2 DEF IsBetween
<1>5. IsOver(Full(p), buff, curr, Upper(p))
  BY <1>1, <1>4, OverwriteOf DEF Full
<1> QED
  BY <1>1, <1>3, <1>4, <1>5 DEF IsBetween, IsOver

LEMMA PutblockIs ==
  ASSUME SizesOK, TypeOK, NEW p \in Blocks, Becomes(putblock(Channel, p))
  PROVE  \/ curr = 0 /\ Len(p) >= BufSize /\ Past(p)
         \/ Len(p) <= BufSize - curr /\ Copied(p)
         \/ /\ Len(p) > BufSize - curr /\ Len(p) - (BufSize - curr) <= BufSize
            /\ LowerKept(p)
         \/ Len(p) > BufSize - curr /\ LowerPast(p)
<1>1. /\ max \in Nat /\ curr \in Nat /\ curr <= max /\ max <= BufSize /\ BufSize > 0
      /\ BufSize \in Nat /\ Len(p) \in Nat
  BY BufferIsSeq, BlockIsSeq DEF SizesOK
<1>2. CASE curr = 0 /\ Len(p) >= BufSize - curr
  <2>1. putblock(Channel, p) = Direct(Channel, p)
    BY <1>2 DEF putblock, Channel
  <2>2. Past(p)
    BY <2>1 DEF Becomes, Direct, really_write, Channel, Past
  <2>3. Len(p) >= BufSize
    BY <1>1, <1>2
  <2> QED
    BY <1>2, <2>2, <2>3
<1>3. CASE ~ (curr = 0 /\ Len(p) >= BufSize - curr) /\ Len(p) <= BufSize - curr
  <2>1. putblock(Channel, p) = Filled(Channel, p)
    BY <1>3 DEF putblock, Channel
  <2> QED
    BY <1>1, <1>3, <2>1 DEF Becomes, Filled, Channel, Copied
<1>4. CASE ~ (curr = 0 /\ Len(p) >= BufSize - curr) /\ Len(p) > BufSize - curr
  <2>1. Channel.curr = curr /\ Len(p) > BufSize - Channel.curr /\ ~ (Len(p) <= BufSize - Channel.curr)
    BY <1>1, <1>4 DEF Channel
  <2>2. WrittenOut(FilledUp(Channel, p))
          = [file |-> Overwrite(file, fdpos, Full(p)),
             fdpos |-> fdpos + BufSize, offset |-> offset + BufSize,
             curr |-> curr, max |-> max, buff |-> Full(p)]
    <3>1. Len(Full(p)) = BufSize
      BY <1>1, <1>4, PartsAre
    <3>2. FilledUp(Channel, p) = Rec(file, fdpos, offset, curr, max, Full(p))
      BY DEF FilledUp, Channel, Full, Upper, Rec
    <3>3. really_write(FilledUp(Channel, p), Full(p))
            = Rec(Overwrite(file, fdpos, Full(p)), fdpos + BufSize, offset, curr, max, Full(p))
      BY <3>1, <3>2, WriteIs
    <3>4. FilledUp(Channel, p).buff = Full(p)
      BY <3>2 DEF Rec
    <3> QED
      BY <3>3, <3>4 DEF WrittenOut, Rec
  <2>3. CASE Len(p) - (BufSize - curr) <= BufSize
    <3>1. putblock(Channel, p)
            = [WrittenOut(FilledUp(Channel, p)) EXCEPT
                 !.buff = Overwrite(@, 0, Lower(p)),
                 !.curr = Len(p) - (BufSize - curr), !.max = Len(p) - (BufSize - curr)]
      BY <1>4, <2>1, <2>3 DEF putblock, Lower
    <3> QED
      BY <1>4, <2>2, <2>3, <3>1 DEF Becomes, LowerKept
  <2>4. CASE ~ (Len(p) - (BufSize - curr) <= BufSize)
    <3>1. putblock(Channel, p)
            = [Direct(WrittenOut(FilledUp(Channel, p)), Lower(p)) EXCEPT !.curr = 0, !.max = 0]
      BY <1>4, <2>1, <2>4 DEF putblock, Lower
    <3>2. Len(Lower(p)) = Len(p) - (BufSize - curr)
      BY <1>1, <1>4, PartsAre
    <3> QED
      BY <1>4, <2>2, <3>1, <3>2 DEF Becomes, LowerPast, Direct, really_write
  <2> QED
    BY <2>3, <2>4
<1> QED
  BY <1>1, <1>2, <1>3, <1>4

(* A seek within the buffer, or one that leaves it.                        *)
SoughtInside(dest) ==
  InBuffer(Channel, dest) /\ UNCHANGED <<file, fdpos, offset, max, buff>> /\ curr' = dest - offset

Left(dest) ==
  /\ ~ InBuffer(Channel, dest)
  /\ file' = IF max = 0 THEN file ELSE Overwrite(file, fdpos, Buffered(Channel))
  /\ fdpos' = dest /\ offset' = dest /\ curr' = 0 /\ max' = 0 /\ buff' = buff

LEMMA SeekedIs ==
  ASSUME SizesOK, TypeOK, NEW dest, Becomes(seeked(Channel, dest))
  PROVE  SoughtInside(dest) \/ Left(dest)
<1>1. max \in Nat /\ curr \in Nat /\ curr <= max
  BY BufferIsSeq
<1>2. CASE InBuffer(Channel, dest)
  BY <1>2 DEF seeked, Becomes, Channel, SoughtInside
<1>3. CASE ~ InBuffer(Channel, dest)
  <2>1. seeked(Channel, dest) = Moved(flushed(Channel), dest, dest)
    BY <1>3 DEF seeked, Moved
  <2>2. CASE max = 0
    <3>1. curr = 0 /\ flushed(Channel) = Rec(file, fdpos, offset, 0, 0, buff)
      BY <1>1, <2>2 DEF flushed, Channel, Rec
    <3>2. Becomes(Rec(file, dest, dest, 0, 0, buff))
      BY <2>1, <3>1, MovedIs
    <3> QED
      BY <1>3, <2>2, <3>2, BecomesIs DEF Left
  <2>3. CASE max # 0
    <3>1. flushed(Channel) = Rec(Overwrite(file, fdpos, Buffered(Channel)),
                                 fdpos + Len(Buffered(Channel)), offset + max, 0, 0, buff)
      BY <2>3 DEF flushed, Channel, really_write, Rec
    <3>2. Becomes(Rec(Overwrite(file, fdpos, Buffered(Channel)), dest, dest, 0, 0, buff))
      BY <2>1, <3>1, MovedIs
    <3> QED
      BY <1>3, <2>3, <3>2, BecomesIs DEF Left
  <2> QED
    BY <2>2, <2>3
<1> QED
  BY <1>2, <1>3

(* The write of s fails after k bytes.                                     *)
Partly(k, s) ==
  /\ k \in 0 .. Len(s) - 1
  /\ file' = Overwrite(file, fdpos, Between(s, 0, k)) /\ fdpos' = fdpos + k
  /\ UNCHANGED <<offset, curr, max>>

LEMMA FailsIs ==
  ASSUME SizesOK, TypeOK, write_fails
  PROVE  \/ \E s \in Seq(Cells) : \E k \in Nat :
              /\ fdpos + k + max <= MaxFile /\ Partly(k, s) /\ buff' \in Seq(Cells) /\ Len(buff') = BufSize
         \/ \E p \in Blocks : \E k \in Nat :
              /\ BufSize - curr <= Len(p) /\ fdpos + BufSize + k + max <= MaxFile
              /\ file' = Overwrite(Overwrite(file, fdpos, Full(p)), fdpos + BufSize,
                                   Between(Lower(p), 0, k))
              /\ k <= Len(Lower(p)) /\ fdpos' = fdpos + BufSize + k
              /\ offset' = offset + BufSize /\ UNCHANGED <<curr, max>> /\ buff' = Full(p)
<1>1. /\ max \in Nat /\ curr \in Nat /\ curr <= max /\ max <= BufSize /\ BufSize > 0
      /\ BufSize \in Nat /\ buff \in Seq(Cells) /\ Len(buff) = BufSize
      /\ Buffered(Channel) \in Seq(Cells) /\ Len(Buffered(Channel)) = max
  BY BufferIsSeq DEF SizesOK
<1>2. Channel = Rec(file, fdpos, offset, curr, max, buff)
  BY DEF Channel, Rec
<1>3. ASSUME NEW f, NEW d, NEW o, NEW b, NEW s, Fails(Rec(f, d, o, curr, max, b), s)
      PROVE  \E k \in 0 .. Len(s) - 1 :
               /\ d + k + max <= MaxFile
               /\ file' = Overwrite(f, d, Between(s, 0, k)) /\ fdpos' = d + Len(Between(s, 0, k))
               /\ offset' = o /\ UNCHANGED <<curr, max>> /\ buff' = b
  <2>1. PICK k \in 0 .. Len(s) - 1 :
          /\ Rec(f, d, o, curr, max, b).fdpos + k + max <= MaxFile
          /\ Becomes(really_write(Rec(f, d, o, curr, max, b), Between(s, 0, k)))
    BY <1>3 DEF Fails
  <2>2. Becomes(Rec(Overwrite(f, d, Between(s, 0, k)), d + Len(Between(s, 0, k)), o, curr, max, b))
    BY <2>1, WriteIs
  <2>3. d + k + max <= MaxFile
    BY <2>1 DEF Rec
  <2> QED
    BY <2>2, <2>3, BecomesIs
<1>4. ASSUME NEW s \in Seq(Cells), NEW k \in 0 .. Len(s) - 1
      PROVE  k \in Nat /\ Len(Between(s, 0, k)) = k /\ k <= Len(s)
  <2>1. Len(s) \in Nat /\ k \in Nat /\ k <= Len(s) /\ 0 \in Nat /\ 0 <= k /\ k - 0 = k
    OBVIOUS
  <2>2. IsBetween(Between(s, 0, k), s, 0, k)
    BY <2>1, BetweenOf
  <2> QED
    BY <2>1, <2>2 DEF IsBetween
<1>5. ASSUME NEW b \in Seq(Cells), Len(b) = BufSize, NEW s \in Seq(Cells),
             Fails(Rec(file, fdpos, offset, curr, max, b), s)
      PROVE  \E ss \in Seq(Cells) : \E k \in Nat :
               /\ fdpos + k + max <= MaxFile /\ Partly(k, ss)
               /\ buff' \in Seq(Cells) /\ Len(buff') = BufSize
  <2>1. PICK k \in 0 .. Len(s) - 1 :
          /\ fdpos + k + max <= MaxFile
          /\ file' = Overwrite(file, fdpos, Between(s, 0, k)) /\ fdpos' = fdpos + Len(Between(s, 0, k))
          /\ offset' = offset /\ UNCHANGED <<curr, max>> /\ buff' = b
    BY <1>3, <1>5
  <2>2. k \in Nat /\ Len(Between(s, 0, k)) = k
    BY <1>4
  <2>3. Partly(k, s)
    BY <2>1, <2>2 DEF Partly
  <2> QED
    BY <1>5, <2>1, <2>2, <2>3
<1>6. CASE max > 0 /\ Fails(Channel, Buffered(Channel))
  BY <1>1, <1>2, <1>5, <1>6
<1>7. ASSUME NEW p \in Blocks, BufSize - curr <= Len(p)
      PROVE  FilledUp(Channel, p) = Rec(file, fdpos, offset, curr, max, Full(p))
  BY DEF FilledUp, Channel, Full, Upper, Rec
<1>8. ASSUME NEW p \in Blocks, curr = 0, Len(p) >= BufSize - curr, Fails(Channel, p)
      PROVE  \E s \in Seq(Cells) : \E k \in Nat :
               /\ fdpos + k + max <= MaxFile /\ Partly(k, s)
               /\ buff' \in Seq(Cells) /\ Len(buff') = BufSize
  BY <1>1, <1>2, <1>5, <1>8, BlockIsSeq
<1>9. ASSUME NEW p \in Blocks, Len(p) > BufSize - curr,
             Fails(FilledUp(Channel, p), FilledUp(Channel, p).buff)
      PROVE  \E s \in Seq(Cells) : \E k \in Nat :
               /\ fdpos + k + max <= MaxFile /\ Partly(k, s)
               /\ buff' \in Seq(Cells) /\ Len(buff') = BufSize
  <2>1. BufSize - curr <= Len(p)
    BY <1>1, <1>9, BlockIsSeq
  <2>2. Full(p) \in Seq(Cells) /\ Len(Full(p)) = BufSize
    BY <2>1, PartsAre
  <2>3. FilledUp(Channel, p) = Rec(file, fdpos, offset, curr, max, Full(p))
    BY <1>7, <2>1
  <2>4. FilledUp(Channel, p).buff = Full(p)
    BY <2>3 DEF Rec
  <2> QED
    BY <1>5, <1>9, <2>2, <2>3, <2>4
<1>10. ASSUME NEW p \in Blocks, Len(p) - (BufSize - curr) > BufSize,
              Fails(WrittenOut(FilledUp(Channel, p)), Lower(p))
       PROVE  \E k \in Nat :
                /\ BufSize - curr <= Len(p) /\ fdpos + BufSize + k + max <= MaxFile
                /\ file' = Overwrite(Overwrite(file, fdpos, Full(p)), fdpos + BufSize,
                                     Between(Lower(p), 0, k))
                /\ k <= Len(Lower(p)) /\ fdpos' = fdpos + BufSize + k
                /\ offset' = offset + BufSize /\ UNCHANGED <<curr, max>> /\ buff' = Full(p)
  <2>1. BufSize - curr <= Len(p)
    BY <1>1, <1>10, BlockIsSeq
  <2>2. /\ Full(p) \in Seq(Cells) /\ Len(Full(p)) = BufSize
        /\ Lower(p) \in Seq(Cells)
    BY <2>1, PartsAre
  <2>3. FilledUp(Channel, p) = Rec(file, fdpos, offset, curr, max, Full(p))
    BY <1>7, <2>1
  <2>4. FilledUp(Channel, p).buff = Full(p)
    BY <2>3 DEF Rec
  <2>5. really_write(FilledUp(Channel, p), Full(p))
          = Rec(Overwrite(file, fdpos, Full(p)), fdpos + BufSize, offset, curr, max, Full(p))
    BY <2>2, <2>3, WriteIs
  <2>6. WrittenOut(FilledUp(Channel, p))
          = Rec(Overwrite(file, fdpos, Full(p)), fdpos + BufSize, offset + BufSize, curr, max, Full(p))
    BY <2>4, <2>5 DEF WrittenOut, Rec
  <2>7. PICK k \in 0 .. Len(Lower(p)) - 1 :
          /\ fdpos + BufSize + k + max <= MaxFile
          /\ file' = Overwrite(Overwrite(file, fdpos, Full(p)), fdpos + BufSize, Between(Lower(p), 0, k))
          /\ fdpos' = fdpos + BufSize + Len(Between(Lower(p), 0, k))
          /\ offset' = offset + BufSize /\ UNCHANGED <<curr, max>> /\ buff' = Full(p)
    BY <1>3, <1>10, <2>6
  <2>8. k \in Nat /\ Len(Between(Lower(p), 0, k)) = k /\ k <= Len(Lower(p))
    BY <1>4, <2>2
  <2> QED
    BY <2>1, <2>7, <2>8
<1>11. ASSUME NEW p \in Blocks,
              \/ curr = 0 /\ Len(p) >= BufSize - curr /\ Fails(Channel, p)
              \/ curr > 0 /\ Len(p) > BufSize - curr
                 /\ Fails(FilledUp(Channel, p), FilledUp(Channel, p).buff)
              \/ curr > 0 /\ Len(p) - (BufSize - curr) > BufSize
                 /\ Fails(WrittenOut(FilledUp(Channel, p)), Between(p, BufSize - curr, Len(p)))
       PROVE  \/ \E s \in Seq(Cells) : \E k \in Nat :
                   /\ fdpos + k + max <= MaxFile /\ Partly(k, s) /\ buff' \in Seq(Cells) /\ Len(buff') = BufSize
              \/ \E k \in Nat :
                   /\ BufSize - curr <= Len(p) /\ fdpos + BufSize + k + max <= MaxFile
                   /\ file' = Overwrite(Overwrite(file, fdpos, Full(p)), fdpos + BufSize,
                                        Between(Lower(p), 0, k))
                   /\ k <= Len(Lower(p)) /\ fdpos' = fdpos + BufSize + k
                   /\ offset' = offset + BufSize /\ UNCHANGED <<curr, max>> /\ buff' = Full(p)
  <2>1. Lower(p) = Between(p, BufSize - curr, Len(p))
    BY DEF Lower
  <2> QED
    BY <1>8, <1>9, <1>10, <1>11, <2>1
<1> QED
  BY <1>6, <1>11 DEF write_fails

-----------------------------------------------------------------------------
(* The window.                                                             *)

OutInv == BufferIsWindow /\ fdpos + max <= MaxFile

(* What is enough for the invariant after a step.                          *)
Held ==
  /\ file' \in Seq(Cells) /\ Len(file') <= MaxFile
  /\ fdpos' \in Nat /\ fdpos' + max' <= MaxFile
  /\ offset' \in Nat /\ offset' <= fdpos' /\ (~ failed' => fdpos' = offset')
  /\ max' \in 0 .. BufSize /\ curr' \in 0 .. max'
  /\ buff' \in Seq(Cells) /\ Len(buff') = BufSize
  /\ open' \in BOOLEAN /\ failed' \in BOOLEAN

LEMMA HeldIsKept ==
  ASSUME SizesOK, Held
  PROVE  OutInv'
<1>1. buff' \in [1 .. BufSize -> Cells]
  BY LenProperties DEF SizesOK, Held, Cells
<1>2. fdpos' \in 0 .. MaxFile /\ offset' \in 0 .. MaxFile /\ fdpos' + max' <= MaxFile
  <2>1. PICK d, o, m : d = fdpos' /\ o = offset' /\ m = max'
    OBVIOUS
  <2>2. d \in Nat /\ o \in Nat /\ m \in Nat /\ MaxFile \in Nat /\ d + m <= MaxFile /\ o <= d
    <3>1. fdpos' \in Nat /\ offset' \in Nat /\ fdpos' + max' <= MaxFile /\ offset' <= fdpos'
      BY DEF Held
    <3>2. max' \in 0 .. BufSize /\ BufSize \in Nat /\ MaxFile \in Nat
      BY DEF SizesOK, Held
    <3>3. m \in 0 .. BufSize /\ d \in Nat /\ o \in Nat /\ o <= d
      BY <2>1, <3>1, <3>2
    <3>4. d + m <= MaxFile
      BY <2>1, <3>1
    <3> QED
      BY <3>2, <3>3, <3>4
  <2>3. d \in 0 .. MaxFile /\ o \in 0 .. MaxFile
    BY <2>2
  <2> QED
    BY <2>1, <2>2, <2>3
<1>3. TypeOK'
  BY <1>1, <1>2 DEF TypeOK, Held, Cells
<1> QED
  BY <1>2, <1>3 DEF OutInv, BufferIsWindow, OffsetIsPosition, Held

LEMMA InitHolds ==
  ASSUME SizesOK, Init
  PROVE  OutInv
<1>1. buff \in [1 .. BufSize -> Cells]
  BY HoleIsCell DEF Init
<1>2. file \in Seq(Cells) /\ Len(file) = 0
  BY DEF Init
<1> QED
  <2>1. BufSize \in Nat /\ MaxFile \in Nat
    BY DEF SizesOK
  <2>2. fdpos = 0 /\ offset = 0 /\ curr = 0 /\ max = 0 /\ open = TRUE /\ failed = FALSE
    BY DEF Init
  <2>a. /\ Len(file) <= MaxFile /\ fdpos \in 0 .. MaxFile /\ offset \in 0 .. MaxFile
        /\ max \in 0 .. BufSize /\ curr \in 0 .. max
    BY <1>2, <2>1, <2>2
  <2>3. TypeOK
    BY <1>1, <1>2, <2>2, <2>a DEF TypeOK
  <2> QED
    BY <2>1, <2>2, <2>3 DEF OutInv, BufferIsWindow, OffsetIsPosition

(* The facts a step starts from.                                           *)
LEMMA Facts ==
  ASSUME SizesOK, OutInv
  PROVE  /\ TypeOK
         /\ max \in Nat /\ curr \in Nat /\ curr <= max /\ max <= BufSize /\ max \in 0 .. BufSize
         /\ BufSize \in Nat /\ BufSize > 0 /\ MaxFile \in Nat
         /\ fdpos \in Nat /\ offset \in Nat /\ offset <= fdpos /\ fdpos + max <= MaxFile
         /\ ~ failed => fdpos = offset
         /\ file \in Seq(Cells) /\ Len(file) \in Nat /\ Len(file) <= MaxFile
         /\ buff \in Seq(Cells) /\ Len(buff) = BufSize
         /\ Buffered(Channel) \in Seq(Cells) /\ Len(Buffered(Channel)) = max
         /\ open \in BOOLEAN /\ failed \in BOOLEAN
<1>1. TypeOK
  BY DEF OutInv, BufferIsWindow
<1> QED
  BY <1>1, BufferIsSeq DEF OutInv, BufferIsWindow, TypeOK, OffsetIsPosition, SizesOK, Cells

LEMMA WrittenHolds ==
  ASSUME SizesOK, OutInv, (max = 0 /\ Same) \/ (max > 0 /\ Written),
         open' \in BOOLEAN, failed' = failed
  PROVE  Held
<1> USE Facts
<1>1. CASE max = 0 /\ Same
  BY <1>1 DEF Same, Held
<1>2. CASE max > 0 /\ Written
  <2>1. /\ Overwrite(file, fdpos, Buffered(Channel)) \in Seq(Cells)
        /\ Len(Overwrite(file, fdpos, Buffered(Channel))) <= MaxFile
    BY Bounded
  <2> QED
    BY <1>2, <2>1 DEF Written, Held
<1> QED
  BY <1>1, <1>2

LEMMA CopiedHolds ==
  ASSUME SizesOK, OutInv, NEW s \in Seq(Cells), curr + Len(s) <= BufSize,
         fdpos + max + Len(s) <= MaxFile, Copied(s), open' \in BOOLEAN, failed' = failed
  PROVE  Held
<1> USE Facts
<1>1. Overwrite(buff, curr, s) \in Seq(Cells) /\ Len(Overwrite(buff, curr, s)) = BufSize
  BY Lengths
<1>2. Len(s) \in Nat
  OBVIOUS
<1>3. max' \in 0 .. BufSize /\ curr' \in 0 .. max' /\ fdpos + max' <= MaxFile
  BY SMTT(30), <1>2 DEF Copied
<1> QED
  BY <1>1, <1>3 DEF Copied, Held

LEMMA TurnedHolds ==
  ASSUME SizesOK, OutInv, NEW s \in Seq(Cells), Len(s) <= BufSize,
         fdpos + max + Len(s) <= MaxFile, Turned(s), open' \in BOOLEAN, failed' = failed
  PROVE  Held
<1> USE Facts
<1>1. Len(s) \in Nat /\ 0 \in Nat /\ 0 + Len(s) <= Len(buff)
  OBVIOUS
<1>2. Overwrite(buff, 0, s) \in Seq(Cells) /\ Len(Overwrite(buff, 0, s)) = BufSize
  BY <1>1, Lengths
<1>3. /\ Overwrite(file, fdpos, Buffered(Channel)) \in Seq(Cells)
      /\ Len(Overwrite(file, fdpos, Buffered(Channel))) <= MaxFile
  BY Bounded
<1>4. /\ Len(s) \in 0 .. BufSize /\ Len(s) \in 0 .. Len(s)
      /\ fdpos + max \in Nat /\ fdpos + max + Len(s) <= MaxFile
      /\ offset + max \in Nat /\ offset + max <= fdpos + max
      /\ ~ failed => fdpos + max = offset + max
  BY <1>1
<1> QED
  BY <1>2, <1>3, <1>4 DEF Turned, Held

LEMMA PastHolds ==
  ASSUME SizesOK, OutInv, NEW s \in Seq(Cells), fdpos + max + Len(s) <= MaxFile,
         Past(s), open' \in BOOLEAN, failed' = failed
  PROVE  Held
<1> USE Facts
<1>1. Len(s) \in Nat
  OBVIOUS
<1>2. Overwrite(file, fdpos, s) \in Seq(Cells) /\ Len(Overwrite(file, fdpos, s)) <= MaxFile
  <2>1. fdpos + Len(s) <= MaxFile
    BY <1>1
  <2> QED
    BY <2>1, Bounded
<1>3. /\ fdpos + Len(s) \in Nat /\ fdpos + Len(s) + max <= MaxFile
      /\ offset + Len(s) \in Nat /\ offset + Len(s) <= fdpos + Len(s)
      /\ ~ failed => fdpos + Len(s) = offset + Len(s)
      /\ curr \in 0 .. max
  BY SMTT(30), <1>1
<1> QED
  BY <1>2, <1>3 DEF Past, Held

(* What is on the disk when the buffer has been filled up and written, and *)
(* t behind it.                                                            *)
LEMMA TwoWrites ==
  ASSUME SizesOK, OutInv, NEW s \in Seq(Cells), NEW t \in Seq(Cells), Len(s) = BufSize,
         fdpos + BufSize + Len(t) <= MaxFile
  PROVE  /\ Overwrite(file, fdpos, s) \in Seq(Cells)
         /\ Len(Overwrite(file, fdpos, s)) <= MaxFile
         /\ Overwrite(Overwrite(file, fdpos, s), fdpos + BufSize, t) \in Seq(Cells)
         /\ Len(Overwrite(Overwrite(file, fdpos, s), fdpos + BufSize, t)) <= MaxFile
<1> USE Facts
<1>1. Len(s) \in Nat /\ Len(t) \in Nat /\ fdpos + BufSize \in Nat
  OBVIOUS
<1>2. Overwrite(file, fdpos, s) \in Seq(Cells) /\ Len(Overwrite(file, fdpos, s)) <= MaxFile
  <2>1. fdpos + Len(s) <= MaxFile
    BY <1>1
  <2> QED
    BY <2>1, Bounded
<1>3. /\ Overwrite(Overwrite(file, fdpos, s), fdpos + BufSize, t) \in Seq(Cells)
      /\ Len(Overwrite(Overwrite(file, fdpos, s), fdpos + BufSize, t)) <= MaxFile
  BY <1>1, <1>2, Bounded
<1> QED
  BY <1>2, <1>3

LEMMA LowerSum ==
  ASSUME NEW d \in Nat, NEW c \in Nat, NEW m \in Nat, NEW b \in Nat, NEW n \in Nat, NEW f \in Nat,
         c <= m, n > b - c, d + m + n <= f
  PROVE  d + b + (n - (b - c)) <= f /\ n - (b - c) \in Nat /\ n - (b - c) > 0
OBVIOUS

LEMMA Sums ==
  ASSUME NEW d \in Nat, NEW o \in Nat, NEW b \in Nat, NEW l \in Nat, o <= d
  PROVE  /\ o + b <= d + b + l /\ o + b + l <= d + b + l
         /\ d + b + l \in Nat /\ o + b \in Nat /\ o + b + l \in Nat
         /\ d = o => d + b = o + b /\ d + b + l = o + b + l
OBVIOUS

LEMMA LowerHolds ==
  ASSUME SizesOK, OutInv, NEW p \in Blocks, Len(p) > BufSize - curr,
         fdpos + max + Len(p) <= MaxFile, open' \in BOOLEAN, failed' = failed,
         (Len(p) - (BufSize - curr) <= BufSize /\ LowerKept(p)) \/ LowerPast(p)
  PROVE  Held
<1> USE Facts
<1>1. /\ BufSize - curr \in Nat /\ Len(p) \in Nat
      /\ Lower(p) \in Seq(Cells) /\ Len(Lower(p)) = Len(p) - (BufSize - curr)
      /\ Full(p) \in Seq(Cells) /\ Len(Full(p)) = BufSize
  BY PartsAre, BlockIsSeq
<1>2. /\ fdpos + BufSize + Len(Lower(p)) <= MaxFile /\ Len(Lower(p)) \in Nat /\ Len(Lower(p)) > 0
      /\ offset + BufSize \in Nat /\ offset + BufSize <= fdpos + BufSize
      /\ ~ failed => fdpos + BufSize = offset + BufSize
  <2>1. fdpos + BufSize + (Len(p) - (BufSize - curr)) <= MaxFile
        /\ Len(p) - (BufSize - curr) \in Nat /\ Len(p) - (BufSize - curr) > 0
    BY <1>1, LowerSum
  <2>2. 0 \in Nat /\ offset + BufSize <= fdpos + BufSize /\ offset + BufSize \in Nat
    OBVIOUS
  <2> QED
    BY <1>1, <2>1, <2>2
<1>3. CASE Len(p) - (BufSize - curr) <= BufSize /\ LowerKept(p)
  <2>1. 0 \in Nat /\ 0 + Len(Lower(p)) <= Len(Full(p))
    BY <1>1, <1>2, <1>3
  <2>2. /\ Overwrite(Full(p), 0, Lower(p)) \in Seq(Cells)
        /\ Len(Overwrite(Full(p), 0, Lower(p))) = BufSize
    BY <1>1, <2>1, Lengths
  <2>3. Overwrite(file, fdpos, Full(p)) \in Seq(Cells) /\ Len(Overwrite(file, fdpos, Full(p))) <= MaxFile
    BY <1>1, <1>2, TwoWrites
  <2> QED
    <3>1. /\ fdpos' = fdpos + BufSize /\ offset' = offset + BufSize
          /\ curr' = Len(Lower(p)) /\ max' = Len(Lower(p))
      BY <1>1, <1>3 DEF LowerKept
    <3>2. Len(Lower(p)) <= BufSize
      BY <1>1, <1>3
    <3>a. /\ Len(Lower(p)) \in 0 .. BufSize /\ Len(Lower(p)) \in 0 .. Len(Lower(p))
          /\ fdpos + BufSize \in Nat
      BY SMTT(30), <1>2, <3>2
    <3>3. max' \in 0 .. BufSize /\ curr' \in 0 .. max' /\ fdpos' \in Nat /\ fdpos' + max' <= MaxFile
      BY <1>2, <3>1, <3>a
    <3> QED
      BY <1>2, <1>3, <2>2, <2>3, <3>1, <3>3 DEF LowerKept, Held
<1>4. CASE LowerPast(p)
  <2>1. /\ Overwrite(Overwrite(file, fdpos, Full(p)), fdpos + BufSize, Lower(p)) \in Seq(Cells)
        /\ Len(Overwrite(Overwrite(file, fdpos, Full(p)), fdpos + BufSize, Lower(p))) <= MaxFile
    BY <1>1, <1>2, TwoWrites
  <2> QED
    <3>1. /\ fdpos' = fdpos + BufSize + Len(Lower(p)) /\ offset' = offset + BufSize + Len(Lower(p))
          /\ curr' = 0 /\ max' = 0
      BY <1>1, <1>4 DEF LowerPast
    <3>2. /\ max' \in 0 .. BufSize /\ curr' \in 0 .. max' /\ fdpos' \in Nat /\ fdpos' + max' <= MaxFile
          /\ offset' \in Nat /\ offset' <= fdpos' /\ (~ failed => fdpos' = offset')
      <4>1. /\ fdpos + BufSize + Len(Lower(p)) \in Nat /\ fdpos + BufSize + Len(Lower(p)) + 0 <= MaxFile
            /\ offset + BufSize + Len(Lower(p)) \in Nat
            /\ offset + BufSize + Len(Lower(p)) <= fdpos + BufSize + Len(Lower(p))
            /\ ~ failed => fdpos + BufSize + Len(Lower(p)) = offset + BufSize + Len(Lower(p))
            /\ 0 \in 0 .. BufSize /\ 0 \in 0 .. 0
        <5>1. fdpos + BufSize + Len(Lower(p)) + 0 <= MaxFile
          BY SMTT(30), <1>2
        <5>2. 0 \in 0 .. BufSize /\ 0 \in 0 .. 0
          OBVIOUS
        <5> QED
          BY SMTT(30), <1>2, <5>1, <5>2, Sums
      <4> QED
        BY <3>1, <4>1
    <3> QED
      BY <1>1, <1>4, <2>1, <3>1, <3>2 DEF LowerPast, Held
<1> QED
  BY <1>3, <1>4

LEMMA LeftHolds ==
  ASSUME SizesOK, OutInv, NEW dest \in 0 .. MaxFile, Left(dest), open' \in BOOLEAN,
         failed' \in BOOLEAN
  PROVE  Held
<1> USE Facts
<1>1. /\ Overwrite(file, fdpos, Buffered(Channel)) \in Seq(Cells)
      /\ Len(Overwrite(file, fdpos, Buffered(Channel))) <= MaxFile
  BY Bounded
<1> QED
  BY <1>1 DEF Left, Held

LEMMA FailsHolds ==
  ASSUME SizesOK, OutInv, write_fails
  PROVE  Held
<1> USE Facts
<1>1. open' \in BOOLEAN /\ failed' = TRUE
  BY DEF write_fails
<1>2. ASSUME NEW s \in Seq(Cells), NEW k \in Nat, fdpos + k + max <= MaxFile, Partly(k, s),
             buff' \in Seq(Cells), Len(buff') = BufSize
      PROVE  Held
  <2>1. k <= Len(s) /\ Len(s) \in Nat /\ 0 \in Nat /\ 0 <= k /\ k - 0 = k
    BY SMTT(30), <1>2 DEF Partly
  <2>2. IsBetween(Between(s, 0, k), s, 0, k)
    BY <2>1, BetweenOf
  <2>3. Between(s, 0, k) \in Seq(Cells) /\ Len(Between(s, 0, k)) = k
    BY <2>1, <2>2 DEF IsBetween
  <2>4. /\ Overwrite(file, fdpos, Between(s, 0, k)) \in Seq(Cells)
        /\ Len(Overwrite(file, fdpos, Between(s, 0, k))) <= MaxFile
    <3>1. fdpos + Len(Between(s, 0, k)) <= MaxFile
      BY <1>2, <2>3
    <3> QED
      BY <2>3, <3>1, Bounded
  <2> QED
    BY SMTT(30), <1>1, <1>2, <2>4 DEF Partly, Held
<1>3. ASSUME NEW p \in Blocks, NEW k \in Nat, BufSize - curr <= Len(p),
             fdpos + BufSize + k + max <= MaxFile,
             file' = Overwrite(Overwrite(file, fdpos, Full(p)), fdpos + BufSize,
                               Between(Lower(p), 0, k)),
             k <= Len(Lower(p)), fdpos' = fdpos + BufSize + k,
             offset' = offset + BufSize, UNCHANGED <<curr, max>>, buff' = Full(p)
      PROVE  Held
  <2>1. /\ Lower(p) \in Seq(Cells)
        /\ Full(p) \in Seq(Cells) /\ Len(Full(p)) = BufSize
    BY <1>3, PartsAre
  <2>2. 0 \in Nat /\ 0 <= k /\ k - 0 = k
    OBVIOUS
  <2>3. IsBetween(Between(Lower(p), 0, k), Lower(p), 0, k)
    BY <1>3, <2>1, <2>2, BetweenOf
  <2>4. Between(Lower(p), 0, k) \in Seq(Cells) /\ Len(Between(Lower(p), 0, k)) = k
    BY <2>2, <2>3 DEF IsBetween
  <2>5. fdpos + BufSize + Len(Between(Lower(p), 0, k)) <= MaxFile
    BY SMTT(30), <1>3, <2>4
  <2>6. file' \in Seq(Cells) /\ Len(file') <= MaxFile
    BY <1>3, <2>1, <2>4, <2>5, TwoWrites
  <2> QED
    <3>1. /\ fdpos' \in Nat /\ fdpos' + max' <= MaxFile
          /\ offset' \in Nat /\ offset' <= fdpos' /\ max' \in 0 .. BufSize /\ curr' \in 0 .. max'
      <4>1. /\ fdpos + BufSize + k \in Nat /\ offset + BufSize \in Nat
            /\ offset + BufSize <= fdpos + BufSize + k
        BY Sums
      <4>2. curr \in 0 .. max
        OBVIOUS
      <4> QED
        BY <1>3, <4>1, <4>2
    <3> QED
      BY <1>1, <1>3, <2>1, <2>6, <3>1 DEF Held
<1> QED
  BY <1>2, <1>3, FailsIs

LEMMA StepHolds ==
  ASSUME SizesOK, OutInv, Next
  PROVE  Held
<1> USE Facts
<1>1. CASE flush \/ close_out
  <2>1. Becomes(flushed(Channel)) /\ open' \in BOOLEAN /\ failed' = failed
    BY <1>1 DEF flush, close_out
  <2> QED
    BY <2>1, FlushedIs, WrittenHolds
<1>2. CASE write_fails
  BY <1>2, FailsHolds
<1>3. ASSUME NEW ch \in Bytes, output_char(ch) PROVE Held
  <2>1. /\ Becomes(putch(Channel, ch)) /\ open' \in BOOLEAN /\ failed' = failed
        /\ fdpos + max + 1 <= MaxFile
    BY <1>3 DEF output_char, Within
  <2>2. <<ch>> \in Seq(Cells) /\ Len(<<ch>>) = 1
    BY DEF Cells
  <2>3. \/ curr < BufSize /\ Copied(<<ch>>)
        \/ curr = BufSize /\ max = BufSize /\ Turned(<<ch>>)
    BY <2>1, PutchIs
  <2>4. CASE curr < BufSize /\ Copied(<<ch>>)
    <3>1. curr + Len(<<ch>>) <= BufSize /\ fdpos + max + Len(<<ch>>) <= MaxFile
      BY <2>1, <2>2, <2>4
    <3> QED
      BY <2>1, <2>2, <2>4, <3>1, CopiedHolds
  <2>5. CASE Turned(<<ch>>)
    <3>1. Len(<<ch>>) <= BufSize /\ fdpos + max + Len(<<ch>>) <= MaxFile
      BY <2>1, <2>2
    <3> QED
      BY <2>1, <2>2, <2>5, <3>1, TurnedHolds
  <2> QED
    BY <2>3, <2>4, <2>5
<1>4. ASSUME NEW p \in Blocks, output(p) PROVE Held
  <2>1. /\ Becomes(putblock(Channel, p)) /\ open' \in BOOLEAN /\ failed' = failed
        /\ fdpos + max + Len(p) <= MaxFile
    BY <1>4 DEF output, Within
  <2>2. p \in Seq(Cells) /\ Len(p) \in Nat
    BY BlockIsSeq
  <2>3. CASE Past(p)
    BY <2>1, <2>2, <2>3, PastHolds
  <2>4. CASE Len(p) <= BufSize - curr /\ Copied(p)
    <3>1. curr + Len(p) <= BufSize
      BY <2>2, <2>4
    <3> QED
      BY <2>1, <2>2, <2>4, <3>1, CopiedHolds
  <2>5. CASE /\ Len(p) > BufSize - curr
             /\ (Len(p) - (BufSize - curr) <= BufSize /\ LowerKept(p)) \/ LowerPast(p)
    BY <2>1, <2>5, LowerHolds
  <2> QED
    BY <2>1, <2>3, <2>4, <2>5, PutblockIs
<1>5. ASSUME NEW dest \in 0 .. MaxFile, seek_out(dest) PROVE Held
  <2>1. /\ Becomes(seeked(Channel, dest)) /\ open' \in BOOLEAN
        /\ failed' = (failed /\ InBuffer(Channel, dest))
    BY <1>5 DEF seek_out
  <2>2. CASE SoughtInside(dest)
    <3>1. failed' = failed
      BY <2>1, <2>2 DEF SoughtInside
    <3>2. offset <= dest /\ dest <= offset + max
      BY <2>2 DEF SoughtInside, InBuffer, Channel
    <3>3. dest - offset \in 0 .. max
      BY <3>2
    <3> QED
      BY <2>1, <2>2, <3>1, <3>3 DEF SoughtInside, Held
  <2>3. CASE Left(dest)
    <3>1. failed' \in BOOLEAN
      BY <2>1
    <3> QED
      BY <2>1, <2>3, <3>1, LeftHolds
  <2> QED
    BY <2>1, <2>2, <2>3, SeekedIs
<1> QED
  BY <1>1, <1>2, <1>3, <1>4, <1>5 DEF Next

LEMMA Preserved ==
  ASSUME SizesOK, OutInv, [Next]_vars
  PROVE  OutInv'
<1>1. CASE Next
  BY <1>1, StepHolds, HeldIsKept
<1>2. CASE UNCHANGED vars
  BY <1>2 DEF vars, OutInv, BufferIsWindow, TypeOK, OffsetIsPosition
<1> QED
  BY <1>1, <1>2

(* The buffer is a window on the file, whatever its size, whatever writes  *)
(* fail, and however carelessly the program flushes (io.c, putblock,       *)
(* flush, seek_out and sys_error out of really_write).                     *)
THEOREM OutWindowTheorem ==
  ASSUME SizesOK
  PROVE  Spec => []BufferIsWindow
<1>1. Init => OutInv
  BY InitHolds
<1>2. OutInv /\ [Next]_vars => OutInv'
  BY Preserved
<1>3. OutInv => BufferIsWindow
  BY DEF OutInv
<1> QED
  BY <1>1, <1>2, <1>3, PTL DEF Spec

-----------------------------------------------------------------------------
(* The refinement.                                                         *)

Place == offset + curr

LEMMA ContentIs ==
  ASSUME SizesOK, OutInv
  PROVE  Cont \in Seq(Cells) /\ Place \in Nat
<1> USE Facts
<1>1. Cont \in Seq(Cells)
  BY Lengths DEF Cont
<1> QED
  BY <1>1 DEF Place

LEMMA ContNext ==
  Cont' = Overwrite(file', offset', Between(buff', 0, max'))
BY DEF Cont, Buffered, Channel

LEMMA WrittenSame ==
  ASSUME SizesOK, OutInv, ~ failed, (max = 0 /\ Same) \/ (max > 0 /\ Written)
  PROVE  Cont' = Cont /\ Place' = IF max = 0 THEN Place ELSE offset + max
<1> USE Facts
<1>1. CASE max = 0 /\ Same
  BY <1>1 DEF Same, Cont, Place, Buffered, Channel
<1>2. CASE max > 0 /\ Written
  <2>1. Cont' = file'
    BY <1>2, ContNext, EmptyIs DEF Written
  <2>2. file' = Cont
    BY <1>2 DEF Written, Cont
  <2>3. Place' = offset + max
    BY <1>2 DEF Written, Place
  <2> QED
    BY <1>2, <2>1, <2>2, <2>3
<1> QED
  BY <1>1, <1>2

LEMMA CopiedWrites ==
  ASSUME SizesOK, OutInv, NEW s \in Seq(Cells), curr + Len(s) <= BufSize, Copied(s)
  PROVE  Cont' = Overwrite(Cont, Place, s) /\ Place' = Place + Len(s)
<1> USE Facts
<1>1. PICK n \in Nat : n = IF curr + Len(s) > max THEN curr + Len(s) ELSE max
  OBVIOUS
<1>2. file' = file /\ offset' = offset /\ buff' = Overwrite(buff, curr, s) /\ max' = n
  BY <1>1 DEF Copied
<1>3. Between(Overwrite(buff, curr, s), 0, n) = Overwrite(Between(buff, 0, max), curr, s)
  BY <1>1, Prefix
<1>4. Cont' = Overwrite(file, offset, Overwrite(Between(buff, 0, max), curr, s))
  BY <1>2, <1>3, ContNext
<1>5. Between(buff, 0, max) = Buffered(Channel)
  BY DEF Buffered, Channel
<1>6. Overwrite(Overwrite(file, offset, Buffered(Channel)), offset + curr, s)
        = Overwrite(file, offset, Overwrite(Buffered(Channel), curr, s))
  BY Inside
<1>7. Place' = Place + Len(s)
  <2>1. Len(s) \in Nat /\ offset + (curr + Len(s)) = offset + curr + Len(s)
    OBVIOUS
  <2> QED
    BY <2>1 DEF Place, Copied
<1> QED
  BY <1>4, <1>5, <1>6, <1>7 DEF Cont, Place

LEMMA TurnedWrites ==
  ASSUME SizesOK, OutInv, ~ failed, curr = max, NEW s \in Seq(Cells), Len(s) <= BufSize, Turned(s)
  PROVE  Cont' = Overwrite(Cont, Place, s) /\ Place' = Place + Len(s)
<1> USE Facts
<1>1. file' = Cont /\ offset' = Place
  BY DEF Turned, Cont, Place
<1>2. Between(Overwrite(buff, 0, s), 0, Len(s)) = s
  BY FromStart
<1>3. Cont' = Overwrite(Cont, Place, s)
  BY <1>1, <1>2, ContNext DEF Turned
<1> QED
  BY <1>1, <1>3 DEF Turned, Place

LEMMA PastWrites ==
  ASSUME SizesOK, OutInv, ~ failed, curr = 0, max = 0, NEW s \in Seq(Cells), Past(s)
  PROVE  Cont' = Overwrite(Cont, Place, s) /\ Place' = Place + Len(s)
<1> USE Facts
<1>1. Cont = file
  BY EmptyIs DEF Cont, Buffered, Channel
<1>2. Cont' = file'
  BY ContNext, EmptyIs DEF Past
<1>3. Place = offset /\ Place' = offset + Len(s)
  BY DEF Past, Place
<1> QED
  BY <1>1, <1>2, <1>3 DEF Past

LEMMA LowerWrites ==
  ASSUME SizesOK, OutInv, ~ failed, NEW p \in Blocks, Len(p) > BufSize - curr,
         (Len(p) - (BufSize - curr) <= BufSize /\ LowerKept(p)) \/ LowerPast(p)
  PROVE  Cont' = Overwrite(Cont, Place, p) /\ Place' = Place + Len(p)
<1> USE Facts
<1>1. /\ BufSize - curr \in Nat /\ Len(p) \in Nat /\ p \in Seq(Cells) /\ BufSize - curr <= Len(p)
      /\ Upper(p) \in Seq(Cells) /\ Len(Upper(p)) = BufSize - curr
      /\ Lower(p) \in Seq(Cells) /\ Len(Lower(p)) = Len(p) - (BufSize - curr)
      /\ Full(p) \in Seq(Cells) /\ Len(Full(p)) = BufSize
  BY PartsAre, BlockIsSeq
<1>2. Full(p) = Overwrite(Buffered(Channel), curr, Upper(p))
  <2>1. /\ curr + Len(Upper(p)) = BufSize /\ curr + Len(Upper(p)) <= Len(buff)
        /\ BufSize = IF curr + Len(Upper(p)) > max THEN curr + Len(Upper(p)) ELSE max
    BY SMTT(30), <1>1
  <2>2. Between(Full(p), 0, BufSize) = Overwrite(Between(buff, 0, max), curr, Upper(p))
    <3>1. Between(Overwrite(buff, curr, Upper(p)), 0, BufSize)
            = Overwrite(Between(buff, 0, max), curr, Upper(p))
      <4>1. PICK a : a = Upper(p)
        OBVIOUS
      <4>2. a \in Seq(Cells) /\ curr + Len(a) <= Len(buff)
            /\ BufSize = IF curr + Len(a) > max THEN curr + Len(a) ELSE max
        BY <1>1, <2>1, <4>1
      <4>3. Between(Overwrite(buff, curr, a), 0, BufSize) = Overwrite(Between(buff, 0, max), curr, a)
        BY SMTT(30), <4>2, Prefix
      <4> QED
        BY <4>1, <4>3
    <3> QED
      BY <3>1 DEF Full
  <2>3. Between(Full(p), 0, BufSize) = Full(p)
    <3>1. PICK l : l = Full(p)
      OBVIOUS
    <3>2. l \in Seq(Cells) /\ Len(l) = BufSize
      BY <1>1, <3>1
    <3>3. Between(l, 0, Len(l)) = l
      BY <3>2, WholeIs
    <3> QED
      BY <3>1, <3>2, <3>3
  <2> QED
    BY <2>2, <2>3 DEF Buffered, Channel
<1>3. Overwrite(file, fdpos, Full(p)) = Overwrite(Cont, Place, Upper(p))
  <2>1. Overwrite(Overwrite(file, offset, Buffered(Channel)), offset + curr, Upper(p))
          = Overwrite(file, offset, Overwrite(Buffered(Channel), curr, Upper(p)))
    <3>1. PICK a, b : a = Upper(p) /\ b = Buffered(Channel)
      OBVIOUS
    <3>2. a \in Seq(Cells) /\ b \in Seq(Cells) /\ curr <= Len(b)
      BY <1>1, <3>1
    <3>3. Overwrite(Overwrite(file, offset, b), offset + curr, a)
            = Overwrite(file, offset, Overwrite(b, curr, a))
      BY <3>2, Inside
    <3> QED
      BY <3>1, <3>3
  <2> QED
    BY <1>2, <2>1 DEF Cont, Place
<1>4. fdpos + BufSize = Place + (BufSize - curr)
  BY DEF Place
<1>5. Overwrite(Overwrite(Cont, Place, Upper(p)), Place + (BufSize - curr), Lower(p))
        = Overwrite(Cont, Place, p)
  <2>1. Cont \in Seq(Cells) /\ Place \in Nat
    BY ContentIs
  <2>2. Overwrite(Overwrite(Cont, Place, Between(p, 0, BufSize - curr)), Place + (BufSize - curr),
                  Between(p, BufSize - curr, Len(p)))
          = Overwrite(Cont, Place, p)
    <3>1. PICK f, q, m : f = Cont /\ q = Place /\ m = BufSize - curr
      OBVIOUS
    <3>2. f \in Seq(Cells) /\ q \in Nat /\ m \in Nat /\ p \in Seq(Cells) /\ m <= Len(p)
      BY <1>1, <2>1, <3>1
    <3>3. Overwrite(Overwrite(f, q, Between(p, 0, m)), q + m, Between(p, m, Len(p))) = Overwrite(f, q, p)
      BY <3>2, TwoParts
    <3> QED
      BY <3>1, <3>3
  <2> QED
    BY <2>2 DEF Upper, Lower
<1>6. CASE Len(p) - (BufSize - curr) <= BufSize /\ LowerKept(p)
  <2>1. Between(Overwrite(Full(p), 0, Lower(p)), 0, Len(Lower(p))) = Lower(p)
    BY SMTT(30), <1>1, <1>6, FromStart
  <2>2. Cont' = Overwrite(file', offset', Lower(p))
    BY <1>1, <1>6, <2>1, ContNext DEF LowerKept
  <2>3. Place' = Place + Len(p)
    <3>1. (offset + BufSize) + (Len(p) - (BufSize - curr)) = offset + curr + Len(p)
      BY SMTT(30), <1>1
    <3> QED
      BY <1>6, <3>1 DEF LowerKept, Place
  <2> QED
    BY <1>3, <1>4, <1>5, <1>6, <2>2, <2>3 DEF LowerKept
<1>7. CASE LowerPast(p)
  <2>1. Cont' = file'
    BY <1>7, ContNext, EmptyIs DEF LowerPast
  <2>2. Place' = Place + Len(p)
    <3>1. (offset + BufSize + (Len(p) - (BufSize - curr))) + 0 = offset + curr + Len(p)
      BY SMTT(30), <1>1
    <3> QED
      BY <1>7, <3>1 DEF LowerPast, Place
  <2> QED
    BY <1>3, <1>4, <1>5, <1>7, <2>1, <2>2 DEF LowerPast
<1> QED
  BY <1>6, <1>7

LEMMA LeftSeeks ==
  ASSUME SizesOK, OutInv, ~ failed, NEW dest \in 0 .. MaxFile, Left(dest)
  PROVE  Cont' = Cont /\ Place' = dest
<1> USE Facts
<1>1. Cont' = file'
  BY ContNext, EmptyIs DEF Left
<1>2. file' = Cont
  <2>1. CASE max = 0
    BY <2>1, EmptyIs DEF Left, Cont, Buffered, Channel
  <2>2. CASE max # 0
    BY <2>2 DEF Left, Cont
  <2> QED
    BY <2>1, <2>2
<1>3. Place' = dest
  BY DEF Left, Place
<1> QED
  BY <1>1, <1>2, <1>3

LEMMA AbstractIs ==
  /\ (Cont' = Cont /\ Place' = Place) => UNCHANGED Abstract!vars
  /\ \A s \in Blocks : Cont' = Overwrite(Cont, Place, s) /\ Place' = Place + Len(s) => Abstract!Next
  /\ \A dest \in 0 .. MaxFile : Cont' = Cont /\ Place' = dest => Abstract!Next
<1>1. (Cont' = Cont /\ Place' = Place) => UNCHANGED Abstract!vars
  BY DEF Abstract!vars, Cont, Place
<1>2. \A s \in Blocks : Cont' = Overwrite(Cont, Place, s) /\ Place' = Place + Len(s) => Abstract!Write(s)
  <2>1. ASSUME NEW s \in Blocks, Cont' = Overwrite(Cont, Place, s), Place' = Place + Len(s)
        PROVE  Abstract!Write(s)
    <3>1. offset' + curr' = offset + curr + Len(s)
      BY <2>1, Zenon DEF Place
    <3>2. Overwrite(file, offset, Buffered(Channel))'
            = Overwrite(Overwrite(file, offset, Buffered(Channel)), offset + curr, s)
      BY <2>1, Zenon DEF Cont, Place
    <3>3. \A f, p, t : Abstract!Overwrite(f, p, t) = Overwrite(f, p, t)
      BY DEF Abstract!Overwrite, Overwrite, Abstract!Hole, Hole
    <3> QED
      BY <3>1, <3>2, <3>3 DEF Abstract!Write
  <2> QED
    BY <2>1
<1>3. \A dest \in 0 .. MaxFile : Cont' = Cont /\ Place' = dest => Abstract!Seek(dest)
  BY DEF Abstract!Seek, Cont, Place
<1> QED
  BY <1>1, <1>2, <1>3 DEF Abstract!Next

LEMMA StepRefines ==
  ASSUME SizesOK, ~ Behind, OutInv, Next
  PROVE  failed \/ failed' \/ Abstract!Next \/ UNCHANGED Abstract!vars
<1> USE Facts
<1> SUFFICES ASSUME ~ failed, ~ failed' PROVE Abstract!Next \/ UNCHANGED Abstract!vars
  OBVIOUS
<1>1. CASE flush
  <2>1. Becomes(flushed(Channel)) /\ curr = max
    BY <1>1 DEF flush, Careful
  <2>2. Cont' = Cont /\ Place' = IF max = 0 THEN Place ELSE offset + max
    BY <2>1, FlushedIs, WrittenSame
  <2>3. Place' = Place
    BY <2>1, <2>2 DEF Place
  <2> QED
    BY <2>2, <2>3, AbstractIs
<1>2. CASE close_out
  <2>1. Becomes(flushed(Channel))
    BY <1>2 DEF close_out
  <2>2. Cont' = Cont /\ Place' = IF max = 0 THEN Place ELSE offset + max
    BY <2>1, FlushedIs, WrittenSame
  <2>3. CASE max = 0
    BY <2>2, <2>3, AbstractIs
  <2>4. CASE max # 0
    <3>1. Place' \in 0 .. MaxFile
      BY <2>2, <2>4
    <3> QED
      BY <2>2, <3>1, AbstractIs
  <2> QED
    BY <2>3, <2>4
<1>3. CASE write_fails
  BY <1>3 DEF write_fails
<1>4. ASSUME NEW ch \in Bytes, output_char(ch) PROVE Abstract!Next
  <2>1. Becomes(putch(Channel, ch))
    BY <1>4 DEF output_char
  <2>2. <<ch>> \in Seq(Cells) /\ Len(<<ch>>) = 1 /\ <<ch>> \in Blocks
    <3>1. <<ch>> \in [1 .. 1 -> Bytes] /\ 1 \in 1 .. MaxBlock
      BY DEF SizesOK
    <3> QED
      BY <3>1 DEF Cells, Blocks
  <2>3. Cont' = Overwrite(Cont, Place, <<ch>>) /\ Place' = Place + Len(<<ch>>)
    <3>1. CASE curr < BufSize /\ Copied(<<ch>>)
      <4>1. curr + Len(<<ch>>) <= BufSize
        BY <2>2, <3>1
      <4> QED
        BY <2>2, <3>1, <4>1, CopiedWrites
    <3>2. CASE curr = BufSize /\ max = BufSize /\ Turned(<<ch>>)
      <4>1. Len(<<ch>>) <= BufSize
        BY <2>2
      <4> QED
        BY <2>2, <3>2, <4>1, TurnedWrites
    <3> QED
      BY <2>1, <3>1, <3>2, PutchIs
  <2> QED
    BY <2>2, <2>3, AbstractIs
<1>5. ASSUME NEW p \in Blocks, output(p) PROVE Abstract!Next
  <2>1. Becomes(putblock(Channel, p)) /\ (curr = max \/ curr > 0)
    BY <1>5 DEF output, Careful
  <2>2. p \in Seq(Cells) /\ Len(p) \in Nat
    BY BlockIsSeq
  <2>3. Cont' = Overwrite(Cont, Place, p) /\ Place' = Place + Len(p)
    <3>1. CASE curr = 0 /\ Past(p)
      <4>1. max = 0
        BY <2>1, <3>1
      <4> QED
        BY <2>2, <3>1, <4>1, PastWrites
    <3>2. CASE Len(p) <= BufSize - curr /\ Copied(p)
      <4>1. curr + Len(p) <= BufSize
        BY <2>2, <3>2
      <4> QED
        BY <2>2, <3>2, <4>1, CopiedWrites
    <3>3. CASE /\ Len(p) > BufSize - curr
               /\ (Len(p) - (BufSize - curr) <= BufSize /\ LowerKept(p)) \/ LowerPast(p)
      BY <3>3, LowerWrites
    <3> QED
      BY <2>1, <3>1, <3>2, <3>3, PutblockIs
  <2> QED
    BY <2>3, AbstractIs
<1>6. ASSUME NEW dest \in 0 .. MaxFile, seek_out(dest) PROVE Abstract!Next
  <2>1. Becomes(seeked(Channel, dest))
    BY <1>6 DEF seek_out
  <2>2. CASE SoughtInside(dest)
    <3>1. Cont' = Cont
      BY <2>2 DEF SoughtInside, Cont, Buffered, Channel
    <3>2. Place' = dest
      <4>1. offset + (dest - offset) = dest
        OBVIOUS
      <4> QED
        BY <2>2, <4>1 DEF SoughtInside, Place
    <3> QED
      BY <3>1, <3>2, AbstractIs
  <2>3. CASE Left(dest)
    BY <2>3, LeftSeeks, AbstractIs
  <2> QED
    BY <2>1, <2>2, <2>3, SeekedIs
<1> QED
  BY <1>1, <1>2, <1>3, <1>4, <1>5, <1>6 DEF Next

LEMMA InitRefines ==
  ASSUME SizesOK, Init
  PROVE  Abstract!Init
<1>1. file = << >> /\ offset = 0 /\ curr = 0 /\ max = 0
  BY DEF Init
<1>2. Buffered(Channel) = Between(buff, 0, 0)
  BY <1>1 DEF Buffered, Channel
<1> QED
  BY <1>1, <1>2, EmptyIs DEF Abstract!Init

(* A channel whose program flushes it, and writes past its buffer, only    *)
(* from the end of what is buffered cannot be told from a file written to  *)
(* directly, until a write fails, and again once the program has moved it  *)
(* (io.c, putblock, flush, seek_out).                                      *)
THEOREM ImplementsFileTheorem ==
  ASSUME SizesOK, ~ Behind
  PROVE  Spec => ImplementsFile
<1>1. Init => OutInv /\ Abstract!Init
  BY InitHolds, InitRefines
<1>2. OutInv /\ [Next]_vars => OutInv'
  BY Preserved
<1>3. OutInv /\ [Next]_vars => [failed \/ failed' \/ Abstract!Next \/ UNCHANGED Abstract!vars]_vars
  BY StepRefines
<1> QED
  BY <1>1, <1>2, <1>3, PTL DEF Spec, ImplementsFile

-----------------------------------------------------------------------------
(* What was written completely, before the buffer, stays on the disk.      *)

LEMMA StepSettles ==
  ASSUME SizesOK, OutInv, Next
  PROVE  SettledStays
<1> USE Facts
<1> SUFFICES ASSUME NEW i \in 1 .. offset, i <= Len(file) PROVE file'[i] = file[i]
  BY DEF SettledStays
<1>1. i \in 1 .. fdpos
  OBVIOUS
<1>2. ASSUME file' = file PROVE file'[i] = file[i]
  BY <1>2
<1>3. ASSUME NEW t \in Seq(Cells), file' = Overwrite(file, fdpos, t) PROVE file'[i] = file[i]
  BY ZenonT(40), <1>1, <1>3, BeforeStays
<1>4. ASSUME NEW s \in Seq(Cells), NEW t \in Seq(Cells),
             file' = Overwrite(Overwrite(file, fdpos, s), fdpos + BufSize, t)
      PROVE  file'[i] = file[i]
  BY <1>1, <1>4, TwiceStays
<1>5. CASE flush \/ close_out
  <2>1. Becomes(flushed(Channel))
    BY <1>5 DEF flush, close_out
  <2> QED
    BY <1>2, <1>3, <2>1, FlushedIs DEF Same, Written
<1>6. ASSUME NEW ch \in Bytes, output_char(ch) PROVE file'[i] = file[i]
  <2>1. Becomes(putch(Channel, ch))
    BY <1>6 DEF output_char
  <2> QED
    BY <1>2, <1>3, <2>1, PutchIs DEF Copied, Turned
<1>7. ASSUME NEW p \in Blocks, output(p) PROVE file'[i] = file[i]
  <2>1. Becomes(putblock(Channel, p))
    BY <1>7 DEF output
  <2>2. CASE Past(p)
    BY <1>3, <2>2, BlockIsSeq DEF Past
  <2>3. CASE Copied(p)
    BY <1>2, <2>3 DEF Copied
  <2>4. CASE Len(p) > BufSize - curr /\ (LowerKept(p) \/ LowerPast(p))
    <3>1. Full(p) \in Seq(Cells) /\ Lower(p) \in Seq(Cells)
      BY <2>4, PartsAre, BlockIsSeq
    <3>2. PICK s, t : s = Full(p) /\ t = Lower(p)
      OBVIOUS
    <3>3. s \in Seq(Cells) /\ t \in Seq(Cells)
      BY <3>1, <3>2
    <3> QED
      BY <1>3, <1>4, <2>4, <3>2, <3>3 DEF LowerKept, LowerPast
  <2> QED
    BY <2>1, <2>2, <2>3, <2>4, PutblockIs
<1>8. ASSUME NEW dest \in 0 .. MaxFile, seek_out(dest) PROVE file'[i] = file[i]
  <2>1. Becomes(seeked(Channel, dest))
    BY <1>8 DEF seek_out
  <2> QED
    BY <1>2, <1>3, <2>1, SeekedIs DEF SoughtInside, Left
<1>9. CASE write_fails
  <2>1. ASSUME NEW s \in Seq(Cells), NEW k \in Nat, Partly(k, s) PROVE file'[i] = file[i]
    <3>1. k <= Len(s) /\ 0 \in Nat /\ 0 <= k
      BY <2>1 DEF Partly
    <3>2. Between(s, 0, k) \in Seq(Cells)
      BY <3>1, BetweenOf DEF IsBetween
    <3>3. PICK t : t = Between(s, 0, k)
      OBVIOUS
    <3> QED
      BY <1>3, <2>1, <3>2, <3>3 DEF Partly
  <2>2. ASSUME NEW p \in Blocks, NEW k \in Nat, BufSize - curr <= Len(p), k <= Len(Lower(p)),
               file' = Overwrite(Overwrite(file, fdpos, Full(p)), fdpos + BufSize,
                                 Between(Lower(p), 0, k))
        PROVE  file'[i] = file[i]
    <3>1. Full(p) \in Seq(Cells) /\ Lower(p) \in Seq(Cells)
      BY <2>2, PartsAre
    <3>2. 0 \in Nat /\ 0 <= k
      OBVIOUS
    <3>3. Between(Lower(p), 0, k) \in Seq(Cells)
      BY <2>2, <3>1, <3>2, BetweenOf DEF IsBetween
    <3>4. PICK s, t : s = Full(p) /\ t = Between(Lower(p), 0, k)
      OBVIOUS
    <3>5. s \in Seq(Cells) /\ t \in Seq(Cells)
      BY <3>1, <3>3, <3>4
    <3> QED
      BY <1>4, <2>2, <3>4, <3>5
  <2> QED
    BY <1>9, <2>1, <2>2, FailsIs
<1> QED
  BY <1>5, <1>6, <1>7, <1>8, <1>9 DEF Next

(* Whatever writes fail half way, and whatever the program does next,      *)
(* nothing before the buffer is destroyed (io.c, really_write and its      *)
(* callers).                                                               *)
THEOREM SettledKeptTheorem ==
  ASSUME SizesOK
  PROVE  Spec => SettledKept
<1>1. Init => OutInv
  BY InitHolds
<1>2. OutInv /\ [Next]_vars => OutInv'
  BY Preserved
<1>3. OutInv /\ [Next]_vars => [SettledStays]_vars
  BY StepSettles
<1> QED
  BY <1>1, <1>2, <1>3, PTL DEF Spec, SettledKept
=============================================================================
