------------------------- MODULE MCChannels_proofs -------------------------
(***************************************************************************)
(* What is proved of the two kinds of channel: of the input channel, and   *)
(* then, with OutChannel_proofs, of the module that has them both; for     *)
(* buffers, blocks and files of every size, and whatever happens to        *)
(* values.                                                                 *)
(***************************************************************************)
EXTENDS MCChannels, SequenceTheorems, TLAPS

-----------------------------------------------------------------------------
(* Parts of sequences of bytes, and bytes written over others.             *)

LEMMA HoleIsCell == Hole \in Cells
BY DEF Cells

LEMMA SameSeq ==
  ASSUME NEW S, NEW s \in Seq(S), NEW t \in Seq(S), Len(s) = Len(t),
         \A i \in 1 .. Len(s) : s[i] = t[i]
  PROVE  s = t
BY SeqEqual

(* o is the bytes of s from place i on, up to place j.                     *)
IsBetween(o, s, i, j) ==
  o \in Seq(Cells) /\ Len(o) = j - i /\ \A k \in 1 .. j - i : o[k] = s[i + k]

LEMMA BetweenOf ==
  ASSUME NEW s \in Seq(Cells), NEW i \in Nat, NEW j \in Nat, i <= j, j <= Len(s)
  PROVE  IsBetween(Between(s, i, j), s, i, j)
<1>1. /\ \A k \in i + 1 .. j : s[k] \in Cells
      /\ i + 1 \in 1 .. Len(s) + 1 /\ j \in i .. Len(s)
  OBVIOUS
<1>2. CASE i = j
  BY <1>2 DEF Between, IsBetween
<1>3. CASE i < j
  BY <1>1, <1>3, SubSeqProperties DEF Between, IsBetween
<1> QED
  BY <1>2, <1>3

(* o is s with t in the places from p on, said of each place.              *)
IsOver(o, s, p, t) ==
  /\ o \in Seq(Cells)
  /\ Len(o) = IF Len(t) = 0 \/ p + Len(t) <= Len(s) THEN Len(s) ELSE p + Len(t)
  /\ \A i \in 1 .. Len(o) : o[i] = IF p < i /\ i <= p + Len(t) THEN t[i - p]
                                   ELSE IF i <= Len(s) THEN s[i] ELSE Hole

LEMMA OverwriteOf ==
  ASSUME NEW s \in Seq(Cells), NEW t \in Seq(Cells), NEW p \in Nat
  PROVE  IsOver(Overwrite(s, p, t), s, p, t)
<1> DEFINE end == p + Len(t)
           n   == IF end > Len(s) THEN end ELSE Len(s)
           o   == [i \in 1 .. n |-> IF p < i /\ i <= end THEN t[i - p]
                                     ELSE IF i <= Len(s) THEN s[i] ELSE Hole]
<1>1. Len(s) \in Nat /\ Len(t) \in Nat /\ end \in Nat /\ n \in Nat
  OBVIOUS
<1>2. CASE t = << >>
  <2>1. Overwrite(s, p, t) = s /\ Len(t) = 0 /\ end = p
    BY <1>2 DEF Overwrite
  <2> QED
    BY <1>1, <2>1 DEF IsOver
<1>3. CASE t # << >>
  <2>1. Overwrite(s, p, t) = o /\ Len(t) # 0
    BY <1>3, EmptySeq DEF Overwrite
  <2>2. \A i \in 1 .. n : /\ p < i /\ i <= end => t[i - p] \in Cells
                          /\ i <= Len(s) => s[i] \in Cells
    BY <1>1, ElementOfSeq
  <2>3. o \in [1 .. n -> Cells]
    BY <1>1, <2>2, HoleIsCell
  <2>4. o \in Seq(Cells) /\ Len(o) = n
    BY <1>1, <2>3
  <2>5. n = IF end <= Len(s) THEN Len(s) ELSE end
    BY <1>1
  <2> QED
    BY <2>1, <2>4, <2>5 DEF IsOver
<1> QED
  BY <1>2, <1>3

(* A sequence of cells that are all bytes.                                 *)
LEMMA BytesAreCells ==
  ASSUME NEW s \in Seq(Bytes)
  PROVE  s \in Seq(Cells)
<1>1. Bytes \subseteq Cells
  BY DEF Cells
<1> QED
  BY <1>1, SeqMonotonic

LEMMA CellsAreBytes ==
  ASSUME NEW s \in Seq(Cells), \A i \in 1 .. Len(s) : s[i] \in Bytes
  PROVE  s \in Seq(Bytes)
<1>1. Len(s) \in Nat /\ s = [i \in 1 .. Len(s) |-> s[i]]
  BY LenProperties
<1>2. [i \in 1 .. Len(s) |-> s[i]] \in [1 .. Len(s) -> Bytes]
  OBVIOUS
<1> QED
  BY <1>1, <1>2

LEMMA NothingIs ==
  ASSUME NEW s, NEW i \in Int
  PROVE  Between(s, i, i) = << >>
<1>1. i < i + 1
  OBVIOUS
<1>2. Between(s, i, i) = SubSeq(s, i + 1, i)
  BY DEF Between
<1> QED
  BY <1>1, <1>2

(* What holds the bytes of a part is that part.                            *)
LEMMA BetweenIs ==
  ASSUME NEW s \in Seq(Cells), NEW i \in Nat, NEW j \in Nat, i <= j, j <= Len(s),
         NEW o, IsBetween(o, s, i, j)
  PROVE  o = Between(s, i, j)
<1>1. PICK r : r = Between(s, i, j) /\ IsBetween(r, s, i, j)
  <2>1. IsBetween(Between(s, i, j), s, i, j)
    BY BetweenOf
  <2> QED
    BY <2>1
<1>2. PICK n : n = j - i /\ n \in Nat
  OBVIOUS
<1>3. /\ r \in Seq(Cells) /\ Len(r) = n /\ \A k \in 1 .. n : r[k] = s[i + k]
      /\ o \in Seq(Cells) /\ Len(o) = n /\ \A k \in 1 .. n : o[k] = s[i + k]
  BY <1>1, <1>2 DEF IsBetween
<1>4. r = o
  BY <1>3, SameSeq
<1> QED
  BY <1>1, <1>4

-----------------------------------------------------------------------------
(* The sizes a channel can have: IO_BUFFER_SIZE is positive.               *)
InSizesOK == BufSize \in Nat \ {0} /\ MaxBlock \in Nat /\ MaxFile \in Nat

(***************************************************************************)
(* The inductive invariant, said of the values of the variables: what is   *)
(* buffered are bytes, each the one of the file that the window puts       *)
(* there; between the position and the place where a search for a newline  *)
(* stands there is none, and a search has not answered yet.                *)
(***************************************************************************)
InRange(f, d, o, c, m) ==
  /\ f \in Seq(Bytes) /\ Len(f) <= MaxFile
  /\ d \in Nat /\ d <= MaxFile /\ o \in Nat /\ o <= d
  /\ m \in Nat /\ m <= BufSize /\ c \in Nat /\ c <= m

Stored(c, m, b) ==
  /\ b \in Seq(Cells) /\ Len(b) = BufSize
  /\ \A i \in 1 .. m : b[i] \in Bytes

Shows(f, d, o, m, b, x) ==
  ~ x => /\ d = o
         /\ m > 0 => m <= o /\ o <= Len(f)
         /\ \A k \in 1 .. m : b[k] = f[o - m + k]

Sought(c, m, b, s, l) ==
  /\ s = Idle \/ (s \in Nat /\ c <= s /\ s <= m)
  /\ s # Idle => l = Idle /\ \A i \in c + 1 .. s : b[i] # Newline

Good(f, d, o, c, m, b, g, s, l, x) ==
  /\ InRange(f, d, o, c, m)
  /\ Stored(c, m, b)
  /\ Shows(f, d, o, m, b, x)
  /\ Sought(c, m, b, s, l)
  /\ g \in Seq(Bytes)
  /\ l \in {Idle} \cup - BufSize .. BufSize
  /\ x \in BOOLEAN

InInv == Good(file, fdpos, offset, curr, max, buff, got, scan, line, lost)

LEMMA Facts ==
  ASSUME InSizesOK, InInv
  PROVE  /\ BufSize \in Nat /\ BufSize > 0 /\ MaxFile \in Nat /\ MaxBlock \in Nat
         /\ file \in Seq(Bytes) /\ file \in Seq(Cells) /\ Len(file) \in Nat /\ Len(file) <= MaxFile
         /\ fdpos \in Nat /\ fdpos <= MaxFile /\ offset \in Nat /\ offset <= fdpos
         /\ max \in Nat /\ max <= BufSize /\ curr \in Nat /\ curr <= max /\ max - curr \in Nat
         /\ buff \in Seq(Cells) /\ Len(buff) = BufSize
         /\ Idle \in Int /\ Idle < - BufSize
<1>1. BufSize \in Nat /\ BufSize > 0 /\ MaxFile \in Nat /\ MaxBlock \in Nat
  BY DEF InSizesOK
<1>2. InRange(file, fdpos, offset, curr, max)
  BY DEF InInv, Good
<1>3. buff \in Seq(Cells) /\ Len(buff) = BufSize
  BY DEF InInv, Good, Stored
<1>4. file \in Seq(Bytes) /\ file \in Seq(Cells) /\ Len(file) \in Nat
  BY <1>2, BytesAreCells DEF InRange
<1>5. Idle \in Int /\ Idle < - BufSize
  BY <1>1 DEF Idle
<1> QED
  BY <1>1, <1>2, <1>3, <1>4, <1>5 DEF InRange

LEMMA InInitHolds ==
  ASSUME InSizesOK, Init
  PROVE  InInv
<1>1. BufSize \in Nat /\ BufSize > 0 /\ MaxFile \in Nat
  BY DEF InSizesOK
<1>2. fdpos = 0 /\ offset = 0 /\ curr = 0 /\ max = 0 /\ got = << >> /\ scan = Idle /\ line = Idle /\ lost = FALSE
  BY DEF Init
<1>3. PICK n \in 0 .. MaxFile : file \in [1 .. n -> Bytes]
  BY DEF Init
<1>4. file \in Seq(Bytes) /\ Len(file) <= MaxFile
  BY <1>1, <1>3
<1>5. buff \in Seq(Cells) /\ Len(buff) = BufSize
  <2>1. buff \in [1 .. BufSize -> Cells]
    BY HoleIsCell DEF Init
  <2> QED
    BY <1>1, <2>1
<1>6. InRange(file, 0, 0, 0, 0)
  BY <1>1, <1>4 DEF InRange
<1>7. Stored(0, 0, buff)
  BY <1>5 DEF Stored
<1>8. Shows(file, 0, 0, 0, buff, FALSE)
  BY DEF Shows
<1>9. Sought(0, 0, buff, Idle, Idle)
  BY DEF Sought
<1>10. << >> \in Seq(Bytes) /\ Idle \in {Idle} \cup - BufSize .. BufSize /\ FALSE \in BOOLEAN
  OBVIOUS
<1>11. Good(file, 0, 0, 0, 0, buff, << >>, Idle, Idle, FALSE)
  BY <1>6, <1>7, <1>8, <1>9, <1>10 DEF Good
<1> QED
  BY <1>2, <1>11 DEF InInv

(* What the invariant says of the buffer while nothing is lost.            *)
LEMMA BufferShows ==
  ASSUME InSizesOK, InInv, ~ lost
  PROVE  /\ fdpos = offset
         /\ max > 0 => max <= offset /\ offset <= Len(file)
         /\ \A k \in 1 .. max : buff[k] = file[offset - max + k]
BY DEF InInv, Good, Shows

-----------------------------------------------------------------------------
(* What is read and what becomes of the buffer.                            *)

LEMMA Part ==
  ASSUME NEW d \in Nat, NEW e \in Nat, NEW t \in Nat, t > 0 => d + t <= e,
         NEW l \in Nat, l <= t, l > 0
  PROVE  d + l <= e
OBVIOUS

LEMMA CountsOf ==
  ASSUME InSizesOK, InInv, NEW n \in Nat, NEW l \in Counts(n)
  PROVE  /\ l \in Nat /\ l <= n
         /\ l > 0 => fdpos + l <= Len(file)
         /\ l = 0 /\ n > 0 => fdpos >= Len(file)
         /\ fdpos + l <= MaxFile /\ offset + l <= fdpos + l
<1>1. PICK d, e, t : /\ d = fdpos /\ e = Len(file)
                     /\ t = Size(n, IF d < e THEN e - d ELSE 0)
                     /\ l \in IF t = 0 THEN {0} ELSE 1 .. t
  BY DEF Counts
<1>2. d \in Nat /\ e \in Nat /\ e <= MaxFile /\ d <= MaxFile /\ MaxFile \in Nat /\ offset \in Nat /\ offset <= d
  BY <1>1, Facts
<1>3. /\ t \in Nat /\ t <= n
      /\ t > 0 => d + t <= e
      /\ t = 0 /\ n > 0 => d >= e
  BY <1>1, <1>2 DEF Size
<1>4. l \in Nat /\ l <= t /\ (l = 0 <=> t = 0)
  BY <1>1, <1>3
<1>5. l > 0 => d + l <= e
  BY <1>2, <1>3, <1>4, Part
<1>6. d + l <= MaxFile /\ offset + l <= d + l /\ l <= n
  BY <1>2, <1>3, <1>4, <1>5
<1>7. l = 0 /\ n > 0 => d >= e
  BY <1>3, <1>4
<1> QED
  BY <1>1, <1>4, <1>5, <1>6, <1>7

(* The bytes read, l of them, each with its place in the file.             *)
IsRead(s, l) ==
  s \in Seq(Bytes) /\ s \in Seq(Cells) /\ Len(s) = l /\ \A k \in 1 .. l : s[k] = file[fdpos + k]

LEMMA ReadIs ==
  ASSUME InSizesOK, InInv, NEW l \in Nat, l > 0 => fdpos + l <= Len(file)
  PROVE  IsRead(Read(l), l)
<1> USE Facts
<1>1. CASE l = 0
  <2>1. fdpos + l = fdpos /\ fdpos \in Int
    BY <1>1
  <2>2. Read(l) = << >>
    BY <2>1, NothingIs DEF Read
  <2>3. << >> \in Seq(Bytes) /\ << >> \in Seq(Cells) /\ Len(<< >>) = 0 /\ 1 .. 0 = {}
    OBVIOUS
  <2> QED
    BY <1>1, <2>2, <2>3 DEF IsRead
<1>2. CASE l > 0
  <2>1. PICK j : j = fdpos + l
    OBVIOUS
  <2>2. j \in Nat /\ fdpos <= j /\ j <= Len(file) /\ j - fdpos = l
    BY SMTT(30), <1>2, <2>1
  <2>3. PICK s : s = Between(file, fdpos, j) /\ IsBetween(s, file, fdpos, j)
    <3>1. IsBetween(Between(file, fdpos, j), file, fdpos, j)
      BY <2>2, BetweenOf
    <3> QED
      BY <3>1
  <2>4. s \in Seq(Cells) /\ Len(s) = l /\ \A k \in 1 .. l : s[k] = file[fdpos + k]
    BY <2>2, <2>3 DEF IsBetween
  <2>5. ASSUME NEW k \in 1 .. l PROVE fdpos + k \in 1 .. Len(file)
    <3>1. k \in Nat /\ k > 0 /\ k <= l /\ fdpos \in Nat /\ Len(file) \in Nat
      BY Facts
    <3>2. fdpos + k <= Len(file)
      BY <1>2, <3>1, Part
    <3> QED
      BY <3>1, <3>2
  <2>6. \A k \in 1 .. Len(s) : s[k] \in Bytes
    BY <2>4, <2>5, ElementOfSeq
  <2>7. s \in Seq(Bytes)
    BY <2>4, <2>6, CellsAreBytes
  <2> QED
    BY <2>1, <2>3, <2>4, <2>7 DEF IsRead, Read
<1> QED
  BY <1>1, <1>2

(* A part of what is buffered.                                             *)
LEMMA PartIs ==
  ASSUME InSizesOK, InInv, NEW i \in Nat, NEW j \in Nat, i <= j, j <= max
  PROVE  /\ IsBetween(Between(buff, i, j), buff, i, j)
         /\ Between(buff, i, j) \in Seq(Bytes)
<1> USE Facts
<1>1. PICK s : s = Between(buff, i, j) /\ IsBetween(s, buff, i, j)
  <2>1. j <= Len(buff)
    OBVIOUS
  <2>2. IsBetween(Between(buff, i, j), buff, i, j)
    BY <2>1, BetweenOf
  <2> QED
    BY <2>2
<1>2. \A k \in 1 .. max : buff[k] \in Bytes
  BY DEF InInv, Good, Stored
<1>3. s \in Seq(Cells) /\ Len(s) = j - i /\ \A k \in 1 .. j - i : s[k] = buff[i + k]
  BY <1>1 DEF IsBetween
<1>4. ASSUME NEW k \in 1 .. Len(s) PROVE i + k \in 1 .. max /\ k \in 1 .. j - i
  <2>1. k \in Int /\ k >= 1 /\ k <= j - i
    BY <1>3
  <2> QED
    BY SMTT(30), <2>1
<1>5. \A k \in 1 .. Len(s) : s[k] \in Bytes
  BY <1>2, <1>3, <1>4
<1>6. s \in Seq(Bytes)
  BY <1>3, <1>5, CellsAreBytes
<1> QED
  BY <1>1, <1>6

LEMMA InWindowHolds ==
  ASSUME InSizesOK, InInv
  PROVE  BufferIsWindow
<1>1. TypeOK
  <2> USE Facts
  <2>1. file \in UNION {[1 .. n -> Bytes] : n \in 0 .. MaxFile}
    <3>1. file \in [1 .. Len(file) -> Bytes] /\ Len(file) \in 0 .. MaxFile
      BY LenProperties
    <3> QED
      BY <3>1
  <2>2. buff \in [1 .. BufSize -> Cells]
    BY LenProperties
  <2>3. fdpos \in 0 .. MaxFile /\ offset \in 0 .. MaxFile /\ max \in 0 .. BufSize /\ curr \in 0 .. max
    OBVIOUS
  <2>4. scan \in {Idle} \cup curr .. max
    <3>1. scan = Idle \/ (scan \in Nat /\ curr <= scan /\ scan <= max)
      BY DEF InInv, Good, Sought
    <3> QED
      BY <3>1
  <2>5. got \in Seq(Bytes) /\ line \in {Idle} \cup - BufSize .. BufSize /\ lost \in BOOLEAN
    BY DEF InInv, Good
  <2> QED
    BY <2>1, <2>2, <2>3, <2>4, <2>5 DEF TypeOK
<1>2. ASSUME ~ lost, max > 0
      PROVE  Between(buff, 0, max) = Between(file, offset - max, offset)
  <2>1. /\ max <= offset /\ offset <= Len(file)
        /\ \A k \in 1 .. max : buff[k] = file[offset - max + k]
    BY <1>2, BufferShows
  <2>2. max \in Nat /\ offset \in Nat /\ 0 \in Nat /\ file \in Seq(Cells)
    BY Facts
  <2>3. PICK j : j = offset - max
    OBVIOUS
  <2>4. j \in Nat /\ j <= offset /\ offset - j = max /\ max - 0 = max /\ 0 <= max
    BY <2>1, <2>2, <2>3
  <2>5. PICK s : s = Between(buff, 0, max) /\ IsBetween(s, buff, 0, max)
    <3>1. max <= max
      BY <2>2
    <3> QED
      BY <2>2, <2>4, <3>1, PartIs
  <2>6. s \in Seq(Cells) /\ Len(s) = max /\ \A k \in 1 .. max : s[k] = buff[0 + k]
    BY <2>4, <2>5 DEF IsBetween
  <2>7. \A k \in 1 .. max : 0 + k = k /\ buff[k] = file[j + k]
    BY <2>1, <2>3
  <2>8. \A k \in 1 .. max : s[k] = file[j + k]
    BY <2>6, <2>7
  <2>9. IsBetween(s, file, j, offset)
    BY <2>4, <2>6, <2>8 DEF IsBetween
  <2>10. s = Between(file, j, offset)
    BY <2>1, <2>2, <2>4, <2>9, BetweenIs
  <2> QED
    BY <2>3, <2>5, <2>10
<1>3. ~ lost => fdpos = offset
  BY BufferShows
<1>4. offset <= fdpos
  BY Facts
<1> QED
  BY <1>1, <1>2, <1>3, <1>4 DEF BufferIsWindow, Window

(* The buffer after l bytes were read to its start.                        *)
IsLoaded(b, l) ==
  /\ b \in Seq(Cells) /\ Len(b) = BufSize
  /\ \A k \in 1 .. l : b[k] = file[fdpos + k] /\ b[k] \in Bytes
  /\ \A k \in l + 1 .. BufSize : b[k] = buff[k]

LEMMA LoadedIs ==
  ASSUME InSizesOK, InInv, NEW l \in Nat, l <= BufSize, l > 0 => fdpos + l <= Len(file)
  PROVE  IsLoaded(Overwrite(buff, 0, Read(l)), l)
<1> USE Facts
<1>1. PICK s : s = Read(l) /\ IsRead(s, l)
  BY ReadIs
<1>2. s \in Seq(Cells) /\ s \in Seq(Bytes) /\ Len(s) = l /\ \A k \in 1 .. l : s[k] = file[fdpos + k]
  BY <1>1 DEF IsRead
<1>3. PICK b : b = Overwrite(buff, 0, s) /\ IsOver(b, buff, 0, s)
  <2>1. IsOver(Overwrite(buff, 0, s), buff, 0, s)
    BY <1>2, OverwriteOf
  <2> QED
    BY <2>1
<1>4. b \in Seq(Cells) /\ Len(b) = BufSize
  BY <1>2, <1>3 DEF IsOver
<1>5. \A k \in 1 .. BufSize : b[k] = IF k <= l THEN s[k] ELSE buff[k]
  <2>1. \A k \in 1 .. BufSize : /\ k \in 1 .. Len(b) /\ k <= Len(buff)
                                /\ 0 < k /\ k - 0 = k /\ (k <= 0 + Len(s) <=> k <= l)
    BY <1>2, <1>4
  <2> QED
    BY <1>3, <2>1 DEF IsOver
<1>6. \A k \in 1 .. l : k \in 1 .. BufSize /\ k <= l /\ s[k] \in Bytes
  BY SMTT(30), <1>2, ElementOfSeq
<1>7. \A k \in l + 1 .. BufSize : k \in 1 .. BufSize /\ ~ (k <= l)
  OBVIOUS
<1> QED
  BY <1>1, <1>2, <1>3, <1>4, <1>5, <1>6, <1>7 DEF IsLoaded

(* The buffer after what is unread was moved to its start, and l bytes     *)
(* were read behind it.                                                    *)
IsShifted(b) ==
  /\ b \in Seq(Cells) /\ Len(b) = BufSize
  /\ \A k \in 1 .. Unread : b[k] = buff[curr + k] /\ b[k] \in Bytes

IsFilled(b, l) ==
  /\ b \in Seq(Cells) /\ Len(b) = BufSize
  /\ \A k \in 1 .. Unread : b[k] = buff[curr + k] /\ b[k] \in Bytes
  /\ \A k \in 1 .. l : b[Unread + k] = file[fdpos + k] /\ b[Unread + k] \in Bytes

LEMMA ShiftedIs ==
  ASSUME InSizesOK, InInv
  PROVE  IsShifted(Overwrite(buff, 0, Between(buff, curr, max)))
<1> USE Facts
<1>1. PICK s : s = Between(buff, curr, max) /\ IsBetween(s, buff, curr, max) /\ s \in Seq(Bytes)
  BY SMTT(30), PartIs
<1>2. Unread \in Nat /\ Unread <= BufSize
  BY DEF Unread
<1>3. s \in Seq(Cells) /\ Len(s) = Unread /\ \A k \in 1 .. Unread : s[k] = buff[curr + k]
  BY <1>1 DEF IsBetween, Unread
<1>4. PICK b : b = Overwrite(buff, 0, s) /\ IsOver(b, buff, 0, s)
  <2>1. IsOver(Overwrite(buff, 0, s), buff, 0, s)
    BY <1>3, OverwriteOf
  <2> QED
    BY <2>1
<1>5. b \in Seq(Cells) /\ Len(b) = BufSize
  BY <1>2, <1>3, <1>4 DEF IsOver
<1>6. \A k \in 1 .. Unread : b[k] = s[k] /\ s[k] \in Bytes
  <2>1. \A k \in 1 .. Unread : /\ k \in 1 .. Len(b) /\ k \in 1 .. Len(s)
                               /\ 0 < k /\ k - 0 = k /\ k <= 0 + Len(s)
    BY <1>2, <1>3, <1>5
  <2>2. \A k \in 1 .. Unread : s[k] \in Bytes
    BY <1>1, <2>1, ElementOfSeq
  <2> QED
    BY <1>4, <2>1, <2>2 DEF IsOver
<1> QED
  BY <1>1, <1>3, <1>4, <1>5, <1>6 DEF IsShifted

LEMMA FilledIs ==
  ASSUME InSizesOK, InInv, NEW l \in Nat, l <= BufSize - Unread, l > 0 => fdpos + l <= Len(file), Fill(l)
  PROVE  IsFilled(buff', l) /\ curr' = 0
<1> USE Facts
<1>1. PICK s : s = Read(l) /\ IsRead(s, l)
  BY ReadIs
<1>2. s \in Seq(Cells) /\ s \in Seq(Bytes) /\ Len(s) = l /\ \A k \in 1 .. l : s[k] = file[fdpos + k]
  BY <1>1 DEF IsRead
<1>3. PICK m : m = Overwrite(buff, 0, Between(buff, curr, max)) /\ IsShifted(m)
  BY ShiftedIs
<1>4. PICK u : u = Unread /\ u \in Nat
  BY DEF Unread
<1>5. /\ m \in Seq(Cells) /\ Len(m) = BufSize
      /\ \A k \in 1 .. u : m[k] = buff[curr + k] /\ m[k] \in Bytes
  BY <1>3, <1>4 DEF IsShifted
<1>6. PICK b : b = Overwrite(m, u, s) /\ IsOver(b, m, u, s)
  <2>1. IsOver(Overwrite(m, u, s), m, u, s)
    BY <1>2, <1>4, <1>5, OverwriteOf
  <2> QED
    BY <2>1
<1>7. buff' = b /\ curr' = 0
  BY <1>1, <1>3, <1>4, <1>6 DEF Fill, Unread
<1>8. b \in Seq(Cells) /\ Len(b) = BufSize
  <2>1. u + Len(s) <= Len(m)
    BY SMTT(30), <1>2, <1>4, <1>5
  <2> QED
    BY <1>5, <1>6, <2>1 DEF IsOver
<1>9. \A k \in 1 .. u : b[k] = m[k]
  <2>1. u <= BufSize
    BY SMTT(30), <1>4 DEF Unread
  <2>2. \A k \in 1 .. u : k \in 1 .. Len(b) /\ ~ (u < k) /\ k <= Len(m)
    BY SMTT(30), <1>4, <1>5, <1>8, <2>1
  <2> QED
    BY <1>6, <2>2 DEF IsOver
<1>10. \A k \in 1 .. l : b[u + k] = s[k] /\ s[k] \in Bytes
  <2>1. ASSUME NEW k \in 1 .. l
        PROVE  /\ u + k \in 1 .. Len(b) /\ u < u + k /\ u + k <= u + Len(s) /\ (u + k) - u = k
               /\ k \in 1 .. Len(s)
    <3>1. u \in Nat /\ l \in Nat /\ Len(s) \in Nat /\ l <= Len(s) /\ u + l <= BufSize
      BY SMTT(30), <1>2, <1>4, <1>5
    <3>2. Len(b) = BufSize /\ BufSize \in Nat
      BY <1>8 DEF InSizesOK
    <3> QED
      BY ONLY <3>1, <3>2, k \in 1 .. l
  <2>2. \A k \in 1 .. l : s[k] \in Bytes
    BY <1>2, <2>1, ElementOfSeq
  <2>3. \A k \in 1 .. l : b[u + k] = s[(u + k) - u]
    BY <1>6, <2>1 DEF IsOver
  <2> QED
    BY <2>1, <2>2, <2>3
<1> QED
  BY <1>2, <1>4, <1>5, <1>7, <1>8, <1>9, <1>10 DEF IsFilled

-----------------------------------------------------------------------------
(* What the invariant says of the values an operation leaves.              *)

(* The position has moved within the buffer.                               *)
LEMMA MovedGood ==
  ASSUME InSizesOK, InInv, scan = Idle,
         NEW c \in Nat, c <= max, NEW g \in Seq(Bytes)
  PROVE  Good(file, fdpos, offset, c, max, buff, g, scan, line, lost)
<1>1. /\ InRange(file, fdpos, offset, curr, max) /\ Stored(curr, max, buff)
      /\ Shows(file, fdpos, offset, max, buff, lost)
      /\ line \in {Idle} \cup - BufSize .. BufSize /\ lost \in BOOLEAN
  BY DEF InInv, Good
<1>2. InRange(file, fdpos, offset, c, max)
  BY <1>1 DEF InRange
<1>3. Stored(c, max, buff)
  BY <1>1 DEF Stored
<1>4. Sought(c, max, buff, scan, line)
  BY DEF Sought
<1> QED
  BY <1>1, <1>2, <1>3, <1>4 DEF Good

(* The buffer has been given up, and the descriptor may have moved.        *)
LEMMA EmptyGood ==
  ASSUME InSizesOK, InInv, scan = Idle,
         NEW d \in Nat, d <= MaxFile, NEW o \in Nat, o <= d, NEW g \in Seq(Bytes),
         NEW x \in BOOLEAN, ~ x => d = o
  PROVE  Good(file, d, o, 0, 0, buff, g, scan, line, x)
<1>1. /\ InRange(file, fdpos, offset, curr, max) /\ Stored(curr, max, buff)
      /\ line \in {Idle} \cup - BufSize .. BufSize
  BY DEF InInv, Good
<1>2. InRange(file, d, o, 0, 0)
  BY <1>1, Facts DEF InRange
<1>3. Stored(0, 0, buff)
  BY <1>1 DEF Stored
<1>4. Shows(file, d, o, 0, buff, x)
  BY DEF Shows
<1>5. Sought(0, 0, buff, scan, line)
  BY DEF Sought
<1> QED
  BY <1>1, <1>2, <1>3, <1>4, <1>5 DEF Good

(* The buffer has been read anew.                                          *)
LEMMA LoadedGood ==
  ASSUME InSizesOK, InInv, scan = Idle,
         NEW l \in Counts(BufSize), NEW c \in Nat, c <= l, NEW g \in Seq(Bytes),
         NEW d, d = fdpos + l, NEW o, o = offset + l, NEW b, b = Overwrite(buff, 0, Read(l))
  PROVE  Good(file, d, o, c, l, b, g, scan, line, lost)
<1>1. /\ BufSize \in Nat /\ MaxFile \in Nat /\ fdpos \in Nat /\ offset \in Nat /\ offset <= fdpos
      /\ file \in Seq(Bytes) /\ Len(file) \in Nat /\ Len(file) <= MaxFile
  BY Facts
<1>2. /\ l \in Nat /\ l <= BufSize
      /\ l > 0 => fdpos + l <= Len(file)
      /\ fdpos + l <= MaxFile /\ offset + l <= fdpos + l
  BY <1>1, CountsOf
<1>3. IsLoaded(b, l)
  BY <1>2, LoadedIs
<1>4. InRange(file, d, o, c, l)
  BY <1>1, <1>2 DEF InRange
<1>5. Stored(c, l, b)
  BY <1>3 DEF IsLoaded, Stored
<1>6. Shows(file, d, o, l, b, lost)
  <2>1. SUFFICES ASSUME ~ lost PROVE Shows(file, d, o, l, b, lost)
    BY DEF Shows
  <2>2. fdpos = offset
    BY <2>1, BufferShows
  <2>3. d = o
    BY <2>2
  <2>4. l > 0 => l <= o /\ o <= Len(file)
    BY <1>1, <1>2, <2>2
  <2>5. ASSUME NEW k \in 1 .. l PROVE b[k] = file[o - l + k]
    <3>1. o - l + k = fdpos + k
      BY <1>1, <1>2, <2>2
    <3> QED
      BY <1>3, <3>1 DEF IsLoaded
  <2> QED
    BY <2>3, <2>4, <2>5 DEF Shows
<1>7. Sought(c, l, b, scan, line)
  BY DEF Sought
<1>8. line \in {Idle} \cup - BufSize .. BufSize /\ lost \in BOOLEAN
  BY DEF InInv, Good
<1> QED
  BY <1>4, <1>5, <1>6, <1>7, <1>8 DEF Good

(* What was unread is at the start of the buffer, with what was read       *)
(* behind it; a search goes on there if the unread bytes hold no newline.  *)
LEMMA FilledGood ==
  ASSUME InSizesOK, InInv,
         NEW l \in Nat, l <= BufSize - Unread, l > 0 => fdpos + l <= Len(file),
         NEW b, IsFilled(b, l), NEW o, o = offset + l, NEW m, m = Unread + l,
         NEW d \in Nat, d <= MaxFile, o <= d, NEW x \in BOOLEAN, ~ x => ~ lost /\ d = fdpos + l,
         NEW g \in Seq(Bytes), NEW s, NEW n \in {Idle} \cup - BufSize .. BufSize,
         \/ s = Idle
         \/ s = Unread /\ n = Idle /\ \A i \in curr + 1 .. max : buff[i] # Newline
  PROVE  Good(file, d, o, 0, m, b, g, s, n, x)
<1>1. /\ BufSize \in Nat /\ MaxFile \in Nat /\ fdpos \in Nat /\ offset \in Nat
      /\ file \in Seq(Bytes) /\ Len(file) \in Nat /\ Len(file) <= MaxFile
      /\ max \in Nat /\ curr \in Nat /\ curr <= max /\ max <= BufSize
  BY Facts
<1>2. PICK u : u = Unread /\ u = max - curr /\ u \in Nat
  BY <1>1 DEF Unread
<1>3. /\ b \in Seq(Cells) /\ Len(b) = BufSize
      /\ \A k \in 1 .. u : b[k] = buff[curr + k] /\ b[k] \in Bytes
      /\ \A k \in 1 .. l : b[u + k] = file[fdpos + k] /\ b[u + k] \in Bytes
  BY <1>2 DEF IsFilled
<1>4. m = u + l /\ m \in Nat /\ m <= BufSize
  BY <1>1, <1>2
<1>5. InRange(file, d, o, 0, m)
  BY <1>1, <1>4 DEF InRange
<1>6. ASSUME NEW k \in 1 .. m PROVE k \in 1 .. u \/ (k - u \in 1 .. l /\ u + (k - u) = k)
  BY <1>2, <1>4
<1>7. Stored(0, m, b)
  <2>1. ASSUME NEW k \in 1 .. m PROVE b[k] \in Bytes
    <3>1. CASE k \in 1 .. u
      BY <1>3, <3>1
    <3>2. CASE k - u \in 1 .. l /\ u + (k - u) = k
      <4>1. PICK i : i = k - u
        OBVIOUS
      <4>2. i \in 1 .. l /\ u + i = k
        BY <3>2, <4>1
      <4> QED
        BY <1>3, <4>2
    <3> QED
      BY <1>6, <3>1, <3>2
  <2> QED
    BY <1>3, <2>1 DEF Stored
<1>8. Shows(file, d, o, m, b, x)
  <2>1. SUFFICES ASSUME ~ x PROVE Shows(file, d, o, m, b, x)
    BY DEF Shows
  <2>2. /\ fdpos = offset /\ d = fdpos + l
        /\ max > 0 => max <= offset /\ offset <= Len(file)
        /\ \A k \in 1 .. max : buff[k] = file[offset - max + k]
    BY <2>1, BufferShows
  <2>3. d = o
    BY <2>2
  <2>4. m > 0 => m <= o /\ o <= Len(file)
    <3>1. CASE l = 0
      BY <1>1, <1>2, <1>4, <2>2, <3>1
    <3>2. CASE l > 0
      <4>1. fdpos + l <= Len(file)
        BY <3>2
      <4>2. u <= offset
        BY <1>1, <1>2, <2>2
      <4> QED
        BY <1>1, <1>2, <1>4, <2>2, <4>1, <4>2
    <3> QED
      BY <3>1, <3>2
  <2>5. ASSUME NEW k \in 1 .. m PROVE b[k] = file[o - m + k]
    <3>1. CASE k \in 1 .. u
      <4>1. curr + k \in 1 .. max /\ offset - max + (curr + k) = o - m + k
        BY <1>1, <1>2, <1>4, <3>1
      <4>2. PICK i : i = curr + k
        OBVIOUS
      <4>3. buff[i] = file[offset - max + i]
        BY <2>2, <4>1, <4>2
      <4> QED
        BY <1>3, <3>1, <4>1, <4>2, <4>3
    <3>2. CASE k - u \in 1 .. l /\ u + (k - u) = k
      <4>1. PICK i : i = k - u
        OBVIOUS
      <4>2. i \in 1 .. l /\ u + i = k /\ fdpos + i = o - m + k
        BY <1>1, <1>2, <1>4, <2>2, <3>2, <4>1
      <4> QED
        BY <1>3, <4>2
    <3> QED
      BY <1>6, <3>1, <3>2
  <2> QED
    BY <2>3, <2>4, <2>5 DEF Shows
<1>9. Sought(0, m, b, s, n)
  <2>1. CASE s = Idle
    BY <2>1 DEF Sought
  <2>2. CASE s = Unread /\ n = Idle /\ \A i \in curr + 1 .. max : buff[i] # Newline
    <3>1. s = u /\ n = Idle /\ \A i \in curr + 1 .. max : buff[i] # Newline
      BY <1>2, <2>2
    <3>2. u \in Nat /\ 0 <= u /\ u <= m
      BY <1>2, <1>4
    <3>3. ASSUME NEW k \in 0 + 1 .. u PROVE b[k] # Newline
      <4>1. k \in 1 .. u /\ curr + k \in curr + 1 .. max
        BY <1>1, <1>2
      <4> QED
        BY <1>3, <3>1, <4>1
    <3>4. Sought(0, m, b, u, n)
      BY <3>1, <3>2, <3>3 DEF Sought
    <3> QED
      BY <3>1, <3>4
  <2> QED
    BY <2>1, <2>2
<1> QED
  BY <1>5, <1>7, <1>8, <1>9 DEF Good

-----------------------------------------------------------------------------
(* What is delivered, as a part of the file.                               *)

LEMMA PosIs ==
  ASSUME InSizesOK, InInv
  PROVE  pos \in Int /\ pos = offset - (max - curr) /\ (curr = max => pos = offset)
BY Facts DEF pos

(* Nothing was delivered, and the position is the same.                    *)
LEMMA NothingDelivered ==
  ASSUME InSizesOK, InInv, got' = << >>, pos' = pos
  PROVE  got' = Between(file, pos, pos')
<1>1. PICK p : p = pos /\ p \in Int
  BY PosIs
<1>2. Between(file, p, p) = << >>
  BY <1>1, NothingIs
<1> QED
  BY <1>1, <1>2

(* What is buffered is what the file has at the same position.             *)
LEMMA PartShows ==
  ASSUME InSizesOK, InInv, ~ lost,
         NEW i \in Nat, NEW j \in Nat, i <= j, j <= max,
         NEW p, p = offset - (max - i), NEW q, q = offset - (max - j)
  PROVE  Between(buff, i, j) = Between(file, p, q)
<1>1. max \in Nat /\ offset \in Nat /\ file \in Seq(Cells) /\ Len(file) \in Nat
  BY Facts
<1>2. CASE i = j
  <2>1. p = q /\ p \in Int /\ i \in Int
    BY <1>1, <1>2
  <2>2. Between(buff, i, i) = << >> /\ Between(file, p, p) = << >>
    BY <2>1, NothingIs
  <2> QED
    BY <1>2, <2>1, <2>2
<1>3. CASE i < j
  <2>1. /\ max <= offset /\ offset <= Len(file)
        /\ \A k \in 1 .. max : buff[k] = file[offset - max + k]
    BY <1>1, <1>3, BufferShows
  <2>2. p \in Nat /\ q \in Nat /\ p <= q /\ q <= Len(file) /\ q - p = j - i
    BY <1>1, <2>1
  <2>3. PICK s : s = Between(buff, i, j) /\ IsBetween(s, buff, i, j)
    BY PartIs
  <2>4. s \in Seq(Cells) /\ Len(s) = j - i /\ \A k \in 1 .. j - i : s[k] = buff[i + k]
    BY <2>3 DEF IsBetween
  <2>5. ASSUME NEW k \in 1 .. j - i PROVE s[k] = file[p + k]
    <3>1. PICK n : n = i + k
      OBVIOUS
    <3>2. n \in 1 .. max /\ offset - max + n = p + k
      BY <1>1, <3>1
    <3> QED
      BY <2>1, <2>4, <3>1, <3>2
  <2>6. IsBetween(s, file, p, q)
    BY <2>2, <2>4, <2>5 DEF IsBetween
  <2>7. s = Between(file, p, q)
    BY <1>1, <2>2, <2>6, BetweenIs
  <2> QED
    BY <2>3, <2>7
<1> QED
  BY <1>2, <1>3

(* The start of what was read is what the file has from the descriptor on. *)
LEMMA ReadPart ==
  ASSUME InSizesOK, InInv, NEW l \in Nat, l > 0 => fdpos + l <= Len(file),
         NEW c \in Nat, c <= l, NEW q, q = fdpos + c
  PROVE  /\ Between(Read(l), 0, c) = Between(file, fdpos, q)
         /\ Between(Read(l), 0, c) \in Seq(Bytes)
<1>1. fdpos \in Nat /\ file \in Seq(Cells) /\ Len(file) \in Nat
  BY Facts
<1>2. CASE c = 0
  <2>1. q = fdpos /\ fdpos \in Int /\ 0 \in Int /\ << >> \in Seq(Bytes)
    BY <1>1, <1>2
  <2>2. Between(Read(l), 0, 0) = << >> /\ Between(file, fdpos, fdpos) = << >>
    BY <2>1, NothingIs
  <2> QED
    BY <1>2, <2>1, <2>2
<1>3. CASE c > 0
  <2>1. PICK r : r = Read(l) /\ IsRead(r, l)
    BY ReadIs
  <2>2. /\ r \in Seq(Bytes) /\ r \in Seq(Cells) /\ Len(r) = l
        /\ \A k \in 1 .. l : r[k] = file[fdpos + k]
    BY <2>1 DEF IsRead
  <2>3. PICK s : s = Between(r, 0, c) /\ IsBetween(s, r, 0, c)
    <3>1. 0 \in Nat /\ 0 <= c /\ c <= Len(r)
      BY <2>2
    <3>2. IsBetween(Between(r, 0, c), r, 0, c)
      BY <2>2, <3>1, BetweenOf
    <3> QED
      BY <3>2
  <2>4. s \in Seq(Cells) /\ Len(s) = c /\ \A k \in 1 .. c : s[k] = r[0 + k]
    BY <2>3 DEF IsBetween
  <2>5. \A k \in 1 .. c : 0 + k = k /\ k \in 1 .. l /\ k \in 1 .. Len(r)
    BY <2>2
  <2>6. \A k \in 1 .. c : s[k] = file[fdpos + k]
    BY <2>2, <2>4, <2>5
  <2>7. q \in Nat /\ fdpos <= q /\ q <= Len(file) /\ q - fdpos = c
    BY <1>1, <1>3
  <2>8. IsBetween(s, file, fdpos, q)
    BY <2>4, <2>6, <2>7 DEF IsBetween
  <2>9. s = Between(file, fdpos, q)
    BY <1>1, <2>7, <2>8, BetweenIs
  <2>10. \A k \in 1 .. Len(s) : s[k] \in Bytes
    BY <2>2, <2>4, <2>5, ElementOfSeq
  <2>11. s \in Seq(Bytes)
    BY <2>4, <2>10, CellsAreBytes
  <2> QED
    BY <2>1, <2>3, <2>9, <2>11
<1> QED
  BY <1>2, <1>3

(* A byte after the position, in the buffer and in the file.               *)
LEMMA ByteShows ==
  ASSUME InSizesOK, InInv, ~ lost, NEW i \in 1 .. Unread
  PROVE  buff[curr + i] = file[pos + i] /\ curr + i \in curr + 1 .. max
<1>1. max \in Nat /\ offset \in Nat /\ curr \in Nat /\ curr <= max /\ i \in 1 .. max - curr
  BY Facts DEF Unread
<1>2. \A k \in 1 .. max : buff[k] = file[offset - max + k]
  BY BufferShows
<1>3. PICK k : k = curr + i
  OBVIOUS
<1>4. k \in 1 .. max /\ offset - max + k = pos + i /\ k \in curr + 1 .. max
  BY <1>1, <1>3 DEF pos
<1> QED
  BY <1>2, <1>3, <1>4

-----------------------------------------------------------------------------
(* The operations one by one: each keeps the invariant, delivers what is   *)
(* at the position, and answers truly.                                     *)

Delivered ==
  \/ lost
  \/ got' = Between(file, pos, pos')
  \/ got' = got /\ pos' = pos

LEMMA CharStep ==
  ASSUME InSizesOK, InInv, input_char
  PROVE  InInv' /\ Delivered /\ scan = Idle
<1>1. scan = Idle /\ file' = file /\ scan' = scan /\ line' = line /\ lost' = lost
  BY DEF input_char
<1>2. CASE curr < max
  <2>1. PICK i, g : i = curr + 1 /\ g = Between(buff, curr, i)
    OBVIOUS
  <2>2. curr \in Nat /\ i \in Nat /\ curr <= i /\ i <= max
    BY SMTT(30), <1>2, <2>1, Facts
  <2>3. /\ got' = g /\ curr' = i
        /\ fdpos' = fdpos /\ offset' = offset /\ max' = max /\ buff' = buff
    BY <1>2, <2>1 DEF input_char, Delivers
  <2>4. g \in Seq(Bytes)
    BY <2>1, <2>2, PartIs
  <2>5. Good(file, fdpos, offset, i, max, buff, g, scan, line, lost)
    BY <1>1, <2>2, <2>4, MovedGood
  <2>6. ~ lost => g = Between(file, pos, offset - (max - i))
    BY <2>1, <2>2, PartShows DEF pos
  <2>7. pos' = offset - (max - i)
    BY <2>3 DEF pos
  <2> QED
    BY <1>1, <2>3, <2>5, <2>6, <2>7 DEF InInv, Delivered
<1>3. CASE ~ (curr < max)
  <2>1. refill
    BY <1>3 DEF input_char
  <2>2. PICK l \in Counts(BufSize) \ {0} :
          /\ fdpos' = fdpos + l /\ offset' = offset + l
          /\ buff' = Overwrite(buff, 0, Read(l)) /\ max' = l /\ curr' = 1
          /\ got' = Between(Read(l), 0, 1)
    BY <2>1 DEF refill, Advances, Delivers
  <2>3. BufSize \in Nat /\ fdpos \in Nat /\ offset \in Nat /\ curr = max
    BY <1>3, Facts
  <2>4. l \in Nat /\ l > 0 /\ fdpos + l <= Len(file)
    BY <2>2, <2>3, CountsOf
  <2>5. PICK q, g, o, d, b : /\ q = fdpos + 1 /\ g = Between(Read(l), 0, 1)
                             /\ d = fdpos + l /\ o = offset + l /\ b = Overwrite(buff, 0, Read(l))
    OBVIOUS
  <2>6. g = Between(file, fdpos, q) /\ g \in Seq(Bytes)
    BY <2>4, <2>5, ReadPart
  <2>7. Good(file, d, o, 1, l, b, g, scan, line, lost)
    BY <1>1, <2>2, <2>4, <2>5, <2>6, LoadedGood
  <2>8. pos = offset
    BY <2>3, PosIs
  <2>9. o - (l - 1) = offset + 1
    BY <2>3, <2>4, <2>5
  <2>10. pos' = offset + 1
    BY <2>2, <2>5, <2>9 DEF pos
  <2>11. ~ lost => fdpos = offset
    BY BufferShows
  <2> QED
    BY <1>1, <2>2, <2>5, <2>6, <2>7, <2>8, <2>10, <2>11 DEF InInv, Delivered
<1> QED
  BY <1>1, <1>2, <1>3

LEMMA InputStep ==
  ASSUME InSizesOK, InInv, NEW n \in Nat, input(n)
  PROVE  InInv' /\ Delivered /\ scan = Idle
<1>1. scan = Idle /\ file' = file /\ scan' = scan /\ line' = line /\ lost' = lost
  BY DEF input
<1>2. /\ BufSize \in Nat /\ MaxFile \in Nat /\ fdpos \in Nat /\ fdpos <= MaxFile
      /\ offset \in Nat /\ offset <= fdpos /\ max \in Nat /\ curr \in Nat /\ curr <= max
      /\ file \in Seq(Bytes)
  BY Facts
<1>3. /\ Good(file, fdpos, offset, curr, max, buff, got, scan, line, lost)
      /\ lost \in BOOLEAN /\ (~ lost => fdpos = offset)
  BY BufferShows DEF InInv, Good
<1>4. CASE FromBuffer(n)
  <2>1. PICK i, g : i = curr + Size(n, max - curr) /\ g = Between(buff, curr, i)
    OBVIOUS
  <2>2. i \in Nat /\ curr <= i /\ i <= max
    BY <1>2, <2>1 DEF Size
  <2>3. /\ got' = g /\ curr' = i
        /\ fdpos' = fdpos /\ offset' = offset /\ max' = max /\ buff' = buff
    BY <1>4, <2>1 DEF FromBuffer, Delivers
  <2>4. g \in Seq(Bytes)
    BY <1>2, <2>1, <2>2, PartIs
  <2>5. Good(file, fdpos, offset, i, max, buff, g, scan, line, lost)
    BY <1>1, <2>2, <2>4, MovedGood
  <2>6. ~ lost => g = Between(file, pos, offset - (max - i))
    BY <1>2, <2>1, <2>2, PartShows DEF pos
  <2>7. pos' = offset - (max - i)
    BY <2>3 DEF pos
  <2> QED
    BY <1>1, <2>3, <2>5, <2>6, <2>7 DEF InInv, Delivered
<1>5. CASE ThroughBuffer(n)
  <2>1. max = curr
    BY <1>5 DEF ThroughBuffer
  <2>2. PICK l \in Counts(BufSize) :
          /\ fdpos' = fdpos + l /\ offset' = offset + l
          /\ buff' = Overwrite(buff, 0, Read(l)) /\ max' = l /\ curr' = Size(n, l)
          /\ got' = Between(Read(l), 0, Size(n, l))
    BY <1>5 DEF ThroughBuffer, Advances, Delivers
  <2>3. l \in Nat /\ (l > 0 => fdpos + l <= Len(file))
    BY <1>2, <2>2, CountsOf
  <2>4. PICK c, q, g, o, d, b : /\ c = Size(n, l) /\ q = fdpos + c /\ g = Between(Read(l), 0, c)
                                /\ d = fdpos + l /\ o = offset + l /\ b = Overwrite(buff, 0, Read(l))
    OBVIOUS
  <2>5. c \in Nat /\ c <= l
    BY <2>3, <2>4 DEF Size
  <2>6. g = Between(file, fdpos, q) /\ g \in Seq(Bytes)
    BY <2>3, <2>4, <2>5, ReadPart
  <2>7. Good(file, d, o, c, l, b, g, scan, line, lost)
    BY <1>1, <2>4, <2>5, <2>6, LoadedGood
  <2>8. pos = offset
    BY <2>1, PosIs
  <2>9. o - (l - c) = offset + c
    BY <1>2, <2>3, <2>4, <2>5
  <2>10. pos' = offset + c
    BY <2>2, <2>4, <2>9 DEF pos
  <2> QED
    BY <1>1, <1>3, <2>2, <2>4, <2>6, <2>7, <2>8, <2>10 DEF InInv, Delivered
<1>6. CASE Direct(n)
  <2>1. max = curr
    BY <1>6 DEF Direct
  <2>2. PICK l \in Counts(n) :
          /\ fdpos' = fdpos + l /\ offset' = offset + l /\ got' = Read(l)
          /\ curr' = 0 /\ max' = 0 /\ buff' = buff
    BY <1>6 DEF Direct, Advances, Delivers
  <2>3. /\ l \in Nat /\ (l > 0 => fdpos + l <= Len(file))
        /\ fdpos + l <= MaxFile /\ offset + l <= fdpos + l
    BY <2>2, CountsOf
  <2>4. PICK d, o, g : d = fdpos + l /\ o = offset + l /\ g = Read(l)
    OBVIOUS
  <2>5. g \in Seq(Bytes)
    BY <2>3, <2>4, ReadIs DEF IsRead
  <2>6. d \in Nat /\ d <= MaxFile /\ o \in Nat /\ o <= d /\ (~ lost => d = o)
    BY <1>2, <1>3, <2>3, <2>4
  <2>7. Good(file, d, o, 0, 0, buff, g, scan, line, lost)
    BY <1>1, <1>3, <2>5, <2>6, EmptyGood
  <2>8. pos = offset
    BY <2>1, PosIs
  <2>9. o - (0 - 0) = offset + l
    BY <1>2, <2>3, <2>4
  <2>10. pos' = offset + l
    BY <2>2, <2>4, <2>9 DEF pos
  <2>11. g = Between(file, fdpos, fdpos + l)
    BY <2>4 DEF Read
  <2> QED
    BY <1>1, <1>3, <2>2, <2>4, <2>7, <2>8, <2>10, <2>11 DEF InInv, Delivered
<1>7. CASE NoData(n)
  <2>1. /\ max = curr /\ got' = << >> /\ fdpos' = fdpos /\ offset' = offset /\ buff' = buff
        /\ (curr' = curr /\ max' = max) \/ (curr' = 0 /\ max' = 0)
    BY <1>7 DEF NoData, Delivers
  <2>2. << >> \in Seq(Bytes)
    OBVIOUS
  <2>3. /\ Good(file, fdpos, offset, curr, max, buff, << >>, scan, line, lost)
        /\ Good(file, fdpos, offset, 0, 0, buff, << >>, scan, line, lost)
    BY <1>1, <1>2, <1>3, <2>2, MovedGood, EmptyGood
  <2>4. pos = offset
    BY <2>1, PosIs
  <2>5. offset - (curr - curr) = offset /\ offset - (0 - 0) = offset
    BY <1>2
  <2>6. pos' = offset
    BY <2>1, <2>5 DEF pos
  <2>7. Delivered
    BY <2>1, <2>4, <2>6, NothingDelivered DEF Delivered
  <2> QED
    BY <1>1, <2>1, <2>3, <2>7 DEF InInv
<1> QED
  BY <1>1, <1>4, <1>5, <1>6, <1>7 DEF input

LEMMA SeekStep ==
  ASSUME InSizesOK, InInv, NEW dest \in 0 .. MaxFile, seek_in(dest)
  PROVE  InInv' /\ pos' = dest /\ scan = Idle
<1>1. scan = Idle /\ file' = file /\ scan' = scan /\ line' = line /\ buff' = buff /\ got' = << >>
  BY DEF seek_in, Delivers
<1>2. /\ MaxFile \in Nat /\ fdpos \in Nat /\ offset \in Nat /\ max \in Nat
      /\ dest \in Nat /\ dest <= MaxFile /\ << >> \in Seq(Bytes)
  BY Facts
<1>3. CASE InBuffer(dest) # {}
  <2>1. PICK c : c = max - (offset - dest)
    OBVIOUS
  <2>2. offset - max <= dest /\ dest <= offset /\ InBuffer(dest) = {c}
    BY <1>3, <2>1 DEF InBuffer
  <2>3. /\ curr' = c /\ fdpos' = fdpos /\ offset' = offset /\ max' = max /\ lost' = lost
    BY <1>3, <2>2 DEF seek_in
  <2>4. c \in Nat /\ c <= max /\ offset - (max - c) = dest
    BY <1>2, <2>1, <2>2
  <2>5. Good(file, fdpos, offset, c, max, buff, << >>, scan, line, lost)
    BY <1>1, <1>2, <2>4, MovedGood
  <2> QED
    BY <1>1, <2>3, <2>4, <2>5 DEF InInv, pos
<1>4. CASE InBuffer(dest) = {}
  <2>1. fdpos' = dest /\ offset' = dest /\ curr' = 0 /\ max' = 0 /\ lost' = FALSE
    BY <1>4 DEF seek_in
  <2>2. dest <= dest /\ dest - (0 - 0) = dest /\ FALSE \in BOOLEAN
    BY <1>2
  <2>3. Good(file, dest, dest, 0, 0, buff, << >>, scan, line, FALSE)
    BY <1>1, <1>2, <2>2, EmptyGood
  <2> QED
    BY <1>1, <2>1, <2>2, <2>3 DEF InInv, pos
<1> QED
  BY <1>1, <1>3, <1>4

LEMMA SizeStep ==
  ASSUME InSizesOK, InInv, channel_size
  PROVE  InInv' /\ Delivered /\ scan = Idle
<1>1. /\ scan = Idle /\ fdpos' = offset /\ got' = << >> /\ file' = file /\ offset' = offset
      /\ curr' = curr /\ max' = max /\ buff' = buff /\ scan' = scan /\ line' = line /\ lost' = lost
  BY DEF channel_size, Delivers, chanVars
<1>2. /\ InRange(file, fdpos, offset, curr, max) /\ Stored(curr, max, buff)
      /\ Shows(file, fdpos, offset, max, buff, lost) /\ Sought(curr, max, buff, scan, line)
      /\ line \in {Idle} \cup - BufSize .. BufSize /\ lost \in BOOLEAN
  BY DEF InInv, Good
<1>3. InRange(file, offset, offset, curr, max)
  BY <1>2, Facts DEF InRange
<1>4. Shows(file, offset, offset, max, buff, lost)
  BY <1>2 DEF Shows
<1>5. << >> \in Seq(Bytes)
  OBVIOUS
<1>6. Good(file, offset, offset, curr, max, buff, << >>, scan, line, lost)
  BY <1>2, <1>3, <1>4, <1>5 DEF Good
<1>7. Delivered
  BY <1>1, NothingDelivered DEF pos, Delivered
<1> QED
  BY <1>1, <1>6, <1>7 DEF InInv

-----------------------------------------------------------------------------
(* The search for the end of a line.                                       *)

(* The parts of the invariant, as a step takes them up.                    *)
LEMMA Parts ==
  ASSUME InSizesOK, InInv
  PROVE  /\ InRange(file, fdpos, offset, curr, max) /\ Stored(curr, max, buff)
         /\ Shows(file, fdpos, offset, max, buff, lost) /\ Sought(curr, max, buff, scan, line)
         /\ got \in Seq(Bytes) /\ line \in {Idle} \cup - BufSize .. BufSize /\ lost \in BOOLEAN
BY DEF InInv, Good

(* A step of the search moves neither the position nor what is delivered.  *)
LEMMA SamePos ==
  ASSUME InSizesOK, InInv, offset' = offset,
         (curr' = curr /\ max' = max) \/ (curr' = 0 /\ max' = Unread)
  PROVE  pos' = pos
<1>1. curr \in Nat /\ max \in Nat /\ offset \in Nat /\ Unread = max - curr
  BY Facts DEF Unread
<1>2. offset - (Unread - 0) = offset - (max - curr)
  BY <1>1
<1> QED
  BY <1>1, <1>2 DEF pos

LEMMA StartStep ==
  ASSUME InSizesOK, InInv, ScanStart
  PROVE  InInv' /\ Delivered /\ LineAnswer
<1>1. /\ scan = Idle /\ scan' = curr /\ line' = Idle /\ got' = << >>
      /\ file' = file /\ fdpos' = fdpos /\ offset' = offset
      /\ curr' = curr /\ max' = max /\ buff' = buff /\ lost' = lost
  BY DEF ScanStart, Delivers, chanVars
<1>2. curr \in Nat /\ curr <= max /\ curr + 1 .. curr = {} /\ << >> \in Seq(Bytes)
  BY Facts
<1>3. Sought(curr, max, buff, curr, Idle)
  BY <1>2 DEF Sought
<1>4. Good(file, fdpos, offset, curr, max, buff, << >>, curr, Idle, lost)
  BY <1>2, <1>3, Parts DEF Good
<1>5. Delivered
  BY <1>1, SamePos, NothingDelivered DEF Delivered
<1> QED
  BY <1>1, <1>4, <1>5 DEF InInv, LineAnswer

LEMMA ByteStep ==
  ASSUME InSizesOK, InInv, ScanByte
  PROVE  InInv' /\ Delivered /\ LineAnswer
<1>1. /\ scan # Idle /\ scan < max
      /\ file' = file /\ fdpos' = fdpos /\ offset' = offset
      /\ curr' = curr /\ max' = max /\ buff' = buff /\ got' = got /\ lost' = lost
  BY DEF ScanByte, chanVars
<1>2. /\ scan \in Nat /\ curr <= scan /\ line = Idle
      /\ \A i \in curr + 1 .. scan : buff[i] # Newline
  BY <1>1, Parts DEF Sought
<1>3. curr \in Nat /\ max \in Nat /\ max <= BufSize /\ BufSize \in Nat /\ Idle < 0 /\ Idle \in Int
  BY Facts
<1>4. Delivered
  BY <1>1, SamePos DEF Delivered
<1>5. CASE buff[scan + 1] = Newline
  <2>1. PICK n : n = scan + 1 - curr
    OBVIOUS
  <2>2. scan' = Idle /\ line' = n
    BY <1>1, <1>5, <2>1 DEF ScanByte
  <2>3. n \in 1 .. BufSize /\ n \in 1 .. Unread /\ n > 0 /\ curr + n = scan + 1
    BY <1>1, <1>2, <1>3, <2>1 DEF Unread
  <2>4. Sought(curr, max, buff, Idle, n)
    BY DEF Sought
  <2>5. n \in {Idle} \cup - BufSize .. BufSize
    BY <1>3, <2>3
  <2>6. Good(file, fdpos, offset, curr, max, buff, got, Idle, n, lost)
    BY <2>4, <2>5, Parts DEF Good
  <2>7. ASSUME ~ lost, NEW i \in 1 .. n PROVE file[pos + i] = Newline <=> i = n
    <3>1. i \in 1 .. Unread
      BY <1>3, <2>3 DEF Unread
    <3>2. buff[curr + i] = file[pos + i]
      BY <2>7, <3>1, ByteShows
    <3>3. CASE i = n
      BY <1>5, <2>3, <3>2, <3>3
    <3>4. CASE i # n
      <4>1. curr + i \in curr + 1 .. scan
        BY <1>2, <1>3, <2>1, <2>3, <3>4
      <4> QED
        BY <1>2, <3>2, <3>4, <4>1
    <3> QED
      BY <3>3, <3>4
  <2>8. LineAnswer
    BY <2>2, <2>3, <2>7 DEF LineAnswer
  <2> QED
    BY <1>1, <1>4, <2>2, <2>6, <2>8 DEF InInv
<1>6. CASE buff[scan + 1] # Newline
  <2>1. PICK n : n = scan + 1
    OBVIOUS
  <2>2. scan' = n /\ line' = Idle
    BY <1>1, <1>2, <1>6, <2>1 DEF ScanByte
  <2>3. n \in Nat /\ curr <= n /\ n <= max
    BY <1>1, <1>2, <1>3, <2>1
  <2>4. ASSUME NEW i \in curr + 1 .. n PROVE buff[i] # Newline
    <3>1. i \in curr + 1 .. scan \/ i = scan + 1
      BY <1>2, <1>3, <2>1
    <3> QED
      BY <1>2, <1>6, <3>1
  <2>5. Sought(curr, max, buff, n, Idle)
    BY <2>3, <2>4 DEF Sought
  <2>6. Good(file, fdpos, offset, curr, max, buff, got, n, Idle, lost)
    BY <2>5, Parts DEF Good
  <2> QED
    BY <1>1, <1>4, <2>2, <2>6 DEF InInv, LineAnswer
<1> QED
  BY <1>5, <1>6

(* A negative answer: all that is unread was searched.                     *)
LEMMA NegativeAnswer ==
  ASSUME InSizesOK, InInv, scan # Idle, scan = max, line' = - Unread,
         Unread = BufSize \/ (fdpos >= Len(file) /\ Unread < BufSize)
  PROVE  LineAnswer
<1>1. /\ curr \in Nat /\ max \in Nat /\ curr <= max /\ offset \in Nat /\ Unread = max - curr
      /\ BufSize \in Nat /\ Len(file) \in Nat
  BY Facts DEF Unread
<1>2. \A i \in curr + 1 .. max : buff[i] # Newline
  BY Parts DEF Sought
<1>3. PICK u : u = Unread /\ u \in Nat
  BY <1>1
<1>4. - u <= 0 /\ ~ (- u > 0) /\ - (- u) = u
  BY <1>3
<1>5. ASSUME ~ lost, NEW i \in 1 .. u PROVE file[pos + i] # Newline
  <2>1. buff[curr + i] = file[pos + i] /\ curr + i \in curr + 1 .. max
    BY <1>3, <1>5, ByteShows
  <2> QED
    BY <1>2, <2>1
<1>6. ASSUME ~ lost PROVE u = BufSize \/ pos - (- u) >= Len(file)
  <2>1. fdpos = offset
    BY <1>6, BufferShows
  <2>2. pos - (- u) = offset
    BY <1>1, <1>3 DEF pos
  <2> QED
    BY <1>3, <2>1, <2>2
<1> QED
  BY <1>3, <1>4, <1>5, <1>6 DEF LineAnswer

LEMMA ShiftedGood ==
  ASSUME InSizesOK, InInv, Shift
  PROVE  /\ IsFilled(buff', 0) /\ curr' = 0
         /\ \A n \in {Idle} \cup - BufSize .. BufSize :
              Good(file, fdpos, offset, 0, Unread, buff', got, Idle, n, lost)
<1>1. /\ curr \in Nat /\ max \in Nat /\ curr <= max /\ max <= BufSize /\ BufSize \in Nat
      /\ offset \in Nat /\ fdpos \in Nat /\ fdpos <= MaxFile /\ offset <= fdpos
      /\ Unread = max - curr
  BY Facts DEF Unread
<1>2. PICK b : b = Overwrite(buff, 0, Between(buff, curr, max)) /\ IsShifted(b)
  BY ShiftedIs
<1>3. buff' = b /\ curr' = 0
  BY <1>2 DEF Shift
<1>4. 1 .. 0 = {} /\ 0 \in Nat /\ ~ (0 > 0)
  OBVIOUS
<1>5. IsFilled(b, 0)
  BY <1>2, <1>4 DEF IsShifted, IsFilled
<1>6. PICK u : u = Unread /\ u \in Nat /\ u <= BufSize
  BY <1>1
<1>7. 0 <= BufSize - Unread /\ offset = offset + 0 /\ u = Unread + 0 /\ fdpos = fdpos + 0
  BY <1>1, <1>6
<1>8. ASSUME NEW n \in {Idle} \cup - BufSize .. BufSize
      PROVE  Good(file, fdpos, offset, 0, u, b, got, Idle, n, lost)
  BY <1>1, <1>4, <1>5, <1>7, Parts, FilledGood
<1> QED
  BY <1>3, <1>5, <1>6, <1>8

LEMMA FillStep ==
  ASSUME InSizesOK, InInv, ScanFill
  PROVE  InInv' /\ Delivered /\ LineAnswer
<1>1. /\ scan # Idle /\ scan = max /\ file' = file /\ got' = got /\ lost' = lost
  BY DEF ScanFill
<1>2. line = Idle /\ \A i \in curr + 1 .. max : buff[i] # Newline
  BY <1>1, Parts DEF Sought
<1>3. /\ curr \in Nat /\ max \in Nat /\ curr <= max /\ max <= BufSize /\ BufSize \in Nat
      /\ offset \in Nat /\ fdpos \in Nat /\ fdpos <= MaxFile /\ offset <= fdpos
      /\ Unread = max - curr
  BY Facts DEF Unread
<1>4. - Unread \in {Idle} \cup - BufSize .. BufSize /\ Idle \in {Idle} \cup - BufSize .. BufSize
  BY <1>3
<1>5. CASE Unread = BufSize
  <2>1. Shift /\ scan' = Idle /\ line' = - Unread /\ max' = Unread /\ fdpos' = fdpos /\ offset' = offset
    BY <1>5 DEF ScanFill
  <2>2. curr' = 0 /\ Good(file, fdpos, offset, 0, Unread, buff', got, Idle, - Unread, lost)
    BY <1>4, <2>1, ShiftedGood
  <2>3. InInv'
    BY <1>1, <2>1, <2>2 DEF InInv
  <2>4. Delivered
    BY <1>1, <2>1, <2>2, SamePos DEF Delivered
  <2>5. LineAnswer
    BY <1>1, <1>5, <2>1, NegativeAnswer
  <2> QED
    BY <2>3, <2>4, <2>5
<1>6. CASE Unread # BufSize
  <2>1. PICK n : n = BufSize - Unread /\ n \in Nat /\ n > 0 /\ Unread < BufSize
    BY <1>3, <1>6
  <2>2. PICK l \in Counts(n) :
          /\ Fill(l) /\ fdpos' = fdpos + l /\ offset' = offset + l /\ max' = Unread + l
          /\ IF l = 0 THEN scan' = Idle /\ line' = - Unread
             ELSE scan' = Unread /\ line' = line
    BY <1>6, <2>1 DEF ScanFill, Advances, AtEof
  <2>3. /\ l \in Nat /\ l <= n /\ (l > 0 => fdpos + l <= Len(file))
        /\ (l = 0 => fdpos >= Len(file)) /\ fdpos + l <= MaxFile /\ offset + l <= fdpos + l
    BY <2>1, <2>2, CountsOf
  <2>4. l <= BufSize - Unread
    BY <2>1, <2>3
  <2>5. IsFilled(buff', l) /\ curr' = 0
    BY <2>2, <2>3, <2>4, FilledIs
  <2>6. PICK d, o, m, b : d = fdpos + l /\ o = offset + l /\ m = Unread + l /\ b = buff'
    OBVIOUS
  <2>7. d \in Nat /\ d <= MaxFile /\ o <= d
    BY <1>3, <2>3, <2>6
  <2>8. /\ \A k \in {Idle} \cup - BufSize .. BufSize : Good(file, d, o, 0, m, b, got, Idle, k, lost)
        /\ Good(file, d, o, 0, m, b, got, Unread, Idle, lost)
    BY <1>2, <1>4, <2>3, <2>4, <2>5, <2>6, <2>7, Parts, FilledGood
  <2>9. InInv'
    <3>1. CASE l = 0
      <4>1. scan' = Idle /\ line' = - Unread
        BY <2>2, <3>1
      <4>2. Good(file, d, o, 0, m, b, got, Idle, - Unread, lost)
        BY <1>4, <2>8
      <4> QED
        BY <1>1, <2>2, <2>5, <2>6, <4>1, <4>2 DEF InInv
    <3>2. CASE l # 0
      <4>1. scan' = Unread /\ line' = Idle
        BY <1>2, <2>2, <3>2
      <4> QED
        BY <1>1, <2>2, <2>5, <2>6, <2>8, <4>1 DEF InInv
    <3> QED
      BY <3>1, <3>2
  <2>10. pos' = pos
    <3>1. o - (m - 0) = offset - (max - curr)
      BY <1>3, <2>3, <2>6
    <3> QED
      BY <2>2, <2>5, <2>6, <3>1 DEF pos
  <2>11. LineAnswer
    <3>1. CASE l = 0
      <4>1. line' = - Unread /\ fdpos >= Len(file)
        BY <2>2, <2>3, <3>1
      <4> QED
        BY <1>1, <2>1, <4>1, NegativeAnswer
    <3>2. CASE l # 0
      BY <1>2, <2>2, <3>2 DEF LineAnswer
    <3> QED
      BY <3>1, <3>2
  <2> QED
    BY <1>1, <2>9, <2>10, <2>11 DEF Delivered
<1> QED
  BY <1>5, <1>6

LEMMA InterruptedStep ==
  ASSUME InSizesOK, InInv, ScanInterrupted
  PROVE  InInv' /\ Delivered /\ LineAnswer
<1>1. /\ scan # Idle /\ Shift /\ max' = Unread /\ scan' = Idle /\ file' = file
      /\ fdpos' = fdpos /\ offset' = offset /\ got' = got /\ line' = line /\ lost' = lost
  BY DEF ScanInterrupted
<1>2. line = Idle
  BY <1>1, Parts DEF Sought
<1>3. curr' = 0 /\ Good(file, fdpos, offset, 0, Unread, buff', got, Idle, Idle, lost)
  BY <1>1, ShiftedGood
<1>4. InInv'
  BY <1>1, <1>2, <1>3 DEF InInv
<1>5. Delivered
  BY <1>1, <1>3, SamePos DEF Delivered
<1> QED
  BY <1>1, <1>2, <1>4, <1>5 DEF LineAnswer

-----------------------------------------------------------------------------
(* The handler of a signal raises when a read has returned.                *)
LEMMA LostStep ==
  ASSUME InSizesOK, InInv, ReadLost
  PROVE  InInv' /\ Delivered /\ LineAnswer
<1>1. /\ file' = file /\ offset' = offset /\ line' = line /\ got' = << >>
      /\ scan' = Idle /\ lost' = TRUE
  BY DEF ReadLost, Delivers
<1>2. scan # Idle => line = Idle
  BY Parts DEF Sought
<1>3. /\ curr \in Nat /\ max \in Nat /\ curr <= max /\ max <= BufSize /\ BufSize \in Nat
      /\ offset \in Nat /\ fdpos \in Nat /\ fdpos <= MaxFile /\ offset <= fdpos /\ MaxFile \in Nat
      /\ MaxBlock \in Nat /\ Len(file) \in Nat /\ Unread = max - curr
  BY Facts DEF Unread
<1>4. << >> \in Seq(Bytes) /\ TRUE \in BOOLEAN
  OBVIOUS
<1>5. LineAnswer
  BY <1>1, <1>2 DEF LineAnswer
<1>6. ASSUME scan = Idle, NEW l \in Counts(BufSize),
             fdpos' = fdpos + l, buff' = Overwrite(buff, 0, Read(l)), curr' = curr, max' = max
      PROVE  InInv' /\ Delivered
  <2>1. /\ l \in Nat /\ l <= BufSize /\ (l > 0 => fdpos + l <= Len(file))
        /\ fdpos + l <= MaxFile
    BY <1>3, <1>6, CountsOf
  <2>2. PICK d, b : d = fdpos + l /\ b = Overwrite(buff, 0, Read(l)) /\ IsLoaded(b, l)
    BY <2>1, LoadedIs
  <2>3. InRange(file, d, offset, curr, max)
    <3>1. d \in Nat /\ d <= MaxFile /\ offset <= d
      BY <1>3, <2>1, <2>2
    <3> QED
      BY <3>1, Parts DEF InRange
  <2>4. Stored(curr, max, b)
    <3>1. ASSUME NEW k \in 1 .. max PROVE b[k] \in Bytes
      <4>1. k \in 1 .. l \/ k \in l + 1 .. BufSize
        BY <1>3, <2>1
      <4>2. buff[k] \in Bytes
        BY Parts DEF Stored
      <4> QED
        BY <2>2, <4>1, <4>2 DEF IsLoaded
    <3> QED
      BY <2>2, <3>1 DEF IsLoaded, Stored
  <2>5. Shows(file, d, offset, max, b, TRUE) /\ Sought(curr, max, b, Idle, line)
    BY DEF Shows, Sought
  <2>6. Good(file, d, offset, curr, max, b, << >>, Idle, line, TRUE)
    BY <1>4, <2>3, <2>4, <2>5, Parts DEF Good
  <2>7. Delivered
    BY <1>1, <1>6, SamePos, NothingDelivered DEF Delivered
  <2> QED
    BY <1>1, <1>6, <2>2, <2>6, <2>7 DEF InInv
<1>7. ASSUME scan = Idle, curr = max, NEW n \in BufSize .. MaxBlock, NEW l \in Counts(n),
             fdpos' = fdpos + l, curr' = 0, max' = 0, buff' = buff
      PROVE  InInv' /\ Delivered
  <2>1. n \in Nat
    BY <1>3
  <2>2. l \in Nat /\ fdpos + l <= MaxFile
    BY <2>1, CountsOf
  <2>3. PICK d : d = fdpos + l
    OBVIOUS
  <2>4. d \in Nat /\ d <= MaxFile /\ offset <= d
    BY <1>3, <2>2, <2>3
  <2>5. Good(file, d, offset, 0, 0, buff, << >>, scan, line, TRUE)
    BY <1>3, <1>4, <1>7, <2>4, EmptyGood
  <2>6. offset - (0 - 0) = offset - (max - curr)
    BY <1>3, <1>7
  <2>7. pos' = pos
    BY <1>1, <1>7, <2>6 DEF pos
  <2>8. Delivered
    BY <1>1, <2>7, NothingDelivered DEF Delivered
  <2> QED
    BY <1>1, <1>7, <2>3, <2>5, <2>8 DEF InInv
<1>8. ASSUME scan = max, scan # Idle, Unread < BufSize, NEW l \in Counts(BufSize - Unread),
             Fill(l), fdpos' = fdpos + l, max' = Unread
      PROVE  InInv' /\ Delivered
  <2>1. PICK n : n = BufSize - Unread /\ n \in Nat /\ n > 0
    BY <1>3, <1>8
  <2>2. /\ l \in Nat /\ l <= n /\ (l > 0 => fdpos + l <= Len(file))
        /\ fdpos + l <= MaxFile
    BY <1>8, <2>1, CountsOf
  <2>3. PICK d, b : d = fdpos + l /\ b = buff'
    OBVIOUS
  <2>4. IsFilled(b, l) /\ curr' = 0
    BY <1>8, <2>1, <2>2, <2>3, FilledIs
  <2>5. 1 .. 0 = {} /\ 0 \in Nat /\ ~ (0 > 0)
    OBVIOUS
  <2>6. IsFilled(b, 0)
    BY <2>4, <2>5 DEF IsFilled
  <2>7. PICK u : u = Unread /\ u \in Nat /\ u <= BufSize
    BY <1>3
  <2>8. 0 <= BufSize - Unread /\ offset = offset + 0 /\ u = Unread + 0
    BY <1>3, <2>7
  <2>9. d \in Nat /\ d <= MaxFile /\ offset <= d
    BY <1>3, <2>2, <2>3
  <2>10. Good(file, d, offset, 0, u, b, << >>, Idle, line, TRUE)
    BY <1>4, <2>5, <2>6, <2>8, <2>9, Parts, FilledGood
  <2>11. pos' = pos
    BY <1>1, <1>8, <2>4, SamePos
  <2>12. Delivered
    BY <1>1, <2>11, NothingDelivered DEF Delivered
  <2> QED
    BY <1>1, <1>8, <2>3, <2>4, <2>7, <2>10, <2>12 DEF InInv
<1>9. \/ /\ scan = Idle
         /\ \E l \in Counts(BufSize) : fdpos' = fdpos + l /\ buff' = Overwrite(buff, 0, Read(l))
         /\ curr' = curr /\ max' = max
      \/ /\ scan = Idle /\ curr = max
         /\ \E n \in BufSize .. MaxBlock : \E l \in Counts(n) : fdpos' = fdpos + l
         /\ curr' = 0 /\ max' = 0 /\ buff' = buff
      \/ /\ scan = max /\ scan # Idle /\ Unread < BufSize
         /\ \E l \in Counts(BufSize - Unread) : Fill(l) /\ fdpos' = fdpos + l
         /\ max' = Unread
  <2>1. Idle < 0 /\ Idle \in Int
    BY Facts
  <2>2. max # Idle
    BY <1>3, <2>1
  <2> QED
    BY <2>2 DEF ReadLost
<1>10. InInv' /\ Delivered
  BY <1>6, <1>7, <1>8, <1>9
<1> QED
  BY <1>5, <1>10

-----------------------------------------------------------------------------
LEMMA NextHolds ==
  ASSUME InSizesOK, InInv, Next
  PROVE  InInv' /\ InOrder /\ LineAnswer
<1>1. ASSUME Delivered, LineAnswer
      PROVE  InOrder /\ LineAnswer
  BY <1>1 DEF Delivered, InOrder
<1>2. ASSUME Delivered, scan = Idle
      PROVE  InOrder /\ LineAnswer
  BY <1>2 DEF Delivered, InOrder, LineAnswer
<1>3. CASE input_char
  BY <1>2, <1>3, CharStep
<1>4. CASE channel_size
  BY <1>2, <1>4, SizeStep
<1>5. CASE \E n \in 0 .. MaxBlock : input(n)
  <2>1. PICK n \in Nat : input(n)
    BY <1>5, Facts
  <2> QED
    BY <1>2, <2>1, InputStep
<1>6. CASE \E dest \in 0 .. MaxFile : seek_in(dest)
  <2>1. PICK dest \in 0 .. MaxFile : seek_in(dest)
    BY <1>6
  <2>2. InInv' /\ pos' = dest /\ scan = Idle
    BY <2>1, SeekStep
  <2> QED
    BY <2>1, <2>2 DEF InOrder, LineAnswer
<1>7. CASE ScanStart
  BY <1>1, <1>7, StartStep
<1>8. CASE ScanByte
  BY <1>1, <1>8, ByteStep
<1>9. CASE ScanFill
  BY <1>1, <1>9, FillStep
<1>10. CASE ScanInterrupted
  BY <1>1, <1>10, InterruptedStep
<1>11. CASE ReadLost
  BY <1>1, <1>11, LostStep
<1> QED
  BY <1>3, <1>4, <1>5, <1>6, <1>7, <1>8, <1>9, <1>10, <1>11 DEF Next

LEMMA InStepHolds ==
  ASSUME InSizesOK, InInv, [Next]_vars
  PROVE  InInv'
<1>1. CASE Next
  BY <1>1, NextHolds
<1>2. CASE UNCHANGED vars
  BY <1>2 DEF vars, chanVars, InInv
<1> QED
  BY <1>1, <1>2

LEMMA InStepTells ==
  ASSUME InSizesOK, InInv, Next
  PROVE  InOrder /\ LineAnswer
BY NextHolds

-----------------------------------------------------------------------------
(* The two channels.                                                       *)

SizesOK == InSizesOK /\ Out!SizesOK

ChannelInv ==
  /\ which = "in" => InInv
  /\ which = "out" => Out!OutInv

LEMMA InitHolds ==
  ASSUME SizesOK, ChannelInit
  PROVE  ChannelInv
<1>1. CASE which = "in"
  <2>1. Init
    BY <1>1 DEF ChannelInit, InInit
  <2> QED
    BY <1>1, <2>1, InInitHolds DEF SizesOK, ChannelInv
<1>2. CASE which = "out"
  <2>1. Out!Init
    BY <1>2 DEF ChannelInit, OutInit
  <2> QED
    BY <1>2, <2>1, Out!InitHolds DEF SizesOK, ChannelInv
<1> QED
  BY <1>1, <1>2 DEF ChannelInv

(* A step of this module is a step of the part that moves.                 *)
LEMMA StepIs ==
  ASSUME [ChannelNext]_ioVars
  PROVE  /\ which' = which
         /\ which = "in" => [Next]_vars
         /\ which = "out" => [Out!Next]_(Out!vars)
<1>1. CASE ChannelNext
  BY <1>1 DEF ChannelNext
<1>2. CASE UNCHANGED ioVars
  BY <1>2 DEF ioVars, shared, inOnly, outOnly, vars, chanVars, Out!vars
<1> QED
  BY <1>1, <1>2

LEMMA Preserved ==
  ASSUME SizesOK, ChannelInv, [ChannelNext]_ioVars
  PROVE  ChannelInv'
<1>1. CASE which = "in"
  <2>1. InInv'
    BY <1>1, StepIs, InStepHolds DEF SizesOK, ChannelInv
  <2> QED
    BY <1>1, <2>1, StepIs DEF ChannelInv
<1>2. CASE which = "out"
  <2>1. Out!OutInv'
    BY <1>2, StepIs, Out!Preserved DEF SizesOK, ChannelInv
  <2> QED
    BY <1>2, <2>1, StepIs DEF ChannelInv
<1>3. CASE which # "in" /\ which # "out"
  BY <1>3, StepIs DEF ChannelInv
<1> QED
  BY <1>1, <1>2, <1>3

LEMMA WindowHolds ==
  ASSUME SizesOK, ChannelInv
  PROVE  BuffersAreWindows
<1>1. which = "in" => BufferIsWindow
  BY InWindowHolds DEF SizesOK, ChannelInv
<1>2. which = "out" => Out!BufferIsWindow
  BY DEF ChannelInv, Out!OutInv
<1> QED
  BY <1>1, <1>2 DEF BuffersAreWindows

(* The buffer of a channel is a window on its file: its pointers are in    *)
(* order, and offset is its place in the file, as the descriptor stands    *)
(* (io.h, struct channel): until a write fails half way, or a handler      *)
(* raises when a read has returned.                                        *)
THEOREM BuffersAreWindowsTheorem ==
  ASSUME SizesOK
  PROVE  ChannelSpec => []BuffersAreWindows
<1>1. ChannelInit => ChannelInv
  BY InitHolds
<1>2. ChannelInv /\ [ChannelNext]_ioVars => ChannelInv'
  BY Preserved
<1>3. ChannelInv => BuffersAreWindows
  BY WindowHolds
<1> QED
  BY <1>1, <1>2, <1>3, PTL DEF ChannelSpec

(* What is written to a channel comes to the file as if there were no      *)
(* buffer, until a write fails, and again once the program has moved the   *)
(* channel (io.c, putblock, flush, seek_out).                              *)
THEOREM ImplementsFileTheorem ==
  ASSUME SizesOK
  PROVE  ChannelSpec => ImplementsFile
<1>1. ChannelInit => ChannelInv
  BY InitHolds
<1>2. ChannelInv /\ [ChannelNext]_ioVars => ChannelInv'
  BY Preserved
<1>3. ChannelInit => (which = "out" => Out!Abstract!Init)
  <2>1. SUFFICES ASSUME ChannelInit, which = "out" PROVE Out!Abstract!Init
    OBVIOUS
  <2>2. Out!Init
    BY <2>1 DEF ChannelInit, OutInit
  <2> QED
    BY <2>2, Out!InitRefines DEF SizesOK
<1>4. ChannelInv /\ [ChannelNext]_ioVars
        => [which # "out" \/ failed \/ failed' \/ UNCHANGED Out!Abstract!vars \/ Out!Abstract!Next]_ioVars
  <2>1. SUFFICES ASSUME ChannelInv, ChannelNext, which = "out"
                 PROVE  failed \/ failed' \/ UNCHANGED Out!Abstract!vars \/ Out!Abstract!Next
    OBVIOUS
  <2>2. Out!Next
    BY <2>1 DEF ChannelNext
  <2>3. ~ FALSE /\ Out!OutInv /\ Out!SizesOK
    BY <2>1 DEF ChannelInv, SizesOK
  <2> QED
    BY <2>2, <2>3, Out!StepRefines
<1> QED
  BY <1>1, <1>2, <1>3, <1>4, PTL DEF ChannelSpec, ImplementsFile

(* Nothing that was written completely, before the buffer, is destroyed,   *)
(* whatever fails and whatever the program does next (io.c, really_write   *)
(* and its callers).                                                       *)
THEOREM SettledKeptTheorem ==
  ASSUME SizesOK
  PROVE  ChannelSpec => SettledKept
<1>1. ChannelInit => ChannelInv
  BY InitHolds
<1>2. ChannelInv /\ [ChannelNext]_ioVars => ChannelInv'
  BY Preserved
<1>3. ChannelInv /\ [ChannelNext]_ioVars => [which = "out" => Out!SettledStays]_ioVars
  <2>1. SUFFICES ASSUME ChannelInv, ChannelNext, which = "out" PROVE Out!SettledStays
    OBVIOUS
  <2>2. Out!Next /\ Out!OutInv /\ Out!SizesOK
    BY <2>1 DEF ChannelNext, ChannelInv, SizesOK
  <2> QED
    BY <2>2, Out!StepSettles
<1> QED
  BY <1>1, <1>2, <1>3, PTL DEF ChannelSpec, SettledKept

(* Input delivers what the file has at the position, however it comes      *)
(* through the buffer, and input_scan_line answers truly (io.c, getblock,  *)
(* refill, seek_in, input_scan_line).                                      *)
THEOREM InputInOrderTheorem ==
  ASSUME SizesOK
  PROVE  ChannelSpec => InputInOrder
<1>1. ChannelInit => ChannelInv
  BY InitHolds
<1>2. ChannelInv /\ [ChannelNext]_ioVars => ChannelInv'
  BY Preserved
<1>3. ChannelInv /\ [ChannelNext]_ioVars => [which = "in" => InOrder /\ LineAnswer]_ioVars
  <2>1. SUFFICES ASSUME ChannelInv, ChannelNext, which = "in" PROVE InOrder /\ LineAnswer
    OBVIOUS
  <2>2. Next /\ InInv /\ InSizesOK
    BY <2>1 DEF ChannelNext, ChannelInv, SizesOK
  <2> QED
    BY <2>2, InStepTells
<1> QED
  BY <1>1, <1>2, <1>3, PTL DEF ChannelSpec, InputInOrder
=============================================================================
