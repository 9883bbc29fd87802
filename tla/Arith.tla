------------------------------- MODULE Arith -------------------------------
(***************************************************************************)
(* The integer instructions of the interpreter (src/runtime/interp.c) on   *)
(* tagged longs: the int x is the long 2x + 1.                             *)
(*                                                                         *)
(* A long has 2 (ChunkLen + 1) bits.  Of ChunkLen only Chunk = 2^ChunkLen  *)
(* matters: ints reach from -Chunk^2 to Chunk^2 - 1, longs twice as far,   *)
(* and a shift by ChunkLen is a division by Chunk.                         *)
(***************************************************************************)
EXTENDS Integers

CONSTANT Chunk
ASSUME ChunkAssumption == Chunk \in Nat \ {0}

MaxChunk == Chunk - 1
Half     == Chunk * Chunk
Ints     == -Half .. Half - 1
Words    == 0 .. 2 * Half - 1

(* What is left of a number in a long, and in an unsigned long.            *)
Long(r)     == ((r + 2 * Half) % (4 * Half)) - 2 * Half
Unsigned(r) == r % (4 * Half)

Val_long(x) == Long(2 * x + 1)
Long_val(v) == v \div 2           \* an arithmetic shift

(* An instruction leaves an int in accu, or raises.                        *)
IntVal(v)   == <<"int", v>>
Raise(e) == <<"raise", e>>

(* Division as C does it: the quotient is truncated.                       *)
Abs(n)      == IF n < 0 THEN -n ELSE n
CDiv(a, b)  == IF (a < 0) = (b < 0) THEN Abs(a) \div Abs(b) ELSE -(Abs(a) \div Abs(b))
CRem(a, b)  == IF a < 0 THEN -(Abs(a) % Abs(b)) ELSE Abs(a) % Abs(b)

(* accu = Val_long(tmp), and Overflow if tmp does not come back.           *)
Checked(tmp) ==
  IF Long_val(Val_long(tmp)) = tmp THEN IntVal(Val_long(tmp)) ELSE Raise("Overflow")

-----------------------------------------------------------------------------
(* Signed arithmetic.                                                      *)

SMLNEGINT(v)     == Checked(-Long_val(v))
SMLSUCCINT(v)    == Checked(Long_val(v) + 1)
SMLPREDINT(v)    == Checked(Long_val(v) - 1)
SMLADDINT(u, v)  == Checked(Long_val(u) + Long_val(v))
SMLSUBINT(u, v)  == Checked(Long_val(u) - Long_val(v))

(* The high part of a product that fits no long.  A mutant: the bound of   *)
(* the chunks themselves.                                                  *)
TooLargeEarly(tmp) == tmp > MaxChunk
TooLarge(tmp)      == tmp > MaxChunk + 1

(* The larger factor is split into chunks; the sign is put back last.      *)
SMLMULINT(u, v) ==
  LET a   == Abs(Long_val(u))
      b   == Abs(Long_val(v))
      x   == IF b > a THEN b ELSE a
      y   == IF b > a THEN a ELSE b
      tmp == (x \div Chunk) * y
      Signed(n) == IF (Long_val(u) < 0) # (Long_val(v) < 0) THEN -n ELSE n
  IN IF y > MaxChunk THEN Raise("Overflow")
     ELSE IF x <= MaxChunk THEN IntVal(Val_long(Signed(x * y)))
     ELSE IF TooLarge(tmp) THEN Raise("Overflow")
     ELSE Checked(Signed(Long(tmp * Chunk + (x % Chunk) * y)))

(* The quotient is rounded down, on the absolute value of the divisor.     *)
SMLDIVINT(u, v) ==
  LET y == Long_val(v)
      a == IF y < 0 THEN -Long_val(u) ELSE Long_val(u)
      d == Abs(y)
  IN IF y = 0 THEN Raise("Div")
     ELSE IF a >= 0 THEN Checked(a \div d)
     ELSE IF (-a) % d = 0 THEN Checked(-((-a) \div d))
     ELSE Checked(-((-a) \div d) - 1)

SMLMODINT(u, v) ==
  LET y == Long_val(v)
      a == IF y < 0 THEN -Long_val(u) ELSE Long_val(u)
      d == Abs(y)
      m == IF a >= 0 THEN a % d
           ELSE IF (-a) % d = 0 THEN 0 ELSE d - ((-a) % d)
  IN IF y = 0 THEN Raise("Div") ELSE Checked(IF y < 0 THEN -m ELSE m)

(* On the longs 2x and 2y: the factor 2 cancels from the quotient and      *)
(* stays in the remainder.                                                 *)
SMLQUOTINT(u, v) == IF v - 1 = 0 THEN Raise("Div") ELSE Checked(CDiv(u - 1, v - 1))
SMLREMINT(u, v)  == IF v - 1 = 0 THEN Raise("Div") ELSE IntVal(1 + CRem(u - 1, v - 1))

-----------------------------------------------------------------------------
(* Words: arithmetic modulo 2^(wordsize - 1).                              *)

ADDINT(u, v) == IntVal(Long(u + (v - 1)))
SUBINT(u, v) == IntVal(Long(u - (v - 1)))
MULINT(u, v) == IntVal(Long(1 + Long_val(u) * (v - 1)))
DIVINT(u, v) ==
  IF v - 1 = 0 THEN Raise("Div")
  ELSE IntVal(Val_long(Unsigned(u - 1) \div Unsigned(v - 1)))
MODINT(u, v) ==
  IF v - 1 = 0 THEN Raise("Div")
  ELSE IntVal(Long(1 + (Unsigned(u - 1) % Unsigned(v - 1))))

(* Comparisons are made on the tagged longs.                               *)
Test(tst, u, v) ==
  CASE tst = "EQ"  -> u = v  [] tst = "NEQ" -> u # v
    [] tst = "LT"  -> u < v  [] tst = "GT"  -> u > v
    [] tst = "LE"  -> u <= v [] tst = "GE"  -> u >= v
UnsignedTest(tst, u, v) == Test(tst, Unsigned(u), Unsigned(v))

-----------------------------------------------------------------------------
(* What the Basis Library promises of them (src/mosmllib/Int.sig, Word.sig) *)

Exact(r) == IF r \in Ints THEN IntVal(2 * r + 1) ELSE Raise("Overflow")
Word(r)  == LET w == r % (2 * Half) IN IntVal(2 * (IF w < Half THEN w ELSE w - 2 * Half) + 1)
Floor(x, y) == IF y > 0 THEN x \div y ELSE (-x) \div (-y)

(* The one product the multiplication is wrong about: minInt, of two       *)
(* factors that are both larger than MaxChunk.                             *)
MulCorner(x, y) == x * y = -Half /\ Abs(x) = Chunk

(* The instruction computes the exact result or raises Overflow, for every *)
(* pair of ints; div and mod round down, quot and rem truncate, and        *)
(* dividing by zero raises Div.                                            *)
SignedExact(x, y) ==
  LET u == Val_long(x)
      v == Val_long(y)
      DivBy(r, op) == op = IF y = 0 THEN Raise("Div") ELSE r
  IN /\ SMLNEGINT(u) = Exact(-x) /\ SMLSUCCINT(u) = Exact(x + 1) /\ SMLPREDINT(u) = Exact(x - 1)
     /\ SMLADDINT(u, v) = Exact(x + y)
     /\ SMLSUBINT(u, v) = Exact(x - y)
     /\ DivBy(Exact(Floor(x, y)), SMLDIVINT(u, v))
     /\ DivBy(Exact(x - Floor(x, y) * y), SMLMODINT(u, v))
     /\ DivBy(Exact(CDiv(x, y)), SMLQUOTINT(u, v))
     /\ DivBy(Exact(x - CDiv(x, y) * y), SMLREMINT(u, v))
     /\ \A t \in {"EQ", "NEQ", "LT", "GT", "LE", "GE"} : Test(t, u, v) = Test(t, x, y)

MulExact(x, y) == SMLMULINT(Val_long(x), Val_long(y)) = Exact(x * y)

(* Words wrap around and are compared as naturals; no operation raises     *)
(* Overflow.                                                               *)
UnsignedExact(x, y) ==
  LET u == Val_long(x)
      v == Val_long(y)
      DivBy(r, op) == op = IF y = 0 THEN Raise("Div") ELSE r
  IN /\ ADDINT(u, v) = Word(x + y)
     /\ SUBINT(u, v) = Word(x - y)
     /\ MULINT(u, v) = Word(x * y)
     /\ DivBy(Word(x \div y), DIVINT(u, v))
     /\ DivBy(Word(x % y), MODINT(u, v))
     /\ \A t \in {"EQ", "NEQ", "LT", "GT", "LE", "GE"} : UnsignedTest(t, u, v) = Test(t, x, y)
=============================================================================
