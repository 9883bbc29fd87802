------------------------------ MODULE Numerals -----------------------------
(***************************************************************************)
(* Numbers and characters as text, and reals as ints                       *)
(* (src/runtime/mosml.c), with the strings and the literals of the lexer   *)
(* (src/compiler/Lexer.lex), which reads what they print.                  *)
(*                                                                         *)
(* A character is its code, a string a sequence of them.  A C long has     *)
(* Bits bits and an int one less; a double is counted in halves, and its   *)
(* mantissa has Mantissa bits: fewer than an int on 64-bit machines, more  *)
(* on 32-bit ones.                                                         *)
(***************************************************************************)
EXTENDS Integers, SequencesExt, FiniteSetsExt

CONSTANTS Bits, Mantissa

Unsigned(n) == n % 2 ^ Bits
Wrap(n)     == LET u == Unsigned(n) IN IF u < 2 ^ (Bits - 1) THEN u ELSE u - 2 ^ Bits

Val_long(n) == Wrap(2 * n + 1)
Long_val(v) == v \div 2
Max_long == 2 ^ (Bits - 2) - 1
Min_long == -(2 ^ (Bits - 2))
Longs    == Min_long .. Max_long

(* What a primitive gives: an int, or the exception it raises.             *)
Gives(v)     == [int |-> Long_val(v)]
Raise(exn) == [exn |-> exn]
Fits(i, exn) == IF Long_val(Val_long(i)) = i THEN Gives(Val_long(i)) ELSE Raise(exn)

Tilde == 126
Minus == 45
Plus == 43
Dot == 46
Quote == 34
Backslash == 92
Zero == 48
LowerE == 101
UpperE == 69

-----------------------------------------------------------------------------
(* Reading: the value of a digit, or 99.                                   *)

DigitOf(c) ==
  IF c \in 48 .. 57 THEN c - 48
  ELSE IF c \in 65 .. 70 THEN c - 55
  ELSE IF c \in 97 .. 102 THEN c - 87 ELSE 99

Overflown == -1

(* scandec and scanhex: the digits must be all of the C string, and the    *)
(* number below max.  A mutant: the number may be max.                     *)
TooLargeLate(res, d, base, max) == res > max \div base \/ (res = max \div base /\ max % base < d)
TooLarge(res, d, base, max)     == res > max \div base \/ (res = max \div base /\ max % base <= d)

CString(s) == SubSeq(s, 1, Min({i - 1 : i \in {j \in DOMAIN s : s[j] = 0}} \cup {Len(s)}))

scan(s, base, max) ==
  LET text == CString(s)
      Digit(res, c) ==
        IF res = Overflown \/ DigitOf(c) >= base \/ TooLarge(res, DigitOf(c), base, max)
        THEN Overflown ELSE base * res + DigitOf(c)
  IN FoldLeft(Digit, 0, text)

MaxInt  == Unsigned(Min_long)
MaxWord == Unsigned(2 * MaxInt)

Signed(s, base, skip) ==
  LET negative == s # << >> /\ s[1] = Tilde
      digits   == SubSeq(s, skip + (IF negative THEN 2 ELSE 1), Len(s))
      n        == scan(digits, base, MaxInt)
  IN IF n = Overflown THEN Raise("Fail") ELSE Fits(Wrap(IF negative THEN -n ELSE n), "Fail")

sml_int_of_string(s) == Signed(s, 10, 0)
sml_int_of_hex(s)    == Signed(s, 16, 2)

Word(n) == IF n = Overflown THEN Raise("Fail") ELSE Gives(Val_long(Wrap(n)))

sml_word_of_dec(s) == Word(scan(SubSeq(s, 3, Len(s)), 10, MaxWord))
sml_word_of_hex(s) == Word(scan(SubSeq(s, 4, Len(s)), 16, MaxWord))

-----------------------------------------------------------------------------
(* Printing.  printf is outside; the ML forms are made from what it gives. *)

Digits(n, base) ==     \* %lu, %lX
  LET d[k \in 0 .. n] == LET c == k % base IN
        (IF k < base THEN << >> ELSE d[k \div base]) \o <<IF c < 10 THEN 48 + c ELSE 55 + c>>
  IN d[n]

printf_ld(n) == IF n < 0 THEN <<Minus>> \o Digits(-n, 10) ELSE Digits(n, 10)

(* No plus, ~ and E for - and e, and no zero at the start of an exponent.  *)
MkMinusStep(made, c) ==
  IF c = Plus THEN made
  ELSE IF c = Minus THEN [made EXCEPT !.text = Append(@, Tilde)]
  ELSE IF c = LowerE THEN [text |-> Append(made.text, UpperE), justafterexp |-> TRUE]
  ELSE IF c = Zero /\ made.justafterexp THEN [made EXCEPT !.justafterexp = FALSE]
  ELSE [text |-> Append(made.text, c), justafterexp |-> FALSE]

mkSMLMinus(s) == FoldLeft(MkMinusStep, [text |-> << >>, justafterexp |-> FALSE], s).text

sml_string_of_int(n) == mkSMLMinus(printf_ld(n))

(* The value is shifted as an unsigned long.                               *)
sml_hexstring_of_word(w) == <<Zero, 119, 120>> \o Digits(Unsigned(Val_long(w)) \div 2, 16)

(* A real from what printf ("%.12g") gives.                                *)
string_of_float_aux(printed) ==
  LET s == mkSMLMinus(printed)
  IN IF {Dot, UpperE} \cap ToSet(s) = {} THEN s \o <<Dot, Zero>> ELSE s

(* The text that sml_float_of_string hands to atof.                        *)
FloatText(s) ==
  [i \in DOMAIN s |-> IF s[i] = Tilde THEN Minus ELSE IF s[i] = UpperE THEN LowerE ELSE s[i]]
ExponentLength(s) ==
  Cardinality({i \in DOMAIN s : s[i] \notin {Tilde, UpperE} /\ \E j \in 1 .. i - 1 : s[j] = UpperE})
sml_float_of_string(s) ==
  IF Len(s) > 63 THEN Raise("Fail") ELSE IF ExponentLength(s) > 5 THEN Raise("Overflow") ELSE FloatText(s)

-----------------------------------------------------------------------------
(* Characters and strings as literals.                                     *)

Named == [c \in {34, 92, 7, 8, 9, 10, 11, 12, 13} |->    \* " \ and \a \b \t \n \v \f \r
            CASE c = 34 -> 34 [] c = 92 -> 92 [] c = 7 -> 97 [] c = 8 -> 98 [] c = 9 -> 116
              [] c = 10 -> 110 [] c = 11 -> 118 [] c = 12 -> 102 [] c = 13 -> 114]

Shown(c) == c \in 32 .. 126 \cup 128 .. 254

Escaped(c) ==
  IF c \in DOMAIN Named THEN <<Backslash, Named[c]>>
  ELSE IF c <= 31 THEN <<Backslash, 94, c + 64>>
  ELSE IF Shown(c) THEN <<c>>
  ELSE <<Backslash, 48 + c \div 100, 48 + ((c \div 10) % 10), 48 + (c % 10)>>

sml_makestring_of_char(c) == <<35, Quote>> \o Escaped(c) \o <<Quote>>

(* The length is computed first, and the block for it allocated.           *)
Width(c) ==
  IF c \in DOMAIN Named THEN 2 ELSE IF c <= 31 THEN 3 ELSE IF Shown(c) THEN 1 ELSE 4
MakestringLength(s) == FoldLeft(LAMBDA n, c : n + Width(c), 2, s)
sml_makestring_of_string(s) == <<Quote>> \o FlattenSeq([i \in DOMAIN s |-> Escaped(s[i])]) \o <<Quote>>

(* The rule String of the lexer, from after the opening quote: the text,   *)
(* or an exception.                                                        *)
char_for_backslash(c) == CHOOSE n \in DOMAIN Named : Named[n] = c

LexicalError == <<-1>>
IsDigit(c) == c \in 48 .. 57
IsHex(c)   == DigitOf(c) < 16
Blank(c)   == c \in {32, 9, 10, 13}
charCodeOfDecimal(t)     == 100 * (t[1] - 48) + 10 * (t[2] - 48) + (t[3] - 48)
charCodeOfHexadecimal(t) == 4096 * DigitOf(t[1]) + 256 * DigitOf(t[2]) + 16 * DigitOf(t[3]) + DigitOf(t[4])

(* One lexeme at the start of t: how long it is, and what it stores.       *)
Lexeme(t) ==
  LET blanks == SelectInSubSeq(t, 2, Len(t), LAMBDA c : ~Blank(c))
      Code(n, long) == IF n >= 256 THEN [long |-> 0, stored |-> << >>] ELSE [long |-> long, stored |-> <<n>>]
  IN CASE t[1] = Backslash /\ Len(t) >= 2 /\ t[2] \in Range(Named) -> [long |-> 2, stored |-> <<char_for_backslash(t[2])>>]
       [] t[1] = Backslash /\ blanks > 2 /\ t[blanks] = Backslash -> [long |-> blanks, stored |-> << >>]
       [] t[1] = Backslash /\ Len(t) >= 3 /\ t[2] = 94 /\ t[3] \in 64 .. 95 -> [long |-> 3, stored |-> <<t[3] - 64>>]
       [] t[1] = Backslash /\ Len(t) >= 4 /\ \A i \in 2 .. 4 : IsDigit(t[i]) -> Code(charCodeOfDecimal(SubSeq(t, 2, 4)), 4)
       [] t[1] = Backslash /\ Len(t) >= 6 /\ t[2] = 117 /\ (\A i \in 3 .. 6 : IsHex(t[i])) ->
            Code(charCodeOfHexadecimal(SubSeq(t, 3, 6)), 6)
       [] t[1] \notin 1 .. 26 \cup {Backslash, 127, 255} -> [long |-> 1, stored |-> <<t[1]>>]
       [] OTHER -> [long |-> 0, stored |-> << >>]

ReadString(t) ==
  LET rest[n \in 0 .. Len(t)] ==     \* what the last n characters are read as
        LET u == SubSeq(t, Len(t) - n + 1, Len(t))
        IN IF n = 0 THEN LexicalError
           ELSE IF u[1] = Quote THEN << >>
           ELSE IF Lexeme(u).long = 0 THEN LexicalError
           ELSE LET more == rest[n - Lexeme(u).long]
                IN IF more = LexicalError THEN LexicalError ELSE Lexeme(u).stored \o more
  IN rest[Len(t)]

-----------------------------------------------------------------------------
(* Reals, in halves, that a double can hold, and the conversion of a long  *)
(* to a double, to the even neighbour when there are two.                  *)

Exact(h) == \E k \in 0 .. Bits : h % 2 ^ k = 0 /\ h \in -(2 ^ (k + Mantissa)) .. 2 ^ (k + Mantissa)
Doubles  == {h \in 4 * Min_long .. 4 * (Max_long + 1) : Exact(h)}

ToEven(n, unit) ==
  LET q == n \div unit  r == n % unit
  IN IF 2 * r < unit \/ (2 * r = unit /\ q % 2 = 0) THEN q * unit ELSE (q + 1) * unit

Nearest(h) == ToEven(h, Min({2 ^ k : k \in {j \in 0 .. Bits : h \in -(2 ^ (j + Mantissa)) .. 2 ^ (j + Mantissa)}}))
Double(n)  == Nearest(2 * n)

Truncated(h) == IF h >= 0 THEN h \div 2 ELSE -((-h) \div 2)     \* (long) r

sml_abs_int(n) == Fits(IF n < 0 THEN -n ELSE n, "Overflow")

sml_floor(h) ==
  IF h >= Nearest(Double(Max_long) + 2) \/ h < Double(Min_long) THEN Raise("Overflow")
  ELSE Fits(IF h < 0 /\ h < 2 * Truncated(h) THEN Truncated(h) - 1 ELSE Truncated(h), "Overflow")

sml_ceil(h) ==
  IF h > Double(Max_long) \/ (h < 0 /\ h <= Double(Min_long - 1)) THEN Raise("Overflow")
  ELSE Fits(IF h > 2 * Truncated(h) /\ h >= 0 THEN Truncated(h) + 1 ELSE Truncated(h), "Overflow")

sml_round(h) ==
  LET r == ToEven(h, 2)     \* rint
  IN IF r > Double(Max_long) \/ r < Double(Min_long) THEN Raise("Overflow") ELSE Gives(Val_long(Truncated(r)))

sml_trunc(h) ==
  IF h >= Double(Max_long + 1) \/ h <= Double(Min_long - 1) THEN Raise("Overflow")
  ELSE Gives(Val_long(Truncated(h)))

-----------------------------------------------------------------------------
(* What the texts mean, apart from the code.                               *)

(* The number of a C numeral, as a mantissa and an exponent of ten.        *)
Position(s, c) == Min({i \in DOMAIN s : s[i] = c} \cup {Len(s) + 1})
Decimal(s) == FoldLeft(LAMBDA n, c : IF IsDigit(c) THEN 10 * n + DigitOf(c) ELSE n, 0, s)
SignOf(s)  == IF s # << >> /\ s[1] = Minus THEN -1 ELSE 1
Meaning(s) ==
  LET e == Position(s, LowerE)  mantissa == SubSeq(s, 1, e - 1)  exponent == SubSeq(s, e + 1, Len(s))
  IN [m |-> SignOf(s) * Decimal(mantissa),
      e |-> SignOf(exponent) * Decimal(exponent) - Max({Len(mantissa) - Position(mantissa, Dot), 0})]
SameNumber(a, b) == IF a.e >= b.e THEN a.m * 10 ^ (a.e - b.e) = b.m ELSE a.m = b.m * 10 ^ (b.e - a.e)

(* An int that is printed is read back, and no text gives a wrong one.     *)
IntsRead == \A n \in Longs : sml_int_of_string(sml_string_of_int(n)) = [int |-> n]
NumeralsRead(texts) ==
  \A t \in texts :
    LET n == Decimal(t)
    IN /\ sml_int_of_string(t) = IF n \in Longs THEN [int |-> n] ELSE Raise("Fail")
       /\ sml_int_of_string(<<Tilde>> \o t) = IF -n \in Longs THEN [int |-> -n] ELSE Raise("Fail")
       /\ sml_word_of_dec(<<Zero, 119>> \o t)
            = IF n < 2 ^ (Bits - 1) THEN [int |-> Long_val(Val_long(n))] ELSE Raise("Fail")
WordsRead == \A n \in Longs :
  /\ sml_word_of_hex(sml_hexstring_of_word(n)) = [int |-> n]
  /\ n >= 0 => sml_int_of_hex(<<Zero, 120>> \o Digits(n, 16)) = [int |-> n]
  /\ n < 0  => sml_int_of_hex(<<Tilde, Zero, 120>> \o Digits(-n, 16)) = [int |-> n]

(* A real keeps its number, and its text is a real for the lexer.          *)
RealsRead(texts) ==
  \A t \in texts :
    LET s == string_of_float_aux(t)
    IN /\ {Dot, UpperE} \cap ToSet(s) # {} /\ {Plus, Minus, LowerE} \cap ToSet(s) = {}
       /\ SameNumber(Meaning(sml_float_of_string(s)), Meaning(t))

(* A literal is read back as the string, and fits the block for it.        *)
LiteralsRead(strings) ==
  \A s \in strings :
    LET literal == sml_makestring_of_string(s)
    IN /\ Len(literal) = MakestringLength(s)
       /\ ReadString(Tail(literal)) = s
       /\ Len(s) = 1 => sml_makestring_of_char(s[1]) = <<35>> \o literal

(* A conversion is the nearest int on its side, or raises when that is no  *)
(* int; but for two reals at the end of the ints when a double cannot tell *)
(* the ends of the ints: then ceil and trunc raise for the least int, and  *)
(* round gives the least int for the real above the greatest.              *)
Holds(result, n) == result = IF n \in Longs THEN [int |-> n] ELSE Raise("Overflow")
Blurred == Mantissa < Bits - 2
RealsConverted ==
  \A h \in Doubles :
    /\ Holds(sml_floor(h), h \div 2)
    /\ ~(Blurred /\ h = 2 * Min_long) => Holds(sml_ceil(h), -((-h) \div 2)) /\ Holds(sml_trunc(h), Truncated(h))
    /\ ~(Blurred /\ h = 2 * (Max_long + 1)) => Holds(sml_round(h), ToEven(h, 2) \div 2)
AbsExact == \A n \in Longs : Holds(sml_abs_int(n), IF n < 0 THEN -n ELSE n)
=============================================================================
