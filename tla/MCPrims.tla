------------------------------ MODULE MCPrims ------------------------------
(***************************************************************************)
(* The primitives on numbers, texts and values, each on a set of inputs    *)
(* that reaches the ends of its ranges: longs of eight bits, doubles with  *)
(* fewer bits than an int and with more.                                   *)
(***************************************************************************)
EXTENDS Values, Integers, Sequences

Narrow == INSTANCE Numerals WITH Bits <- 8, Mantissa <- 5     \* as on 64-bit machines
Wide   == INSTANCE Numerals WITH Bits <- 8, Mantissa <- 8     \* as on 32-bit machines

(* Digits; the characters that are escaped, shown, or neither, and those   *)
(* an escape could swallow.                                                *)
DigitTexts == UNION {[1 .. n -> 48 .. 57] : n \in 0 .. 3}
Awkward    == {34, 92, 7, 10, 13, 0, 26, 27, 31, 32, 48, 97, 117, 127, 128, 254, 255}
Literals   == UNION {[1 .. n -> Awkward] : n \in 0 .. 2} \cup {<<c>> : c \in 0 .. 255}

(* What printf gives for reals: a sign, a mantissa, an exponent.           *)
Signs     == {<< >>, <<45>>}
Mantissas == {<<48>>, <<53>>, <<49, 46, 50, 53>>, <<49, 48, 50>>, <<48, 46, 48, 48, 48, 49>>}
Exponents == {<< >>} \cup {<<101>> \o e : e \in {<<43, 49, 50>>, <<45, 48, 53>>, <<45, 49, 48>>, <<43, 49, 48, 48>>}}
RealTexts == {s \o m \o e : s \in Signs, m \in Mantissas, e \in Exponents}

(* Texts are read as the number they show or refused, what is printed is   *)
(* read back, and a conversion of a real is the int it promises or raises. *)
ConversionsExact ==
  /\ Narrow!IntsRead /\ Narrow!WordsRead /\ Narrow!NumeralsRead(DigitTexts)
  /\ Narrow!RealsRead(RealTexts) /\ Narrow!LiteralsRead(Literals)
  /\ Narrow!AbsExact /\ Narrow!RealsConverted /\ Wide!RealsConverted

-----------------------------------------------------------------------------
S == INSTANCE Structural WITH Weights <- {<<10, 20>>, <<2, 10>>, <<10, 3>>}

Leaf(t, fs) == [tag |-> t, fields |-> fs]
Leaves ==
  {Leaf("string", s) : s \in {<<1, 2>>, <<1, 2, 1, 1, 2, 3, 4>>, <<1, 2, 1, 1, 2, 4, 4>>}}
  \cup {Leaf("double", <<d>>) : d \in {0, 1, S!MinusZero}}
  \cup {Leaf("ref", <<v>>) : v \in {IntVal(0), Ptr(1)}}
  \cup {Leaf("closure", <<IntVal(0)>>), Leaf("abstract", <<0>>), Leaf("second", <<IntVal(1)>>)}
Words  == {IntVal(0), IntVal(1), Ptr(3), Ptr(4)}
Tuples == {<<a, b>> : a, b \in Words}
Graphs == {<<Block(f), Leaf(t, g), x, y>> :
             f \in Tuples, t \in {"block", "second"}, g \in Tuples \cup {<<IntVal(0)>>},
             x \in Leaves, y \in {Leaf("double", <<0>>), Leaf("ref", <<Ptr(1)>>)}}
Compared == {<<Ptr(1), Ptr(2)>>, <<Ptr(1), Ptr(3)>>, <<Ptr(2), Ptr(3)>>, <<Ptr(3), Ptr(4)>>, <<Ptr(1), Atom(0)>>}

(* Equality is that of trees with references, hashing respects it, and     *)
(* comparison is an order that agrees with it.                             *)
EqualityAgrees ==
  \A h \in Graphs : \A c \in Compared :
    S!EqualIsTree(h, c[1], c[2]) /\ S!EqualHashes(h, c[1], c[2]) /\ S!CompareIsOrder(h, c[1], c[2])
=============================================================================
