----------------------------- MODULE Structural ----------------------------
(***************************************************************************)
(* Equality, comparison and hashing of values (src/runtime/mosml.c,        *)
(* compare.c, hash.c) on a graph of blocks: a sequence of blocks, in which *)
(* only references close cycles.  The words are those of Values.           *)
(*                                                                         *)
(* A double is a small number or MinusZero; NaN is left out.  The hash is  *)
(* the sequence of the numbers combined, in order and with their weights,  *)
(* not the polynomial in them.                                             *)
(***************************************************************************)
EXTENDS Values, Integers, SequencesExt, FiniteSetsExt

CONSTANTS Weights     \* pairs <<hash_univ_count, hash_univ_limit>>

MinusZero == 99          \* stands for ~0.0
IsBlock(v) == v.k = "ptr"

(* Tag_val, in the order of the numbers; atoms carry theirs.               *)
TagNumber == [block |-> 0, second |-> 1, closure |-> 249, ref |-> 250, abstract |-> 252, string |-> 253, double |-> 254]
TagOf(h, v)  == IF IsBlock(v) THEN TagNumber[h[v.n].tag] ELSE v.n
Contents(h, v) == IF IsBlock(v) THEN h[v.n].fields ELSE << >>

Functional == 249
Reference  == 250
Abstract   == 252
StringTag  == 253
DoubleTag  == 254

Number(d) == IF d = MinusZero THEN 0 ELSE d
(* As numbers.  A mutant: as bytes.                                        *)
EqualBytes(f, g)   == f = g
EqualDoubles(f, g) == Number(f[1]) = Number(g[1])

Invalid == 2                \* invalid_argument, next to the answers 0 and 1

-----------------------------------------------------------------------------
(* sml_equal: fields are compared from the left, until two are not equal   *)
(* or an exception is raised.                                              *)
FirstNot(neutral, answers) ==
  LET i == SelectInSeq(answers, LAMBDA a : a # neutral) IN IF i = 0 THEN neutral ELSE answers[i]

RECURSIVE sml_equal(_, _, _)
sml_equal(h, v, w) ==
  LET f == Contents(h, v)  g == Contents(h, w)  tag == TagOf(h, v)
  IN IF v = w THEN 1
     ELSE IF ~IsBlock(v) \/ ~IsBlock(w) THEN 0
     ELSE IF tag # TagOf(h, w) THEN 0
     ELSE CASE tag = StringTag -> IF f = g THEN 1 ELSE 0
            [] tag = DoubleTag -> IF EqualDoubles(f, g) THEN 1 ELSE 0
            [] tag \in {Reference, Abstract} -> 0
            [] tag = Functional -> Invalid
            [] OTHER -> IF Len(f) # Len(g) THEN 0
                        ELSE FirstNot(1, [i \in DOMAIN f |-> sml_equal(h, f[i], g[i])])

-----------------------------------------------------------------------------
(* compare_val: the sign of the answer, or Invalid.  It reads through      *)
(* references.                                                             *)
Sign(n) == IF n < 0 THEN -1 ELSE IF n > 0 THEN 1 ELSE 0

CompareStrings(f, g) ==
  LET n == Min({Len(f), Len(g)})
      i == SelectInSubSeq([k \in 1 .. n |-> f[k] - g[k]], 1, n, LAMBDA d : d # 0)
  IN IF i = 0 THEN Sign(Len(f) - Len(g)) ELSE Sign(f[i] - g[i])

(* No well typed value is an int here and a block there.                   *)
RECURSIVE compare_val(_, _, _)
compare_val(h, v, w) ==
  LET f == Contents(h, v)  g == Contents(h, w)  tag == TagOf(h, v)
  IN IF v = w THEN 0
     ELSE IF v.k = "int" \/ w.k = "int" THEN Sign(v.n - w.n)
     ELSE IF tag # TagOf(h, w) THEN Sign(tag - TagOf(h, w))
     ELSE CASE tag = StringTag -> CompareStrings(f, g)
            [] tag = DoubleTag -> Sign(Number(f[1]) - Number(g[1]))
            [] tag \in {Abstract, Functional} -> Invalid
            [] OTHER -> IF Len(f) # Len(g) THEN Sign(Len(f) - Len(g))
                        ELSE FirstNot(0, [i \in DOMAIN f |-> compare_val(h, f[i], g[i])])

-----------------------------------------------------------------------------
(* hash_univ_param and hash_univ_safe_param.                               *)

Large(n) == <<"Combine", n>>
Small(n) == <<"Combine_small", n>>

(* The characters of a string: all up to Short, and then, of those beyond, *)
(* the first, the second, the fourth...                                    *)
Short == 4     \* 128 in the code
HashedPart(s) ==
  LET beyond == {i \in 1 .. Len(s) : i + Short - 1 < Len(s) /\ \E k \in 0 .. Len(s) : i = 2 ^ k}
  IN SubSeq(s, 1, Min({Len(s), Short})) \o [k \in 1 .. Cardinality(beyond) |-> s[Short + 2 ^ (k - 1)]]

Hashed(st, new) == [st EXCEPT !.accu = Append(@, new), !.count = @ - 1]


RECURSIVE hash_aux(_, _, _)
hash_aux(h, v, st0) ==
  LET st  == [st0 EXCEPT !.limit = @ - 1]
      tag == TagOf(h, v)
      f   == Contents(h, v)
      Into(new) == Hashed(st, new)
      FieldOf(w, s) == hash_aux(h, w, s)     \* from the last field to the first
  IN IF st0.fatal THEN st0
     ELSE IF st.count < 0 \/ st.limit < 0 THEN [st EXCEPT !.fatal = st.safe]
     ELSE IF v.k = "int" THEN Into(Large(v.n))
     ELSE IF v.k = "atom" THEN Into(Small(v.n))
     ELSE CASE tag = StringTag -> Into(<<"characters", HashedPart(f)>>)
            [] tag = DoubleTag -> Into(<<"bytes", f>>)
            [] tag = Abstract  -> st
            [] tag = Reference -> IF st.safe THEN [st EXCEPT !.fatal = TRUE] ELSE Into(Small(tag))
            [] OTHER -> FoldRight(FieldOf, f, Into(Small(tag)))

hash(h, v, weights, safe) ==
  LET st == hash_aux(h, v, [accu |-> << >>, count |-> weights[1], limit |-> weights[2], safe |-> safe, fatal |-> FALSE])
  IN IF st.fatal THEN << >> ELSE st.accu

-----------------------------------------------------------------------------
(* What is reached from a value without going through a reference.         *)
RECURSIVE Inside(_, _)
Inside(h, v) ==
  {v} \cup (IF IsBlock(v) /\ TagOf(h, v) \in {0, 1} THEN UNION {Inside(h, w) : w \in ToSet(Contents(h, v))} ELSE {})

Has(h, v, tags) == \E w \in Inside(h, v) : IsBlock(w) /\ TagOf(h, w) \in tags
HasMinusZero(h, v) == \E w \in Inside(h, v) : IsBlock(w) /\ TagOf(h, w) = DoubleTag /\ Contents(h, w) = <<MinusZero>>

(* The tree a value stands for; references, and what has no equality, are  *)
(* the blocks they are.                                                    *)
RECURSIVE Tree(_, _)
Tree(h, v) ==
  LET tag == TagOf(h, v)
  IN IF ~IsBlock(v) THEN <<v.k, v.n>>
     ELSE IF tag \in {Reference, Abstract, Functional} THEN <<"itself", v.n>>
     ELSE IF tag = DoubleTag THEN <<"double", Number(Contents(h, v)[1])>>
     ELSE IF tag = StringTag THEN <<"string", Contents(h, v)>>
     ELSE <<"block", tag, [i \in DOMAIN Contents(h, v) |-> Tree(h, Contents(h, v)[i])]>>

(* Two values are equal if and only if they stand for the same tree;       *)
(* equality is symmetric, its exception too.                               *)
EqualIsTree(h, v, w) ==
  /\ sml_equal(h, v, w) # Invalid => (sml_equal(h, v, w) = 1) = (Tree(h, v) = Tree(h, w))
  /\ sml_equal(h, w, v) = sml_equal(h, v, w)
  /\ sml_equal(h, v, w) = Invalid => Has(h, v, {Functional}) /\ Has(h, w, {Functional})

(* Equal values have equal hashes, whatever the weights, or both are       *)
(* refused: but for reals that are 0 and ~0.                               *)
EqualHashes(h, v, w) ==
  sml_equal(h, v, w) = 1 /\ ~HasMinusZero(h, v) /\ ~HasMinusZero(h, w) =>
    \A weights \in Weights, safe \in BOOLEAN : hash(h, v, weights, safe) = hash(h, w, weights, safe)

(* The order turns round with its arguments, and its 0 is equality where   *)
(* there is no reference.                                                  *)
CompareIsOrder(h, v, w) ==
  /\ compare_val(h, v, w) = Invalid <=> compare_val(h, w, v) = Invalid
  /\ compare_val(h, v, w) # Invalid => compare_val(h, w, v) = -compare_val(h, v, w)
  /\ sml_equal(h, v, w) = 1 => compare_val(h, v, w) \in {0, Invalid}
  /\ compare_val(h, v, w) = 0 /\ ~Has(h, v, {Reference}) => sml_equal(h, v, w) = 1
=============================================================================
