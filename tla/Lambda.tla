------------------------------- MODULE Lambda ------------------------------
(***************************************************************************)
(* The intermediate language of the compiler (src/compiler/Lambda.sml,     *)
(* Prim.sml) and what a term of it means.                                  *)
(*                                                                         *)
(* A term is a tuple that starts with the name of its constructor;         *)
(* variables are de Bruijn indices.  Floats and strings are left out.  A   *)
(* shared term is known by a number: Share gives its body.                 *)
(***************************************************************************)
EXTENDS Arith, SequencesExt

CONSTANT Share       \* the bodies of the shared terms

Lvar(n)                    == <<"Lvar", n>>
Lconst(c)                  == <<"Lconst", c>>
Lapply(body, args)         == <<"Lapply", body, args>>
Lfn(body)                  == <<"Lfn", body>>
Llet(args, body)           == <<"Llet", args, body>>
Lletrec(args, body)        == <<"Lletrec", args, body>>
Lprim(p, args)             == <<"Lprim", p, args>>
Lcase(arg, clauses)        == <<"Lcase", arg, clauses>>
Lswitch(size, arg, clauses) == <<"Lswitch", size, arg, clauses>>
Lstaticfail                == <<"Lstaticfail">>
Lstatichandle(a, b)        == <<"Lstatichandle", a, b>>
Lhandle(body, handler)     == <<"Lhandle", body, handler>>
Lif(cond, ifso, ifnot)     == <<"Lif", cond, ifso, ifnot>>
Lseq(a, b)                 == <<"Lseq", a, b>>
Lwhile(cond, body)         == <<"Lwhile", cond, body>>
Landalso(a, b)             == <<"Landalso", a, b>>
Lorelse(a, b)              == <<"Lorelse", a, b>>
Lunspec                    == <<"Lunspec">>
Lshared(id)                == <<"Lshared", id>>
Lassign(n, e)              == <<"Lassign", n, e>>

(* Values: tagged ints, atoms, and blocks of the store h.  A function that *)
(* is bound by Lletrec stands for all the functions bound with it.         *)
Atom(t)     == <<"atom", t>>
Unit        == Atom(0)
Bool(b)     == Atom(IF b THEN 1 ELSE 0)
Num(n)      == IntVal(Val_long(n))
ExnVal(e)   == <<"exn", e>>

RefTag     == 250    \* Reference_tag
ClosureTag == 249    \* Closure_tag

(* The value of arithmetic and tests on values; Raise for an exception.    *)
ArithPrim(p, a) ==
  LET x(i) == a[i][2]
  IN CASE p = "Psmlnegint"  -> SMLNEGINT(x(1))
       [] p = "Psmladdint"  -> SMLADDINT(x(1), x(2))
       [] p = "Psmlsubint"  -> SMLSUBINT(x(1), x(2))
       [] p = "Psmlmulint"  -> SMLMULINT(x(1), x(2))
       [] p = "Psmldivint"  -> SMLDIVINT(x(1), x(2))
       [] p = "Psmlmodint"  -> SMLMODINT(x(1), x(2))
       [] p = "Psmlquotint" -> SMLQUOTINT(x(1), x(2))
       [] p = "Psmlremint"  -> SMLREMINT(x(1), x(2))
       [] p = "Paddint"     -> ADDINT(x(1), x(2))
       [] p = "Psubint"     -> SUBINT(x(1), x(2))
       [] p = "Pmulint"     -> MULINT(x(1), x(2))
       [] p = "Pdivint"     -> DIVINT(x(1), x(2))
       [] p = "Pmodint"     -> MODINT(x(1), x(2))
Arithmetic == {"Psmlnegint", "Psmladdint", "Psmlsubint", "Psmlmulint", "Psmldivint",
  "Psmlmodint", "Psmlquotint", "Psmlremint", "Paddint", "Psubint", "Pmulint", "Pdivint", "Pmodint"}

-----------------------------------------------------------------------------
(* Evaluation.  The result of a term has a kind: a value, an exception, or *)
(* the failure of a static match, and the store and globals it leaves.     *)

Res(k, v, s)   == [k |-> k, v |-> v, s |-> s]
Val(v, s)      == Res("val", v, s)
Exn(v, s)      == Res("exn", v, s)
NewBlock(tag, fld, s) ==
  Val(<<"blk", Len(s.h) + 1>>, [s EXCEPT !.h = Append(@, [tag |-> tag, fld |-> fld])])

Prim(p, a, s) ==
  LET blk(v) == s.h[v[2]]
      Put(v, i, w) == Val(Unit, [s EXCEPT !.h[v[2]].fld[i] = w])
  IN CASE p[1] \in Arithmetic ->
            LET r == ArithPrim(p[1], a)
            IN IF r[1] = "raise" THEN Exn(ExnVal(r[2]), s) ELSE Val(r, s)
       [] p[1] = "Pfield"      -> Val(blk(a[1]).fld[p[2] + 1], s)
       [] p[1] = "Psetfield"   -> Put(a[1], p[2] + 1, a[2])
       [] p[1] = "Pmakeblock"  -> NewBlock(p[2], a, s)
       [] p[1] = "Praise"      -> Exn(a[1], s)
       [] p[1] = "Pnot"        -> Val(Bool(a[1] = Atom(0)), s)
       [] p[1] = "Ptest"       -> Val(Bool(IF p[2][1] = "Pint_test"
                                           THEN Test(p[2][2], a[1][2], a[2][2])
                                           ELSE IF p[2][1] = "Pword_test"
                                           THEN UnsignedTest(p[2][2], a[1][2], a[2][2])
                                           ELSE (p[2][1] = "Peq_test") <=> a[1] = a[2]), s)
       [] p[1] = "Pget_global" -> Val(s.g[p[2]], s)
       [] p[1] = "Pset_global" -> Val(Unit, [s EXCEPT !.g[p[2]] = a[1]])
       [] p[1] = "Patom"       -> Val(Atom(p[2]), s)
       [] p[1] = "Pidentity"   -> Val(a[1], s)
       [] p[1] = "Pvectlength" -> Val(Num(Len(IF a[1][1] = "atom" THEN << >> ELSE blk(a[1]).fld)), s)
       [] p[1] = "Pgetvectitem" -> Val(blk(a[1]).fld[Long_val(a[2][2]) + 1], s)
       [] p[1] = "Psetvectitem" -> Put(a[1], Long_val(a[2][2]) + 1, a[3])
       [] p[1] \in {"Pmakevector", "Pmakerefvector"} ->
            LET n   == Long_val(a[1][2])
                tag == IF p[1] = "Pmakevector" THEN 0 ELSE RefTag
            IN IF n = 0 THEN Val(Atom(tag), s) ELSE NewBlock(tag, [i \in 1 .. n |-> a[2]], s)

(* The tag a switch goes by.                                               *)
TagOf(v, s) == IF v[1] = "atom" THEN v[2] ELSE s.h[v[2]].tag

RECURSIVE Eval(_, _, _), Apply(_, _, _), EvalLR(_, _, _, _), Select(_, _, _, _)

(* The terms es one after the other, then k of their values.               *)
EvalLR(es, vs, env, s) ==
  IF es = << >> THEN Val(vs, s)
  ELSE LET r == Eval(es[1], env, s)
       IN IF r.k # "val" THEN r ELSE EvalLR(Tail(es), Append(vs, r.v), env, r.s)

Apply(f, args, s) ==
  IF args = << >> THEN Val(f, s)
  ELSE LET fn  == IF f[1] = "rec" THEN f[3][f[2]] ELSE f[2]
           env == IF f[1] = "rec"
                  THEN [i \in 1 .. Len(f[3]) |-> <<"rec", Len(f[3]) + 1 - i, f[3], f[4]>>] \o f[4]
                  ELSE f[3]
           r   == Eval(fn, <<args[1]>> \o env, s)
       IN IF r.k # "val" THEN r ELSE Apply(r.v, Tail(args), r.s)

(* The first clause whose key is key; a static failure if there is none.   *)
Select(key, clauses, env, s) ==
  LET fits == {i \in DOMAIN clauses : clauses[i][1] = key}
  IN IF fits = {} THEN Res("fail", Unit, s)
     ELSE Eval(clauses[CHOOSE i \in fits : \A j \in fits : i <= j][2], env, s)

(* Arguments of functions are evaluated from right to left, then the       *)
(* function; those of primitives from left to right.                       *)
Eval(e, env, s) ==
  LET Then(r, k(_, _)) == IF r.k = "val" THEN k(r.v, r.s) ELSE r
  IN CASE e[1] = "Lvar"    -> Val(env[e[2] + 1], s)
       [] e[1] = "Lconst"  -> Val(e[2], s)
       [] e[1] = "Lfn"     -> Val(<<"fn", e[2], env>>, s)
       [] e[1] = "Lapply"  ->
            Then(EvalLR(Reverse(e[3]), << >>, env, s),
                 LAMBDA vs, t : Then(Eval(e[2], env, t),
                                     LAMBDA f, u : Apply(f, Reverse(vs), u)))
       [] e[1] = "Llet"    ->
            IF e[2] = << >> THEN Eval(e[3], env, s)
            ELSE Then(Eval(e[2][1], env, s),
                      LAMBDA v, t : Eval(Llet(Tail(e[2]), e[3]), <<v>> \o env, t))
       [] e[1] = "Lletrec" ->
            LET n   == Len(e[2])
                fns == [i \in 1 .. n |-> e[2][i][2]]
            IN Eval(e[3], [i \in 1 .. n |-> <<"rec", n + 1 - i, fns, env>>] \o env, s)
       [] e[1] = "Lprim"   -> Then(EvalLR(e[3], << >>, env, s), LAMBDA vs, t : Prim(e[2], vs, t))
       [] e[1] = "Lcase"   -> Then(Eval(e[2], env, s), LAMBDA v, t : Select(v, e[3], env, t))
       [] e[1] = "Lswitch" -> Then(Eval(e[3], env, s), LAMBDA v, t : Select(TagOf(v, t), e[4], env, t))
       [] e[1] = "Lstaticfail"   -> Res("fail", Unit, s)
       [] e[1] = "Lstatichandle" ->
            LET r == Eval(e[2], env, s) IN IF r.k = "fail" THEN Eval(e[3], env, r.s) ELSE r
       [] e[1] = "Lhandle" ->
            LET r == Eval(e[2], env, s)
            IN IF r.k = "exn" THEN Eval(e[3], <<r.v>> \o env, r.s) ELSE r
       [] e[1] = "Lif"     ->
            Then(Eval(e[2], env, s), LAMBDA v, t : Eval(IF v = Bool(FALSE) THEN e[4] ELSE e[3], env, t))
       [] e[1] = "Lseq"    -> Then(Eval(e[2], env, s), LAMBDA v, t : Eval(e[3], env, t))
       [] e[1] = "Lwhile"  ->
            Then(Eval(e[2], env, s),
                 LAMBDA v, t : IF v = Bool(FALSE) THEN Val(Unit, t)
                               ELSE Then(Eval(e[3], env, t), LAMBDA w, u : Eval(e, env, u)))
       [] e[1] = "Landalso" ->
            Then(Eval(e[2], env, s), LAMBDA v, t : IF v = Bool(FALSE) THEN Val(v, t) ELSE Eval(e[3], env, t))
       [] e[1] = "Lorelse" ->
            Then(Eval(e[2], env, s), LAMBDA v, t : IF v = Bool(FALSE) THEN Eval(e[3], env, t) ELSE Val(v, t))
       [] e[1] = "Lunspec" -> Val(Unit, s)
       [] e[1] = "Lshared" -> Eval(Share[e[2]], env, s)

(* What can be observed of a value of the store h.                         *)
RECURSIVE Observed(_, _)
Observed(v, h) ==
  IF v[1] = "blk"
  THEN IF h[v[2]].tag = ClosureTag THEN <<"fn">>
       ELSE <<"blk", h[v[2]].tag, [i \in DOMAIN h[v[2]].fld |-> Observed(h[v[2]].fld[i], h)]>>
  ELSE IF v[1] \in {"fn", "rec"} THEN <<"fn">> ELSE v
=============================================================================
