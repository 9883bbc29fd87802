-------------------------------- MODULE MCCode -------------------------------
(* Programs for Machine: each is a form of term with the integer it is     *)
(* about, so that every clause of the compiler and every instruction is    *)
(* met, with each outcome of a test, and with each depth of stack or size  *)
(* at which an instruction has another form.  And the operators that the   *)
(* instructions and the primitives compute with, on small sets of values.  *)
EXTENDS Machine

K(n)        == Lconst(Num(n))
A(t)        == Lconst(Atom(t))
V(n)        == Lvar(n)
P(prim, es) == Lprim(<<prim>>, es)
F(i, e)     == Lprim(<<"Pfield", i>>, <<e>>)
Put(i, e, v) == Lprim(<<"Psetfield", i>>, <<e, v>>)
Blk(t, es)  == Lprim(<<"Pmakeblock", t>>, es)
Ref(e)      == Blk(RefTag, <<e>>)
Get(g)      == Lprim(<<"Pget_global", g>>, << >>)
Set(g, e)   == Lprim(<<"Pset_global", g>>, <<e>>)
Cmp(t, a, b) == Lprim(<<"Ptest", <<"Pint_test", t>>>>, <<a, b>>)
CmpW(t, a, b) == Lprim(<<"Ptest", <<"Pword_test", t>>>>, <<a, b>>)
Raise1(n)   == P("Praise", <<Blk(0, <<K(n)>>)>>)
Let1(a, b)  == Llet(<<a>>, b)
Add(a, b)   == P("Psmladdint", <<a, b>>)
Seq3(a, b, c) == Lseq(a, Lseq(b, c))
Fns(n, e)   == FoldLeft(LAMBDA f, i : Lfn(f), e, [i \in 1 .. n |-> i])
Sum(es)     == FoldLeft(LAMBDA s, e : Add(s, e), K(0), es)

(* Loops over a reference that is a cell of the stack, and one that is not *)
(* since a function has it.                                                *)
Loop(n) == Let1(Ref(K(0)), Lseq(Lwhile(Cmp("LT", F(0, V(0)), K(n)), Put(0, V(0), Add(F(0, V(0)), K(1)))), F(0, V(0))))
LoopFn(n) ==
  Let1(Ref(K(0)),
    Let1(Lfn(Put(0, V(1), Add(F(0, V(1)), V(0)))),
      Lseq(Lwhile(Lorelse(Cmp("LT", F(0, V(1)), K(n)), Landalso(Cmp("EQ", F(0, V(1)), K(n)), Cmp("LE", K(2), K(n)))),
                  Lapply(V(0), <<K(2)>>)), F(0, V(1)))))

(* Functions.                                                              *)
Fact(n) == Lletrec(<<Lfn(Lif(Cmp("EQ", V(0), K(0)), K(1),
                              P("Psmlmulint", <<V(0), Lapply(V(1), <<P("Psmlsubint", <<V(0), K(1)>>)>>)>>)))>>,
                   Lapply(V(0), <<K(n)>>))
Even(n) ==
  Lletrec(<<Lfn(Lif(Cmp("EQ", V(0), K(0)), A(1), Lapply(V(1), <<P("Psmlsubint", <<V(0), K(1)>>)>>))),
            Lfn(Lif(Cmp("EQ", V(0), K(0)), A(0), Lapply(V(2), <<P("Psmlsubint", <<V(0), K(1)>>)>>)))>>,
          Lapply(V(1), <<K(n)>>))
(* n arguments, given k at a time.                                         *)
Weigh(n) == FoldLeft(LAMBDA s, i : Add(P("Psmlmulint", <<s, K(2)>>), V(i - 1)), K(1), [i \in 1 .. n |-> i])
Args(a, b) == [i \in 1 .. b - a + 1 |-> K(a + i)]
InTwo(n, k) ==
  Let1(Fns(n, Weigh(n)),
    Add(Lapply(Lapply(V(0), Args(1, k)), Args(k + 1, n)), K(1)))
AtOnce(n) == Let1(Fns(n, Weigh(n)), Add(Lapply(V(0), Args(1, n)), K(1)))
(* A call in the place of the result, of the function itself, of a global  *)
(* one, of an argument, with n arguments.                                  *)
TailSelf(n) ==
  Lletrec(<<Fns(n, Lif(Cmp("GT", V(0), K(9)), Weigh(n),
                   Lif(Cmp("GT", V(0), K(5)), Add(Lapply(V(n), [i \in 1 .. n |-> Add(V(0), K(4))]), K(1)),
                       Lapply(V(n), [i \in 1 .. n |-> Add(V(n - i), K(i))]))))>>,
          Lapply(V(0), Args(0, n - 1)))
TailGlobal(n) ==
  Seq3(Set(0, Fns(n, Weigh(n))),
       Set(1, Lfn(Lapply(Get(0), [i \in 1 .. n |-> V(0)]))),
       Add(Lapply(Get(1), <<K(3)>>), Lapply(Get(0), Args(1, n))))
TailArg(n) == Lapply(Lfn(Lapply(V(0), Args(1, n))), <<Fns(n, Weigh(n))>>)
(* A function returns to arguments it did not ask for.                     *)
Over(n) ==
  Let1(Lfn(Lif(Cmp("LT", V(0), K(2)), Lfn(Add(V(0), V(1))), Fns(2, Lapply(V(0), <<V(1)>>)))),
    IF n < 2 THEN Add(Lapply(V(0), <<K(n), K(7)>>), K(1))
    ELSE Lapply(V(0), <<K(n), K(7), Lfn(Add(V(0), K(4)))>>))
(* n values on the stack, and a function over all of them.                 *)
Deep(n) == Llet(Args(1, n), Lseq(Set(0, V(0)), Lif(Cmp("LT", V(n - 1), V(0)), V(n - 1), Get(0))))
Wide(n) ==
  Lapply(Fns(n, Lletrec(<<Lfn(Lif(Cmp("EQ", V(0), K(0)),
                                  Lseq(Set(0, V(n + 1)), Sum([i \in 1 .. n |-> V(i + 1)])),
                                  Lapply(V(1), <<P("Psmlsubint", <<V(0), K(1)>>)>>)))>>,
                         Add(Lapply(V(0), <<K(1)>>), Lapply(Lfn(Lif(Cmp("EQ", V(0), Sum([i \in 1 .. n |-> V(i + 1)])), K(0), V(2))), <<K(0)>>)))),
         Args(1, n))

(* Blocks of n fields, vectors of n elements.                              *)
Blocks(n) ==
  Let1(Blk(n, [i \in 1 .. n |-> Blk(1, <<K(i), K(10 * i)>>)]),
    Lseq(Put(n - 1, V(0), Blk(2, <<K(7), F(0, V(0))>>)),
         Add(Add(F(0, F(0, V(0))), F(0, F(1, F(n - 1, V(0))))), F(1, F(0, F(1, F(n - 1, V(0))))))))
Vectors(n) ==
  Llet(<<P("Pmakevector", <<K(n), K(5)>>), P("Pmakerefvector", <<K(n), K(6)>>)>>,
    Lif(Cmp("GT", P("Pvectlength", <<V(0)>>), K(0)),
        Seq3(P("Psetvectitem", <<V(1), K(n - 1), K(8)>>),
             P("Psetvectitem", <<V(0), K(0), V(1)>>),
             Blk(0, <<V(0), P("Pgetvectitem", <<V(1), K(0)>>)>>)),
        Blk(0, <<V(0), V(1)>>)))

(* Exceptions: raised at a depth of the stack and of calls, by raise or by *)
(* arithmetic, and handled or not.                                         *)
Overflows == P("Psmladdint", <<K(Half - 1), K(1)>>)
Raises(n) == Lif(Cmp("EQ", V(0), K(n)), P("Praise", <<Blk(3, <<V(0)>>)>>),
             Lif(Cmp("EQ", V(0), K(n + 1)), Overflows, P("Psmldivint", <<K(20), V(0)>>)))
Handled(n) ==
  Let1(Lfn(Raises(4)),
    Lseq(Set(0, Lhandle(Add(Lapply(V(0), <<K(n)>>), Llet(<<K(3), K(4)>>, Lapply(V(2), <<K(n)>>))), Blk(6, <<V(0)>>))),
         Add(K(2), Lhandle(Lapply(V(0), <<K(1)>>), K(8)))))
Escapes(n) ==
  Let1(Lfn(Raises(4)),
    Lseq(Lhandle(Lhandle(Lapply(V(0), <<K(n)>>), Lseq(Set(0, V(0)), P("Praise", <<V(0)>>))), Set(1, V(0))),
         Lapply(Lfn(Lapply(V(1), <<V(0)>>)), <<K(n)>>)))
HandleLoop(n) ==
  Let1(Ref(K(n)),
    Lseq(Lwhile(Cmp("NEQ", F(0, V(0)), K(0)),
           Lhandle(Lseq(Put(0, V(0), P("Psmlsubint", <<F(0, V(0)), K(1)>>)),
                        Lif(Cmp("EQ", F(0, V(0)), K(1)), Raise1(2), Lunspec)),
                   Set(0, V(0)))),
         Raise1(n)))

(* Matching: a case on ints, dense or sparse, a switch on tags, and what a *)
(* match that fails leads to.                                              *)
Clauses(keys) == [i \in DOMAIN keys |-> <<Num(keys[i]), K(10 * i)>>]
Keys == << <<0, 1, 2>>, <<5>>, <<3, 0, 9>>, <<0, 1, 2, 30, 31, 33, 90>>, <<-2, 100, 101, 200, 300>>, <<-70, -65, 126, 140>> >>
Case(k, n) == Add(Lstatichandle(Lcase(K(n), Clauses(Keys[k])), K(99)), K(1))
CaseTail(k, n) == Lapply(Lfn(Lstatichandle(Lcase(V(0), Clauses(Keys[k])), K(99))), <<K(n)>>)
CaseDeep(n) ==
  Lstatichandle(
    Llet(<<K(n), K(1)>>, Lstatichandle(Lcase(V(1), <<<<Num(1), Lif(Cmp("EQ", V(0), V(1)), K(50), Lstaticfail)>>,
                                                     <<Num(2), Let1(K(3), Lstaticfail)>>>>),
                                       Lif(Cmp("EQ", V(1), K(0)), K(60), Lstaticfail))),
    K(70))
Tag(n) == Lif(Cmp("LT", K(n), K(5)), A(n), Blk(n, <<K(n)>>))
SwitchOn(size, tags, n) ==
  Lstatichandle(Lswitch(size, Let1(K(n), Lif(Cmp("LT", V(0), K(5)), A(n), Blk(n, <<V(0)>>))),
                        [i \in DOMAIN tags |-> <<tags[i], K(10 + tags[i])>>]), K(99))
Tags == << <<2, <<0, 1>>>>, <<2, <<1>>>>, <<2, <<0>>>>, <<4, <<0, 1, 2, 3>>>>, <<7, <<1, 6, 3>>>>, <<12, <<2, 11>>>>,
           <<6, <<5>>>>, <<40, <<30, 1, 0, 2>>>> >>

(* Conditions, in the place of a value, of a test, of a result.            *)
B0 == <<A(0), A(1), Cmp("LT", V(0), K(1)), CmpW("GE", V(0), K(-1)), Lprim(<<"Ptest", <<"Peq_test">>>>, <<V(0), K(0)>>)>>
Both(a, b) == <<Landalso(a, b), Lorelse(a, b), P("Pnot", <<Landalso(a, b)>>), Lif(a, b, P("Pnot", <<b>>)),
                Lorelse(P("Pnot", <<a>>), b), Landalso(Lorelse(a, b), a), Lorelse(Landalso(b, a), b),
                Lif(Lorelse(a, b), a, b), Landalso(a, Lorelse(b, a))>>
Places(c) == <<Set(0, c), Lif(c, K(5), K(6)), Lapply(Lfn(Let1(V(0), c)), <<K(0)>>),
               Add(Lif(c, Lif(c, K(1), K(2)), K(3)), K(0)),
               Lapply(Lfn(Lif(c, K(1), V(0))), <<K(1)>>),
               Lstatichandle(Lif(c, Lstaticfail, K(7)), K(8)), Lstatichandle(Lif(c, K(7), Lstaticfail), K(8))>>
Condition(i, j, k, l) == Let1(K(0), Places(Both(B0[i], B0[j])[k])[l])

Tests_ ==
  [i \in 1 .. 6 |-> LET t == <<"EQ", "NEQ", "LT", "LE", "GT", "GE">>[i] IN
     Llet(<<K(-1), K(1)>>, Blk(0, <<Cmp(t, V(1), V(0)), CmpW(t, V(1), V(0)), Cmp(t, V(1), V(1)),
        Lif(Cmp(t, V(1), V(0)), K(1), K(2)), Lif(P("Pnot", <<CmpW(t, V(1), V(0))>>), K(1), K(2))>>))]

(* Constants, alone and after a push.                                      *)
Ks == <<3, 4, 127, 128, -1, 16383, 16384, -16384, -16385, 100000>>
Constant(n) == Lseq(Set(0, K(n)), Blk(0, <<K(n), K(n)>>))
Atoms(n) == Lseq(Set(0, A(n)), Blk(0, <<A(n), Lprim(<<"Patom", n>>, << >>)>>))

Ops == <<"Psmladdint", "Psmlsubint", "Psmlmulint", "Psmldivint", "Psmlmodint", "Psmlquotint", "Psmlremint",
         "Paddint", "Psubint", "Pmulint", "Pdivint", "Pmodint">>
Operate(i, n) == Lhandle(P(Ops[i], <<K(7), K(n - 2)>>), Blk(0, <<V(0)>>))

(* A term that is shared: the same code from two places.                   *)
SharedUse(n) ==
  Let1(K(n), Lstatichandle(
    Lcase(V(0), <<<<Num(0), Lshared(1)>>, <<Num(1), Lshared(1)>>, <<Num(2), Lstaticfail>>>>), Lshared(2)))
SafeShares == <<Add(V(0), K(40)), Lapply(Lfn(Add(V(0), V(1))), <<K(4)>>)>>

-----------------------------------------------------------------------------
Names ==
  UNION {{"Loop"} \X {0, 3}, {"LoopFn"} \X {0, 2}, {"Fact"} \X {0, 4}, {"Even"} \X {3, 4},
         {"InTwo"} \X (2 .. 6) \X (1 .. 5), {"TailSelf", "TailGlobal", "TailArg"} \X (1 .. 6),
         {"Over"} \X (1 .. 2), {"Deep"} \X {1, 7, 8, 10}, {"Wide"} \X {1, 6, 7, 9},
         {"Block"} \X (2 .. 7), {"Vectors"} \X (0 .. 3), {"Handled", "Escapes"} \X (0 .. 6),
         {"HandleLoop"} \X {0, 3}, {"CaseDeep"} \X (0 .. 3),
         {"Case"} \X (DOMAIN Keys) \X {-3, -2, 0, 1, 5, 9, 31, 32, 100, 300, -70, 140},
         {"CaseTail"} \X (DOMAIN Keys) \X {0, 5, 32, -80},
         {"Switch"} \X (DOMAIN Tags) \X {0, 1, 2, 3, 6, 11, 30},
         {"If"} \X (1 .. 5) \X (1 .. 5) \X (1 .. 9) \X (1 .. 7),
         {"Test"} \X (1 .. 6), {"Const"} \X (DOMAIN Ks), {"Atoms"} \X {0, 1, 9, 10},
         {"Op"} \X (DOMAIN Ops) \X (0 .. 4), {"Neg"} \X {0, 3}, {"Shared"} \X (0 .. 2)}

Term(x) ==
  LET n == x[2]
  IN CASE x[1] = "Loop"   -> Loop(n)       [] x[1] = "LoopFn"     -> LoopFn(n)
       [] x[1] = "Fact"   -> Fact(n)       [] x[1] = "Even"       -> Even(n)
       [] x[1] = "InTwo"  -> IF x[3] < n THEN InTwo(n, x[3]) ELSE AtOnce(n)
       [] x[1] = "TailSelf" -> TailSelf(n) [] x[1] = "TailGlobal" -> TailGlobal(n)
       [] x[1] = "TailArg" -> TailArg(n)   [] x[1] = "Over"       -> Over(n)
       [] x[1] = "Deep"   -> Deep(n)       [] x[1] = "Wide"       -> Wide(n)
       [] x[1] = "Block"  -> Blocks(n)     [] x[1] = "Vectors"    -> Vectors(n)
       [] x[1] = "Handled" -> Handled(n)   [] x[1] = "Escapes"    -> Escapes(n)
       [] x[1] = "HandleLoop" -> HandleLoop(n)
       [] x[1] = "CaseDeep" -> CaseDeep(n)
       [] x[1] = "Case"   -> Case(n, x[3]) [] x[1] = "CaseTail"   -> CaseTail(n, x[3])
       [] x[1] = "Switch" -> SwitchOn(Tags[n][1], Tags[n][2], IF x[3] >= Tags[n][1] THEN 1 ELSE x[3])
       [] x[1] = "If"     -> Condition(n, x[3], x[4], x[5])
       [] x[1] = "Test"   -> Tests_[n]     [] x[1] = "Const"      -> Constant(Ks[n])
       [] x[1] = "Atoms"  -> Atoms(n)      [] x[1] = "Op"         -> Operate(n, x[3])
       [] x[1] = "Neg"    -> P("Psmlnegint", <<K(n)>>)
       [] x[1] = "Shared" -> SharedUse(n)

(* let val r = ref 5 val y = case x of (1,1) => x | (1,_) => !r | (_,2) => !r | _ => 0 in g r; y end *)
SharedRef(x1, x2, e) ==
  Llet(<<K(x1), K(x2), Ref(K(5))>>,
    Llet(<<Lcase(V(2), <<<<Num(1), Lcase(V(1), <<<<Num(1), K(1)>>, <<Num(2), Lshared(1)>>>>)>>,
                         <<Num(2), Lshared(1)>>, <<Num(3), e>>>>)>>,
      Lseq(Set(0, V(1)), V(0))))
RefShares == <<F(0, V(0))>>
RefImages  == [x \in ({"SharedRef"} \X {1, 2} \X {1, 2}) \X BOOLEAN |-> Compiled(SharedRef(x[1][2], x[1][3], K(4)), x[2])]
RefResults == [x \in {"SharedRef"} \X {1, 2} \X {1, 2} |-> Eval(SharedRef(x[2], x[3], K(4)), << >>, [h |-> << >>, g |-> [i \in 0 .. NGlobals - 1 |-> Num(0)]])]

TheImages  == [x \in Names \X BOOLEAN |-> Compiled(Term(x[1]), x[2])]
TheResults == [x \in Names |-> Eval(Term(x), << >>, [h |-> << >>, g |-> [i \in 0 .. NGlobals - 1 |-> Num(0)]])]
-----------------------------------------------------------------------------
(* The machine without a program.                                          *)
NoProgram ==
  /\ halted = "idle" /\ form = "cells" /\ linked = FALSE /\ prog = << >> /\ code = << >>
  /\ pc = 0 /\ accu = Num(0) /\ stack = << >> /\ env = null_env /\ extra_args = 0 /\ trapsp = 0
  /\ heap = << >> /\ global_data = << >>

CodeSpec == (Init \/ NoProgram) /\ [][halted # "idle" /\ Next]_vars

(* The instructions on a machine whose ints have 7 bits.                   *)
W == INSTANCE Arith WITH Chunk <- 8

(* On every pair of ints the arithmetic instructions compute what the      *)
(* Basis Library promises, or raise Overflow or Div, except for the one    *)
(* product that Arith.tla names.                                           *)
ArithmeticExact ==
  halted = "idle" =>
    /\ \A x, y \in W!Ints : W!SignedExact(x, y) /\ (W!MulExact(x, y) \/ W!MulCorner(x, y))
    /\ \A x, y \in W!Words : W!UnsignedExact(x, y)

Prims == INSTANCE MCPrims

(* The primitives on numbers and texts, and those on pairs of values, keep *)
(* the promises that Numerals and Structural state.                        *)
ConversionsExact == halted = "idle" => Prims!ConversionsExact
EqualityAgrees   == halted = "idle" => Prims!EqualityAgrees
=============================================================================
