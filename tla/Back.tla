-------------------------------- MODULE Back --------------------------------
(***************************************************************************)
(* The second half of the back end (src/compiler/Back.sml): instructions   *)
(* from lifted terms.  Code is generated from its end: a term is compiled  *)
(* in front of its continuation.                                           *)
(*                                                                         *)
(* The state is a record: c, the code so far; n, the last label; fv and    *)
(* va, the places of the free identifiers in the closure and of the others *)
(* on the stack; body and lbl, the terms and labels of the shared terms.   *)
(***************************************************************************)
EXTENDS Lifting

MaxIds == 40     \* bound: identifiers in the initialization code

Emit(i, r)   == [r EXCEPT !.c = <<i>> \o @]
Starts(c, k) == c # << >> /\ c[1][1] = k
StartsWithReturn(c) == Starts(c, "Klabel") /\ Starts(Tail(c), "Kreturn")

isReturn(c) == Starts(c, "Kreturn") \/ StartsWithReturn(c)

(* The code with a label in front of it.                                   *)
labelCode(r) ==
  IF Starts(r.c, "Kbranch") \/ Starts(r.c, "Klabel") THEN [lbl |-> r.c[1][2], r |-> r]
  ELSE [lbl |-> r.n + 1, r |-> Emit(<<"Klabel", r.n + 1>>, [r EXCEPT !.n = @ + 1])]

(* An instruction that leads to the code.                                  *)
makeBranch(r) ==
  IF Starts(r.c, "Kreturn") \/ Starts(r.c, "Kbranch") \/ Starts(r.c, "Kraise")
  THEN [br |-> r.c[1], r |-> r]
  ELSE IF StartsWithReturn(r.c) THEN [br |-> r.c[2], r |-> r]
  ELSE LET l == labelCode(r) IN [br |-> <<"Kbranch", l.lbl>>, r |-> l.r]

(* The code from the next place that can be reached otherwise.             *)
discardDeadCode(r) ==
  LET live == {i \in DOMAIN r.c : r.c[i][1] \in {"Klabel", "Krestart", "Kset_global"}}
  IN [r EXCEPT !.c = IF live = {} THEN << >> ELSE SubSeq(@, Min(live), Len(@))]

RECURSIVE addPop(_, _)
addPop(n, r) ==
  LET c == r.c
  IN IF n = 0 \/ Starts(c, "Kraise") THEN r
     ELSE IF Starts(c, "Kpop") THEN addPop(n + c[1][2], [r EXCEPT !.c = Tail(@)])
     ELSE IF Starts(c, "Kreturn") THEN [r EXCEPT !.c[1] = <<"Kreturn", n + @[2]>>]
     ELSE IF StartsWithReturn(c) THEN Emit(<<"Kreturn", n + c[2][2]>>, r)
     ELSE Emit(<<"Kpop", n>>, r)

(* Where an identifier is, when the stack is sz deep.                      *)
findEnv(r, sz, id) ==
  IF id < 0 THEN <<"Kenvacc", (CHOOSE i \in DOMAIN r.fv : r.fv[i] = id) - 1>>
  ELSE <<"Kaccess", sz - r.va[id]>>
findStk(r, sz, id) == <<"Kassign", sz - r.va[id]>>
bindEnv(r, id, z)  == [r EXCEPT !.va[id] = z]

(* Jumps through a table that all lead to one place.                       *)
add_SwitchTable(table, r) ==
  IF \E i \in DOMAIN table : table[i] # table[1] THEN Emit(<<"Kswitch", table>>, r)
  ELSE IF r.c # << >> /\ r.c[1] = <<"Klabel", table[1]>> THEN r
  ELSE Emit(<<"Kbranch", table[1]>>, discardDeadCode(r))

-----------------------------------------------------------------------------
(* compileNBranch: a balanced tree of segments of keys, each dense enough. *)

DTfail == <<"DTfail">>
Sorted(clauses) == SortSeq(clauses, LAMBDA a, b : a[1] <= b[1])

Dense(keys, start, stop) ==
  /\ keys[stop] - keys[start] < 255
  /\ keys[stop] - keys[start] <= 4 * (stop - start)

extractAct(cs, start, stop) ==
  [k \in 1 .. cs[stop][1] - cs[start][1] + 1 |->
     LET at == {i \in start .. stop : cs[i][1] = cs[start][1] + k - 1}
     IN IF at = {} THEN Lstaticfail ELSE cs[CHOOSE i \in at : TRUE][2]]

RECURSIVE partition(_, _), make_tree(_, _, _)
partition(cs, start) ==
  IF start > Len(cs) THEN << >>
  ELSE LET keys == [i \in DOMAIN cs |-> cs[i][1]]
           stop == Max({i \in start .. Len(cs) : Dense(keys, start, i)})
       IN <<[low |-> keys[start], act |-> extractAct(cs, start, stop), high |-> keys[stop]]>>
          \o partition(cs, stop + 1)

make_tree(part, start, stop) ==
  LET middle == (start + stop - 2) \div 2 + 1     \* counted from 1
  IN IF start > stop THEN DTfail
     ELSE <<"DTinterval", make_tree(part, start, middle - 1), part[middle],
            make_tree(part, middle + 1, stop)>>

compileNBranch(clauses) ==
  LET part == partition(Sorted(clauses), 1) IN make_tree(part, 1, Len(part))

-----------------------------------------------------------------------------
(* sf is where a static failure leads: a label and the depth of the stack. *)

invert(t) ==
  LET other == [EQ |-> "NEQ", NEQ |-> "EQ", LT |-> "GE", LE |-> "GT", GT |-> "LE", GE |-> "LT"]
  IN CASE t[1] = "Peq_test"   -> <<"Pnoteq_test">>
       [] t[1] = "Pnoteq_test" -> <<"Peq_test">>
       [] OTHER               -> <<t[1], other[t[2]]>>

RECURSIVE compexp(_, _, _, _, _), compExpList(_, _, _, _, _), compExpListLR(_, _, _, _, _),
          complet(_, _, _, _, _, _), initarg(_, _, _, _), comparg(_, _, _, _, _, _),
          comp_dec(_, _, _, _, _, _), comp_cases(_, _, _, _, _, _, _), comp_case(_, _, _, _, _, _, _)

(* sz is the depth of the stack before the first of es is pushed.          *)
compExpList(sz, dp, es, sf, r) ==
  IF es = << >> THEN r
  ELSE IF Len(es) = 1 THEN compexp(sz, dp, es[1], sf, r)
  ELSE compExpList(sz, dp, Tail(es), sf,
         Emit(<<"Kpush">>, compexp(sz + Len(es) - 1, dp, es[1], sf, r)))

compExpListLR(sz, dp, es, sf, r) ==
  IF es = << >> THEN r
  ELSE IF Len(es) = 1 THEN compexp(sz, dp, es[1], sf, r)
  ELSE compexp(sz, dp, es[1], sf, Emit(<<"Kpush">>, compExpListLR(sz + 1, dp, Tail(es), sf, r)))

complet(sz, dp, e, es, sf, r) ==
  IF es = << >> THEN compexp(sz, dp, e[3], sf, addPop(Len(e[2]), r))
  ELSE compexp(sz, dp, es[1], sf,
         Emit(<<"Kpush">>, complet(sz + 1, dp + 1, e, Tail(es), sf, bindEnv(r, dp, sz + 1))))

(* Mutually recursive functions: dummies first, updated one by one.        *)
initarg(sz, dp, es, r) == IF es = << >> THEN r ELSE initarg(sz + 1, dp + 1, Tail(es), bindEnv(r, dp, sz + 1))
comparg(sz, dp, e, i, sf, r) ==
  IF i = 0 THEN compexp(sz, dp, e[3], sf, addPop(Len(e[2]), r))
  ELSE LET r1 == comparg(sz, dp, e, i - 1, sf, r)
       IN compexp(sz, dp, e[2][Len(e[2]) + 1 - i], sf,
            Emit(<<"Kpush">>, Emit(<<"Kaccess", i>>, Emit(<<"Kprim", "Pupdate">>, r1))))

compTest2(sz, dp, cond, ifso, ifnot, sf, r) ==
  compexp(sz, dp, cond, sf,
    IF ifso = Lstaticfail /\ sz = sf[2] THEN Emit(<<"Kbranchif", sf[1]>>, compexp(sz, dp, ifnot, sf, r))
    ELSE IF ifnot = Lstaticfail /\ sz = sf[2]
    THEN Emit(<<"Kbranchifnot", sf[1]>>, compexp(sz, dp, ifso, sf, r))
    ELSE LET b == makeBranch(r)
             l == labelCode(compexp(sz, dp, ifnot, sf, b.r))
         IN Emit(<<"Kbranchifnot", l.lbl>>,
              compexp(sz, dp, ifso, sf, Emit(b.br, discardDeadCode(l.r)))))

(* The cases of a dense switch, from the n-th.                             *)
comp_cases(sz, dp, v, n, br, sf, r) ==
  IF n > Len(v) THEN [table |-> << >>, r |-> r]
  ELSE LET rest == comp_cases(sz, dp, v, n + 1, br, sf, r)
           l    == labelCode(compexp(sz, dp, v[n], sf, Emit(br, discardDeadCode(rest.r))))
       IN [table |-> <<l.lbl>> \o rest.table, r |-> l.r]

compSwitch(sz, dp, v, br, sf, r) ==
  LET cases == comp_cases(sz, dp, v, 1, br, sf, r)
  IN add_SwitchTable(cases.table, discardDeadCode(cases.r))

comp_dec(sz, dp, tree, br, sf, r) ==
  IF tree = DTfail THEN Emit(<<"Kbranch", sf[1]>>, discardDeadCode(r))
  ELSE LET Side(t, q) == IF t = DTfail THEN [lbl |-> sf[1], r |-> q]
                         ELSE labelCode(comp_dec(sz, dp, t, br, sf, q))
           right == Side(tree[4], r)
           left  == Side(tree[2], right.r)
           dec   == tree[3]
       IN Emit(<<"Kbranchinterval", dec.low, dec.high, left.lbl, right.lbl>>,
            IF Len(dec.act) = 1
            THEN compexp(sz, dp, dec.act[1], sf, Emit(br, discardDeadCode(left.r)))
            ELSE compSwitch(sz, dp, dec.act, br, sf, left.r))

compDecision(sz, dp, clauses, sf, r) ==
  LET b == makeBranch(r) IN comp_dec(sz, dp, compileNBranch(clauses), b.br, sf, b.r)

(* A table with an entry for every tag.                                    *)
comp_case(sz, dp, cs, br, table, sf, r) ==
  LET rest == comp_case(sz, dp, Tail(cs), br, table, sf, r)
      l    == labelCode(compexp(sz, dp, cs[1][2], sf,
                IF Len(cs) = 1 THEN r ELSE Emit(br, discardDeadCode(rest.r))))
  IN [table |-> [IF Len(cs) = 1 THEN table ELSE rest.table EXCEPT ![cs[1][1] + 1] = l.lbl], r |-> l.r]

compDirectSwitch(sz, dp, size, clauses, sf, r) ==
  LET b    == makeBranch(r)
      done == comp_case(sz, dp, clauses, b.br, [i \in 1 .. size |-> sf[1]], sf, b.r)
  IN add_SwitchTable(done.table, discardDeadCode(done.r))

compHandle(sz, dp, e, sf, r) ==
  LET b    == makeBranch(r)
      lbl2 == b.r.n + 1
      h    == compexp(sz + 1, dp + 1, e[3], sf,
                addPop(1, bindEnv([b.r EXCEPT !.n = lbl2], dp, sz + 1)))
      code == Emit(<<"Kpoptrap">>, Emit(b.br, Emit(<<"Klabel", lbl2>>, Emit(<<"Kpush">>, h))))
  IN Emit(<<"Kpushtrap", lbl2>>, compexp(sz + 4, dp, e[2], sf, code))

(* A mutant: a loop that does not look for signals.                        *)
compWhileDeaf(sz, dp, e, sf, r) ==
  LET lbl2 == r.n + 1
      l    == labelCode(compexp(sz, dp, e[2], sf,
                Emit(<<"Kbranchif", lbl2>>, Emit(<<"Kquote", Unit>>, [r EXCEPT !.n = lbl2]))))
  IN Emit(<<"Kbranch", l.lbl>>, Emit(<<"Klabel", lbl2>>, compexp(sz, dp, e[3], sf, l.r)))
compWhile(sz, dp, e, sf, r) ==
  LET lbl2 == r.n + 1
      l    == labelCode(compexp(sz, dp, e[2], sf,
                Emit(<<"Kbranchif", lbl2>>, Emit(<<"Kquote", Unit>>, [r EXCEPT !.n = lbl2]))))
  IN Emit(<<"Kbranch", l.lbl>>, Emit(<<"Klabel", lbl2>>, Emit(<<"Kcheck_signals">>,
       compexp(sz, dp, e[3], sf, l.r))))

(* andalso and orelse: decides is the branch that skips the second term.   *)
compBoth(sz, dp, e, decides, other, sf, r) ==
  LET c        == r.c
      First(i, q) == compexp(sz, dp, e[2], sf, Emit(i, q))
      Second(q)   == compexp(sz, dp, e[3], sf, q)
      strict   == IF decides = "Kbranchif" THEN "Kstrictbranchif" ELSE "Kstrictbranchifnot"
  IN IF Starts(c, "Kbranch") \/ Starts(c, "Klabel") THEN First(<<strict, c[1][2]>>, Second(r))
     ELSE IF Starts(c, decides) THEN First(<<decides, c[1][2]>>, Second(r))
     ELSE IF Starts(c, other)
     THEN LET l == labelCode([r EXCEPT !.c = Tail(@)])
          IN First(<<decides, l.lbl>>, Second(Emit(c[1], l.r)))
     ELSE LET lbl == r.n + 1
          IN First(<<strict, lbl>>, Second(Emit(<<"Klabel", lbl>>, [r EXCEPT !.n = lbl])))

compApply(sz, dp, e, sf, r) ==
  LET na == Len(e[3])
      Call(z, q) == compExpList(z, dp, e[3], sf, Emit(<<"Kpush">>, compexp(z + na, dp, e[2], sf, q)))
      l  == labelCode(r)
  IN IF isReturn(r.c) THEN Call(sz, Emit(<<"Kappterm", na, sz + na>>, discardDeadCode(r)))
     ELSE IF na < 5 THEN Call(sz, Emit(<<"Kapply", na>>, r))
     ELSE Emit(<<"Kpush_retaddr", l.lbl>>, Call(sz + 3, Emit(<<"Kapply", na>>, l.r)))

compLetrec(sz, dp, e, sf, r) ==
  LET es   == e[2]
      fre  == es[1][3]
      clos == <<"Kclosure", es[1][2][2], es[1][2][3]>>
      one  == Emit(<<"Kpush">>, compexp(sz + 1, dp + 1, e[3], sf, addPop(1, bindEnv(r, dp, sz + 1))))
      dummies == FoldLeft(LAMBDA c, a : c \o <<<<"Kdummy", a[2][3]>>, <<"Kpush">>>>, << >>, es)
      many == comparg(sz + Len(es), dp + Len(es), e, Len(es), sf, initarg(sz, dp, es, r))
  IN IF Len(es) > 1 THEN [many EXCEPT !.c = dummies \o @]
     ELSE IF fre # << >> /\ fre[1] = Lvar(dp)
     THEN compExpList(sz, dp, Tail(fre), sf, Emit(<<"Kclosurerec", clos[2], clos[3]>>, one))
     ELSE compExpList(sz, dp, fre, sf, Emit(clos, one))

compPrim(sz, dp, e, sf, r) ==
  LET p  == e[2]
      es == e[3]
      c  == r.c
      LR(q) == compExpListLR(sz, dp, es, sf, q)
      one   == <<"Lconst", Num(1)>>
      Swapped(k) == [r EXCEPT !.c = <<<<k, c[1][2]>>>> \o Tail(@)]
      Tested(t)  == [r EXCEPT !.c = <<<<"Ktest", t, c[1][2]>>>> \o Tail(@)]
  IN CASE p[1] = "Psmladdint" /\ es[2] = one -> compexp(sz, dp, es[1], sf, Emit(<<"Kprim", "Psmlsuccint">>, r))
       [] p[1] = "Psmlsubint" /\ es[2] = one -> compexp(sz, dp, es[1], sf, Emit(<<"Kprim", "Psmlpredint">>, r))
       [] p[1] = "Pget_global"  -> Emit(<<"Kget_global", p[2]>>, r)
       [] p[1] = "Pset_global"  -> LR(Emit(<<"Kset_global", p[2]>>, r))
       [] p[1] = "Pfield"       -> LR(Emit(<<"Kgetfield", p[2]>>, r))
       [] p[1] = "Psetfield"    -> LR(Emit(<<"Ksetfield", p[2]>>, r))
       [] p[1] = "Pmakeblock"   -> LR(Emit(<<"Kmakeblock", p[2], Len(es)>>, r))
       [] p[1] = "Pnot" /\ Starts(c, "Kbranchif")    -> LR(Swapped("Kbranchifnot"))
       [] p[1] = "Pnot" /\ Starts(c, "Kbranchifnot") -> LR(Swapped("Kbranchif"))
       [] p[1] = "Ptest" /\ Starts(c, "Kbranchif")    -> LR(Tested(p[2]))
       [] p[1] = "Ptest" /\ Starts(c, "Kbranchifnot") -> LR(Tested(invert(p[2])))
       [] p[1] = "Ptest" /\ ~Starts(c, "Kbranchif") /\ ~Starts(c, "Kbranchifnot") ->
            LR(Emit(<<"Ktestvalue", p[2]>>, r))
       [] p[1] = "Praise"       -> LR(Emit(<<"Kraise">>, discardDeadCode(r)))
       [] p[1] = "Pclosure"     -> compExpList(sz, dp, es, sf, Emit(<<"Kclosure", p[2], p[3]>>, r))
       [] p[1] = "Pidentity"    -> LR(r)
       [] p[1] = "Patom"        -> LR(Emit(<<"Katom", p[2]>>, r))
       [] OTHER                 -> LR(Emit(<<"Kprim", p[1]>>, r))

compexp(sz, dp, e, sf, r) ==
  CASE r.n > MaxLabels  -> r
    [] e[1] = "Lvar"    -> Emit(findEnv(r, sz, e[2]), r)
    [] e[1] = "Lassign" -> compexp(sz, dp, e[3], sf, Emit(findStk(r, sz, e[2]), r))
    [] e[1] = "Lconst"  ->
         IF r.c # << >> /\ r.c[1][1] \in {"Kquote", "Kget_global", "Kaccess", "Kenvacc"}
         THEN r ELSE Emit(<<"Kquote", e[2]>>, r)
    [] e[1] = "Lapply"  -> compApply(sz, dp, e, sf, r)
    [] e[1] = "Llet"    ->
         IF Len(e[2]) = 1 /\ e[3] = Lunspec THEN compexp(sz, dp, e[2][1], sf, r)
         ELSE complet(sz, dp, e, e[2], sf, r)
    [] e[1] = "Lletrec" -> compLetrec(sz, dp, e, sf, r)
    [] e[1] = "Lprim"   -> compPrim(sz, dp, e, sf, r)
    [] e[1] = "Lstatichandle" ->
         IF e[3] = Lstaticfail THEN compexp(sz, dp, e[2], sf, r)
         ELSE LET b == makeBranch(r)
                  l == labelCode(compexp(sz, dp, e[3], sf, b.r))
              IN compexp(sz, dp, e[2], <<l.lbl, sz>>, Emit(b.br, discardDeadCode(l.r)))
    [] e[1] = "Lstaticfail" -> addPop(sz - sf[2], Emit(<<"Kbranch", sf[1]>>, discardDeadCode(r)))
    [] e[1] = "Lhandle" -> compHandle(sz, dp, e, sf, r)
    [] e[1] = "Lif"     -> compTest2(sz, dp, e[2], e[3], e[4], sf, r)
    [] e[1] = "Lseq"    -> compexp(sz, dp, e[2], sf, compexp(sz, dp, e[3], sf, r))
    [] e[1] = "Lwhile"  -> compWhile(sz, dp, e, sf, r)
    [] e[1] = "Landalso" -> compBoth(sz, dp, e, "Kbranchifnot", "Kbranchif", sf, r)
    [] e[1] = "Lorelse" -> compBoth(sz, dp, e, "Kbranchif", "Kbranchifnot", sf, r)
    [] e[1] = "Lcase"   ->
         LET Keyed == [i \in DOMAIN e[3] |-> <<Long_val(e[3][i][1][2]), e[3][i][2]>>]
         IN compexp(sz, dp, e[2], sf, compDecision(sz, dp, Keyed, sf, r))
    [] e[1] = "Lswitch" ->
         LET cs  == e[4]
             act(t) == cs[CHOOSE i \in DOMAIN cs : cs[i][1] = t][2]
             has(t) == \E i \in DOMAIN cs : cs[i][1] = t
             TwoWay == IF has(1) THEN act(1) ELSE Lstaticfail
             Zero   == IF has(0) THEN act(0) ELSE Lstaticfail
         IN IF e[2] = 1 THEN compexp(sz, dp, cs[1][2], sf, r)
            ELSE IF e[2] = 2 THEN compTest2(sz, dp, e[3], TwoWay, Zero, sf, r)
            ELSE compexp(sz, dp, e[3], sf, Emit(<<"Kprim", "Ptag_of">>,
                   IF Len(cs) >= e[2] - 5 THEN compDirectSwitch(sz, dp, e[2], cs, sf, r)
                   ELSE compDecision(sz, dp, cs, sf, r)))
    [] e[1] = "Lunspec" -> r
    [] e[1] = "Lshared" ->
         IF r.lbl[e[2]] >= 0 THEN Emit(<<"Kbranch", r.lbl[e[2]]>>, discardDeadCode(r))
         ELSE LET l == labelCode(compexp(sz, dp, r.body[e[2]], sf, r))
              IN [l.r EXCEPT !.lbl[e[2]] = l.lbl]

-----------------------------------------------------------------------------
(* The functions, the last one lifted first.                               *)

RECURSIVE compileRest(_, _)
compileRest(todo, r) ==
  IF todo = << >> THEN r
  ELSE LET f    == todo[1]
           r0   == [r EXCEPT !.fv = f.fv,
                      !.va = [a \in 0 .. f.maxstk - 1 |-> IF a < f.nargs THEN f.nargs - a ELSE -1]]
           body == compexp(f.nargs, f.nargs, f.exp, <<Nolabel, 0>>,
                     Emit(<<"Kreturn", f.nargs>>, discardDeadCode(r0)))
           lbl  == <<"Klabel", f.lbl>>
       IN compileRest(Tail(todo),
            IF f.nargs > 1
            THEN Emit(<<"Krestart">>, Emit(lbl, Emit(<<"Kgrab", f.nargs - 1>>, body)))
            ELSE Emit(lbl, body))

compileInits(u) ==
  compexp(0, 0, u.e, <<Nolabel, 0>>,
    [c |-> << >>, n |-> u.l.n, fv |-> << >>, va |-> [a \in 0 .. MaxIds |-> -1],
     body |-> u.l.body, lbl |-> [i \in DOMAIN Share |-> Nolabel]])
compilePhrase(todo, r) == [kph_inits |-> r.c, kph_funcs |-> compileRest(todo, [r EXCEPT !.c = << >>]).c]
compileLifted(u) == compilePhrase(u.l.todo, compileInits(u))
compileLambda(e) ==
  compileLifted(UNdeBruijn(e, [n |-> 0, todo |-> << >>, fv |-> {}, md |-> 0, body |-> Share,
    mark |-> [i \in DOMAIN Share |-> Nolabel], pass |-> Nolabel - 1]))
=============================================================================
