------------------------------ MODULE Lifting ------------------------------
(***************************************************************************)
(* The first half of the back end (src/compiler/Back.sml, UNdeBruijn):     *)
(* indices become identifiers, unique in a function; functions are lifted  *)
(* out, leaving the construction of their closures; and references that do *)
(* not escape become cells of the stack.                                   *)
(*                                                                         *)
(* The state of the translation is a record:                               *)
(*   n     the last label            todo  the functions to be compiled    *)
(*   fv    the free identifiers and  md    the greatest depth, of the      *)
(*         function being lifted                                           *)
(*   body  the terms, and            mark  the marks, of the shared terms: *)
(*         Nolabel at first, then the pass that rewrote it last            *)
(*   pass  labelNotCtr                                                     *)
(***************************************************************************)
EXTENDS Lambda

Nolabel   == -1
MaxLabels == 500     \* bound: labels of a program

(* The terms directly below a term, and the term with others in place.     *)
Kids(e) ==
  CASE e[1] \in {"Lvar", "Lconst", "Lunspec", "Lstaticfail", "Lshared"} -> << >>
    [] e[1] = "Lapply"             -> <<e[2]>> \o e[3]
    [] e[1] \in {"Llet", "Lletrec"} -> Append(e[2], e[3])
    [] e[1] = "Lprim"              -> e[3]
    [] e[1] = "Lassign"            -> <<e[3]>>
    [] e[1] = "Lcase"              -> <<e[2]>> \o [i \in DOMAIN e[3] |-> e[3][i][2]]
    [] e[1] = "Lswitch"            -> <<e[3]>> \o [i \in DOMAIN e[4] |-> e[4][i][2]]
    [] OTHER                       -> Tail(e)

WithKids(e, k) ==
  LET Clauses(cs) == [i \in DOMAIN cs |-> <<cs[i][1], k[i + 1]>>]
  IN CASE Kids(e) = << >>                  -> e
       [] e[1] = "Lapply"                  -> Lapply(Head(k), Tail(k))
       [] e[1] \in {"Llet", "Lletrec"}     -> <<e[1], Front(k), Last(k)>>
       [] e[1] = "Lprim"                   -> Lprim(e[2], k)
       [] e[1] = "Lassign"                 -> Lassign(e[2], k[1])
       [] e[1] = "Lcase"                   -> Lcase(k[1], Clauses(e[3]))
       [] e[1] = "Lswitch"                 -> Lswitch(e[2], k[1], Clauses(e[4]))
       [] OTHER                            -> <<e[1]>> \o k

-----------------------------------------------------------------------------
(* unref i: uses of the reference i become uses of its contents.  It fails *)
(* where i is used in another way; what it has then done to shared terms   *)
(* stays.                                                                  *)

RECURSIVE Unref(_, _, _), UnrefAll(_, _, _)

UnrefAll(i, es, l) ==
  IF es = << >> THEN [ok |-> TRUE, e |-> << >>, l |-> l]
  ELSE LET a == Unref(i, es[1], l)
           b == UnrefAll(i, Tail(es), a.l)
       IN IF ~a.ok THEN a ELSE [b EXCEPT !.e = <<a.e>> \o @]

Unref(i, e, l) ==
  CASE e = Lvar(i) -> [ok |-> FALSE, e |-> e, l |-> l]
    [] e = Lprim(<<"Pfield", 0>>, <<Lvar(i)>>) -> [ok |-> TRUE, e |-> Lvar(i), l |-> l]
    [] e[1] = "Lprim" /\ e[2] = <<"Psetfield", 0>> /\ e[3][1] = Lvar(i) ->
         LET a == Unref(i, e[3][2], l) IN [a EXCEPT !.e = Lassign(i, @)]
    [] e[1] = "Lshared" /\ l.mark[e[2]] # l.pass ->
         LET a == Unref(i, l.body[e[2]], [l EXCEPT !.mark[e[2]] = l.pass])
         IN [a EXCEPT !.e = e, !.l = IF a.ok THEN [a.l EXCEPT !.body[e[2]] = a.e] ELSE @]
    [] OTHER ->
         LET a == UnrefAll(i, Kids(e), l) IN [a EXCEPT !.e = IF a.ok THEN WithKids(e, @) ELSE e]

(* opt_refs: the arguments of a let from the last to the first, which is   *)
(* bound to i + 1 - Len(args); acc are those that have been passed.        *)
RECURSIVE OptRefs(_, _, _, _, _)
OptRefs(body, i, args, acc, l) ==
  IF args = << >> THEN [e |-> Llet(acc, body), l |-> l]
  ELSE LET arg == Last(args)
           b   == UnrefAll(i, Append(acc, body), [l EXCEPT !.pass = @ - 1])
       IN IF arg[1] = "Lprim" /\ arg[2] = <<"Pmakeblock", RefTag>> /\ Len(arg[3]) = 1
          THEN IF b.ok THEN OptRefs(Last(b.e), i - 1, Front(args), arg[3] \o Front(b.e), b.l)
               ELSE OptRefs(body, i - 1, Front(args), <<arg>> \o acc, b.l)
          ELSE OptRefs(body, i - 1, Front(args), <<arg>> \o acc, l)

-----------------------------------------------------------------------------
RECURSIVE Lftexp(_, _, _), LftAll(_, _, _), UNdeBruijn(_, _)

(* Each of es at its depth, from the first to the last.                    *)
LftAll(depths, es, l) ==
  IF es = << >> THEN [e |-> << >>, l |-> l]
  ELSE LET a == Lftexp(depths[1], es[1], l)
           b == LftAll(Tail(depths), Tail(es), a.l)
       IN [b EXCEPT !.e = <<a.e>> \o @]

(* How much deeper the i-th of the terms below e is.                       *)
Deeper(e, i) ==
  CASE e[1] = "Llet"    -> i - 1
    [] e[1] = "Lletrec" -> Len(e[2])
    [] e[1] = "Lhandle" -> i - 1
    [] OTHER            -> 0

Lftexp(depth, e, l0) ==
  LET l == [l0 EXCEPT !.md = IF depth > @ THEN depth ELSE @]
      Free(id) == IF id < 0 THEN [l EXCEPT !.fv = @ \cup {id}] ELSE l
      kids(es) == LftAll([i \in DOMAIN es |-> depth + Deeper(e, i)], es, l)
  IN CASE l0.n > MaxLabels -> [e |-> e, l |-> l0]
       [] e[1] = "Lvar" ->
            [e |-> Lvar(depth - e[2] - 1), l |-> Free(depth - e[2] - 1)]
       [] e[1] = "Lassign" ->
            LET a == Lftexp(depth, e[3], Free(depth - e[2] - 1))
            IN [a EXCEPT !.e = Lassign(depth - e[2] - 1, @)]
       [] e[1] = "Lfn" ->
            LET u == UNdeBruijn(e, l)
            IN IF u.qfv > 0 THEN Lftexp(depth, u.e, u.l) ELSE [e |-> u.e, l |-> u.l]
       [] e[1] = "Llet" /\ Len(e[2]) = 1 /\ e[3][1] = "Lprim" /\ e[3][3] = <<Lvar(0)>> ->
            LET a == Lftexp(depth, e[2][1], l) IN [a EXCEPT !.e = Lprim(e[3][2], <<@>>)]
       [] e[1] = "Lshared" ->
            IF l.mark[e[2]] # Nolabel THEN [e |-> e, l |-> l]
            ELSE LET a == Lftexp(depth, l.body[e[2]], [l EXCEPT !.mark[e[2]] = l.pass])
                 IN [e |-> e, l |-> [a.l EXCEPT !.body[e[2]] = a.e]]
       [] e[1] = "Llet" /\ ~(Len(e[2]) = 1 /\ e[3][1] = "Lprim" /\ e[3][3] = <<Lvar(0)>>) ->
            LET a == kids(Kids(e))
            IN OptRefs(Last(a.e), depth + Len(e[2]) - 1, Front(a.e), << >>, a.l)
       [] OTHER ->
            LET a == kids(Kids(e)) IN [a EXCEPT !.e = WithKids(e, @)]

(* Nested functions are one function of several arguments.                 *)
RECURSIVE Arity(_), Body(_)
Arity(e) == IF e[1] = "Lfn" THEN 1 + Arity(e[2]) ELSE 0
Body(e)  == IF e[1] = "Lfn" THEN Body(e[2]) ELSE e

(* The function e, of which a is the body lifted: it is put aside, and its *)
(* closure takes its place; or e is no function.                           *)
Descending(S) == SelectSeq([i \in 1 .. (IF S = {} THEN 0 ELSE -Min(S)) |-> -i], LAMBDA id : id \in S)
AsClosure(e, l, a, fv) ==
  LET lbl == a.l.n + 1
      fn  == [lbl |-> lbl, nargs |-> Arity(e), fv |-> fv, maxstk |-> a.l.md, exp |-> a.e]
  IN IF Arity(e) = 0 THEN [qfv |-> Len(fv), e |-> a.e, l |-> a.l]
     ELSE [qfv |-> Len(fv),
           e   |-> Lprim(<<"Pclosure", lbl, Len(fv)>>, [i \in DOMAIN fv |-> Lvar((-1) - fv[i])]),
           l   |-> [a.l EXCEPT !.n = lbl, !.todo = <<fn>> \o @, !.fv = l.fv, !.md = l.md]]
Lifted(e, l, a)  == AsClosure(e, l, a, Descending(a.l.fv))
UNdeBruijn(e, l) == Lifted(e, l, Lftexp(Arity(e), Body(e), [l EXCEPT !.fv = {}, !.md = 0]))
=============================================================================
