------------------------------ MODULE YaccLalr -----------------------------
(***************************************************************************)
(* mosmlyac computes the lookaheads of its reductions from those of its    *)
(* gotos, the shifts of nonterminals (src/mosmlyac/lalr.c).                *)
(***************************************************************************)
EXTENDS YaccLR0

VARIABLES
  goto_map,    \* symbol -> the first of its gotos
  from_state, to_state,
  F,           \* goto -> the tokens that may follow
  includes,    \* goto -> the gotos whose tokens it takes over
  lookback,    \* <<state, rule>> -> the gotos the reduction may end in
  LA           \* <<state, rule>> -> the tokens it is for

lalrVars == <<goto_map, from_state, to_state, F, includes, lookback, LA>>

ngotos == Size(from_state)
Gotos  == 0 .. ngotos - 1
GotoSymbol(i) == accessing_symbol(to_state[i])

(* The states a state shifts to on nonterminals: the end of its shifts,    *)
(* which are read backwards up to the first token.                         *)
VarShifts(q) ==
  LET s == shift[q]
      lastToken == SelectLastInSeq(s, LAMBDA p : ~ ISVAR(accessing_symbol(p)))
  IN {s[k] : k \in {k \in DOMAIN s : k > lastToken}}

(* set_goto_map: the gotos are numbered by symbol, and by state: goto k    *)
(* goes from state key % n on symbol key \div n.                           *)
GotoKeys ==
  Sorted(UNION {{accessing_symbol(p) * Size(core) + q : p \in VarShifts(q)} : q \in States})

set_goto_map ==
  LET keys == GotoKeys
      from(k) == keys[k + 1] % Size(core)
      on(k)   == keys[k + 1] \div Size(core)
  IN /\ from_state' = [k \in 0 .. Len(keys) - 1 |-> from(k)]
     /\ to_state'   = [k \in 0 .. Len(keys) - 1 |->
                         CHOOSE p \in VarShifts(from(k)) : accessing_symbol(p) = on(k)]
     /\ goto_map'   = [x \in start_symbol .. nsyms |->
                         Cardinality({k \in 0 .. Len(keys) - 1 : on(k) < x})]

(* map_goto: the binary search of the state among the gotos of the symbol. *)
map_goto(state, symbol) ==
  LET find[low, high \in Int] ==
        LET middle == (low + high) \div 2
            s      == from_state[middle]
        IN IF s = state THEN middle
           ELSE IF s < state THEN find[middle + 1, high]
           ELSE find[low, middle - 1]
  IN find[goto_map[symbol], goto_map[symbol + 1]]

(* initialize_F: what a goto's state shifts may follow, and that state's   *)
(* gotos on nullable symbols are read through.  The end of the input       *)
(* follows the goal.                                                       *)
DirectlyReads(i) ==
  {accessing_symbol(p) : p \in ToSet(shift[to_state[i]])} \cap Tokens

Reads(i) ==
  LET s == shift[to_state[i]]
      vars == SelectSeq(s, LAMBDA p : accessing_symbol(p) \in Vars \cap nullable)
  IN [k \in DOMAIN vars |-> map_goto(to_state[i], accessing_symbol(vars[k]))]

(* digraph: each goto takes over the tokens of those its edges lead to;    *)
(* traverse visits them depth first, and gives all of a cycle what its     *)
(* first one has.  t is [INDEX, VERTICES, F].                              *)
Infinity == ngotos + 2
RECURSIVE traverse(_, _, _)
RECURSIVE popped(_, _)

(* The vertices above i on the stack, and i, are done.                     *)
popped(t, i) ==
  LET j == Last(t.VERTICES)
      u == [t EXCEPT !.VERTICES = Front(@), !.INDEX[j] = Infinity]
  IN IF i = j THEN u ELSE popped([u EXCEPT !.F[j] = t.F[i]], i)

traverse(t, R, i) ==
  LET height  == Len(t.VERTICES) + 1
      entered == [t EXCEPT !.VERTICES = Append(@, i), !.INDEX[i] = height]
      edge(u, j) ==
        LET v == IF u.INDEX[j] = 0 THEN traverse(u, R, j) ELSE u
        IN [v EXCEPT !.INDEX[i] = IF @ > v.INDEX[j] THEN v.INDEX[j] ELSE @,
                     !.F[i] = @ \cup v.F[j]]
      left == FoldLeft(edge, entered, R[i])
  IN IF left.INDEX[i] = height THEN popped(left, i) ELSE left

digraph(sets, R) ==
  LET visit(t, i) == IF t.INDEX[i] = 0 /\ R[i] # <<>> THEN traverse(t, R, i) ELSE t
  IN FoldLeft(visit, [INDEX |-> [i \in Gotos |-> 0], VERTICES |-> <<>>, F |-> sets],
              Sorted(Gotos)).F

(* build_relations, for one goto and one rule of its symbol: the states    *)
(* along the right side, and the gotos that include this one, from the end *)
(* of the right side as long as what follows is nullable.                  *)
Along(i, r) ==
  FoldLeft(LAMBDA qs, x : Append(qs, CHOOSE p \in ToSet(shift[Last(qs)]) : accessing_symbol(p) = x),
           <<from_state[i]>>, Rhs(r))

(* Mutant: only the last symbol of the right side passes its tokens on.    *)
IncludingLast(i, r) ==
  LET rhs == Rhs(r)
      n   == Len(rhs)
  IN IF rhs # <<>> /\ ISVAR(Last(rhs)) THEN <<map_goto(Along(i, r)[n], rhs[n])>> ELSE <<>>

Including(i, r) ==
  LET rhs == Rhs(r)
      ks  == {k \in DOMAIN rhs : /\ ISVAR(rhs[k])
                                 /\ \A l \in k + 1 .. Len(rhs) : rhs[l] \in nullable}
  IN [n \in 1 .. Cardinality(ks) |->
        LET k == Len(rhs) + 1 - n IN map_goto(Along(i, r)[k], rhs[k])]

Edges(i) == FlattenSeq([n \in DOMAIN derives[GotoSymbol(i)] |->
                          Including(i, derives[GotoSymbol(i)][n])])

(* transpose: turned round, the edges of a vertex are in increasing order. *)
transpose(R) ==
  [i \in Gotos |-> FlattenSeq([j \in 1 .. ngotos |->
                     [n \in DOMAIN SelectSeq(R[j - 1], LAMBDA e : e = i) |-> j - 1]])]

Reductions == UNION {{<<q, r>> : r \in ToSet(reduction[q])} : q \in States}

(* add_lookback_edge, for every goto and rule.                             *)
Lookback ==
  LET edges == UNION {{<<<<Last(Along(i, r)), r>>, i>> : r \in ToSet(derives[GotoSymbol(i)])}
                        : i \in Gotos}
  IN [e \in Reductions |-> {d[2] : d \in {d \in edges : d[1] = e}}]

-----------------------------------------------------------------------------

LalrInit ==
  /\ goto_map = <<>> /\ from_state = <<>> /\ to_state = <<>> /\ F = <<>>
  /\ includes = <<>> /\ lookback = <<>> /\ LA = <<>>

SetGotoMap ==
  /\ phase = "goto_map"
  /\ set_goto_map
  /\ phase' = "F"
  /\ Keep(<<lr0Vars, F, includes, lookback, LA>>)

InitializeF ==
  /\ phase = "F"
  /\ F' = digraph([i \in Gotos |-> DirectlyReads(i) \cup (IF i = 0 THEN {0} ELSE {})],
                  [i \in Gotos |-> Reads(i)])
  /\ phase' = "relations"
  /\ Keep(<<lr0Vars, goto_map, from_state, to_state, includes, lookback, LA>>)

BuildRelations ==
  /\ phase = "relations"
  /\ includes' = transpose([i \in Gotos |-> Edges(i)])
  /\ lookback' = Lookback
  /\ phase' = "follows"
  /\ Keep(<<lr0Vars, goto_map, from_state, to_state, F, LA>>)

(* compute_FOLLOWS and compute_lookaheads.                                 *)
ComputeLookaheads ==
  LET follows == digraph(F, includes)
  IN /\ phase = "follows"
     /\ LA' = [e \in Reductions |-> UNION {follows[i] : i \in lookback[e]}]
     /\ F' = follows
     /\ phase' = "parser"
     /\ Keep(<<lr0Vars, goto_map, from_state, to_state, includes, lookback>>)

LalrNext == SetGotoMap \/ InitializeF \/ BuildRelations \/ ComputeLookaheads

-----------------------------------------------------------------------------
(* The lookaheads as a textbook defines them: the least sets of an item    *)
(* and a token in each state, a token coming from the rest of the rule an  *)
(* item is added for, or from the item itself when the rest may vanish; -1 *)
(* stands for none, so that an item is there even if no token follows.     *)

(* The tokens a string derived from x may begin with.                      *)
FirstPairs ==
  LET begins == {<<x, z>> \in Vars \X (0 .. nsyms - 1) :
                   \E r \in Rules : /\ g.rlhs[r] = x
                                    /\ \E i \in RhsItems(r) :
                                         /\ ritem(i) = z
                                         /\ \A j \in g.rrhs[r] .. i - 1 : ritem(j) \in nullable}
      grow[S \in SUBSET ((0 .. nsyms - 1) \X (0 .. nsyms - 1))] ==
        LET T == S \cup {<<p[1][1], p[2][2]>> : p \in {p \in S \X begins : p[1][2] = p[2][1]}}
        IN IF T = S THEN S ELSE grow[T]
  IN grow[begins] \cup {<<t, t>> : t \in Tokens}

(* The end of the rule an item is in, and the tokens after the symbol at i *)
(* when t may follow the rule.                                             *)
EndOf(i) == Min({j \in DOMAIN g.ritem : j >= i /\ ritem(j) < 0})
After(first, i, t) ==
  LET vanish(j) == \A k \in i + 1 .. j - 1 : ritem(k) \in nullable
  IN {z \in Tokens : \E j \in i + 1 .. EndOf(i) - 1 : vanish(j) /\ <<ritem(j), z>> \in first}
     \cup IF vanish(EndOf(i)) THEN {t} ELSE {}

LalrItems ==
  LET first == FirstPairs
      next(e) ==
        LET q == e[1]  i == e[2]  x == ritem(i)
        IN IF x < 0 THEN {}
           ELSE {<<p, i + 1, e[3]>> : p \in {p \in ToSet(shift[q]) : accessing_symbol(p) = x}}
                \cup {<<q, g.rrhs[r], z>> : r \in {r \in Rules : g.rlhs[r] = x},
                                            z \in After(first, i, e[3]) \cup {-1}}
      grow[S \in SUBSET (States \X (DOMAIN g.ritem) \X (Tokens \cup {-1}))] ==
        LET T == S \cup UNION {next(e) : e \in S}
        IN IF T = S THEN S ELSE grow[T]
  IN grow[{<<0, 1, 0>>}]

(* mosmlyac finds exactly these: through the gotos, the reads and includes *)
(* relations, and the components of their graphs.                          *)
LookaheadsAreLALR ==
  phase = "parser" =>
    LET items == LalrItems
    IN \A e \in Reductions :
         LA[e] = {d[3] : d \in {d \in items : d[1] = e[1] /\ ritem(d[2]) = - e[2]}} \ {-1}
=============================================================================
