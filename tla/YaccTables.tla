----------------------------- MODULE YaccTables ----------------------------
(***************************************************************************)
(* mosmlyac decides what the parser does in each state on each token       *)
(* (src/mosmlyac/mkpar.c), and packs that into one table                   *)
(* (src/mosmlyac/output.c).                                                *)
(***************************************************************************)
EXTENDS YaccLalr

VARIABLES
  parser,       \* state -> its actions, by token, a shift before reductions
  final_state,
  defred,       \* state -> the rule it reduces by on every token, or 0
  base,         \* vector -> its place in the table
  order,        \* the vectors, widest first
  pos,          \* the places of those packed so far
  table, check, \* place -> entry, and the token or state it is for
  lowzero, high

mkparVars  == <<parser, final_state, defred>>
packVars   == <<base, order, pos, table, check, lowzero, high>>
tablesVars == <<mkparVars, packVars>>

nstates == Size(core)

-----------------------------------------------------------------------------
(* mkpar.c                                                                 *)

get_shifts(q) ==
  LET s == SelectSeq(shift[q], LAMBDA p : accessing_symbol(p) \in Tokens)
  IN [k \in DOMAIN s |->
        LET t == accessing_symbol(s[k])
        IN [symbol |-> t, number |-> s[k], action_code |-> "SHIFT", suppressed |-> 0,
            prec |-> g.symbol_prec[t], assoc |-> g.symbol_assoc[t]]]

(* add_reduce: behind the shift on its token and the reductions by rules   *)
(* with smaller numbers.                                                   *)
add_reduce(actions, r, t) ==
  LET before(a) == \/ a.symbol < t
                   \/ a.symbol = t /\ (a.action_code = "SHIFT" \/ a.number < r)
  IN InsertAt(actions, Len(SelectSeq(actions, before)) + 1,
       [symbol |-> t, number |-> r, action_code |-> "REDUCE", suppressed |-> 0,
        prec |-> g.rprec[r], assoc |-> g.rassoc[r]])

parse_actions(q) ==
  FoldLeft(LAMBDA as, r : FoldLeft(LAMBDA bs, t : add_reduce(bs, r, t), as, Reverse(Sorted(LA[<<q, r>>]))),
           get_shifts(q), reduction[q])

(* find_final_state: the last of the shifts of state 0, down to that on    *)
(* the goal.                                                               *)
find_final_state ==
  LET s == shift[0]
      k == SelectLastInSeq(s, LAMBDA p : accessing_symbol(p) = ritem(1))
  IN s[IF k = 0 THEN 1 ELSE k]

(* Mutant: a token without precedence loses.                               *)
ConflictZeroLow(q, a, b) ==
  LET no(da, db) == [a |-> da, b |-> db]
  IN IF a.prec < b.prec                 THEN no(2, 0)
     ELSE IF a.prec > b.prec            THEN no(0, 2)
     ELSE IF a.action_code = "REDUCE"   THEN no(0, 1)
     ELSE no(2, 0)

(* remove_conflicts, the actions a and b of one token, a preferred so far: *)
(* which of the two is suppressed, and how.                                *)
Conflict(q, a, b) ==
  LET no(da, db) == [a |-> da, b |-> db]
  IN IF q = final_state /\ a.symbol = 0 THEN no(0, 1)
     ELSE IF a.prec = 0 \/ b.prec = 0   THEN no(0, 1)
     ELSE IF a.prec < b.prec            THEN no(2, 0)
     ELSE IF a.prec > b.prec            THEN no(0, 2)
     ELSE IF a.action_code = "REDUCE"   THEN no(0, 1)
     ELSE IF a.assoc = "LEFT"           THEN no(2, 0)
     ELSE IF a.assoc = "RIGHT"          THEN no(0, 2)
     ELSE no(2, 2)

remove_conflicts(q, actions) ==
  LET next(s, p) ==
        IF s.pref = 0 \/ s.list[p].symbol # s.list[s.pref].symbol
          THEN [s EXCEPT !.pref = p]
          ELSE LET no == Conflict(q, s.list[s.pref], s.list[p])
               IN [pref |-> IF no.b = 0 THEN p ELSE s.pref,
                   list |-> [s.list EXCEPT ![s.pref].suppressed = IF no.a = 0 THEN @ ELSE no.a,
                                           ![p].suppressed = no.b]]
  IN FoldLeft(next, [pref |-> 0, list |-> actions], [p \in DOMAIN actions |-> p]).list

(* Mutant: a suppressed shift does not count.                              *)
sole_reductionDespiteShift(actions) ==
  LET by == {a.number : a \in {a \in ToSet(actions) : a.action_code = "REDUCE" /\ a.suppressed = 0}}
  IN IF Cardinality(by) = 1 THEN CHOOSE r \in by : TRUE ELSE 0

(* sole_reduction: a state with a shift, even a suppressed one, has no     *)
(* default reduction.                                                      *)
sole_reduction(actions) ==
  LET reduces == {a \in ToSet(actions) : a.action_code = "REDUCE" /\ a.suppressed = 0}
      by      == {a.number : a \in reduces}
  IN IF /\ \A a \in ToSet(actions) : a.action_code = "REDUCE"
        /\ Cardinality(by) = 1
        /\ \E a \in reduces : a.symbol # 1
       THEN CHOOSE r \in by : TRUE
       ELSE 0

yydefred(q) == IF defred[q] = 0 THEN 0 ELSE defred[q] - 2

-----------------------------------------------------------------------------
(* output.c                                                                *)

(* The vectors: the shifts of a state, its reductions that are not its     *)
(* default, and the gotos of a nonterminal that are not its most frequent. *)
ShiftRow(q)  == q
ReduceRow(q) == nstates + q
Column(x)    == 2 * nstates + g.symbol_value[x]
Columns      == start_symbol + 1 .. nsyms - 1

Effective(q, code) ==
  SelectSeq(parser[q], LAMBDA a : a.suppressed = 0 /\ a.action_code = code)

Row(actions, to(_)) ==
  [k \in DOMAIN actions |-> [from |-> g.symbol_value[actions[k].symbol], to |-> to(actions[k])]]

(* default_goto: the first of the states most gotos of the symbol lead to. *)
GotosOf(x) == goto_map[x] .. goto_map[x + 1] - 1
default_goto(x) ==
  LET count(p) == Cardinality({i \in GotosOf(x) : to_state[i] = p})
  IN IF GotosOf(x) = {} THEN 0
     ELSE Min({p \in States : \A o \in States : count(o) <= count(p)})

save_column(x) ==
  LET is == Sorted({i \in GotosOf(x) : to_state[i] # default_goto(x)})
  IN [k \in DOMAIN is |-> [from |-> from_state[is[k]], to |-> to_state[is[k]]]]

Vector(v) ==
  IF v < nstates THEN Row(Effective(v, "SHIFT"), LAMBDA a : a.number)
  ELSE IF v < 2 * nstates
    THEN Row(SelectSeq(Effective(v - nstates, "REDUCE"), LAMBDA a : a.number # defred[v - nstates]),
             LAMBDA a : a.number - 2)
  ELSE save_column(CHOOSE x \in Columns : Column(x) = v)

Vectors == 0 .. 2 * nstates + nsyms - start_symbol - 2
Froms(w) == {w[k].from : k \in DOMAIN w}
Width(w) == Max(Froms(w)) - Min(Froms(w)) + 1

(* sort_actions: the widest first, of those the longest, of those the      *)
(* first.                                                                  *)
sort_actions ==
  LET full == {v \in Vectors : Vector(v) # <<>>}
      vec  == [v \in full |-> Vector(v)]
      key  == [v \in full |-> <<Width(vec[v]), Len(vec[v]), v>>]
      before(k, l) == \/ k[1] > l[1]
                      \/ k[1] = l[1] /\ k[2] > l[2]
                      \/ k[1] = l[1] /\ k[2] = l[2] /\ k[3] < l[3]
      sorted == SortSeq([n \in 1 .. Cardinality(full) |-> key[Sorted(full)[n]]], before)
  IN [n \in DOMAIN sorted |-> sorted[n][3]]

At(f, loc, none) == IF loc \in DOMAIN f THEN f[loc] ELSE none

(* matching_vector: an earlier vector that is the same; the search ends at *)
(* the first of another width or length, and columns are not compared.     *)
matching_vector(n) ==
  LET w == Vector(order[n])
      same == {m \in 1 .. n - 1 :
                 /\ Vector(order[m]) = w
                 /\ \A l \in m .. n - 1 : /\ Width(Vector(order[l])) = Width(w)
                                          /\ Len(Vector(order[l])) = Len(w)}
  IN IF order[n] >= 2 * nstates \/ same = {} THEN -1 ELSE order[Max(same)]

(* pack_vector: the first base, not 0 and not in use, at which all entries *)
(* fall on free places.                                                    *)
pack_vector(w) ==
  LET least == lowzero - Min(Froms(w))
      free(j) == /\ j # 0 /\ j \notin ToSet(pos)
                 /\ \A f \in Froms(w) : (j + f) \notin DOMAIN check
  IN Min({j \in least .. least + high + Len(pos) + 2 : free(j)})

PackTable ==
  LET n     == Len(pos) + 1
      w     == Vector(order[n])
      m     == matching_vector(n)
      place == IF m >= 0 THEN base[m] ELSE pack_vector(w)
      fresh(of(_)) == [loc \in {place + f : f \in Froms(w)} |->
                         of(CHOOSE e \in ToSet(w) : place + e.from = loc)]
  IN /\ phase = "pack" /\ n <= Len(order)
     /\ pos' = Append(pos, place)
     /\ base' = [base EXCEPT ![order[n]] = place]
     /\ IF m >= 0
          THEN UNCHANGED <<table, check, lowzero, high>>
          ELSE /\ table' = fresh(LAMBDA e : e.to) @@ table
               /\ check' = fresh(LAMBDA e : e.from) @@ check
               /\ high' = Max({high} \cup DOMAIN check')
               /\ lowzero' = Min((lowzero .. high' + 1) \ DOMAIN check')
     /\ UNCHANGED <<readVars, g, phase, lr0Vars, lalrVars, mkparVars, order>>

-----------------------------------------------------------------------------

TablesInit ==
  /\ parser = <<>> /\ final_state = 0 /\ defred = <<>>
  /\ base = <<>> /\ order = <<>> /\ pos = <<>> /\ table = <<>> /\ check = <<>>
  /\ lowzero = 0 /\ high = 0

KeepAll(vs) == Keep(<<lr0Vars, lalrVars, vs>>)

MakeParser ==
  /\ phase = "parser"
  /\ parser' = [q \in States |-> parse_actions(q)]
  /\ final_state' = find_final_state
  /\ phase' = "conflicts"
  /\ KeepAll(<<defred, packVars>>)

RemoveConflicts ==
  /\ phase = "conflicts"
  /\ parser' = [q \in States |-> remove_conflicts(q, parser[q])]
  /\ defred' = [q \in States |-> sole_reduction(parser'[q])]
  /\ phase' = "output"
  /\ KeepAll(<<final_state, packVars>>)

SortActions ==
  /\ phase = "output"
  /\ order' = sort_actions
  /\ base' = [v \in Vectors |-> 0]
  /\ phase' = "pack"
  /\ KeepAll(<<mkparVars, pos, table, check, lowzero, high>>)

OutputTable ==
  /\ phase = "pack" /\ Len(pos) = Len(order)
  /\ phase' = "tables"
  /\ KeepAll(tablesVars)

TablesNext == MakeParser \/ RemoveConflicts \/ SortActions \/ PackTable \/ OutputTable

-----------------------------------------------------------------------------
(* What the parser reads in the tables.                                    *)

Lookup(v, c, none) ==
  LET n == base[v] + c
  IN IF base[v] # 0 /\ n >= 0 /\ n <= high /\ At(check, n, -1) = c THEN At(table, n, 0) ELSE none

Decision(q, t) ==
  LET c == g.symbol_value[t]
  IN IF defred[q] # 0 THEN <<"REDUCE", defred[q]>>
     ELSE IF Lookup(ShiftRow(q), c, 0) # 0 THEN <<"SHIFT", Lookup(ShiftRow(q), c, 0)>>
     ELSE IF Lookup(ReduceRow(q), c, 0) # 0 THEN <<"REDUCE", Lookup(ReduceRow(q), c, 0) + 2>>
     ELSE <<"ERROR", 0>>

Effect(q, t) ==
  LET as == {a \in ToSet(parser[q]) : a.symbol = t /\ a.suppressed = 0}
  IN {<<a.action_code, a.number>> : a \in as}

(* The packed tables say what the actions say: for each state and token    *)
(* the one action that is not suppressed, or an error, which a default     *)
(* reduction may put off, but only where no token can be shifted; and for  *)
(* each goto its state.  Places are shared by vectors, so an entry found   *)
(* under a foreign vector would be another's.                              *)
TablesAgree ==
  phase = "tables" =>
    /\ \A q \in States, t \in Tokens \ {1} :
         \/ Effect(q, t) = {Decision(q, t)}
         \/ Effect(q, t) = {} /\ (Decision(q, t) = <<"ERROR", 0>> \/ defred[q] # 0)
    /\ \A i \in Gotos : Lookup(Column(GotoSymbol(i)), from_state[i], default_goto(GotoSymbol(i)))
                        = to_state[i]

(* What is packed is the LALR(1) automaton of the textbook: its states,    *)
(* the tokens of its reductions, and no entry lost or shared.  Each of     *)
(* the three is computed in another way than the definition reads: by lists *)
(* that are merged, a depth-first search that unites what it comes back     *)
(* over, and vectors that overlap in one table.                             *)
AutomatonIsLALR == StatesAreLR0 /\ LookaheadsAreLALR /\ TablesAgree
=============================================================================
