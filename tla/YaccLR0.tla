------------------------------ MODULE YaccLR0 ------------------------------
(***************************************************************************)
(* mosmlyac builds the states of the parser: the LR(0) sets of items       *)
(* (src/mosmlyac/lr0.c, closure.c, warshall.c).                            *)
(*                                                                         *)
(* An item is the index in ritem of the symbol after the dot; at the end   *)
(* of a rule that is the index of minus its number.  A bit matrix is the   *)
(* set of the pairs that are set in it.                                    *)
(***************************************************************************)
EXTENDS YaccReader

VARIABLES
  derives,        \* nonterminal -> its rules, in order
  nullable,       \* the symbols found to derive the empty string
  first_derives,  \* nonterminal -> the rules a closure adds for it
  core,           \* state -> [accessing_symbol, items], in the order of new_state
  this_state,
  shift,          \* state -> the states it shifts to, by symbol
  reduction       \* state -> the rules it may reduce by

lr0Vars == <<derives, nullable, first_derives, core, this_state, shift, reduction>>

start_symbol == g.ntokens
nsyms        == g.nsyms
Tokens       == 0 .. g.ntokens - 1
Vars         == start_symbol .. nsyms - 1
Rules        == 2 .. g.nrules - 1
ISVAR(s)     == s >= start_symbol
ritem(i)     == g.ritem[i]
States       == DOMAIN core
accessing_symbol(q) == core[q].accessing_symbol

(* The right side of rule r, and the indices of its items.                 *)
RhsItems(r) == g.rrhs[r] .. g.rrhs[r + 1] - 2
Rhs(r)      == [k \in 1 .. g.rrhs[r + 1] - 1 - g.rrhs[r] |-> ritem(g.rrhs[r] + k - 1)]

-----------------------------------------------------------------------------

set_derives ==
  [v \in Vars |-> Sorted({r \in Rules : g.rlhs[r] = v})]

(* One round of set_nullable over the rules; each sees what those before   *)
(* it have found.                                                          *)
NullableRound ==
  FoldLeft(LAMBDA S, r : IF \A i \in RhsItems(r) : ritem(i) \in S
                           THEN S \cup {g.rlhs[r]} ELSE S,
           nullable, Sorted(Rules))

(* transitive_closure: rows i in order; each row that has i takes row i.   *)
transitive_closure(R, S) ==
  FoldLeft(LAMBDA Q, i : Q \cup {<<j, k>> \in S \X S : <<j, i>> \in Q /\ <<i, k>> \in Q},
           R, Sorted(S))

reflexive_transitive_closure(R, S) == transitive_closure(R, S) \cup {<<i, i>> : i \in S}

(* set_EFF: v leads to the nonterminals its right sides begin with.        *)
EFF ==
  LET begins == {<<v, x>> \in Vars \X Vars :
                   \E r \in ToSet(derives[v]) : ritem(g.rrhs[r]) = x}
  IN reflexive_transitive_closure(begins, Vars)

set_first_derives ==
  [v \in Vars |-> UNION {ToSet(derives[e[2]]) : e \in {e \in EFF : e[1] = v}}]

(* closure: the nucleus merged with the first items of the rules its       *)
(* symbols lead to, in increasing order.                                   *)
closure(items) ==
  LET ruleset == UNION {first_derives[ritem(i)] : i \in {i \in ToSet(items) : ISVAR(ritem(i))}}
  IN Sorted(ToSet(items) \cup {g.rrhs[r] : r \in ruleset})

(* new_itemsets: the items after a shift of each symbol.                   *)
ShiftSymbols(itemset) == Sorted({ritem(i) : i \in ToSet(itemset)} \cap (1 .. nsyms))
kernel(itemset, sym) ==
  LET s == SelectSeq(itemset, LAMBDA i : ritem(i) = sym)
  IN [k \in DOMAIN s |-> s[k] + 1]

(* get_state: the state with these items, a new one if there is none.      *)
get_state(c, sym, items) ==
  IF \E q \in DOMAIN c \ {0} : c[q].items = items
    THEN c
    ELSE Push(c, [accessing_symbol |-> sym, items |-> items])

append_states(c, itemset) ==
  FoldLeft(LAMBDA d, sym : get_state(d, sym, kernel(itemset, sym)), c, ShiftSymbols(itemset))

StateOf(c, items) == CHOOSE q \in DOMAIN c \ {0} : c[q].items = items

-----------------------------------------------------------------------------

LR0Init ==
  /\ derives = <<>> /\ nullable = {} /\ first_derives = <<>>
  /\ core = <<>> /\ this_state = 0 /\ shift = <<>> /\ reduction = <<>>

Keep(vs) == UNCHANGED <<readVars, g, vs>>

SetDerives ==
  /\ phase = "derives"
  /\ derives' = set_derives
  /\ phase' = "nullable"
  /\ Keep(<<nullable, first_derives, core, this_state, shift, reduction>>)

SetNullable ==
  /\ phase = "nullable"
  /\ nullable' = NullableRound
  /\ phase' = IF nullable' = nullable THEN "first" ELSE phase
  /\ Keep(<<derives, first_derives, core, this_state, shift, reduction>>)

(* set_first_derives and initialize_states.                                *)
InitializeStates ==
  /\ phase = "first"
  /\ first_derives' = set_first_derives
  /\ core' = (0 :> [accessing_symbol |-> 0,
                    items |-> [k \in DOMAIN derives[start_symbol] |->
                                 g.rrhs[derives[start_symbol][k]]]])
  /\ phase' = "states"
  /\ Keep(<<derives, nullable, this_state, shift, reduction>>)

(* The body of the loop of generate_states.                                *)
GenerateState ==
  LET itemset == closure(core[this_state].items)
      symbols == ShiftSymbols(itemset)
      reduces == SelectSeq(itemset, LAMBDA i : ritem(i) < 0)
  IN /\ phase = "states" /\ this_state \in States
     /\ reduction' = Push(reduction, [k \in DOMAIN reduces |-> - ritem(reduces[k])])
     /\ core' = append_states(core, itemset)
     /\ shift' = Push(shift, [k \in DOMAIN symbols |->
                                StateOf(core', kernel(itemset, symbols[k]))])
     /\ this_state' = this_state + 1
     /\ Keep(<<phase, derives, nullable, first_derives>>)

StatesDone ==
  /\ phase = "states" /\ this_state \notin States
  /\ phase' = "goto_map"
  /\ Keep(lr0Vars)

LR0Next == SetDerives \/ SetNullable \/ InitializeStates \/ GenerateState \/ StatesDone

-----------------------------------------------------------------------------
(* The sets of items as textbooks define them: closed under adding the     *)
(* rules of the symbol after a dot, and joined by shifts.                  *)

ItemClosure(I) ==
  LET grow[S \in SUBSET DOMAIN g.ritem] ==
        LET T == S \cup UNION {{g.rrhs[r] : r \in {r \in Rules : g.rlhs[r] = ritem(i)}} : i \in S}
        IN IF T = S THEN S ELSE grow[T]
  IN grow[I]

Goto(I, x) == {i + 1 : i \in {i \in ItemClosure(I) : ritem(i) = x}}

(* mosmlyac finds the canonical LR(0) sets: state 0 holds the goal's rule, *)
(* no two states have the same items, a state has a shift for exactly the  *)
(* symbols after its dots, to the state with the items after it, and       *)
(* reduces by exactly the rules it has completed; every state is reached.  *)
StatesAreLR0 ==
  phase = "goto_map" =>
    LET items(q) == ToSet(core[q].items)
        cl(q) == ItemClosure(items(q))
        next(q) == ToSet(shift[q])
    IN /\ items(0) = {1}
       /\ \A p, q \in States : items(p) = items(q) => p = q
       /\ \A q \in States :
            /\ {accessing_symbol(p) : p \in next(q)} = {ritem(i) : i \in cl(q)} \cap (1 .. nsyms)
            /\ \A p \in next(q) : items(p) = Goto(items(q), accessing_symbol(p))
            /\ ToSet(reduction[q]) = {- ritem(i) : i \in {i \in cl(q) : ritem(i) < 0}}
       /\ \A q \in States \ {0} : \E p \in States : p < q /\ q \in next(p)
=============================================================================
