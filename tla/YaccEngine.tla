----------------------------- MODULE YaccEngine ----------------------------
(***************************************************************************)
(* The parsing engine (src/runtime/parsing.c, src/mosmllib/Parsing.sml)    *)
(* running the tables mosmlyac has made for a grammar, on any input.       *)
(*                                                                         *)
(* A value is the symbol it stands for and, for a token, its place in the  *)
(* input; for an action, the place of the action in the text and the       *)
(* values it has peeked at.  Token n of the input starts at 2n and ends at *)
(* 2n + 1.                                                                 *)
(***************************************************************************)
EXTENDS YaccTables

CONSTANTS
  StackSize,  \* of the stacks of env at first; 100 in the code
  MaxTokens   \* a bound on the length of the input

VARIABLES
  pc,          \* the label of parse_engine, or what it has returned for
  state, sp,   \* its static variables
  env,         \* the parser_env
  input,       \* the tokens read in this parse
  parses,      \* the parses so far; text.parses is a bound
  sentences    \* the sentences of each symbol, to judge by

engineVars == <<pc, state, sp, env, input, parses, sentences>>

NoValue == [sym |-> None, from |-> 0, at |-> 0, kids |-> <<>>]
TokenValue(t, n) == [NoValue EXCEPT !.sym = g.name[t], !.at = n]
Stack(v) == [i \in 0 .. StackSize - 1 |-> v]
Start(n) == 2 * n
End(n)   == 2 * n + 1

EngineInit ==
  /\ pc = "idle" /\ state = 0 /\ sp = 0 /\ input = <<>> /\ parses = 0 /\ sentences = <<>>
  /\ env = [s_stack |-> Stack(0), v_stack |-> Stack(NoValue), symb_start_stack |-> Stack(0),
            symb_end_stack |-> Stack(0), stacksize |-> StackSize, curr_char |-> 0,
            lval |-> NoValue, symb_start |-> 0, symb_end |-> 0, sp |-> 0,
            rule_len |-> 0, rule_number |-> 0]

KeepTables == UNCHANGED <<readVars, g, phase, lr0Vars, lalrVars, tablesVars>>
Step(from, to) ==
  /\ phase = "tables" /\ pc = from /\ pc' = to
  /\ KeepTables /\ UNCHANGED <<parses, sentences>>

(* A call of the parsing function of the entry point b; START.             *)
yyparse(b) ==
  /\ phase = "tables" /\ pc \in {"idle", "accepted", "RAISE_PARSE_ERROR"}
  /\ b.entry > 0 /\ parses < text.parses /\ sentences # <<>>
  /\ env' = [env EXCEPT !.curr_char = b.entry, !.sp = 0]
  /\ state' = 0 /\ sp' = 0 /\ input' = <<>>
  /\ parses' = parses + 1
  /\ pc' = "loop"
  /\ KeepTables /\ UNCHANGED sentences

Loop ==
  LET n == yydefred(state)
  IN /\ Step("loop", IF n # 0 THEN "reduce"
                     ELSE IF env.curr_char >= 0 THEN "testshift" ELSE "READ_TOKEN")
     /\ env' = IF n # 0 THEN [env EXCEPT !.rule_number = n] ELSE env
     /\ UNCHANGED <<state, sp, input>>

(* TOKEN_READ: a token has as its tag its rank among the declared ones;    *)
(* yytransl lists their values in the order of the table of symbols.       *)
yytransl == LET is == Sorted({t \in Tokens : g.symbol_true_token[t]})
            IN [n \in DOMAIN is |-> g.symbol_value[is[n]]]
token_tag(n) == Cardinality({b \in ToSet(y.symbols) : b.true_token /\ Rank(b) <= Rank([name |-> n])})

TokenRead ==
  /\ Step("READ_TOKEN", "testshift") /\ Len(input) < MaxTokens
  /\ \E t \in Tokens :
       /\ g.symbol_true_token[t]
       /\ input' = Append(input, t)
       /\ env' = [env EXCEPT !.curr_char = yytransl[token_tag(g.name[t])],
                             !.lval = TokenValue(t, Len(input')),
                             !.symb_start = Start(Len(input')), !.symb_end = End(Len(input'))]
  /\ UNCHANGED <<state, sp>>

TestShift ==
  LET q == Lookup(ShiftRow(state), env.curr_char, 0)
      n == Lookup(ReduceRow(state), env.curr_char, 0)
      full == sp + 1 >= env.stacksize
  IN /\ Step("testshift", IF q # 0 THEN (IF full THEN "GROW_STACKS_1" ELSE "push")
                          ELSE IF n # 0 THEN "reduce" ELSE "RAISE_PARSE_ERROR")
     /\ state' = IF q # 0 THEN q ELSE state
     /\ sp' = IF q # 0 THEN sp + 1 ELSE sp
     /\ env' = IF q = 0 /\ n # 0 THEN [env EXCEPT !.rule_number = n] ELSE env
     /\ UNCHANGED input

Shifted ==
  /\ Step("push", "loop")
  /\ env' = [env EXCEPT !.s_stack[sp] = state, !.v_stack[sp] = env.lval,
                        !.symb_start_stack[sp] = env.symb_start,
                        !.symb_end_stack[sp] = env.symb_end, !.curr_char = -1]
  /\ UNCHANGED <<state, sp, input>>

Reduce ==
  LET r    == env.rule_number + 2
      m    == Len(Rhs(r))
      top  == sp - m + 1
      x    == g.rlhs[r]
      full == top >= env.stacksize
  IN /\ Step("reduce", IF full THEN "GROW_STACKS_2" ELSE "COMPUTE_SEMANTIC_ACTION")
     /\ env' = [env EXCEPT !.sp = sp, !.rule_len = m]
     /\ sp' = top
     /\ state' = Lookup(Column(x), env.s_stack[top - 1], default_goto(x))
     /\ UNCHANGED input

(* growStacks: the stacks are copied to twice their size.                  *)
GrowStacks(from, to) ==
  LET size == 2 * env.stacksize
      Grown(s, v) == [i \in 0 .. size - 1 |-> IF i < env.stacksize THEN s[i] ELSE v]
  IN /\ Step(from, to)
     /\ env' = [env EXCEPT !.s_stack = Grown(@, 0), !.v_stack = Grown(@, NoValue),
                           !.symb_start_stack = Grown(@, 0), !.symb_end_stack = Grown(@, 0),
                           !.stacksize = size]
     /\ UNCHANGED <<state, sp, input>>

peekVal(n)   == env.v_stack[env.sp - n]
itemStart(n) == env.symb_start_stack[env.sp - (env.rule_len - n)]
itemEnd(n)   == env.symb_end_stack[env.sp - (env.rule_len - n)]

(* Besides its characters a text says what they mean: the declarations and *)
(* the items of the rules, <<"lhs", A>>, <<"sym", X>>, <<"act">>, <<"bar">>*)
(* or <<"prec", X>>; the action that is item i is the word ActionName(i).  *)
(* The items an action follows, and its left side.                         *)
ActionName(i) == "act" \o ToString(i)
AltStart(p)   == Max({i \in 1 .. p : text.rules[i][1] \in {"lhs", "bar"}})
ItemsOf(p)    == Sorted({i \in AltStart(p) .. p - 1 : text.rules[i][1] \in {"sym", "act"}})
HeadOf(p)     == text.rules[Max({i \in 1 .. p : text.rules[i][1] = "lhs"})][2]
LastAction(p) == p = Len(text.rules) \/ text.rules[p + 1][1] \in {"lhs", "bar"}

(* The action of an entry point raises yyexit; the value of another goes   *)
(* where the state goes.                                                   *)
(* Mutant: the end of what was reduced is that of its first item.          *)
PositionsLeft(stack) == stack

(* SEMANTIC_ACTION_COMPUTED: the string of the rule ends where its last    *)
(* item does.                                                              *)
Positions(stack) == [stack EXCEPT ![sp] = stack[env.sp]]

(* Which of the written actions it is, by the word in it.                  *)
Written(act) == CHOOSE i \in DOMAIN text.rules : ActionName(i) = act.word

ComputeSemanticAction ==
  LET act == y.yyact[env.rule_number]
      v   == [sym |-> HeadOf(Written(act)), from |-> Written(act), at |-> 0,
              kids |-> [i \in DOMAIN act.depths |-> peekVal(act.depths[i])]]
  IN /\ Step("COMPUTE_SEMANTIC_ACTION", IF act.word = None THEN "accepted" ELSE "loop")
     /\ env' = IF act.word = None THEN env
               ELSE [env EXCEPT !.s_stack[sp] = state, !.v_stack[sp] = v,
                                !.symb_end_stack = Positions(@)]
     /\ UNCHANGED <<state, sp, input>>

-----------------------------------------------------------------------------
(* What the parser is judged by: the sentences of each nonterminal, cut    *)
(* off at MaxTokens + 1 tokens.                                            *)
RECURSIVE Derived(_)
Derived(L) ==
  LET cut(s)     == SubSeq(s, 1, Min({Len(s), MaxTokens + 1}))
      strings(x) == IF ISVAR(x) THEN L[x] ELSE {<<x>>}
      of(r)      == FoldLeft(LAMBDA A, x : {cut(a \o b) : a \in A, b \in strings(x)}, {<<>>}, Rhs(r))
      M == [v \in Vars |-> L[v] \cup UNION {of(r) : r \in ToSet(derives[v])}]
  IN IF M = L THEN L ELSE Derived(M)

Judge ==
  /\ phase = "tables" /\ pc = "idle" /\ text.parses > 0 /\ sentences = <<>>
  /\ sentences' = Derived([v \in Vars |-> {}])
  /\ KeepTables /\ UNCHANGED <<pc, state, sp, env, input, parses>>

EngineNext ==
  \/ \E b \in ToSet(y.symbols) : yyparse(b)
  \/ Loop \/ TokenRead \/ TestShift \/ Shifted \/ Reduce
  \/ GrowStacks("GROW_STACKS_1", "push") \/ GrowStacks("GROW_STACKS_2", "COMPUTE_SEMANTIC_ACTION")
  \/ ComputeSemanticAction
  \/ Judge

vars == <<readVars, g, phase, lr0Vars, lalrVars, tablesVars, engineVars>>

Init == ReaderInit /\ LR0Init /\ LalrInit /\ TablesInit /\ EngineInit
Next ==
  \/ ReaderNext /\ UNCHANGED <<lr0Vars, lalrVars, tablesVars, engineVars>>
  \/ LR0Next /\ UNCHANGED <<lalrVars, tablesVars, engineVars>>
  \/ LalrNext /\ UNCHANGED <<tablesVars, engineVars>>
  \/ TablesNext /\ UNCHANGED engineVars
  \/ EngineNext

Spec == Init /\ [][Next]_vars

-----------------------------------------------------------------------------
(* mosmlyac refuses a text that is no grammar, and only such a text; of    *)
(* another it reads the rules that are written, each action inside a rule  *)
(* standing as a symbol of its own, whatever comments, strings, braces and *)
(* types there are around them.                                            *)
Gensyms == {"$$" \o ToString(i) : i \in DOMAIN y.plhs}
ReadAsWritten ==
  /\ phase = "fatal" => ~ text.legal
  /\ phase = "derives" =>
       LET own      == SelectSeq([i \in 1 .. g.nrules - 3 |-> i + 2], LAMBDA i : y.plhs[i] \notin Gensyms \cup {Entry})
           begins   == Sorted({i \in DOMAIN text.rules : text.rules[i][1] \in {"lhs", "bar"}})
           ends     == Sorted({i \in DOMAIN text.rules : LastAction(i)})
           read(i)  == [k \in 1 .. g.rrhs[i + 1] - 1 - g.rrhs[i] |->
                          LET n == y.pitem[g.rrhs[i] + k - 1] IN IF n \in Gensyms THEN <<"act">> ELSE <<"sym", n>>]
           meant(k) == [i \in DOMAIN ItemsOf(ends[k]) |-> text.rules[ItemsOf(ends[k])[i]]]
       IN /\ text.legal
          /\ Len(own) = Len(begins)
          /\ \A k \in DOMAIN own : y.plhs[own[k]] = HeadOf(begins[k]) /\ read(own[k]) = meant(k)

(* The parser of an entry point accepts its sentences and nothing else: it *)
(* never reads past what begins a sentence, and what it accepts is one,    *)
(* but for a token read too many.  It gives up only on what begins none,   *)
(* unless precedences or conflicts have taken actions away.                *)
entry == env.s_stack[1]
Entered(q) == g.name[accessing_symbol(q)]

(* The tokens v stands for: none for an action in the middle of a rule.    *)
RECURSIVE Yield(_)
Yield(v) ==
  IF v.at > 0 THEN <<v.at>> ELSE IF ~ LastAction(v.from) THEN <<>> 
  ELSE FlattenSeq([k \in DOMAIN v.kids |-> Yield(v.kids[k])])

Sentences == sentences[Index(g, (CHOOSE b \in ToSet(y.symbols) : b.entry > 0 /\ EntryToken(b.entry) = Entered(entry)).name)]
Begins(s, L) == \E l \in L : IsPrefix(s, l)
Complete == \A q \in States : \A a \in ToSet(parser[q]) : a.suppressed = 0

AcceptsLanguage ==
  /\ pc = "READ_TOKEN" => Begins(input, Sentences)
  /\ pc = "accepted" => SubSeq(input, 1, Len(Yield(peekVal(0)))) \in Sentences
  /\ pc = "RAISE_PARSE_ERROR" /\ Complete => ~ Begins(input, Sentences)

(* The value of a parse is built by the written actions: it covers the     *)
(* tokens in order, and each action has seen, with peekVal, exactly the    *)
(* values of the items written before it, an action in the middle of a     *)
(* rule among them.                                                        *)
RECURSIVE WellBuilt(_)
WellBuilt(v) ==
  v.at > 0 \/
    LET items == ItemsOf(v.from)
    IN /\ Len(v.kids) = Len(items)
       /\ \A k \in DOMAIN items :
            /\ IF text.rules[items[k]][1] = "act" THEN v.kids[k].from = items[k]
               ELSE /\ v.kids[k].sym = text.rules[items[k]][2]
                    /\ v.kids[k].at = 0 => LastAction(v.kids[k].from)
            /\ WellBuilt(v.kids[k])

ValueIsDerivation ==
  pc = "accepted" =>
    LET v == peekVal(0)
    IN /\ WellBuilt(v)
       /\ \A k \in DOMAIN Yield(v) : Yield(v)[k] = k

(* An operator takes as its operands what binds tighter: the precedences   *)
(* and associativities of the declarations, of the last token of a rule or *)
(* of its %prec, rule the tree of every sentence.                          *)
Level(n) == SelectInSeq(text.decls, LAMBDA d : d[1] \in {"LEFT", "RIGHT", "NONASSOC"} /\ Contains(d[2], n))
Assoc(n) == text.decls[Level(n)][1]
IsToken(n) == \E d \in ToSet(text.decls) : d[1] = "TOKEN" /\ Contains(d[2], n)
PrecOf(p) ==
  LET of(kind) == {i \in AltStart(p) .. p : text.rules[i][1] = kind}
      terms    == {i \in of("sym") : IsToken(text.rules[i][2])}
  IN IF of("prec") # {} THEN text.rules[Max(of("prec"))][2]
     ELSE IF terms # {} THEN text.rules[Max(terms)][2] ELSE None

(* The subtrees along the left, or the right, edge of v.                   *)
RECURSIVE Edge(_, _)
Edge(v, left) ==
  IF v.kids = <<>> THEN {} ELSE {v} \cup Edge(IF left THEN Head(v.kids) ELSE Last(v.kids), left)
Infix(v) == Len(v.kids) > 1 /\ v.kids[1].kids # <<>> /\ v.kids[2].at > 0 /\ Level(v.kids[2].sym) > 0

(* On the token t, v, whose rule has precedence r, was to be reduced.      *)
Reduces(r, t) == Level(r) > Level(t) \/ (Level(r) = Level(t) /\ Assoc(t) = "LEFT")
Shifts(r, t)  == Level(r) < Level(t) \/ (Level(r) = Level(t) /\ Assoc(t) = "RIGHT")

RECURSIVE Subtrees(_)
Subtrees(v) == {v} \cup UNION {Subtrees(v.kids[k]) : k \in DOMAIN v.kids}

Precedences ==
  pc = "accepted" =>
    \A v \in Subtrees(peekVal(0)) :
      /\ Infix(v) =>
           \A u \in Edge(v.kids[1], FALSE) :
             Last(u.kids).kids # <<>> /\ Level(PrecOf(u.from)) > 0 => Reduces(PrecOf(u.from), v.kids[2].sym)
      /\ v.kids # <<>> /\ Last(v.kids).kids # <<>> /\ Level(PrecOf(v.from)) > 0 =>
           \A u \in Edge(Last(v.kids), TRUE) :
             Infix(u) => Shifts(PrecOf(v.from), u.kids[2].sym)

(* An action finds where the strings of its items begin and end, as long   *)
(* as nothing empty comes first in them.                                   *)
RECURSIVE FirstLeaf(_)
FirstLeaf(v) ==
  IF v.at > 0 THEN v.at ELSE IF v.kids = <<>> \/ ~ LastAction(v.from) THEN 0 ELSE FirstLeaf(Head(v.kids))

Items == 1 .. env.rule_len
ItemValue(n) == peekVal(env.rule_len - n)

ItemPositions ==
  pc = "COMPUTE_SEMANTIC_ACTION" /\ y.yyact[env.rule_number].word # None =>
    \A n \in Items :
      LET s == Yield(ItemValue(n))
      IN s # <<>> => /\ itemEnd(n) = End(Last(s))
                     /\ FirstLeaf(ItemValue(n)) # 0 => itemStart(n) = Start(Head(s))

(* "[itemStart i] returns the start position of the string that matches    *)
(* the i'th grammar symbol in the sequence."                               *)
ItemStarts ==
  pc = "COMPUTE_SEMANTIC_ACTION" /\ y.yyact[env.rule_number].word # None =>
    \A n \in Items :
      LET s == Yield(ItemValue(n)) IN s # <<>> => itemStart(n) = Start(Head(s))
=============================================================================
