------------------------------- MODULE Lexgen -------------------------------
(***************************************************************************)
(* mosmllex makes an automaton of a lexer definition, and the automaton is *)
(* written out as functions of ML (src/lex/Mainlex.sml, Lexgen.sml,        *)
(* Output.sml).                                                            *)
(*                                                                         *)
(* A regular expression is a tuple that begins with its constructor.  A    *)
(* character is its code, a class of characters the set of them.  Lists    *)
(* of transitions are kept sorted in the code: here they are sets.         *)
(***************************************************************************)
EXTENDS Integers, SequencesExt

CONSTANTS
  Lexdefs,    \* definitions: [lets: sequence of <<name, regexp>>, rules: sequence of <<name, regexps>>]
  MaxChar,    \* the greatest character (255)
  Interval    \* distance from which a run of characters is tested as an interval (5)

VARIABLES
  lexdef,          \* the definition
  stage,           \* "expand", "encode", "translate", "generated", "refused", "lexing"
  chars,           \* position - 1 -> its class of characters
  actions,         \* number of an action -> <<entry, rule>>
  follow,          \* position -> the transitions that may follow it
  states,          \* number - 1 -> set of transitions (memory)
  todo,            \* numbers of the states to translate, the newest first
  initial_states,  \* entry -> state
  automata         \* state -> its automaton

lexgenVars == <<lexdef, stage, chars, actions, follow, states, todo, initial_states, automata>>

Char      == 0 .. MaxChar
no_action == 32767
Backtrack == -1

-----------------------------------------------------------------------------
(* Abbreviations.  A name means its latest definition before the use.      *)

RECURSIVE NamesOf(_), expandRe(_, _)
NamesOf(r) ==
  CASE r[1] = "Name" -> {r[2]}
    [] r[1] \in {"Sequence", "Alternative"} -> NamesOf(r[2]) \cup NamesOf(r[3])
    [] r[1] = "Repetition" -> NamesOf(r[2])
    [] OTHER -> {}

expandRe(r, ls) ==
  CASE r[1] = "Name" -> ls[r[2]]
    [] r[1] \in {"Sequence", "Alternative"} -> <<r[1], expandRe(r[2], ls), expandRe(r[3], ls)>>
    [] r[1] = "Repetition" -> <<r[1], expandRe(r[2], ls)>>
    [] OTHER -> r

expandLet(ls, let) == (let[1] :> expandRe(let[2], ls)) @@ ls

expandRule(ls, rule) == <<rule[1], [i \in DOMAIN rule[2] |-> expandRe(rule[2][i], ls)]>>

Undefined(lets, rules) ==
  LET given(n) == {lets[i][1] : i \in 1 .. n}
  IN \/ \E i \in DOMAIN lets : ~ NamesOf(lets[i][2]) \subseteq given(i - 1)
     \/ \E i \in DOMAIN rules : \E r \in ToSet(rules[i][2]) : ~ NamesOf(r) \subseteq given(Len(lets))

-----------------------------------------------------------------------------
(* From shallow to deep syntax: every class gets a position, every rule an *)
(* action.                                                                 *)

RECURSIVE encode_regexp(_, _)
encode_regexp(r, cs) ==
  CASE r[1] = "Epsilon"    -> <<<<"Empty">>, cs>>
    [] r[1] = "Characters" -> <<<<"Chars", Len(cs)>>, Append(cs, r[2])>>
    [] r[1] = "Repetition" -> LET e == encode_regexp(r[2], cs) IN <<<<"Star", e[1]>>, e[2]>>
    [] OTHER -> LET e1 == encode_regexp(r[2], cs)
                    e2 == encode_regexp(r[3], e1[2])
                IN <<<<IF r[1] = "Sequence" THEN "Seq" ELSE "Alt", e1[1], e2[1]>>, e2[2]>>

addact(c, expr) ==
  LET e == encode_regexp(expr, c.chars)
  IN [reg |-> <<"Alt", c.reg, <<"Seq", e[1], <<"Action", c.count>>>>>>, chars |-> e[2], count |-> c.count + 1]

(* The entries from the last to the first.                                 *)
encode_lexdef(rules) ==
  FoldRight(LAMBDA rule, d :
              LET c == FoldLeft(addact, [reg |-> <<"Empty">>, chars |-> d.chars, count |-> d.count], rule[2])
              IN [chars |-> c.chars, count |-> c.count, regexps |-> <<<<rule[1], c.reg>>>> \o d.regexps,
                  actions |-> [n \in d.count .. c.count - 1 |-> <<rule[1], n - d.count + 1>>] @@ d.actions],
            rules, [chars |-> <<>>, count |-> 0, regexps |-> <<>>, actions |-> <<>>])

RECURSIVE nullable(_), firstpos(_), lastpos(_), fill(_)
nullable(r) ==
  CASE r[1] \in {"Empty", "Star"}   -> TRUE
    [] r[1] \in {"Chars", "Action"} -> FALSE
    [] r[1] = "Seq" -> nullable(r[2]) /\ nullable(r[3])
    [] r[1] = "Alt" -> nullable(r[2]) \/ nullable(r[3])

Transition(r) == {<<IF r[1] = "Chars" THEN "OnChars" ELSE "ToAction", r[2]>>}

firstpos(r) ==
  CASE r[1] = "Empty" -> {}
    [] r[1] \in {"Chars", "Action"} -> Transition(r)
    [] r[1] = "Seq"  -> firstpos(r[2]) \cup (IF nullable(r[2]) THEN firstpos(r[3]) ELSE {})
    [] r[1] = "Alt"  -> firstpos(r[2]) \cup firstpos(r[3])
    [] r[1] = "Star" -> firstpos(r[2])

lastpos(r) ==
  CASE r[1] = "Empty" -> {}
    [] r[1] \in {"Chars", "Action"} -> Transition(r)
    [] r[1] = "Seq"  -> lastpos(r[3]) \cup (IF nullable(r[3]) THEN lastpos(r[2]) ELSE {})
    [] r[1] = "Alt"  -> lastpos(r[2]) \cup lastpos(r[3])
    [] r[1] = "Star" -> lastpos(r[2])

(* What fill adds to the table: transition and transition after it.        *)
fill(r) ==
  CASE r[1] = "Seq"  -> fill(r[2]) \cup fill(r[3]) \cup (lastpos(r[2]) \X firstpos(r[3]))
    [] r[1] = "Alt"  -> fill(r[2]) \cup fill(r[3])
    [] r[1] = "Star" -> fill(r[2]) \cup (lastpos(r[2]) \X firstpos(r[2]))
    [] OTHER -> {}

followpos(size, regexps) ==
  LET filled == UNION {fill(regexps[i][2]) : i \in DOMAIN regexps}
  IN [p \in 0 .. size - 1 |-> {f[2] : f \in {x \in filled : x[1] = <<"OnChars", p>>}}]

-----------------------------------------------------------------------------
(* The subset construction.                                                *)

(* The action of the first rule that ends in st, and the positions in st.  *)
split_trans_set(st) ==
  <<Min({no_action} \cup {t[2] : t \in {x \in st : x[1] = "ToAction"}}),
    {t[2] : t \in {x \in st : x[1] = "OnChars"}}>>

(* m holds states and todo; a set that is new gets the next number.        *)
get_state(m, st) ==
  IF st \in ToSet(m.states)
    THEN m
    ELSE [m EXCEPT !.states = Append(@, st), !.todo = <<Len(m.states)>> \o @]
Number(m, st) == (CHOOSE i \in DOMAIN m.states : m.states[i] = st) - 1

Targets(pos_set) ==
  [c \in Char |-> UNION {follow[p] : p \in {x \in pos_set : c \in chars[x + 1]}}]

LexgenInit ==
  /\ lexdef \in Lexdefs /\ stage = "expand"
  /\ chars = <<>> /\ actions = <<>> /\ follow = <<>> /\ states = <<>> /\ todo = <<>>
  /\ initial_states = <<>> /\ automata = <<>>

Expand ==
  /\ stage = "expand"
  /\ LET ls == FoldLeft(expandLet, <<>>, lexdef.lets)
     IN IF Undefined(lexdef.lets, lexdef.rules)
          THEN stage' = "refused" /\ UNCHANGED lexdef
          ELSE /\ stage' = "encode"
               /\ lexdef' = [lexdef EXCEPT !.rules = [i \in DOMAIN @ |-> expandRule(ls, @[i])]]
  /\ UNCHANGED <<chars, actions, follow, states, todo, initial_states, automata>>

(* make_dfa up to the states; the initial ones again from the last.        *)
Encode ==
  /\ stage = "encode"
  /\ LET d == encode_lexdef(lexdef.rules)
         m == FoldRight(LAMBDA r, mm : get_state(mm, firstpos(r[2])), d.regexps, [states |-> <<>>, todo |-> <<>>])
     IN /\ chars' = d.chars
        /\ actions' = d.actions
        /\ follow' = followpos(Len(d.chars), d.regexps)
        /\ states' = m.states /\ todo' = m.todo
        /\ initial_states' = [e \in {d.regexps[i][1] : i \in DOMAIN d.regexps} |->
             Number(m, firstpos(d.regexps[CHOOSE i \in DOMAIN d.regexps : d.regexps[i][1] = e][2]))]
  /\ stage' = "translate"
  /\ UNCHANGED <<lexdef, automata>>

(* One round of map_on_states with translate_state.                        *)
Translate ==
  /\ stage = "translate" /\ todo # <<>>
  /\ LET q  == Head(todo)
         s  == split_trans_set(states[q + 1])
         tr == Targets(s[2])
         m  == FoldLeft(LAMBDA mm, c : IF tr[c] = {} THEN mm ELSE get_state(mm, tr[c]),
                        [states |-> states, todo |-> Tail(todo)], [i \in 1 .. MaxChar + 1 |-> i - 1])
     IN IF s[2] = {}
          THEN /\ automata' = automata @@ (q :> [performs |-> TRUE, action |-> s[1], moves |-> <<>>])
               /\ todo' = Tail(todo) /\ UNCHANGED states
          ELSE /\ automata' = automata @@ (q :> [performs |-> FALSE, action |-> s[1],
                    moves |-> [c \in Char |-> IF tr[c] = {} THEN Backtrack ELSE Number(m, tr[c])]])
               /\ states' = m.states /\ todo' = m.todo
  /\ UNCHANGED <<lexdef, stage, chars, actions, follow, initial_states>>

Translated ==
  /\ stage = "translate" /\ todo = <<>>
  /\ stage' = "generated"
  /\ UNCHANGED <<lexdef, chars, actions, follow, states, todo, initial_states, automata>>

LexgenNext == Expand \/ Encode \/ Translate \/ Translated

-----------------------------------------------------------------------------
(* The text of the function of a state: tests for the long runs of         *)
(* characters, a case for the others, and the commonest move as default.   *)

Sources(moves, dest) == {c \in Char : moves[c] = dest}

DefaultMove(moves) ==
  LET ds == {moves[c] : c \in Char}
  IN CHOOSE d \in ds : \A e \in ds : Cardinality(Sources(moves, d)) >= Cardinality(Sources(moves, e))

mkIntervals(cs) ==
  {i \in cs \X cs : i[1] .. i[2] \subseteq cs /\ i[1] <= i[2] /\ i[1] - 1 \notin cs /\ i[2] + 1 \notin cs}

(* unzipInterv: <<destination, <<first, last>>>>.                          *)
trans_i(moves) ==
  LET ds == {moves[c] : c \in Char} \ {DefaultMove(moves)}
  IN UNION {{d} \X {i \in mkIntervals(Sources(moves, d)) : i[2] - i[1] >= Interval} : d \in ds}
trans_s(moves) ==
  LET ds == {moves[c] : c \in Char} \ {DefaultMove(moves)}
      short(d) == {i \in mkIntervals(Sources(moves, d)) : i[2] - i[1] < Interval}
  IN UNION {{d} \X UNION {i[1] .. i[2] : i \in short(d)} : d \in ds}

(* What the function does on a character.                                  *)
output_all_trans(moves, c) ==
  LET through == {t \in trans_i(moves) : c >= t[2][1] /\ c <= t[2][2]}
      single  == {t \in trans_s(moves) : t[2] = c}
  IN IF through # {} THEN (CHOOSE t \in through : TRUE)[1]
     ELSE IF single # {} THEN (CHOOSE t \in single : TRUE)[1]
     ELSE DefaultMove(moves)
=============================================================================
