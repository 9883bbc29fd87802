----------------------------- MODULE MCParsing -----------------------------
(***************************************************************************)
(* The parsing engine on the tables of mosmlyac, and the lexers of         *)
(* mosmllex that give it tokens.  Which of the two moves is chosen at the  *)
(* start; the variables of the other keep one value.                       *)
(***************************************************************************)
EXTENDS MCYacc

CONSTANTS
  MaxChar, Lexdefs, Interval, Inputs, BufferSize, AuxSize  \* of Lexing

VARIABLES
  which,                                   \* "tables" or "lexers"
  lexdef, stage, chars, actions, follow, states, todo, initial_states, automata,   \* of Lexgen
  source, fromString, lexbuf, running, scan                                         \* of Lexing

Lex == INSTANCE Lexing

(* Lexer definitions, and the texts they are run on.                       *)
Class(S)      == <<"Characters", S>>
Then(r1, r2)  == <<"Sequence", r1, r2>>
Or(r1, r2)    == <<"Alternative", r1, r2>>
Star(r)       == <<"Repetition", r>>
Plus(r)       == Then(r, Star(r))
Epsilon       == <<"Epsilon">>
Maybe(r)      == Or(r, Epsilon)
Abbrev(n)     == <<"Name", n>>
EndOfInput    == Class({0})
Underscore    == Class(1 .. MaxChar)
Lexer(lets, rules) == [lets |-> lets, rules |-> rules]

LexerDefs == {
  \* An abbreviation that is redefined, a keyword among the identifiers, two entries.
  Lexer(<<<<"x", Class({1})>>, <<"x", Or(Abbrev("x"), Class({2}))>>>>,
        <<<<"token", <<Then(Class({1}), Class({2})), Plus(Abbrev("x")), EndOfInput>>>>,
          <<"comment", <<Class({3, 4}), Underscore>>>>>>),
  \* A long way back when a text goes on as that of a longer rule and does not end so.
  Lexer(<<>>, <<<<"token", <<Class({1}), Then(Star(Class({1})), Class({2})),
                             Then(Class({3}), Maybe(EndOfInput))>>>>>>),
  \* Empty tokens, rules that end alike, a rule that takes all there is.
  Lexer(<<>>, <<<<"token", <<Star(Class({2, 4})), Then(Maybe(Class({1})), Class({2})),
                             Then(Class({1}), Maybe(Then(Class({1}), Class({3}))))>>>>,
                <<"line", <<Then(Star(Underscore), EndOfInput)>>>>>>),
  \* The end of the input again and again; a class of no character.
  Lexer(<<>>, <<<<"token", <<Plus(EndOfInput), Then(Class({}), Underscore), Class({1, 3})>>>>>>),
  \* A block in a block.
  Lexer(<<<<"pair", Then(Class({1}), Class({2}))>>>>,
        <<<<"token", <<Star(Or(Star(Abbrev("pair")), Class({3}))), Then(Plus(Abbrev("pair")), Class({1})), Class({2})>>>>>>),
  \* No definitions of a lexer: a name in terms of itself, an unknown one, a rule for the empty text alone.
  Lexer(<<<<"x", Abbrev("x")>>>>, <<<<"token", <<Abbrev("x")>>>>>>),
  Lexer(<<<<"x", Class({1})>>>>, <<<<"token", <<Abbrev("y")>>>>>>),
  Lexer(<<>>, <<<<"token", <<Epsilon>>>>>>) }

LexerTexts == UNION {[1 .. n -> 1 .. 3] : n \in 0 .. 3}
              \cup {<<1, 1, 1, 1, 1, 2>>, <<3, 2, 4, 4, 2, 1>>, <<1, 2, 1, 2, 3, 1, 2, 1>>}

ASSUME LexerAssumption ==
  /\ MaxChar \in Nat \ {0} /\ MaxChar < Lex!no_action /\ Interval \in Nat /\ AuxSize \in Nat \ {0}
  /\ BufferSize \in Nat /\ BufferSize >= 2 * AuxSize

ASSUME EngineAssumption == StackSize \in Nat \ {0, 1}

lexVars == <<lexdef, stage, chars, actions, follow, states, todo, initial_states, automata,
             source, fromString, lexbuf, running, scan>>

(* What does not move has one initial state.                               *)
ParsingInit ==
  /\ which \in {"tables", "lexers"}
  /\ Init /\ Lex!LexingInit
  /\ which = "lexers" => text = (CHOOSE t \in Files : ~ t.legal)
  /\ which = "tables" => lexdef = (CHOOSE d \in Lexdefs : TRUE)

ParsingNext ==
  \/ which = "tables" /\ Next /\ UNCHANGED <<which, lexVars>>
  \/ which = "lexers" /\ Lex!LexingNext /\ UNCHANGED <<which, vars>>

ParsingSpec == ParsingInit /\ [][ParsingNext]_<<which, vars, lexVars>>

(* A lexer gives the longest token, by the first rule, with its text.      *)
LongestMatch == Lex!LongestMatch
=============================================================================
