------------------------------- MODULE MCYacc ------------------------------
EXTENDS YaccEngine

-----------------------------------------------------------------------------
(* The writing of a text.  The noisy one puts into it what the scanner has *)
(* to see through: comments, strings and braces in actions, arrows in      *)
(* types, other writings of the same keyword or literal.                   *)
Words(ns)  == FlattenSeq([i \in DOMAIN ns |-> <<" ">> \o ns[i]])
Spelled(n) == CASE n = "'+'" -> <<"'", "\\", "0", "5", "3", "'">>
                [] n = "'c'" -> <<"'", "\\", "x", "6", "3", "'">>
                [] OTHER     -> <<n>>
Type(noisy)    == IF noisy THEN <<"<", "int", "-", ">", "(", "*", NL, "/", "*", ">", "*", "/", "int", ">">>
                           ELSE <<"<", "int", ">">>
Comment(noisy) == IF noisy THEN <<"/", "*", ":", "|", "}", NL, "*", "/", "/", "/", "{", "%", NL>> ELSE <<NL>>
Keyword(k, noisy) ==
  CASE k = "TOKEN" -> IF noisy THEN <<"%", "term">> ELSE <<"%", "token">>
    [] k = "LEFT"  -> IF noisy THEN <<"\\", "<">> ELSE <<"%", "left">>
    [] k = "RIGHT" -> <<"%", "right">>
    [] k = "NONASSOC" -> <<"%", "binary">>
    [] k = "START"    -> <<"%", "start">>

Header(noisy) ==
  IF noisy THEN <<"%", "{", "val", "\"", "%", "}", "\\", "\"", "\"", "(", "*", "%", "}", "*", ")", "%", " ", "\\", "}", NL,
                  "%", "ident", " ", "\"", "x", "\"", "%", "union", "{", "{", "'", "}", "'", "}", "(", "*", "}", "*", ")", "}">>
           ELSE <<>>

Declared(d, noisy) ==
  Keyword(d[1], noisy) \o (IF d[1] = "TOKEN" THEN Type(noisy) ELSE <<>>)
    \o Words([i \in DOMAIN d[2] |-> Spelled(d[2][i])]) \o Comment(noisy)

(* The action at place i, after the given items; it names all that have a  *)
(* value.                                                                  *)
Action(i, items, noisy) ==
  LET refs == FlattenSeq([j \in DOMAIN items |->
                IF items[j] \in {<<"sym", "'+'">>, <<"sym", "'c'">>} THEN <<>> ELSE <<" ", "$", ToString(j)>>])
  IN <<"{", ActionName(i)>>
     \o (IF noisy THEN <<"\"", "}", "$", "9", "\\", "\"", "\"", "{", "}", "(", "*", "}", "$", "9", "(", "*", ")", NL, "{">> \o refs \o <<"}">>
                  ELSE refs)
     \o <<"}">>

RuleText(rules, noisy) ==
  FlattenSeq([i \in DOMAIN rules |->
    LET from == Max({0} \cup {j \in 1 .. i : rules[j][1] \in {"lhs", "bar"}})
        k    == SelectSeq(SubSeq(rules, from + 1, i - 1), LAMBDA it : it[1] \in {"sym", "act"})
    IN CASE rules[i][1] = "lhs"  -> <<";">> \o <<rules[i][2]>> \o Comment(noisy) \o <<":">>
         [] rules[i][1] = "bar"  -> <<"|">>
         [] rules[i][1] = "prec" -> <<"%", IF noisy THEN "=" ELSE "prec", " ">> \o Spelled(rules[i][2])
         [] rules[i][1] = "sym"  -> Comment(noisy) \o Spelled(rules[i][2])
         [] rules[i][1] = "act"  -> Action(i, k, noisy)])

(* A source file, from its declarations and <<lhs, rhs, %prec or none>>.    *)
Text(decls, alts, n, noisy) ==
  LET rules == FlattenSeq([i \in DOMAIN alts |->
        LET a == alts[i]
        IN (IF i > 1 /\ alts[i - 1][1] = a[1] THEN <<<<"bar">>>> ELSE <<<<"lhs", a[1]>>>>)
           \o [k \in DOMAIN a[2] |-> IF a[2][k] = "{}" THEN <<"act">> ELSE <<"sym", a[2][k]>>]
           \o (IF a[3] = "" THEN <<>> ELSE <<<<"prec", a[3]>>>>)
           \o <<<<"act">>>>])
      used  == {it[2] : it \in {r \in ToSet(rules) : r[1] \in {"lhs", "sym"}}}
      given == UNION {ToSet(d[2]) : d \in {x \in ToSet(decls) : x[1] = "TOKEN"}}
      typed == SetToSeq(used \ (given \cup {"'+'", "'c'"}))
  IN [decls |-> decls, rules |-> rules, parses |-> n, legal |-> TRUE,
      chars |-> Header(noisy) \o FlattenSeq([i \in DOMAIN decls |-> Declared(decls[i], noisy)])
                \o <<"%", "type">> \o Type(FALSE) \o Words([i \in DOMAIN typed |-> <<typed[i]>>])
                \o Comment(noisy) \o <<"%", "%">> \o RuleText(rules, noisy) \o (IF noisy THEN <<"%", "%", "{", NL>> ELSE <<NL>>)]

(* A text as it stands, which is not a grammar.                            *)
Bad(before, after) == [Text(<<<<"TOKEN", <<"a">>>>, <<"START", <<"S">>>>>>, <<<<"S", <<"a">>, "">>>>, 0, FALSE)
                         EXCEPT !.chars = before \o @ \o after \o <<NL>>]
Only(chars) == [Bad(<<>>, <<>>) EXCEPT !.chars = chars \o <<NL>>]

Names == <<"EOF", "MINUS", "NOT", "NUM", "PLUS", "a", "b", "c">>

(* Every grammar of two alternatives of S and one of T, with a right side  *)
(* of at most two symbols.                                                 *)
Rhss == {<<>>} \cup {<<x>> : x \in {"a", "b", "S", "T"}}
        \cup {<<x, z>> : x \in {"a", "S", "T"}, z \in {"b", "S", "T"}}
Small == {Text(<<<<"TOKEN", <<"b", "a">>>>, <<"START", <<"S">>>>>>,
               <<<<"S", u, "">>, <<"S", v, "">>, <<"T", w, "">>>>, 0, FALSE) : u \in Rhss, v \in Rhss, w \in {<<>>, <<"b">>, <<"S">>, <<"T","S">>}}

Expressions(levels, alts) ==
  Text(<<<<"TOKEN", <<"PLUS", "NUM", "MINUS">>>>, <<"TOKEN", <<"NOT", "EOF">>>>>> \o levels \o <<<<"START", <<"main">>>>>>,
       <<<<"main", <<"expr", "EOF">>, "">>, <<"expr", <<"NUM">>, "">>, <<"expr", <<"expr", "PLUS", "expr">>, "">>>> \o alts, 1, TRUE)
MinusExpr == <<"expr", <<"expr", "MINUS", "expr">>, "">>

Parsed == {
  Expressions(<<<<"LEFT", <<"PLUS">>>>, <<"RIGHT", <<"MINUS">>>>>>, <<MinusExpr>>),
  Expressions(<<<<"NONASSOC", <<"MINUS">>>>, <<"LEFT", <<"PLUS">>>>>>, <<MinusExpr>>),
  Expressions(<<<<"LEFT", <<"PLUS", "MINUS">>>>, <<"LEFT", <<"NOT">>>>>>,
              <<MinusExpr, <<"expr", <<"MINUS", "expr">>, "NOT">>>>),
  Text(<<<<"TOKEN", <<"b", "a">>>>, <<"START", <<"S">>>>, <<"START", <<"T">>>>>>,
       <<<<"S", <<"a", "{}", "T", "{}", "b">>, "">>, <<"T", <<>>, "">>, <<"T", <<"T", "c", "S">>, "">>>>, 1, TRUE),
  Text(<<<<"TOKEN", <<"b", "a", "c">>>>, <<"START", <<"S">>>>, <<"START", <<"T">>>>>>,
       <<<<"S", <<"a", "{}", "T", "b", "{}">>, "">>, <<"T", <<>>, "">>, <<"T", <<"a">>, "">>>>, 2, FALSE),
  Text(<<<<"TOKEN", <<"b", "a", "c">>>>, <<"START", <<"S">>>>>>,
       <<<<"S", <<"T", "a", "T", "c">>, "">>, <<"S", <<"b", "S">>, "">>, <<"T", <<>>, "">>, <<"T", <<"b">>, "">>>>, 1, TRUE) }

Refused == {
  Text(<<<<"TOKEN", <<"a">>>>, <<"START", <<"a">>>>>>, <<<<"S", <<"a">>, "">>>>, 0, FALSE),
  Text(<<<<"TOKEN", <<"a">>>>, <<"START", <<"S">>>>>>, <<<<"a", <<"S">>, "">>>>, 0, FALSE),
  Text(<<<<"TOKEN", <<"a">>>>>>, <<<<"S", <<"a">>, "">>>>, 0, FALSE) }

Malformed == {
  Bad(<<"%", "{", "(", "*", "%", "}">>, <<>>), Bad(<<"%", "{", "%">>, <<>>), Bad(<<"%", "union", "{", "{", "}">>, <<>>),
  Bad(<<"%", "union", "{", "}", "%", "union", "{", "}">>, <<>>), Bad(<<"%", "ident", " ", "x">>, <<>>),
  Bad(<<"%", "type", " ", "S">>, <<>>), Only(<<"%", "token", "<", "int">>), Bad(<<"%", "what">>, <<>>),
  Bad(<<"a">>, <<>>), Bad(<<"%", "%", "%", "%">>, <<>>), Bad(<<"%", "%", "%", "left">>, <<>>), Bad(<<"%", "%", "S">>, <<>>),
  Bad(<<"/", "*">>, <<>>), Bad(<<"%", "start", " ", "'", "a", "'">>, <<>>), Bad(<<"%", "token", " ", "'", "a", NL>>, <<>>),
  Bad(<<"%", "token", " ", "'", "\\", "7", "7", "7", "'">>, <<>>), Bad(<<"%", "token", " ", "'", "\\", "x", "+", "'">>, <<>>),
  Bad(<<"%", "token", " ", "$end">>, <<>>),
  Bad(<<>>, <<"|", "a", "{", "act1", "$", "2", "}">>), Bad(<<>>, <<"|", "b", "{", "$", "1", "}">>), Bad(<<>>, <<"T", ":", "{", "}">>),
  Bad(<<>>, <<"{", "\"", NL>>), Bad(<<>>, <<"{", "\"", "\\">>), Bad(<<>>, <<"{", "{", "}">>), Bad(<<>>, <<"%", "left", " ", "a">>),
  Bad(<<>>, <<"<">>), Bad(<<>>, <<"/", "*">>),
  Bad(<<"%", "start", " ", "T">>, <<>>) }

(* Literals in their writings, with a name that a literal also gives.      *)
Literals == {
  Text(<<<<"TOKEN", <<"b", "a">>>>, <<"LEFT", <<"'+'">>>>, <<"START", <<"S">>>>>>,
       <<<<"S", <<"S", "'+'", "S">>, "">>, <<"S", <<"a">>, "">>, <<"S", <<"'c'", "S">>, "'+'">>>>, 1, FALSE) }

Files == Small \cup Parsed \cup Literals \cup {[t EXCEPT !.legal = FALSE] : t \in Refused \cup Malformed}
=============================================================================
