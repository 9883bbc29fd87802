------------------------------ MODULE YaccScan -----------------------------
(***************************************************************************)
(* The scanner of mosmlyac (src/mosmlyac/reader.c): what a name, a         *)
(* literal, a type, an action is in the text of a grammar.                 *)
(*                                                                         *)
(* A text is a sequence of characters, except that a run of letters, as in *)
(* a name, is one element; it ends in a newline.  A place in it is an      *)
(* index: cptr and the lines before it.  "bq" is a backquote.  Every       *)
(* operator takes the place where it starts and returns the one where it   *)
(* ends, or Stop when the program ends with a message; past the last place *)
(* is the end of file.                                                     *)
(***************************************************************************)
EXTENDS Integers, Sequences, FiniteSets, SequencesExt, FiniteSetsExt

Stop == 0
None == ""
NL   == "\n"

Punctuation == {"%", "{", "}", "(", ")", "*", "/", "\\", "\"", "'", "bq", "<", ">", "-",
                ":", "|", "=", "$", "+", " ", ",", ";", NL}
Digits == [d \in {"0", "1", "2", "3", "4", "5", "6", "7", "8", "9"} |->
            CHOOSE n \in 0 .. 9 : ToString(n) = d]
Octal  == {d \in DOMAIN Digits : Digits[d] < 8}
Hex    == Digits @@ ("A" :> 10 @@ "B" :> 11 @@ "a" :> 10 @@ "b" :> 11)

Char(s, p)  == IF p \in DOMAIN s THEN s[p] ELSE None
Word(c)     == c # None /\ c \notin Punctuation \cup DOMAIN Digits
NameAt(s, p) == Word(Char(s, p))
Starts(s, p) == NameAt(s, p) \/ Char(s, p) \in {"'", "\""}

(* Past the first a b from p on.                                           *)
Past(s, p, a, b) ==
  LET I == {i \in p .. Len(s) - 1 : s[i] = a /\ s[i + 1] = b}
  IN IF I = {} THEN Stop ELSE Min(I) + 2

(* The start of the next line.                                             *)
get_line(s, p) == Min({i \in p .. Len(s) : s[i] = NL}) + 1

skip_comment(s, p) == Past(s, p + 2, "*", "/")

(* The next character that is neither blank nor in a comment.              *)
RECURSIVE nextc(_, _)
nextc(s, p) ==
  CASE Char(s, p) \in {" ", ",", ";", NL}                  -> nextc(s, p + 1)
    [] Char(s, p) = "/" /\ Char(s, p + 1) = "*"            -> nextc(s, skip_comment(s, p))
    [] Char(s, p) = "/" /\ Char(s, p + 1) = "/"            -> nextc(s, get_line(s, p))
    [] OTHER                                               -> p

(* \ is another way to write %.                                            *)
Peek(s, p) == IF Char(s, p) = "\\" THEN "%" ELSE Char(s, p)

Keywords ==
  [token |-> "TOKEN", term |-> "TOKEN", TOKEN |-> "TOKEN", type |-> "TYPE", left |-> "LEFT",
   right |-> "RIGHT", nonassoc |-> "NONASSOC", binary |-> "NONASSOC", start |-> "START",
   union |-> "UNION", ident |-> "IDENT"]
  @@ ("{" :> "TEXT" @@ "%" :> "MARK" @@ "\\" :> "MARK" @@ "<" :> "LEFT" @@ ">" :> "RIGHT"
      @@ "0" :> "TOKEN" @@ "2" :> "NONASSOC")

(* The keyword whose % is at p; without one, a syntax error.               *)
keyword(s, p) == IF Char(s, p + 1) \in DOMAIN Keywords THEN Keywords[Char(s, p + 1)] ELSE None

-----------------------------------------------------------------------------
MLQuotes == {"\"", "bq"}

(* What is copied: strings, comments of ML, and braces that match.         *)

(* Past the string closed by quote, p being in it.                         *)
RECURSIVE string(_, _, _)
string(s, quote, p) ==
  CASE Char(s, p) = quote                   -> p + 1
    [] Char(s, p) \in {NL, None}            -> Stop
    [] Char(s, p) = "\\"                    -> IF p + 1 = Len(s) THEN Stop ELSE string(s, quote, p + 2)
    [] OTHER                                -> string(s, quote, p + 1)

(* Mutant: braces and dollars in a string count.                           *)
copiedBare(s, p, quotes) == p + 1

(* Past the string or the comment that begins at p, or past a character.   *)
copied(s, p, quotes) ==
  CASE s[p] \in quotes                          -> string(s, s[p], p + 1)
    [] s[p] = "(" /\ Char(s, p + 1) = "*"       -> Past(s, p + 2, "*", ")")
    [] OTHER                                    -> p + 1

(* copy_ident, the word ident having been read.                            *)
copy_ident(s, p) ==
  LET q    == nextc(s, p)
      ends == {i \in q + 1 .. Len(s) : s[i] \in {"\"", NL}}
  IN IF Char(s, q) # "\"" THEN Stop
     ELSE IF s[Min(ends)] = NL THEN Min(ends) ELSE Min(ends) + 1

RECURSIVE copy_text(_, _)
copy_text(s, p) ==
  CASE Char(s, p) = None                                  -> Stop
    [] Peek(s, p) = "%" /\ Char(s, p + 1) = "}"           -> p + 2
    [] OTHER                                              -> copy_text(s, copied(s, p, MLQuotes))

(* copy_union: the brace that opens it, which must follow at once, is at   *)
(* p - 1.                                                                  *)
RECURSIVE copy_union(_, _, _)
copy_union(s, p, depth) ==
  CASE Char(s, p) = None                   -> Stop
    [] Char(s, p) = "}" /\ depth = 1       -> p + 1
    [] OTHER -> copy_union(s, copied(s, p, {"'", "\""}),
                           depth + (CASE s[p] = "{" -> 1 [] s[p] = "}" -> -1 [] OTHER -> 0))

(* The number at p, and the place after it.                                *)
RECURSIVE get_number(_, _, _)
get_number(s, p, n) ==
  IF Char(s, p) \in DOMAIN Digits THEN get_number(s, p + 1, 10 * n + Digits[s[p]]) ELSE <<n, p>>

(* The body of an action: $i is legal when typed[i], and is replaced; of   *)
(* the rest the first word is kept.  p is in the action, at depth braces.  *)
RECURSIVE copy_body(_, _, _, _, _)
copy_body(s, p, depth, typed, out) ==
  LET c == Char(s, p)
      i == get_number(s, p + 1, 0)
  IN CASE c = None -> [out EXCEPT !.p = Stop]
       [] c = "$" /\ Char(s, p + 1) \in DOMAIN Digits ->
            IF i[1] \in DOMAIN typed /\ typed[i[1]]
              THEN copy_body(s, i[2], depth, typed, [out EXCEPT !.refs = Append(@, i[1])])
              ELSE [out EXCEPT !.p = Stop]      \* unknown_rhs, illegal_token_ref, missing_type
       [] c = "}" /\ depth = 1 -> [out EXCEPT !.p = p + 1]
       [] c \in {"{", "}"} -> copy_body(s, p + 1, depth + (IF c = "{" THEN 1 ELSE -1), typed, out)
       [] OTHER -> copy_body(s, copied(s, p, MLQuotes), depth, typed,
                             IF Word(c) /\ out.word = None THEN [out EXCEPT !.word = c] ELSE out)

-----------------------------------------------------------------------------
(* Names, literals and types.                                              *)

Reserved == {".", "$accept", "$end", "$$1", "$$2"}

(* The characters a literal may hold, with their codes.                    *)
Ascii == "a" :> 97 @@ "b" :> 98 @@ "c" :> 99 @@ "n" :> 110 @@ "x" :> 120 @@ "+" :> 43 @@ "'" :> 39
         @@ "\"" :> 34 @@ "\\" :> 92 @@ "1" :> 49
Escapes == [a |-> 7, b |-> 8, f |-> 12, n |-> 10, r |-> 13, t |-> 9, v |-> 11]
MAXCHAR == 255

(* The value of the digits p .. q - 1.                                     *)
Number(s, p, q, base) == FoldLeft(LAMBDA n, d : base * n + Hex[d], 0, SubSeq(s, p, q - 1))
RunEnd(s, p, most, D) == CHOOSE q \in p .. p + most :
                           /\ \A i \in p .. q - 1 : Char(s, i) \in D
                           /\ q = p + most \/ Char(s, q) \notin D

(* The code the escape at p stands for, and the place after it.            *)
escape(s, p) ==
  LET c == Char(s, p)
      o == RunEnd(s, p, 3, Octal)
      h == RunEnd(s, p + 1, Len(s) - p, DOMAIN Hex)
      checked(n, q) == IF n > MAXCHAR THEN <<-1, Stop>> ELSE <<n, q>>
  IN CASE c \in Octal              -> checked(Number(s, p, o, 8), o)
       [] c = "x"                  -> IF h = p + 1 THEN <<-1, Stop>> ELSE checked(Number(s, p + 1, h, 16), h)
       [] c \in DOMAIN Escapes     -> <<Escapes[c], p + 1>>
       [] OTHER                    -> <<Ascii[c], p + 1>>

RECURSIVE codes(_, _, _, _)
codes(s, quote, p, out) ==
  LET c == Char(s, p)
      e == escape(s, p + 1)
  IN CASE c = quote                              -> <<p + 1, out>>
       [] c \in {NL, None}                       -> <<Stop, out>>
       [] c = "\\" /\ Char(s, p + 1) = NL        -> codes(s, quote, IF p + 1 = Len(s) THEN Stop ELSE p + 2, out)
       [] c = "\\" /\ Char(s, p + 1) # NL        -> codes(s, quote, e[2], Append(out, e[1]))
       [] OTHER                                  -> codes(s, quote, p + 1, Append(out, Ascii[c]))

OctalOf(n) == ToString(n \div 64) \o ToString((n \div 8) % 8) \o ToString(n % 8)
Printed(n, quote) ==
  LET named == {c \in DOMAIN Escapes : Escapes[c] = n}
      plain == {c \in DOMAIN Ascii : Ascii[c] = n}
  IN IF named # {} THEN "\\" \o (CHOOSE c \in named : TRUE)
     ELSE IF plain = {} THEN "\\" \o OctalOf(n)
     ELSE IF plain \cap {"\\", quote} # {} THEN "\\" \o (CHOOSE c \in plain : TRUE)
     ELSE CHOOSE c \in plain : TRUE

(* What a literal is called: its characters in one writing, in ' when it   *)
(* is one character and in " when not.  One character is its own value.    *)
get_literal(s, p) ==
  LET e     == codes(s, s[p], p + 1, <<>>)
      quote == IF Len(e[2]) = 1 THEN "'" ELSE "\""
  IN [p |-> e[1], literal |-> TRUE, value |-> IF Len(e[2]) = 1 THEN e[2][1] ELSE -1,
      name |-> quote \o FoldLeft(LAMBDA t, n : t \o Printed(n, quote), "", e[2]) \o quote]

get_name(s, p) ==
  [p |-> IF s[p] \in Reserved THEN Stop ELSE p + 1, literal |-> FALSE, value |-> -1, name |-> s[p]]

Symbol(s, p) == IF NameAt(s, p) THEN get_name(s, p) ELSE get_literal(s, p)

(* The names of a declaration, from p on, and where they end.              *)
RECURSIVE names(_, _, _)
names(s, p, out) ==
  LET q == nextc(s, p)
      b == Symbol(s, q)
  IN IF Starts(s, q) THEN names(s, b.p, Append(out, b)) ELSE [p |-> q, names |-> out]

closes(c, last) == c = ">" /\ last # "-"

(* get_tag: the type in < >, p being its place before the next character.  *)
(* An arrow does not close it.                                             *)
RECURSIVE get_tag(_, _, _, _)
get_tag(s, p, last, out) ==
  LET fresh == Char(s, p + 1) = NL
      q     == IF fresh THEN nextc(s, p + 1) ELSE p + 1
      c     == Peek(s, q)
  IN CASE c = None                                      -> [p |-> Stop, tag |-> out]
       [] closes(c, IF fresh THEN NL ELSE last)         -> [p |-> q + 1, tag |-> out]
       [] c # None /\ ~ closes(c, IF fresh THEN NL ELSE last) -> get_tag(s, q, c, Append(out, c))
=============================================================================
