------------------------------- MODULE Lexing -------------------------------
(***************************************************************************)
(* A generated lexer at work on its buffer (src/mosmllib/Lexing.sml, the   *)
(* functions Output.sml writes, src/runtime/lexing.c).                     *)
(*                                                                         *)
(* The buffer is a window on the input: refilling moves its contents and   *)
(* all positions towards the start, in the middle of a token too.          *)
(***************************************************************************)
EXTENDS Lexgen

CONSTANTS
  Inputs,     \* the texts: sequences of characters
  BufferSize,       \* of the buffer (2048)
  AuxSize         \* of the buffer the reader fills (1024)

VARIABLES
  source,      \* the text
  fromString, \* the buffer is one of createLexerString, not of createLexer
  lexbuf,     \* the buffer: its contents and its positions, counted from 0
  running,    \* [at: "idle", "state" or "read", q: state]
  scan        \* history: the last call, its entry, where it starts and what it gave

engineVars == <<source, fromString, lexbuf, running, scan>>

Eof  == 0
None == -1                  \* contents of the buffer that are never read
Idle == [at |-> "idle", q |-> 0]

(* The characters of the input, the end repeated.                          *)
Stream(i) == IF i < Len(source) THEN source[i + 1] ELSE Eof

createLexer == [buffer |-> [i \in 1 .. BufferSize |-> None], abs |-> -BufferSize, start |-> BufferSize, curr |-> BufferSize,
                last |-> BufferSize, action |-> no_action]

createLexerString(s) == [buffer |-> Append(s, Eof), abs |-> 0, start |-> 0, curr |-> 0,
                         last |-> 0, action |-> no_action]

getLexeme(b)      == SubSeq(b.buffer, b.start + 1, b.curr)
getLexemeStart(b) == b.abs + b.start
getLexemeEnd(b)   == b.abs + b.curr

LexingInit ==
  /\ LexgenInit
  /\ source = <<>> /\ fromString = FALSE /\ lexbuf = createLexer
  /\ running = Idle /\ scan = [entry |-> "", from |-> 0, result |-> "none", rule |-> 0, lexeme |-> <<>>]

(* An entry with rules for the empty text alone has no function: the       *)
(* generated program does not compile.                                     *)
Compiles == \A e \in DOMAIN initial_states : ~ automata[initial_states[e]].performs

Create ==
  /\ stage = "generated" /\ Compiles
  /\ stage' = "lexing"
  /\ source' \in Inputs
  /\ \/ fromString' = FALSE /\ lexbuf' = createLexer
     \/ fromString' = TRUE /\ lexbuf' = createLexerString(source')
  /\ UNCHANGED <<running, scan, lexdef, chars, actions, follow, states, todo, initial_states, automata>>

(* Where the next token starts: behind the last, or where a failure left   *)
(* the buffer.                                                             *)
Resumed == IF scan.result = "token" THEN scan.from + Len(scan.lexeme) ELSE getLexemeEnd(lexbuf)

(* The function of an entry.  The program stops a character behind the end *)
(* of its input; after an illegal symbol it goes on only while the place   *)
(* it is sent back to is still in the buffer.                              *)
Entry(e) ==
  /\ stage = "lexing" /\ running = Idle
  /\ getLexemeEnd(lexbuf) <= Len(source) + 1 /\ lexbuf.curr >= 0
  /\ lexbuf' = [lexbuf EXCEPT !.action = no_action, !.start = lexbuf.curr]
  /\ running' = [at |-> "state", q |-> initial_states[e]]
  /\ scan' = [entry |-> e, from |-> Resumed, result |-> "none", rule |-> 0, lexeme |-> <<>>]
  /\ UNCHANGED <<source, fromString, lexgenVars>>

(* The function of a state begins.                                         *)
State ==
  /\ running.at = "state"
  /\ lexbuf' = IF automata[running.q].action = no_action THEN lexbuf
               ELSE [lexbuf EXCEPT !.last = lexbuf.curr, !.action = automata[running.q].action]
  /\ running' = [running EXCEPT !.at = "read"]
  /\ UNCHANGED <<source, fromString, scan, lexgenVars>>

(* get_next_char calls refill_buff.                                        *)
AtEnd == running.at = "read" /\ lexbuf.curr >= Len(lexbuf.buffer)

(* Mutant: the place to go back to stays where it was.                   *)
ShiftedButLast(b, chunk) ==
  LET n == Len(chunk)
  IN [b EXCEPT !.buffer = SubSeq(@, n + 1, BufferSize) \o chunk,
               !.abs = @ + n, !.curr = @ - n, !.start = @ - n]

Shifted(b, chunk) ==
  LET n == Len(chunk)
  IN [b EXCEPT !.buffer = SubSeq(@, n + 1, BufferSize) \o chunk,
               !.abs = @ + n, !.curr = @ - n, !.start = @ - n, !.last = @ - n]

(* What is left of the input: the reader has given what is in the buffer.  *)
Left == SubSeq(source, lexbuf.abs + BufferSize + 1, Len(source))

(* The chunk the reader gives; at the end of its input, none: a NUL.       *)
lexRefill(chunk) ==
  /\ AtEnd /\ ~ fromString
  /\ lexbuf' = Shifted(lexbuf, IF chunk = <<>> THEN <<Eof>> ELSE chunk)
  /\ IF lexbuf'.start < 0
       THEN running' = Idle /\ scan' = [scan EXCEPT !.result = "too long"]
       ELSE UNCHANGED <<running, scan>>
  /\ UNCHANGED <<source, fromString, lexgenVars>>

Refill == \E n \in 0 .. AuxSize : n <= Len(Left) /\ (n = 0 <=> Left = <<>>) /\ lexRefill(SubSeq(Left, 1, n))

RefillString ==
  /\ AtEnd /\ fromString
  /\ lexbuf' = [lexbuf EXCEPT !.curr = @ - 1]
  /\ UNCHANGED <<source, fromString, running, scan, lexgenVars>>

(* The reader raises; the call of the lexer is over.                       *)
ReaderRaises ==
  /\ AtEnd /\ ~ fromString
  /\ running' = Idle /\ scan' = [scan EXCEPT !.result = "raised"]
  /\ UNCHANGED <<source, fromString, lexbuf, lexgenVars>>

(* An action is performed; or, in dummyAction, none is.                    *)
Perform(b, a) ==
  /\ lexbuf' = b
  /\ running' = Idle
  /\ scan' = IF a = no_action THEN [scan EXCEPT !.result = "illegal"]
             ELSE [scan EXCEPT !.result = "token", !.rule = actions[a][2], !.lexeme = getLexeme(b)]

backtrack(b) == Perform([b EXCEPT !.curr = b.last], b.action)

(* get_next_char and the move it selects.                                  *)
NextChar ==
  /\ running.at = "read" /\ ~ AtEnd
  /\ LET c    == lexbuf.buffer[lexbuf.curr + 1]
         b    == [lexbuf EXCEPT !.curr = @ + 1]
         move == output_all_trans(automata[running.q].moves, c)
     IN CASE move = Backtrack -> backtrack(b)
          [] move # Backtrack /\ automata[move].performs -> Perform(b, automata[move].action)
          [] OTHER -> lexbuf' = b /\ running' = [at |-> "state", q |-> move] /\ UNCHANGED scan
  /\ UNCHANGED <<source, fromString, lexgenVars>>

LexingNext ==
  \/ LexgenNext /\ UNCHANGED engineVars
  \/ Create
  \/ \E e \in DOMAIN initial_states : Entry(e)
  \/ State \/ Refill \/ RefillString \/ ReaderRaises \/ NextChar

-----------------------------------------------------------------------------
(* What a lexer promises, from the definition alone.                       *)

(* Where a match that starts at a place of S may end; no rule matches more *)
(* than two ends of the input.                                             *)
Furthest == Len(source) + 4
RECURSIVE Ends(_, _)
Ends(r, S) ==
  CASE r[1] = "Epsilon"     -> S
    [] r[1] = "Characters"  -> {p + 1 : p \in {x \in S : x < Furthest /\ Stream(x) \in r[2]}}
    [] r[1] = "Sequence"    -> Ends(r[3], Ends(r[2], S))
    [] r[1] = "Alternative" -> Ends(r[2], S) \cup Ends(r[3], S)
    [] r[1] = "Repetition"  -> FoldLeft(LAMBDA T, i : T \cup Ends(r[2], T), S, [i \in 0 .. Furthest |-> i])

(* A buffer on a string has one NUL, whose place a token cannot pass.      *)
Passed(p) == IF fromString THEN Min({p, Len(source) + 1}) ELSE p

(* A call recognises the longest text that one of its rules matches from   *)
(* where the last token ended, by the first rule that matches it, and      *)
(* getLexeme returns that text: although the automaton forgets the rules,  *)
(* the generated tests overlap with a default, and the buffer is moved     *)
(* below a token.  No token that fits is too long.                         *)
LongestMatch ==
  /\ scan.result \in {"token", "illegal"} =>
       LET rs   == lexdef.rules[CHOOSE i \in DOMAIN lexdef.rules : lexdef.rules[i][1] = scan.entry][2]
           ends == [k \in DOMAIN rs |-> Ends(rs[k], {scan.from})]
           all  == UNION {ends[k] : k \in DOMAIN rs}
       IN IF all = {} THEN scan.result = "illegal"
          ELSE /\ scan.result = "token"
               /\ scan.rule = Min({k \in DOMAIN rs : Max(all) \in ends[k]})
               /\ scan.lexeme = [i \in 1 .. Passed(Max(all)) - scan.from |-> Stream(scan.from + i - 1)]
               /\ getLexemeStart(lexbuf) = scan.from
  /\ scan.result = "too long" => lexbuf.curr - lexbuf.start > BufferSize - AuxSize
=============================================================================
