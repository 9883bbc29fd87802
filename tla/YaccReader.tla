----------------------------- MODULE YaccReader ----------------------------
(***************************************************************************)
(* mosmlyac reads a grammar: the declarations and rules of a source file   *)
(* become a list of symbols and a flat array of rules, which are then      *)
(* numbered and packed (src/mosmlyac/reader.c, symtab.c).  Arrays are      *)
(* functions from 0, as in the code.                                       *)
(***************************************************************************)
EXTENDS YaccScan

CONSTANTS
  Texts,     \* the source files: records whose field chars is the text
  Alphabet   \* the names of the tokens in the order of strcmp

VARIABLES
  text,
  phase,     \* what main() does next
  at,        \* cptr: the place of the next character
  y,         \* the symbols and rules read, and the actions written
  g          \* the packed grammar

readVars == <<text, at, y>>

UNDEFINED == -1
Entry     == "%entry%"

(* Arrays from 0: the next free index, and one more element.               *)
Size(f)    == Cardinality(DOMAIN f)
Push(f, v) == f @@ (Size(f) :> v)

(* The numbers of a set in increasing order.                               *)
Sorted(S) == [k \in 1 .. Cardinality(S) |->
                CHOOSE x \in S : Cardinality({z \in S : z < x}) = k - 1]

(* make_bucket: the symbol n, of which nothing is known.                   *)
make_bucket(n) == [name |-> n, class |-> "UNKNOWN", prec |-> 0, assoc |-> "TOKEN",
                   tag |-> <<>>, entry |-> 0, true_token |-> FALSE, value |-> UNDEFINED]

Find(t, n)   == SelectInSeq(t, LAMBDA b : b.name = n)
lookup(t, n) == IF Find(t, n) = 0 THEN Append(t, make_bucket(n)) ELSE t
Bucket(t, n) == t[Find(t, n)]
Put(t, b)    == [t EXCEPT ![Find(t, b.name)] = b]

create_symbol_table == <<[make_bucket("error") EXCEPT !.class = "TERM"]>>

(* The symbol that get_name or get_literal has read.                       *)
named(t, b) ==
  LET s == lookup(t, b.name)
  IN IF ~ b.literal THEN s
     ELSE Put(s, [Bucket(s, b.name) EXCEPT !.class = "TERM",
                    !.value = IF @ = UNDEFINED THEN b.value ELSE @])

Tagged(b, tag) == IF tag = <<>> THEN b ELSE [b EXCEPT !.tag = tag]

(* One name of a declaration of tokens.                                    *)
declare_token(t, n, kind, p, tag) ==
  LET s == named(t, n)
      b == [Tagged(Bucket(s, n.name), tag) EXCEPT !.class = "TERM"]
  IN Put(s, IF kind = "TOKEN" THEN [b EXCEPT !.true_token = TRUE]
                              ELSE [b EXCEPT !.assoc = kind, !.prec = p])

initialize_grammar(t) ==
  [symbols |-> t, prec |-> 0, entry_counter |-> 0, unionized |-> FALSE,
   plhs    |-> [i \in 0 .. 2 |-> None],      rprec  |-> [i \in 0 .. 2 |-> 0],
   rassoc  |-> [i \in 0 .. 2 |-> "TOKEN"],   pitem  |-> [j \in 0 .. 3 |-> None],
   open    |-> FALSE,                        last_was_action |-> FALSE,
   yyact   |-> <<>>]

(* The number the next rule gets, or that of the open one.                 *)
nrules(z) == Size(z.plhs) - (IF z.open THEN 1 ELSE 0)
nitems(z) == Size(z.pitem)

start_rule(z, n) ==
  [z EXCEPT !.symbols = Put(@, [Bucket(@, n) EXCEPT !.class = "NONTERM"]),
            !.plhs = Push(@, n), !.rprec = Push(@, UNDEFINED),
            !.rassoc = Push(@, "TOKEN"), !.open = TRUE]

end_rule(z) ==
  [z EXCEPT !.pitem = Push(@, None), !.open = FALSE, !.last_was_action = FALSE]

(* The first of the items of the open rule.                                *)
OpenFrom(z) == Max({j \in DOMAIN z.pitem : z.pitem[j] = None}) + 1

(* insert_empty_rule: an action in the middle of a rule becomes that of an *)
(* empty rule of a new symbol, put before the open rule.                   *)
insert_empty_rule(z) ==
  LET n == nrules(z)
      m == nitems(z)
      b == "$$" \o ToString(n)
  IN [z EXCEPT
        !.symbols = Append(@, [make_bucket(b) EXCEPT !.class = "NONTERM",
                                                         !.tag = Bucket(z.symbols, z.plhs[n]).tag]),
        !.pitem = [j \in 0 .. m + 1 |->
                     IF j < OpenFrom(z) THEN @[j]
                     ELSE IF j = OpenFrom(z) THEN None
                     ELSE IF j <= m THEN @[j - 1] ELSE b],
        !.plhs = [Push(@, @[n]) EXCEPT ![n] = b],
        !.rprec = [Push(@, @[n]) EXCEPT ![n] = 0],
        !.rassoc = [Push(@, @[n]) EXCEPT ![n] = "TOKEN"]]

Settled(z) == IF z.last_was_action THEN insert_empty_rule(z) ELSE z

(* add_symbol, the symbol having been read.                                *)
add_symbol(z, b) ==
  [Settled([z EXCEPT !.symbols = named(@, b)])
     EXCEPT !.last_was_action = FALSE, !.pitem = Push(@, b.name)]

(* copy_action: the action of the open rule, whose brace is at p, is       *)
(* written with its number and with the depths of the items it names; each *)
(* of them must have a type, and the left side too.                        *)
Types(z) == [i \in 1 .. nitems(z) - OpenFrom(z) |->
               Bucket(z.symbols, z.pitem[OpenFrom(z) + i - 1]).tag # <<>>]
Body(z, p) == LET b == copy_body(text.chars, p + 1, 1, Types(z), [p |-> p, word |-> None, refs |-> <<>>])
              IN IF Bucket(z.symbols, z.plhs[nrules(z)]).tag = <<>> THEN [b EXCEPT !.p = Stop] ELSE b

(* Mutant: the depths are counted before the empty rule is put in.         *)
copy_actionUnsettled(z, p) ==
  LET s == Settled(z)
      b == Body(s, p)
  IN [s EXCEPT !.last_was_action = TRUE,
               !.yyact = ((nrules(s) - 2) :>
                            [word |-> b.word, depths |-> [i \in DOMAIN b.refs |-> nitems(z) - OpenFrom(z) - b.refs[i]]]) @@ @]

copy_action(z, p) ==
  LET s == Settled(z)
      b == Body(s, p)
  IN [s EXCEPT !.last_was_action = TRUE,
               !.yyact = ((nrules(s) - 2) :>
                            [word |-> b.word, depths |-> [i \in DOMAIN b.refs |-> nitems(s) - OpenFrom(s) - b.refs[i]]]) @@ @]

mark_symbol(z, b) ==
  LET t == named(z.symbols, b)
  IN [z EXCEPT !.symbols = t, !.rprec[nrules(z)] = Bucket(t, b.name).prec,
               !.rassoc[nrules(z)] = Bucket(t, b.name).assoc]

(* make_goal: a rule  %entry% : token of the entry, entry  for each.       *)
EntryToken(e) == "'\\" \o OctalOf(e) \o "'"
make_goal(z) ==
  FoldLeft(LAMBDA x, b :
            LET s == start_rule([x EXCEPT !.symbols = lookup(@, Entry)], Entry)
                c == EntryToken(b.entry)
                t == lookup(s.symbols, c)
            IN end_rule([s EXCEPT
                 !.symbols = Put(t, [Bucket(t, c) EXCEPT !.class = "TERM", !.value = b.entry]),
                 !.pitem = Push(Push(@, c), b.name),
                 !.yyact = ((nrules(s) - 2) :> [word |-> None, depths |-> <<0>>]) @@ @]),
          z, SelectSeq(z.symbols, LAMBDA b : b.entry > 0))

(* check_symbols: what is never defined becomes a token.                   *)
check_symbols(z) ==
  [z EXCEPT !.symbols = [i \in DOMAIN @ |->
     IF @[i].class = "UNKNOWN" THEN [@[i] EXCEPT !.class = "TERM"] ELSE @[i]]]

-----------------------------------------------------------------------------
(* Numbering and packing.                                                  *)

Terms(t)    == SelectSeq(t, LAMBDA b : b.class = "TERM")
Nonterms(t) == SelectSeq(t, LAMBDA b : b.class # "TERM")
Rank(b)     == SelectInSeq(Alphabet, LAMBDA n : n = b.name)

(* sort_tokens: in the order of their names, which gives them their values.*)
sort_tokens(t) ==
  LET s == SortSeq(SelectSeq(t, LAMBDA b : b.true_token), LAMBDA b, c : Rank(b) < Rank(c))
  IN [i \in DOMAIN s |-> [s[i] EXCEPT !.value = 256 + i]]

(* The terminal with index i: where the list has a declared token, the     *)
(* next of the sorted ones.                                                *)
Terminal(t, i) ==
  LET s == Terms(t)
  IN IF s[i].true_token
       THEN sort_tokens(t)[Cardinality({j \in 1 .. i : s[j].true_token})]
       ELSE s[i]

(* The terminals without a value get those that are free, from 257; the    *)
(* first one gets 256.                                                     *)
TermValue(v, i) ==
  LET later == {j \in 2 .. i : v[j].value = UNDEFINED}
      free  == (257 .. 257 + Len(v)) \ {v[j].value : j \in DOMAIN v}
  IN IF v[i].value # UNDEFINED THEN v[i].value
     ELSE IF i = 1 THEN 256
     ELSE Sorted(free)[Cardinality(later)]

(* pack_symbols: 0 is the end of the input, then come the tokens, $accept, *)
(* the goal, and the other nonterminals in the order they were met.        *)
pack_symbols(t) ==
  LET v     == [i \in DOMAIN Terms(t) |-> Terminal(t, i)]
      w     == <<Bucket(t, Entry)>> \o SelectSeq(Nonterms(t), LAMBDA b : b.name # Entry)
      start == Len(v) + 1
      nsyms == start + 1 + Len(w)
      Packed(field(_), zero) ==
        [i \in 0 .. nsyms - 1 |-> IF i \in DOMAIN v THEN field(v[i])
                                  ELSE IF i > start THEN field(w[i - start]) ELSE zero]
  IN [ntokens |-> start, nsyms |-> nsyms,
      name   |-> Packed(LAMBDA b : b.name, None),
      symbol_prec  |-> Packed(LAMBDA b : b.prec, 0),
      symbol_assoc |-> Packed(LAMBDA b : b.assoc, "TOKEN"),
      symbol_true_token |-> Packed(LAMBDA b : b.true_token, FALSE),
      symbol_value |-> [i \in 0 .. nsyms - 1 |->
                          IF i = 0 THEN 0
                          ELSE IF i < start THEN TermValue(v, i) ELSE i - start - 1]]

Index(s, n) == CHOOSE i \in DOMAIN s.name : s.name[i] = n

(* pack_grammar: ritem holds the right sides, each closed by minus the     *)
(* number of its rule; a rule without %prec takes the precedence of its    *)
(* last terminal.                                                          *)
pack_grammar(z) ==
  LET s       == pack_symbols(z.symbols)
      rules   == 2 .. nrules(z) - 1
      ends    == Sorted({j \in DOMAIN z.pitem : z.pitem[j] = None})
      rrhs    == [i \in 2 .. nrules(z) |-> IF i = 2 THEN 1 ELSE ends[i + 1] + 1]
      terms(i) == {j \in rrhs[i] .. rrhs[i + 1] - 2 : Bucket(z.symbols, z.pitem[j]).class = "TERM"}
      Of(i, given, field(_), zero) ==
        IF i = 2 \/ z.rprec[i] # UNDEFINED THEN given[i]
        ELSE IF terms(i) = {} THEN zero ELSE field(Bucket(z.symbols, z.pitem[Max(terms(i))]))
  IN s @@
     [nrules |-> nrules(z),
      ritem  |-> [j \in DOMAIN z.pitem |->
                    IF j < 4 THEN <<-1, Index(s, Entry), 0, -2>>[j + 1]
                    ELSE IF z.pitem[j] # None THEN Index(s, z.pitem[j])
                    ELSE - CHOOSE i \in rules : rrhs[i + 1] = j + 1],
      rlhs   |-> [i \in rules |-> IF i = 2 THEN s.ntokens ELSE Index(s, z.plhs[i])],
      rrhs   |-> rrhs,
      rprec  |-> [i \in rules |-> Of(i, z.rprec, LAMBDA b : b.prec, 0)],
      rassoc |-> [i \in rules |-> Of(i, z.rassoc, LAMBDA b : b.assoc, "TOKEN")]]

-----------------------------------------------------------------------------
(* The steps: one declaration, one item of the rules, and the packing.     *)

fatal == phase' = "fatal" /\ UNCHANGED <<readVars, g>>

(* On to the place q, unless the scanner has stopped before it.            *)
Continue(q, p, z) ==
  IF q = Stop THEN fatal
  ELSE at' = q /\ phase' = p /\ y' = z /\ UNCHANGED <<text, g>>

ReaderInit ==
  /\ text \in Texts
  /\ phase = "declarations" /\ at = 1
  /\ y = initialize_grammar(create_symbol_table)
  /\ g = <<>>

Here == nextc(text.chars, at)
This == Peek(text.chars, Here)
Key  == IF This = "%" THEN keyword(text.chars, Here) ELSE None
Rest == nextc(text.chars, Here + 2)        \* what follows the keyword

declare_tokens ==
  LET p  == IF Key = "TOKEN" THEN y.prec ELSE y.prec + 1
      t  == IF Char(text.chars, Rest) = "<" THEN get_tag(text.chars, Rest, " ", <<>>)
                                            ELSE [p |-> Rest, tag |-> <<>>]
      ns == names(text.chars, t.p, <<>>)
  IN /\ phase = "declarations" /\ Key \in {"TOKEN", "LEFT", "RIGHT", "NONASSOC"}
     /\ Continue(ns.p, phase,
          [y EXCEPT !.prec = p,
                    !.symbols = FoldLeft(LAMBDA u, n : declare_token(u, n, Key, p, t.tag), @, ns.names)])

declare_types ==
  LET t  == IF Char(text.chars, Rest) = "<" THEN get_tag(text.chars, Rest, " ", <<>>)
                                            ELSE [p |-> Stop, tag |-> <<>>]
      ns == names(text.chars, t.p, <<>>)
  IN /\ phase = "declarations" /\ Key = "TYPE"
     /\ Continue(ns.p, phase,
          [y EXCEPT !.symbols =
             FoldLeft(LAMBDA u, n : Put(named(u, n), Tagged(Bucket(named(u, n), n.name), t.tag)), @, ns.names)])

(* advance_to_start takes a %start and code in %{ %} too.                  *)
declare_start ==
  LET n == get_name(text.chars, Rest)
      t == lookup(y.symbols, n.name)
      e == y.entry_counter + 1
  IN /\ phase \in {"declarations", "start"} /\ Key = "START"
     /\ IF ~ NameAt(text.chars, Rest) \/ Bucket(t, n.name).class = "TERM" THEN fatal
        ELSE Continue(n.p, phase, [y EXCEPT !.entry_counter = e,
                                            !.symbols = Put(t, [Bucket(t, n.name) EXCEPT !.entry = e])])

CopyText ==
  /\ phase \in {"declarations", "start"} /\ Key = "TEXT"
  /\ Continue(copy_text(text.chars, Here + 2), phase, y)

CopyOther ==
  /\ phase = "declarations" /\ Key \in {"IDENT", "UNION"}
  /\ IF Key = "IDENT" THEN Continue(copy_ident(text.chars, Here + 2), phase, y)
     ELSE Continue(IF y.unionized THEN Stop ELSE copy_union(text.chars, Here + 3, 1), phase,
                   [y EXCEPT !.unionized = TRUE])

EndDeclarations ==
  /\ phase = "declarations" /\ Key = "MARK"
  /\ Continue(Here + 2, "start", y)

(* syntax_error, and no_grammar.                                           *)
NoDeclaration ==
  /\ \/ phase = "declarations" /\ Key = None
     \/ phase = "start" /\ This = "%" /\ Key \notin {"TEXT", "START"}
  /\ fatal

(* A name with a colon opens a rule, and closes the one before it.         *)
Opens(z, n) ==
  LET t == named(z.symbols, n)
  IN IF Bucket(t, n.name).class = "TERM" THEN fatal
     ELSE Continue(nextc(text.chars, n.p) + 1, "rules",
                   start_rule(IF z.open THEN end_rule([z EXCEPT !.symbols = t]) ELSE [z EXCEPT !.symbols = t], n.name))
Colon(n) == Char(text.chars, nextc(text.chars, n.p)) = ":"

StartGrammar ==
  /\ phase = "start" /\ This # "%"
  /\ LET n == get_name(text.chars, Here)
     IN IF NameAt(text.chars, Here) /\ Colon(n) THEN Opens(y, n) ELSE fatal

AddSymbol ==
  /\ phase = "rules" /\ Starts(text.chars, Here)
  /\ LET n == Symbol(text.chars, Here)
     IN IF Colon(n) THEN Opens(y, n) ELSE Continue(nextc(text.chars, n.p), phase, add_symbol(y, n))

CopyAction ==
  /\ phase = "rules" /\ This \in {"{", "="}
  /\ Continue(Body(Settled(y), Here).p, phase, copy_action(y, Here))

Bar ==
  /\ phase = "rules" /\ This = "|"
  /\ Continue(Here + 1, phase, start_rule(end_rule(y), y.plhs[nrules(y)]))

MarkSymbol ==
  /\ phase = "rules" /\ This = "%" /\ Char(text.chars, Here + 1) \notin {"%", "\\"}
  /\ IF Char(text.chars, Here + 1) \in {"=", "prec", "PREC"} /\ Starts(text.chars, Rest)
       THEN Continue(Symbol(text.chars, Rest).p, phase, mark_symbol(y, Symbol(text.chars, Rest)))
       ELSE fatal

(* The end of the file, or of the rules.                                   *)
Pack ==
  LET z == make_goal(end_rule(y))
  IN /\ phase = "rules" /\ Here # Stop
     /\ \/ This = None
        \/ This = "%" /\ Char(text.chars, Here + 1) \in {"%", "\\"}
     /\ IF \/ Find(z.symbols, Entry) = 0
           \/ \E b \in ToSet(z.symbols) : b.entry > 0 /\ b.tag = <<>>
          THEN fatal
          ELSE /\ phase' = "derives"
               /\ y' = check_symbols(z)
               /\ g' = pack_grammar(y')
               /\ UNCHANGED <<text, at>>

NoItem ==
  /\ phase = "rules"
  /\ Here = Stop \/ (This \notin {None, "{", "=", "|", "%"} /\ ~ Starts(text.chars, Here))
  /\ fatal

ReaderNext ==
  \/ declare_tokens \/ declare_types \/ declare_start \/ CopyText \/ CopyOther
  \/ EndDeclarations \/ NoDeclaration
  \/ StartGrammar \/ AddSymbol \/ CopyAction \/ MarkSymbol \/ Bar \/ Pack \/ NoItem
=============================================================================
