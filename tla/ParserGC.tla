------------------------------ MODULE ParserGC -----------------------------
(***************************************************************************)
(* The parsing engine (src/runtime/parsing.c, src/mosmllib/Parsing.sml) as *)
(* a program that runs on the collector of MajorGC.tla.                    *)
(*                                                                         *)
(* Its environment env is a block in the heap, here the root itself: the   *)
(* field lval holds the attribute of the last token, the field v_stack the *)
(* stack of attributes.  What the tables of the automaton decide (shift,   *)
(* reduce, by how much, error) is left open.  The engine is C code, during *)
(* which no collection runs; the lexer, the semantic actions and           *)
(* growStacks are ML code, during which one may.                           *)
(***************************************************************************)
EXTENDS MajorGC

CONSTANTS
  BareAfterGrowth, \* a token without an attribute may be read after the stacks
                   \* have been grown
  StackSize        \* of the stacks of env at first

VARIABLES
  command,    \* what parse_engine returned for, or "engine" while it runs
  arg,        \* its last argument, which the loop of yyparse holds
  token,      \* curr_char is a token
  sp,
  stacksize

parserVars == <<command, arg, token, sp, stacksize>>
allVars    == <<vars, parserVars>>

env     == Global
lval    == 1
v_stack == 2


V == field[env][v_stack]

(* Mutant: the value overwritten is not darkened.                          *)
StoreRaw(a, f, v) ==
  /\ field' = [field EXCEPT ![a][f] = v]
  /\ UNCHANGED <<heap, tag, color, grayVars, cycleVars, callVars>>

(* Modify, of a field of a block the engine leads to.                      *)
Store(a, f, v) ==
  /\ field' = [field EXCEPT ![a][f] = v]
  /\ IF gc_phase = "Phase_mark"
       THEN Darken(field[a][f])
       ELSE UNCHANGED <<color, grayVars>>
  /\ UNCHANGED <<heap, tag, cycleVars, callVars>>

At(c) == Running /\ command = c

(* The engine goes on, or returns with a command for ML code.              *)
To(c) == command' = c /\ UNCHANGED arg

(* The engine is called again.                                             *)
Call(c, v) == command' = c /\ arg' = v /\ held' = {v} \ {Nil}

-----------------------------------------------------------------------------

(* The lexer makes the attribute of a token, a semantic action its value.  *)
Make(a) ==
  /\ At("READ_TOKEN") \/ At("COMPUTE_SEMANTIC_ACTION")
  /\ held = {arg} \ {Nil}
  /\ AllocShr(a, "Scan", [f \in Fields |-> Nil])
  /\ UNCHANGED parserVars

TokenRead ==
  /\ At("READ_TOKEN")
  /\ \/ \E a \in held \ {arg} : Store(env, lval, a) /\ Call("engine", a)
     \/ /\ BareAfterGrowth \/ stacksize = StackSize
        /\ held \ {arg} = {}
        /\ field' = [field EXCEPT ![env][lval] = Nil]
        /\ Call("engine", Nil)
        /\ UNCHANGED <<heap, tag, color, grayVars, cycleVars, callVars>>
  /\ token' = TRUE
  /\ UNCHANGED <<sp, stacksize>>

ReadToken ==
  /\ At("engine") /\ ~ token
  /\ To("READ_TOKEN")
  /\ UNCHANGED <<vars, token, sp, stacksize>>

(* shift: the stacks are grown first if they are full.                     *)
Shift ==
  /\ At("engine") /\ token
  /\ sp < NFields
  /\ sp' = sp + 1
  /\ To(IF sp' < stacksize THEN "push" ELSE "GROW_STACKS_1")
  /\ UNCHANGED <<vars, token, stacksize>>

Push ==
  /\ At("push")
  /\ Store(V, sp, field[env][lval]) /\ UNCHANGED held
  /\ To("engine") /\ token' = FALSE
  /\ UNCHANGED <<sp, stacksize>>

(* reduce, by a rule with m symbols.                                       *)
Reduce(m) ==
  /\ At("engine")
  /\ m <= sp /\ sp - m + 1 <= NFields
  /\ sp' = sp - m + 1
  /\ To(IF sp' < stacksize THEN "COMPUTE_SEMANTIC_ACTION" ELSE "GROW_STACKS_2")
  /\ UNCHANGED <<vars, token, stacksize>>

(* The value of the semantic action: a new one, that of a symbol of the    *)
(* rule, or an integer.                                                    *)
ActionComputed ==
  /\ At("COMPUTE_SEMANTIC_ACTION")
  /\ \E v \in {field[V][n] : n \in 1 .. NFields} \cup (held \ {arg}) \cup {Nil} :
       Store(V, sp, v) /\ Call("engine", v)
  /\ UNCHANGED <<token, sp, stacksize>>

(* growStacks: a stack of twice the size is made, and put in place.        *)
Grows == command \in {"GROW_STACKS_1", "GROW_STACKS_2"}

NewStack(a) ==
  /\ Running /\ Grows /\ held = {arg} \ {Nil}
  /\ AllocShr(a, "Scan", field[V])
  /\ UNCHANGED parserVars

StacksGrown ==
  /\ Running /\ Grows
  /\ \E a \in held \ {arg} : Store(env, v_stack, a)
  /\ stacksize' = 2 * stacksize
  /\ Call(IF command = "GROW_STACKS_1" THEN "push" ELSE "COMPUTE_SEMANTIC_ACTION", Nil)
  /\ UNCHANGED <<token, sp>>

(* Another parse, after RAISE_PARSE_ERROR, yyexit, or an exception in ML   *)
(* code.                                                                   *)
yyparse ==
  /\ Running /\ command # "push" /\ (command = "engine" => token)
  /\ Call("engine", Nil) /\ token' = TRUE /\ sp' = 0
  /\ UNCHANGED <<heap, tag, field, color, grayVars, cycleVars, callVars, stacksize>>

(* A minor collection in ML code.                                          *)
CollectInML ==
  /\ command \notin {"engine", "push"}
  /\ MinorCollection
  /\ UNCHANGED parserVars

(* An empty stack of attributes; the blocks may lie in any order.          *)
ParserInit ==
  /\ heap = HeapInit
  /\ tag = [a \in Addr |-> "Scan"]
  /\ \E v \in HeapInit \ {env} :
       /\ color = [a \in Addr |-> IF a \in {env, v} THEN "Black" ELSE "Blue"]
       /\ field = [a \in Addr |-> [f \in Fields |->
                    IF a = env /\ f = v_stack THEN v ELSE Nil]]
  /\ held = {}
  /\ gc_phase = "Phase_mark"
  /\ gray_vals = << >> /\ gray_size = GraySize /\ heap_is_pure = TRUE
  /\ markhp = Nil /\ gc_sweep_hp = 0 /\ weak_arrays = {}
  /\ calls = << >> /\ pc = "loop" /\ cur = Nil /\ idx = 0 /\ roots = {}
  /\ command = "engine" /\ arg = Nil /\ token = TRUE /\ sp = 0 /\ stacksize = StackSize

ParserNext ==
  \/ \E a \in Addr : Make(a) \/ NewStack(a)
  \/ \E m \in 0 .. NFields : Reduce(m)
  \/ TokenRead \/ ReadToken \/ Shift \/ Push \/ ActionComputed \/ StacksGrown \/ yyparse
  \/ CollectInML
  \/ Collector /\ UNCHANGED parserVars

ParserSpec == ParserInit /\ [][ParserNext]_allVars

=============================================================================
