------------------------------- MODULE Machine ------------------------------
(***************************************************************************)
(* The bytecode interpreter (src/runtime/interp.c): the instructions on    *)
(* ints, blocks, closures and exceptions, run on bytecode and on threaded  *)
(* code.  Calls of C, floats, strings, signals and the growth of the stack *)
(* are left out here; the control of the ones that have any is in Interp.  *)
(*                                                                         *)
(* The stack is a sequence whose head is sp[0]; a pointer into it is the   *)
(* number of words from there to its end.  Blocks are not moved or freed.  *)
(***************************************************************************)
EXTENDS Bytecode

CONSTANTS
  Images,     \* the programs: the bytecode of each, linked from a file or not
  Results,    \* what the term of each evaluates to
  NGlobals    \* slots of global_data

VARIABLES
  prog, linked,     \* which program; from a file, or loaded by the toplevel
  form, code,       \* "bytes" or "cells": bytecode or threaded code
  pc, accu, stack, env, extra_args, trapsp,
  heap, global_data,
  halted            \* "no", "stop" at STOP, "raised" by an exception no trap takes

fixed     == <<prog, linked, form, code>>
frameVars == <<env, extra_args>>
memVars   == <<heap, global_data>>
vars      == <<fixed, pc, accu, stack, frameVars, trapsp, memVars, halted>>

Name  == IF halted = "no" THEN code[pc][2] ELSE "none"
Index == code[pc][3]
p     == pc + 1         \* pc after the fetch

(* Operands, and the place after one.                                      *)
arg(q)         == code[q][2]
s16(q)         == IF form = "bytes" THEN Signed16(arg(q)) ELSE arg(q)
JUMPTGT(q)     == IF form = "bytes" THEN q + arg(q) ELSE arg(q)
after(q, kind) == IF form = "bytes" THEN q + Bytes(kind) ELSE q + 1

CodePtr(q)    == <<"code", q>>
StackPtr(n)   == <<"sp", n>>
null_env      == Atom(0)
Block(v)      == heap[v[2]]
Field(v, i)   == Block(v).fld[i + 1]
Code_val(f)   == Field(f, 0)[2]
Tag_val(v)    == IF v[1] = "atom" THEN v[2] ELSE Block(v).tag
Wosize_val(v) == IF v[1] = "atom" THEN 0 ELSE Len(Block(v).fld)

Top(st, n)  == SubSeq(st, 1, n)
Drop(st, n) == SubSeq(st, n + 1, Len(st))

(* The instructions that begin by pushing the accumulator.                 *)
PushFirst == {"PUSH", "PUSHACCn", "PUSHACC", "PUSHENVn", "PUSHENVACC", "PUSH_ENV1_APPLYn",
  "PUSH_ENV1_APPTERMn", "PUSH_GETGLOBAL", "PUSH_GETGLOBAL_APPLYn", "PUSH_GETGLOBAL_APPTERMn",
  "PUSHATOM0", "PUSHATOM", "PUSHCONSTn", "PUSHCONSTINT"}
pushed == IF Name \in PushFirst THEN <<accu>> \o stack ELSE stack

Go(q, a, st)     == pc' = q /\ accu' = a /\ stack' = st /\ UNCHANGED <<fixed, halted>>
Simple(q, a, st) == Go(q, a, st) /\ UNCHANGED <<frameVars, trapsp, memVars>>

(* The accumulator becomes a new block.                                    *)
Alloc(q, tag, fld, st) ==
  /\ Go(q, <<"blk", Len(heap) + 1>>, st)
  /\ heap' = Append(heap, [tag |-> tag, fld |-> fld])
  /\ UNCHANGED <<frameVars, trapsp, global_data>>

-----------------------------------------------------------------------------
(* Loads.                                                                  *)

Load ==
  \/ Name = "PUSH" /\ Simple(p, accu, pushed)
  \/ Name \in {"ACCn", "PUSHACCn"} /\ Simple(p, pushed[Index + 1], pushed)
  \/ Name \in {"ACCESS", "PUSHACC"} /\ Simple(after(p, "u16"), pushed[arg(p) + 1], pushed)
  \/ Name \in {"ENVn", "PUSHENVn"} /\ Simple(p, Field(env, Index), pushed)
  \/ Name \in {"ENVACC", "PUSHENVACC"} /\ Simple(after(p, "u16"), Field(env, arg(p)), pushed)

LoadGlobal ==
  Name \in {"GETGLOBAL", "PUSH_GETGLOBAL"} /\ Simple(after(p, "s32"), global_data[arg(p)], pushed)

LoadAtom ==
  \/ Name \in {"ATOMn", "PUSHATOM0"} /\ Simple(p, Atom(Index), pushed)
  \/ Name \in {"ATOM", "PUSHATOM"} /\ Simple(after(p, "u8"), Atom(arg(p)), pushed)

LoadConst ==
  \/ Name \in {"CONSTn", "PUSHCONSTn"} /\ Simple(p, Num(Index), pushed)
  \/ Name = "CONSTBYTE" /\ Simple(after(p, "u8"), IntVal(arg(p)), stack)
  \/ Name = "CONSTSHORT" /\ Simple(after(p, "s16"), IntVal(s16(p)), stack)
  \/ Name \in {"CONSTINT", "PUSHCONSTINT"} /\ Simple(after(p, "s32"), Num(arg(p)), pushed)

StackOp ==
  \/ Name = "POP" /\ Simple(after(p, "u16"), accu, Drop(stack, arg(p)))
  \/ Name = "ASSIGN" /\ Simple(after(p, "u16"), Unit, [stack EXCEPT ![arg(p) + 1] = accu])
  \/ Name = "CHECK_SIGNALS" /\ Simple(p, accu, stack)

-----------------------------------------------------------------------------
(* Calls.  A frame is the return address, env and extra_args.              *)

Frame(q) == <<CodePtr(q), env, Num(extra_args)>>

Enter(f, st, extra) ==
  /\ Go(Code_val(f), f, st)
  /\ env' = f /\ extra_args' = extra
  /\ UNCHANGED <<trapsp, memVars>>

Call(f, n, ret)     == Enter(f, Top(pushed, n) \o Frame(ret) \o Drop(pushed, n), n - 1)
TailCall(f, n, size) == Enter(f, Top(pushed, n) \o Drop(pushed, size), extra_args + n - 1)

Apply_ ==
  \/ Name = "APPLYn" /\ Call(accu, Index, p)
  \/ Name = "APPLY" /\ Enter(accu, stack, arg(p) - 1)
PushEnvApply    == Name = "PUSH_ENV1_APPLYn" /\ Call(Field(env, 1), Index, p)
PushGlobalApply == Name = "PUSH_GETGLOBAL_APPLYn" /\ Call(global_data[arg(p)], Index, after(p, "s32"))

AppTerm ==
  \/ Name = "APPTERMn" /\ TailCall(accu, Index, arg(p))
  \/ Name = "APPTERM" /\ TailCall(accu, arg(p), arg(after(p, "u8")))
PushEnvAppTerm == Name = "PUSH_ENV1_APPTERMn" /\ TailCall(Field(env, 1), Index, arg(p))
PushGlobalAppTerm ==
  Name = "PUSH_GETGLOBAL_APPTERMn" /\ TailCall(global_data[arg(after(p, "u16"))], Index, arg(p))

PushRetaddr ==
  /\ Name = "PUSH_RETADDR"
  /\ Simple(after(p, "label"), accu, Frame(JUMPTGT(p)) \o stack)

(* Back to the frame on top of st, with the accumulator a.                 *)
Leave(a, st) ==
  /\ Go(st[1][2], a, Drop(st, 3))
  /\ env' = st[2] /\ extra_args' = Long_val(st[3][2])
  /\ UNCHANGED <<trapsp, global_data>>

(* A function that returns to more arguments is applied to them.           *)
Return ==
  /\ Name \in {"RETURNn", "RETURN"}
  /\ LET st == Drop(stack, IF Name = "RETURN" THEN arg(p) ELSE Index)
     IN \/ extra_args > 0 /\ Enter(accu, st, extra_args - 1)
        \/ extra_args = 0 /\ Leave(accu, st) /\ UNCHANGED heap

Restart ==
  /\ Name = "RESTART"
  /\ LET n == Wosize_val(env) - 2
     IN /\ Go(p, accu, Drop(Block(env).fld, 2) \o stack)
        /\ env' = Field(env, 1)
        /\ extra_args' = extra_args + n
  /\ UNCHANGED <<trapsp, memVars>>

(* Whether a function has the arguments it wants.  A mutant: the first     *)
(* argument forgotten.                                                     *)
EnoughStrict(required) == extra_args > required
Enough(required)       == extra_args >= required

(* Too few arguments are put in a closure, whose code is the RESTART       *)
(* before this GRAB.                                                       *)
Grab ==
  /\ Name = "GRAB"
  /\ \/ /\ Enough(arg(p))
        /\ Go(after(p, "u8"), accu, stack)
        /\ extra_args' = extra_args - arg(p)
        /\ UNCHANGED <<env, trapsp, memVars>>
     \/ /\ ~Enough(arg(p))
        /\ LET n == 1 + extra_args
           IN /\ heap' = Append(heap, [tag |-> ClosureTag,
                   fld |-> <<CodePtr(after(p, "u8") - 3), env>> \o Top(stack, n)])
              /\ Leave(<<"blk", Len(heap) + 1>>, Drop(stack, n))

-----------------------------------------------------------------------------
(* Closures.                                                               *)

Closure ==
  /\ Name \in {"CLOSURE", "CLOSREC"}
  /\ LET n    == arg(p)
         q    == after(p, "u8")
         st   == IF n > 0 THEN <<accu>> \o stack ELSE stack
         self == IF Name = "CLOSREC" THEN <<<<"blk", Len(heap) + 1>>>> ELSE << >>
     IN Alloc(after(q, "label"), ClosureTag, <<CodePtr(JUMPTGT(q))>> \o self \o Top(st, n), Drop(st, n))

Dummy ==
  /\ Name = "DUMMY"
  /\ Alloc(after(p, "u16"), 0, [i \in 1 .. arg(p) + 1 |-> Num(0)], stack)

(* The block in the accumulator becomes a copy of the one on the stack.    *)
Update ==
  /\ Name = "UPDATE"
  /\ Go(p, Unit, Drop(stack, 1))
  /\ heap' = [heap EXCEPT ![accu[2]] =
                [tag |-> Block(stack[1]).tag,
                 fld |-> Block(stack[1]).fld \o Drop(@.fld, Len(Block(stack[1]).fld))]]
  /\ UNCHANGED <<frameVars, trapsp, global_data>>

-----------------------------------------------------------------------------
(* Blocks.                                                                 *)

(* The accumulator is the last field; the one before it is on top.         *)
MakeBlock ==
  \/ /\ Name = "MAKEBLOCKn"
     /\ Alloc(after(p, "u8"), arg(p), Append(Reverse(Top(stack, Index - 1)), accu), Drop(stack, Index - 1))
  \/ /\ Name = "MAKEBLOCK"
     /\ LET size == arg(p) \div 1024
        IN Alloc(after(p, "s32"), arg(p) % 256, Append(Reverse(Top(stack, size - 1)), accu), Drop(stack, size - 1))

GetField ==
  \/ Name = "GETFIELDn" /\ Simple(p, Field(accu, Index), stack)
  \/ Name = "GETFIELD" /\ Simple(after(p, "u16"), Field(accu, arg(p)), stack)
  \/ Name = "GETFIELDn_n" /\ Simple(p, Field(Field(accu, Index[1]), Index[2]), stack)
  \/ Name = "VECTLENGTH" /\ Simple(p, Num(Wosize_val(accu)), stack)
  \/ Name = "GETVECTITEM" /\ Simple(p, Field(stack[1], Long_val(accu[2])), Drop(stack, 1))

(* modify: the field i of v becomes the accumulator; n words are popped.   *)
Modify(q, v, i, n) ==
  /\ Go(q, Unit, Drop(stack, n))
  /\ heap' = [heap EXCEPT ![v[2]].fld[i + 1] = accu]
  /\ UNCHANGED <<frameVars, trapsp, global_data>>
SetField ==
  \/ Name = "SETFIELDn" /\ Modify(p, stack[1], Index, 1)
  \/ Name = "SETFIELD" /\ Modify(after(p, "u16"), stack[1], arg(p), 1)
  \/ Name = "SETVECTITEM" /\ Modify(p, stack[2], Long_val(stack[1][2]), 2)

SetGlobal ==
  /\ Name = "SETGLOBAL"
  /\ Go(after(p, "s32"), Unit, stack)
  /\ global_data' = [global_data EXCEPT ![arg(p)] = accu]
  /\ UNCHANGED <<frameVars, trapsp, heap>>

MakeVector ==
  /\ Name \in {"MAKEVECTOR", "MAKEREFVECTOR"}
  /\ LET size == Long_val(stack[1][2])
         tag  == IF Name = "MAKEVECTOR" THEN 0 ELSE RefTag
     IN \/ size = 0 /\ Simple(p, Atom(tag), Drop(stack, 1))
        \/ size > 0 /\ Alloc(p, tag, [i \in 1 .. size |-> accu], Drop(stack, 1))

-----------------------------------------------------------------------------
(* Branches.                                                               *)

BranchIf(cond, q, st) == Simple(IF cond THEN JUMPTGT(q) ELSE after(q, "label"), accu, st)
Compare(tst, u, v)    == IF tst \in {"EQ", "NEQ"} THEN Test(tst, u, v) ELSE Test(tst, u[2], v[2])

Branch ==
  \/ Name = "BRANCH" /\ BranchIf(TRUE, p, stack)
  \/ Name = "BRANCHIF" /\ BranchIf(Tag_val(accu) # 0, p, stack)
  \/ Name = "BRANCHIFNOT" /\ BranchIf(Tag_val(accu) = 0, p, stack)
  \/ Name = "BRANCHIFtest" /\ BranchIf(Compare(Index, stack[1], accu), p, Drop(stack, 1))

Switch ==
  /\ Name = "SWITCH"
  /\ LET i == Long_val(accu[2])
         q == IF form = "bytes" THEN p + 1 + 4 * i ELSE p + 1 + i
     IN Simple(IF form = "bytes" THEN p + 1 + arg(q) ELSE arg(q), accu, stack)

BranchInterval ==
  /\ Name = "BRANCHINTERVAL"
  /\ LET high == accu[2]
         low  == stack[1][2]
         v    == stack[2][2]
         st   == Drop(stack, 2)
         q    == after(p, "label")
     IN \/ v < low /\ Simple(JUMPTGT(p), IntVal(v), st)
        \/ v >= low /\ v > high /\ Simple(JUMPTGT(q), IntVal(v), st)
        \/ v \in low .. high /\ Simple(after(q, "label"), IntVal(v - low + 1), st)

Tests ==
  \/ Name = "BOOLNOT" /\ Simple(p, Bool(Tag_val(accu) = 0), stack)
  \/ Name = "TAGOF" /\ Simple(p, Num(Tag_val(accu)), stack)
  \/ Name = "INTtest" /\ Simple(p, Bool(Compare(Index, stack[1], accu)), Drop(stack, 1))
  \/ Name = "UNSIGNtest" /\ Simple(p, Bool(UnsignedTest(Index, stack[1][2], accu[2])), Drop(stack, 1))

-----------------------------------------------------------------------------
(* Exceptions.                                                             *)

PushTrap ==
  /\ Name = "PUSHTRAP"
  /\ Go(after(p, "label"), accu, <<CodePtr(JUMPTGT(p)), StackPtr(trapsp), env, Num(extra_args)>> \o stack)
  /\ trapsp' = Len(stack) + 4
  /\ UNCHANGED <<frameVars, memVars>>

PopTrap ==
  /\ Name = "POPTRAP"
  /\ Go(p, accu, Drop(stack, 4))
  /\ trapsp' = stack[2][2]
  /\ UNCHANGED <<frameVars, memVars>>

(* raise_exception: to the last trap, or out of the interpreter.           *)
RaiseException(v) ==
  LET st == Drop(stack, Len(stack) - trapsp)
  IN \/ /\ trapsp = 0
        /\ accu' = v /\ stack' = st /\ halted' = "raised"
        /\ UNCHANGED <<fixed, pc, frameVars, trapsp, memVars>>
     \/ /\ trapsp > 0
        /\ Go(st[1][2], v, Drop(st, 4))
        /\ trapsp' = st[2][2] /\ env' = st[3] /\ extra_args' = Long_val(st[4][2])
        /\ UNCHANGED memVars

Raise_ == Name = "RAISE" /\ RaiseException(accu)

(* Arithmetic: Arith says what is left in the accumulator.                 *)
Operation(name, u, v) ==
  CASE name = "SMLADDINT" -> SMLADDINT(u, v)  [] name = "SMLSUBINT" -> SMLSUBINT(u, v)
    [] name = "SMLMULINT" -> SMLMULINT(u, v)  [] name = "SMLDIVINT" -> SMLDIVINT(u, v)
    [] name = "SMLMODINT" -> SMLMODINT(u, v)  [] name = "SMLQUOTINT" -> SMLQUOTINT(u, v)
    [] name = "SMLREMINT" -> SMLREMINT(u, v)  [] name = "ADDINT" -> ADDINT(u, v)
    [] name = "SUBINT" -> SUBINT(u, v)        [] name = "MULINT" -> MULINT(u, v)
    [] name = "DIVINT" -> DIVINT(u, v)        [] name = "MODINT" -> MODINT(u, v)
Unary(name, v) ==
  CASE name = "SMLNEGINT" -> SMLNEGINT(v) [] name = "SMLSUCCINT" -> SMLSUCCINT(v)
    [] name = "SMLPREDINT" -> SMLPREDINT(v)
Binary == {"SMLADDINT", "SMLSUBINT", "SMLMULINT", "SMLDIVINT", "SMLMODINT", "SMLQUOTINT", "SMLREMINT",
           "ADDINT", "SUBINT", "MULINT", "DIVINT", "MODINT"}

Arithmetic_ ==
  /\ Name \in Binary \cup {"SMLNEGINT", "SMLSUCCINT", "SMLPREDINT"}
  /\ LET two == Name \in Binary
         r   == IF two THEN Operation(Name, stack[1][2], accu[2]) ELSE Unary(Name, accu[2])
     IN \/ r[1] = "int" /\ Simple(p, r, Drop(stack, IF two THEN 1 ELSE 0))
        \/ r[1] = "raise" /\ RaiseException(ExnVal(r[2]))

Stop ==
  /\ Name = "STOP"
  /\ halted' = "stop"
  /\ UNCHANGED <<fixed, pc, accu, stack, frameVars, trapsp, memVars>>

-----------------------------------------------------------------------------
Init ==
  /\ form \in {"bytes", "cells"}
  /\ \E x \in DOMAIN Images :
       /\ prog = x[1] /\ linked = x[2]
       /\ code = IF form = "bytes" THEN Images[x] ELSE expandcode(Images[x])
  /\ pc = 1 /\ accu = Num(0) /\ stack = << >> /\ env = null_env /\ extra_args = 0 /\ trapsp = 0
  /\ heap = << >> /\ global_data = [g \in 0 .. NGlobals - 1 |-> Num(0)]
  /\ halted = "no"

Loads == Load \/ LoadGlobal \/ LoadAtom \/ LoadConst
Calls == Apply_ \/ PushEnvApply \/ PushGlobalApply \/ AppTerm \/ PushEnvAppTerm \/ PushGlobalAppTerm \/ PushRetaddr \/ Return \/ Restart \/ Grab
Data  == Closure \/ Dummy \/ Update \/ MakeBlock \/ GetField \/ SetField \/ SetGlobal \/ MakeVector
Control == Branch \/ Switch \/ BranchInterval \/ Tests \/ PushTrap \/ PopTrap \/ Raise_ \/ Stop

Next == Loads \/ StackOp \/ Calls \/ Data \/ Control \/ Arithmetic_

Spec == Init /\ [][Next]_vars

-----------------------------------------------------------------------------
(* A compiled program ends with the value, or the exception, its term      *)
(* evaluates to and with the globals it sets, the stack empty and no trap  *)
(* left, in bytecode and in threaded code, linked or loaded: compexp's     *)
(* model of the stack, the lifting of functions, partial applications and  *)
(* the tail calls agree with the interpreter.                              *)
EvaluatesAsTerm ==
  halted \in {"stop", "raised"} =>
    LET r == Results[prog]
    IN /\ stack = << >> /\ trapsp = 0
       /\ halted = IF r.k = "val" THEN "stop" ELSE "raised"
       /\ halted = "stop" => extra_args = 0
       /\ Observed(accu, heap) = Observed(r.v, r.s.h)
       /\ \A g \in DOMAIN global_data : Observed(global_data[g], heap) = Observed(r.s.g[g], r.s.h)

(* The tables of expand.c find the instructions the compiler emitted, and  *)
(* every jump, also one that is not taken, leads to one of them, in        *)
(* bytecode and to the same in threaded code.                              *)
CodeWellFormed ==
  pc = 1 /\ form = "bytes" =>
    LET real   == buildrealmap(code)
        cells  == expandcode(code)
        starts == {i \in DOMAIN real : real[i] > 0}
    IN /\ starts = {i \in DOMAIN code : code[i][1] = "op"}
       /\ \A s \in starts :
            LET ks == Kinds(code, s)
            IN \A i \in {j \in DOMAIN ks : ks[j] \in {"label", "entry"}} :
                 LET place  == Place(ks, s, i)
                     target == (IF ks[i] = "entry" THEN s + 2 ELSE place) + code[place][2]
                 IN target \in starts /\ cells[real[s] + i][2] = real[target]

(* Whatever loops looks for signals: a step back in the code leads to a    *)
(* CHECK_SIGNALS, or is a call, a return or an exception.  Not each of     *)
(* those looks itself (RAISE does not, nor arithmetic that raises, RETURN  *)
(* into further arguments, or GRAB that finds too few), but no loop is     *)
(* made of them alone: it comes back to a place by a call that looks.      *)
LoopsPoll ==
  [][pc' <= pc /\ halted' = "no" =>
       \/ Name \in {"APPLYn", "APPLY", "PUSH_ENV1_APPLYn", "PUSH_GETGLOBAL_APPLYn", "APPTERMn", "APPTERM",
                    "PUSH_ENV1_APPTERMn", "PUSH_GETGLOBAL_APPTERMn", "RETURN", "RETURNn", "GRAB", "RAISE"}
       \/ Name \in Binary \cup {"SMLNEGINT", "SMLSUCCINT", "SMLPREDINT"}
       \/ code[pc'][2] = "CHECK_SIGNALS"]_vars
=============================================================================
