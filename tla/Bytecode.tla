------------------------------ MODULE Bytecode ------------------------------
(***************************************************************************)
(* From instructions to bytecode (src/compiler/Emitcode.sml, Labels.sml,   *)
(* Buffcode.sml, Emit_phr.sml, Load_phr.sml), and from bytecode to         *)
(* threaded code (src/runtime/expand.c).                                   *)
(*                                                                         *)
(* Bytecode is a sequence of cells, one per byte: an opcode <<"op", name,  *)
(* index>>; the first byte of an operand, which stands for its value; and  *)
(* Rest for its other bytes.  An opcode of a family such as ACC0 .. ACC7   *)
(* is known by the family (ACCn) and its index.                            *)
(***************************************************************************)
EXTENDS Back

Op(name, i) == <<"op", name, i>>
Cell(v)     == <<"arg", v>>
Rest        == <<"+">>
MaxCode == 2000      \* bound: bytes of a program
SHORT == 2
LONG  == 4

(* What is written: out keeps 8 bits, out_short 16.                        *)
u8(v)    == <<"u8", v % 256>>
u16(v)   == <<"u16", v % 65536>>
s32(v)   == <<"s32", v>>
label(l) == <<"label", l>>
entry(l) == <<"entry", l>>     \* a label of the table of a switch
Width(kind) == CASE kind = "u8" -> 1 [] kind = "u16" -> SHORT [] OTHER -> LONG

(* A piece of code: a label, or an opcode and its operands.                *)
I0(name, i)      == <<<<"op", name, i, << >>>>>>
I(name, i, args) == <<<<"op", name, i, args>>>>

(* An int constant, in the shortest form.                                  *)
out_int_const(i) ==
  LET ii1 == i + i + 1
  IN IF i \in 0 .. 3 THEN I0("CONSTn", i)
     ELSE IF ii1 \in 0 .. 255 THEN I("CONSTBYTE", 0, <<u8(ii1)>>)
     ELSE IF ii1 \in -32768 .. 32767 THEN I("CONSTSHORT", 0, <<u16(ii1)>>)
     ELSE I("CONSTINT", 0, <<s32(i)>>)
out_push_int_const(i) ==
  LET short == out_int_const(i)
  IN CASE short[1][2] = "CONSTn"   -> I0("PUSHCONSTn", i)
       [] short[1][2] = "CONSTINT" -> I("PUSHCONSTINT", 0, <<s32(i)>>)
       [] OTHER                    -> I0("PUSH", 0) \o short

(* The tag and the size, in four bytes.                                    *)
out_header(n, tag) ==
  tag + 256 * ((4 * n) % 256) + 65536 * ((n \div 64) % 256) + 16777216 * ((n \div 16384) % 128)

(* An opcode of its own for small operands.                                *)
Ordinal(name, n, limit, long, kind) ==
  IF n < limit THEN I0(name, n) ELSE I(long, 0, <<IF kind = "u8" THEN u8(n) ELSE u16(n)>>)

branch(k) ==
  LET op == [Kbranch |-> "BRANCH", Kbranchif |-> "BRANCHIF", Kbranchifnot |-> "BRANCHIFNOT",
             Kstrictbranchif |-> "BRANCHIF", Kstrictbranchifnot |-> "BRANCHIFNOT",
             Kpushtrap |-> "PUSHTRAP", Kpush_retaddr |-> "PUSH_RETADDR"]
  IN op[k]
Branches == {"Kbranch", "Kbranchif", "Kbranchifnot", "Kstrictbranchif", "Kstrictbranchifnot",
             "Kpushtrap", "Kpush_retaddr"}

(* The name of the test in a comparison and in a branch.                   *)
TestName(t) == CASE t[1] = "Peq_test" -> "EQ" [] t[1] = "Pnoteq_test" -> "NEQ" [] OTHER -> t[2]
TestOp(t)   == IF t[1] = "Pword_test" THEN "UNSIGN" ELSE "INT"

opcode_for_primitive(p) ==
  LET op == [Pupdate |-> "UPDATE", Pnot |-> "BOOLNOT", Ptag_of |-> "TAGOF",
        Paddint |-> "ADDINT", Psubint |-> "SUBINT", Pmulint |-> "MULINT", Pdivint |-> "DIVINT",
        Pmodint |-> "MODINT", Pmakevector |-> "MAKEVECTOR", Pvectlength |-> "VECTLENGTH",
        Pgetvectitem |-> "GETVECTITEM", Psetvectitem |-> "SETVECTITEM",
        Psmlnegint |-> "SMLNEGINT", Psmlsuccint |-> "SMLSUCCINT", Psmlpredint |-> "SMLPREDINT",
        Psmladdint |-> "SMLADDINT", Psmlsubint |-> "SMLSUBINT", Psmlmulint |-> "SMLMULINT",
        Psmldivint |-> "SMLDIVINT", Psmlmodint |-> "SMLMODINT", Pmakerefvector |-> "MAKEREFVECTOR",
        Psmlquotint |-> "SMLQUOTINT", Psmlremint |-> "SMLREMINT"]
  IN op[p]

(* One instruction.                                                        *)
emit_zam(k) ==
  LET n == k[2]
  IN CASE k[1] = "Kquote" /\ n[1] = "int"  -> out_int_const(Long_val(n[2]))
       [] k[1] = "Kquote" /\ n[1] = "atom" -> Ordinal("ATOMn", n[2], 10, "ATOM", "u8")
       [] k[1] = "Katom"        -> Ordinal("ATOMn", n, 10, "ATOM", "u8")
       [] k[1] = "Kget_global"  -> I("GETGLOBAL", 0, <<s32(n)>>)
       [] k[1] = "Kset_global"  -> I("SETGLOBAL", 0, <<s32(n)>>)
       [] k[1] = "Kgetfield"    -> Ordinal("GETFIELDn", n, 4, "GETFIELD", "u16")
       [] k[1] = "Ksetfield"    -> Ordinal("SETFIELDn", n, 4, "SETFIELD", "u16")
       [] k[1] = "Kaccess"      -> Ordinal("ACCn", n, 8, "ACCESS", "u16")
       [] k[1] = "Kenvacc"      -> Ordinal("ENVn", n + 1, 8, "ENVACC", "u16")
       [] k[1] = "Kassign"      -> I("ASSIGN", 0, <<u16(n)>>)
       [] k[1] = "Kapply"       -> Ordinal("APPLYn", n, 5, "APPLY", "u8")
       [] k[1] = "Kappterm"     ->
            IF n < 5 THEN I("APPTERMn", n, <<u16(k[3])>>) ELSE I("APPTERM", 0, <<u8(n), u16(k[3])>>)
       [] k[1] = "Kpop"         -> I("POP", 0, <<u16(n)>>)
       [] k[1] = "Kgrab"        -> I("GRAB", 0, <<u8(n)>>)
       [] k[1] = "Kreturn"      -> Ordinal("RETURNn", n, 3, "RETURN", "u16")
       [] k[1] = "Kmakeblock"   ->
            IF k[3] < 5 THEN I("MAKEBLOCKn", k[3], <<u8(n)>>)
            ELSE I("MAKEBLOCK", 0, <<s32(out_header(k[3], n))>>)
       [] k[1] = "Klabel"       -> <<<<"label", n>>>>
       [] k[1] = "Kclosure"     -> I("CLOSURE", 0, <<u8(k[3]), label(n)>>)
       [] k[1] = "Kclosurerec"  -> I("CLOSREC", 0, <<u8(k[3] - 1), label(n)>>)
       [] k[1] \in Branches     -> I(branch(k[1]), 0, <<label(n)>>)
       [] k[1] = "Kswitch"      ->
            I("SWITCH", 0, <<u8(Len(n))>> \o [i \in DOMAIN n |-> entry(n[i])])
       [] k[1] = "Ktest"        ->
            IF TestOp(n) = "INT" THEN I("BRANCHIFtest", TestName(n), <<label(k[3])>>)
            ELSE I0("UNSIGNtest", TestName(n)) \o I("BRANCHIF", 0, <<label(k[3])>>)
       [] k[1] = "Ktestvalue"   ->
            I0(IF TestOp(n) = "INT" THEN "INTtest" ELSE "UNSIGNtest", TestName(n))
       [] k[1] = "Kbranchinterval" ->
            out_push_int_const(n)
            \o (IF n = k[3] THEN I0("PUSH", 0) ELSE out_push_int_const(k[3]))
            \o I("BRANCHINTERVAL", 0, <<label(k[4]), label(k[5])>>)
       [] k[1] = "Kdummy"       -> I("DUMMY", 0, <<u16(n)>>)
       [] k[1] = "Kprim"        -> I0(opcode_for_primitive(n), 0)
       [] k[1] = "Kpush"        -> I0("PUSH", 0)
       [] k[1] = "Kraise"       -> I0("RAISE", 0)
       [] k[1] = "Krestart"     -> I0("RESTART", 0)
       [] k[1] = "Kpoptrap"     -> I0("POPTRAP", 0)
       [] k[1] = "Kcheck_signals" -> I0("CHECK_SIGNALS", 0)

(* A Kpush and the instruction that loads the accumulator.                 *)
emit_push(k) ==
  LET n == k[2]
  IN CASE k[1] = "Kquote" /\ n[1] = "int"  -> out_push_int_const(Long_val(n[2]))
       [] k[1] = "Kquote" /\ n[1] = "atom" -> Ordinal("PUSHATOM0", n[2], 1, "PUSHATOM", "u8")
       [] k[1] = "Kaccess"     -> Ordinal("PUSHACCn", n, 8, "PUSHACC", "u16")
       [] k[1] = "Kenvacc"     -> Ordinal("PUSHENVn", n + 1, 8, "PUSHENVACC", "u16")
       [] k[1] = "Kget_global" -> I("PUSH_GETGLOBAL", 0, <<s32(n)>>)

(* And the call of what was loaded.                                        *)
emit_push_call(k, call) ==
  LET n == call[2]
      z == IF call[1] = "Kappterm" THEN <<u16(call[3])>> ELSE << >>
      f == IF k[1] = "Kenvacc" THEN << >> ELSE <<s32(k[2])>>
      name == IF k[1] = "Kenvacc"
              THEN IF call[1] = "Kapply" THEN "PUSH_ENV1_APPLYn" ELSE "PUSH_ENV1_APPTERMn"
              ELSE IF call[1] = "Kapply" THEN "PUSH_GETGLOBAL_APPLYn" ELSE "PUSH_GETGLOBAL_APPTERMn"
  IN IF n < 5 THEN I(name, n, z \o f) ELSE emit_push(k) \o emit_zam(call)

RECURSIVE emit(_)
emit(zams) ==
  LET Nth(i, names) == Len(zams) >= i /\ zams[i][1] \in names
      Drop(n) == SubSeq(zams, n + 1, Len(zams))
      loaded  == (Nth(2, {"Kenvacc"}) /\ zams[2][2] = 0) \/ Nth(2, {"Kget_global"})
      fields  == Nth(1, {"Kgetfield"}) /\ Nth(2, {"Kgetfield"}) /\ {zams[1][2], zams[2][2]} \subseteq {0, 1}
  IN IF zams = << >> THEN << >>
     ELSE IF Nth(1, {"Kpush"}) /\ loaded /\ Nth(3, {"Kapply", "Kappterm"})
     THEN emit_push_call(zams[2], zams[3]) \o emit(Drop(3))
     ELSE IF Nth(1, {"Kpush"}) /\ Nth(2, {"Kquote", "Kaccess", "Kenvacc", "Kget_global"})
     THEN emit_push(zams[2]) \o emit(Drop(2))
     ELSE IF fields THEN I0("GETFIELDn_n", <<zams[1][2], zams[2][2]>>) \o emit(Drop(2))
     ELSE emit_zam(zams[1]) \o emit(Drop(1))

-----------------------------------------------------------------------------
(* Labels: a jump is relative to its operand, or to the table it is in; it *)
(* is patched when the label is defined after it.                          *)

RECURSIVE patch(_, _, _)
patch(out, uses, pos) ==
  IF uses = {} THEN out
  ELSE LET u == CHOOSE u \in uses : TRUE
       IN patch([out EXCEPT ![u.pos] = Cell(pos - u.orig)], uses \ {u}, pos)

define_label(b, lbl) ==
  LET uses == {u \in b.pending : u.lbl = lbl}
  IN [b EXCEPT !.def = (lbl :> Len(b.out)) @@ @, !.pending = @ \ uses, !.out = patch(@, uses, Len(@))]

OutCell(b, c, width) == [b EXCEPT !.out = @ \o <<c>> \o [i \in 1 .. width - 1 |-> Rest]]
out_label_with_orig(b, orig, lbl) ==
  IF lbl \in DOMAIN b.def THEN OutCell(b, Cell(b.def[lbl] - orig), LONG)
  ELSE OutCell([b EXCEPT !.pending = @ \cup {[lbl |-> lbl, pos |-> Len(b.out) + 1, orig |-> orig]}],
               Cell(0), LONG)

(* The operands of the instruction at start, and the pieces of a code.     *)
RECURSIVE out_operands(_, _, _), out_pieces(_, _)
out_operands(b, start, args) ==
  IF args = << >> THEN b
  ELSE LET a == Head(args)
       IN out_operands(
            CASE a[1] = "label" -> out_label_with_orig(b, Len(b.out), a[2])
              [] a[1] = "entry" -> out_label_with_orig(b, start + 2, a[2])
              [] OTHER          -> OutCell(b, Cell(a[2]), Width(a[1])),
            start, Tail(args))

out_pieces(b, ps) ==
  IF ps = << >> \/ Len(b.out) > MaxCode THEN b
  ELSE LET x == Head(ps)
       IN out_pieces(IF x[1] = "label" THEN define_label(b, x[2])
                     ELSE out_operands(OutCell(b, Op(x[2], x[3]), 1), Len(b.out), x[4]),
                     Tail(ps))

Assemble(pieces) == out_pieces([out |-> << >>, def |-> [l \in {} |-> 0], pending |-> {}], pieces)

STOP == I0("STOP", 0)

(* A phrase of a file, at the end of a linked program.                     *)
emit_phrase(phr) ==
  emit(phr.kph_inits)
  \o (IF phr.kph_funcs = << >> THEN << >>
      ELSE emit(<<<<"Kbranch", 0>>>>) \o emit(phr.kph_funcs) \o emit(<<<<"Klabel", 0>>>>))
  \o STOP

(* A phrase loaded by the toplevel.                                        *)
loadZamPhrase(phr) == emit(phr.kph_inits) \o STOP \o emit(phr.kph_funcs)

(* A term as it is put in memory, from a file or by the toplevel.          *)
Compiled(e, linked) ==
  LET phr == compileLambda(e) IN Assemble(IF linked THEN emit_phrase(phr) ELSE loadZamPhrase(phr)).out

-----------------------------------------------------------------------------
(* The opcodes by their operands.  expand.c lists them twice in the same   *)
(* way: to find where each will be in threaded code, and to write it there.*)

Plain == {"PUSH", "PUSHACCn", "ACCn", "PUSHENVn", "ENVn", "PUSH_ENV1_APPLYn", "APPLYn", "RETURNn",
  "RESTART", "UPDATE", "PUSHATOM0", "ATOMn", "GETFIELDn", "GETFIELDn_n", "SETFIELDn", "VECTLENGTH",
  "GETVECTITEM", "SETVECTITEM", "BOOLNOT", "POPTRAP", "RAISE", "CHECK_SIGNALS", "PUSHCONSTn", "CONSTn",
  "ADDINT", "SUBINT", "MULINT", "DIVINT", "MODINT", "INTtest", "TAGOF", "UNSIGNtest", "MAKEVECTOR",
  "SMLNEGINT", "SMLSUCCINT", "SMLPREDINT", "SMLADDINT", "SMLSUBINT", "SMLMULINT", "SMLDIVINT",
  "SMLMODINT", "MAKEREFVECTOR", "SMLQUOTINT", "SMLREMINT", "STOP"}
WithShort == {"PUSHACC", "ACCESS", "POP", "ASSIGN", "PUSHENVACC", "ENVACC", "DUMMY", "RETURN",
  "APPTERMn", "PUSH_ENV1_APPTERMn", "GETFIELD", "SETFIELD"}
WithLabel == {"PUSH_RETADDR", "PUSHTRAP", "BRANCH", "BRANCHIF", "BRANCHIFNOT", "BRANCHIFtest"}
Shape(name) ==
  CASE name \in Plain          -> << >>
    [] name \in {"APPLY", "GRAB", "PUSHATOM", "ATOM", "MAKEBLOCKn", "CONSTBYTE"} -> <<"u8">>
    [] name \in WithLabel      -> <<"label">>
    [] name = "BRANCHINTERVAL" -> <<"label", "label">>
    [] name = "CONSTSHORT"     -> <<"s16">>
    [] name \in WithShort      -> <<"u16">>
    [] name \in {"MAKEBLOCK", "SETGLOBAL", "GETGLOBAL", "PUSH_GETGLOBAL", "PUSH_GETGLOBAL_APPLYn",
                 "PUSHCONSTINT", "CONSTINT"} -> <<"s32">>
    [] name \in {"CLOSURE", "CLOSREC"} -> <<"u8", "label">>
    [] name = "APPTERM"        -> <<"u8", "u16">>
    [] name = "PUSH_GETGLOBAL_APPTERMn" -> <<"u16", "s32">>

Bytes(kind) == CASE kind = "u8" -> 1 [] kind \in {"u16", "s16"} -> SHORT [] OTHER -> LONG
Signed16(v) == IF v >= 32768 THEN v - 65536 ELSE v

(* The operands of the instruction at pc: their kinds and places.          *)
Kinds(bytes, pc) ==
  IF bytes[pc][2] = "SWITCH" THEN <<"u8">> \o [i \in 1 .. bytes[pc + 1][2] |-> "entry"]
  ELSE Shape(bytes[pc][2])
RECURSIVE Place(_, _, _)
Place(kinds, pc, i) == IF i = 1 THEN pc + 1 ELSE Place(kinds, pc, i - 1) + Bytes(kinds[i - 1])
NextPc(bytes, pc) == LET ks == Kinds(bytes, pc) IN Place(ks, pc, Len(ks) + 1)

(* Where each instruction, from the one at pc, is in threaded code: what   *)
(* is from there at real; -1 for the bytes that start none.                *)
RECURSIVE RealFrom(_, _, _)
RealFrom(bytes, pc, real) ==
  IF pc > Len(bytes) THEN << >>
  ELSE LET next == NextPc(bytes, pc)
       IN <<real>> \o [i \in 1 .. next - pc - 1 |-> -1]
          \o RealFrom(bytes, next, real + 1 + Len(Kinds(bytes, pc)))
buildrealmap(bytes) == RealFrom(bytes, 1, 1)

(* A mutant: entries of a table relative to themselves.                    *)
JumpBaseOwn(start, place, kind) == place
JumpBase(start, place, kind)    == IF kind = "entry" THEN start + 2 ELSE place

REALADDR(map, q) == IF q \in DOMAIN map THEN map[q] ELSE -1

(* The i-th operand of the instruction at pc, in the one cell it gets;     *)
(* labels become places of the threaded code.                              *)
Operand(bytes, map, pc, ks, i) ==
  LET place == Place(ks, pc, i)
      v     == bytes[place][2]
  IN CASE ks[i] \in {"label", "entry"} -> Cell(REALADDR(map, JumpBase(pc, place, ks[i]) + v))
       [] ks[i] = "s16"                -> Cell(Signed16(v))
       [] OTHER                        -> Cell(v)

RECURSIVE ExpandFrom(_, _, _)
ExpandFrom(bytes, map, pc) ==
  IF pc > Len(bytes) THEN << >>
  ELSE LET ks == Kinds(bytes, pc)
       IN <<bytes[pc]>> \o [i \in DOMAIN ks |-> Operand(bytes, map, pc, ks, i)]
          \o ExpandFrom(bytes, map, NextPc(bytes, pc))
expandcode(bytes) == ExpandFrom(bytes, buildrealmap(bytes), 1)
=============================================================================
