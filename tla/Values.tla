------------------------------- MODULE Values ------------------------------
(***************************************************************************)
(* Words of the heap, of a block that is written or read, and blocks       *)
(* (src/runtime/mlvalues.h).  The two low bits that tell an int from an    *)
(* atom and from an offset are the kind k of a word.                       *)
(***************************************************************************)
IntVal(n)    == [k |-> "int", n |-> n]
Atom(t)      == [k |-> "atom", n |-> t]
Ptr(p)       == [k |-> "ptr", n |-> p]       \* a block of the heap, or of mem
Ofs(n)       == [k |-> "ofs", n |-> n]
Raw(b)       == [k |-> "raw", b |-> b]
Header(s, t) == [k |-> "header", size |-> s, tag |-> t]
Junk         == [k |-> "junk"]               \* what no one has written
Null         == [k |-> "null"]
Block(fs)    == [tag |-> "block", fields |-> fs]
=============================================================================
