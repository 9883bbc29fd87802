----------------------------- MODULE FileBytes -----------------------------
(***************************************************************************)
(* The contents of a file as a sequence of bytes.                          *)
(***************************************************************************)
EXTENDS Integers, Sequences

CONSTANT Bytes

Hole == "hole"     \* what a file holds where nothing was ever written

Cells == Bytes \cup {Hole}

(* Bytes i + 1 .. j of s, for the pointers i and j into a buffer.          *)
Between(s, i, j) == SubSeq(s, i + 1, j)

(* s with the bytes t in the places from p on.                             *)
Overwrite(s, p, t) ==
  IF t = << >> THEN s
  ELSE LET end == p + Len(t)
       IN [i \in 1 .. IF end > Len(s) THEN end ELSE Len(s) |->
             IF p < i /\ i <= end THEN t[i - p]
             ELSE IF i <= Len(s) THEN s[i] ELSE Hole]

=============================================================================
