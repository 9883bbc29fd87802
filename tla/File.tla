-------------------------------- MODULE File -------------------------------
(***************************************************************************)
(* What an output channel promises: a file and a position, as if there     *)
(* were no buffer.  OutChannel.tla implements this specification.          *)
(***************************************************************************)
EXTENDS FileBytes

CONSTANTS Blocks, Positions

VARIABLES content, pos

vars == <<content, pos>>

Init == content = << >> /\ pos = 0

Write(s) ==
  /\ pos' = pos + Len(s)
  /\ content' = Overwrite(content, pos, s)

Seek(dest) == pos' = dest /\ UNCHANGED content

Next == (\E s \in Blocks : Write(s)) \/ (\E dest \in Positions : Seek(dest))

Spec == Init /\ [][Next]_vars

=============================================================================
