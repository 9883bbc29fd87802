----------------------------- MODULE OutChannel ----------------------------
(***************************************************************************)
(* An output channel of the runtime (src/runtime/io.c): a buffer in        *)
(* front of a file descriptor, written to by output_char and output,       *)
(* moved by seek_out, emptied by flush and close_out.                      *)
(*                                                                         *)
(* The pointers of the code are counts from the start of the buffer.  An   *)
(* operation is one step; a write system call that fails may have written  *)
(* a part of what it was given, and the operation is left at that point.   *)
(***************************************************************************)
EXTENDS FileBytes

CONSTANTS
  BufSize,      \* IO_BUFFER_SIZE
  MaxBlock,     \* the longest block written
  MaxFile,      \* bound: no byte is written or sought beyond it
  Behind,       \* the program may flush, and write past the buffer, when its
                \* position is not at the end of what is buffered
  WritesFail    \* write may fail

VARIABLES
  file,      \* what is on disk
  fdpos,     \* the position of the file descriptor
  offset,
  curr, max, \* the current position in the buffer, the end of its contents
  buff,
  open,
  failed     \* history: a write has failed, and no lseek has been done since

vars == <<file, fdpos, offset, curr, max, buff, open, failed>>

(* A channel written by putch, putblock, flush and seek_out keeps          *)
(* curr <= max within the buffer.                                          *)
TypeOK ==
  /\ file \in Seq(Cells) /\ Len(file) <= MaxFile
  /\ fdpos \in 0 .. MaxFile /\ offset \in 0 .. MaxFile
  /\ max \in 0 .. BufSize /\ curr \in 0 .. max
  /\ buff \in [1 .. BufSize -> Cells]
  /\ open \in BOOLEAN /\ failed \in BOOLEAN

Blocks == UNION {[1 .. n -> Bytes] : n \in 1 .. MaxBlock}

Channel == [file |-> file, fdpos |-> fdpos, offset |-> offset,
            curr |-> curr, max |-> max, buff |-> buff]

Becomes(c) ==
  /\ file' = c.file /\ fdpos' = c.fdpos /\ offset' = c.offset
  /\ curr' = c.curr /\ max' = c.max /\ buff' = c.buff

-----------------------------------------------------------------------------
(* The channel after each operation, when no write fails.                  *)

really_write(c, s) ==
  [c EXCEPT !.file = Overwrite(@, c.fdpos, s), !.fdpos = @ + Len(s)]

Buffered(c) == Between(c.buff, 0, c.max)

(* Mutant: the position moves by the size of the buffer.                   *)
flushedWhole(c) ==
  IF c.max = 0 THEN c
  ELSE [really_write(c, Buffered(c)) EXCEPT !.offset = @ + BufSize, !.curr = 0, !.max = 0]

(* Mutant: what was flushed stays in the buffer.                           *)
flushedKeepMax(c) ==
  IF c.max = 0 THEN c
  ELSE [really_write(c, Buffered(c)) EXCEPT !.offset = @ + c.max, !.curr = 0]

flushed(c) ==
  IF c.max = 0 THEN c
  ELSE [really_write(c, Buffered(c)) EXCEPT !.offset = @ + c.max, !.curr = 0, !.max = 0]

(* The bytes s copied to the buffer at curr.                               *)
Filled(c, s) ==
  LET end == c.curr + Len(s)
  IN [c EXCEPT !.buff = Overwrite(@, c.curr, s), !.curr = end,
               !.max = IF end > @ THEN end ELSE @]

putch(c, ch) == Filled(IF c.curr >= BufSize THEN flushed(c) ELSE c, <<ch>>)

(* A block that does not fit, behind what is buffered: the buffer is       *)
(* filled up and written.                                                  *)
FilledUp(c, p) == [c EXCEPT !.buff = Overwrite(@, c.curr, Between(p, 0, BufSize - c.curr))]
WrittenOut(c)  == [really_write(c, c.buff) EXCEPT !.offset = @ + BufSize]

Direct(c, s) == [really_write(c, s) EXCEPT !.offset = @ + Len(s)]

putblock(c, p) ==
  LET n    == Len(p)
      m    == BufSize - c.curr
      rest == Between(p, m, n)
      out  == WrittenOut(FilledUp(c, p))
  IN IF c.curr = 0 /\ n >= m THEN Direct(c, p)
     ELSE IF n <= m THEN Filled(c, p)
     ELSE IF n - m <= BufSize
       THEN [out EXCEPT !.buff = Overwrite(@, 0, rest), !.curr = n - m, !.max = n - m]
       ELSE [Direct(out, rest) EXCEPT !.curr = 0, !.max = 0]

InBuffer(c, dest) == c.offset <= dest /\ dest <= c.offset + c.max

seeked(c, dest) ==
  IF InBuffer(c, dest) THEN [c EXCEPT !.curr = dest - c.offset]
  ELSE [flushed(c) EXCEPT !.fdpos = dest, !.offset = dest]

-----------------------------------------------------------------------------

Careful == Behind \/ curr = max

(* Room in the bounded file for n bytes more behind what is buffered.      *)
Within(n) == fdpos + max + n <= MaxFile

flush ==
  /\ open /\ Careful
  /\ Becomes(flushed(Channel)) /\ UNCHANGED <<open, failed>>

output_char(ch) ==
  /\ open /\ Within(1)
  /\ Becomes(putch(Channel, ch)) /\ UNCHANGED <<open, failed>>

output(p) ==
  /\ open /\ Within(Len(p)) /\ (Careful \/ curr > 0)
  /\ Becomes(putblock(Channel, p)) /\ UNCHANGED <<open, failed>>

seek_out(dest) ==
  /\ open
  /\ Becomes(seeked(Channel, dest)) /\ UNCHANGED open
  /\ failed' = (failed /\ InBuffer(Channel, dest))

close_out ==
  /\ open
  /\ Becomes(flushed(Channel)) /\ open' = FALSE /\ UNCHANGED failed

(* A write of s fails after some of it was written, and sys_error raises.  *)
Fails(c, s) ==
  \E k \in 0 .. Len(s) - 1 :
    /\ c.fdpos + k + max <= MaxFile
    /\ Becomes(really_write(c, Between(s, 0, k)))

write_fails ==
  /\ WritesFail /\ open /\ UNCHANGED open /\ failed' = TRUE
  /\ \/ max > 0 /\ Fails(Channel, Buffered(Channel))
     \/ \E p \in Blocks :
          LET m   == BufSize - curr
              full == FilledUp(Channel, p)
          IN /\ Within(Len(p))
             /\ \/ curr = 0 /\ Len(p) >= m /\ Fails(Channel, p)
                \/ curr > 0 /\ Len(p) > m /\ Fails(full, full.buff)
                \/ /\ curr > 0 /\ Len(p) - m > BufSize
                   /\ Fails(WrittenOut(full), Between(p, m, Len(p)))

Init ==
  /\ file = << >> /\ fdpos = 0 /\ offset = 0
  /\ curr = 0 /\ max = 0
  /\ buff = [i \in 1 .. BufSize |-> Hole]
  /\ open = TRUE /\ failed = FALSE

Next ==
  \/ flush \/ close_out \/ write_fails
  \/ \E ch \in Bytes : output_char(ch)
  \/ \E p \in Blocks : output(p)
  \/ \E dest \in 0 .. MaxFile : seek_out(dest)

Spec == Init /\ [][Next]_vars

-----------------------------------------------------------------------------
(* [offset] is the absolute position of the beginning of the buffer: what  *)
(* is buffered will be written there.  A write that fails half way leaves  *)
(* it behind the descriptor until the next seek out of the buffer, and     *)
(* nothing ever gets it ahead.                                             *)
OffsetIsPosition == offset <= fdpos /\ (~ failed => fdpos = offset)

(* The buffer is a window on the file: its pointers are in order, and its  *)
(* beginning is where the descriptor will write.                           *)
BufferIsWindow == TypeOK /\ OffsetIsPosition

(* Nothing the program wrote is missing from the disk, or twice on it,     *)
(* once the channel is closed, and the position follows what it wrote: as  *)
(* long as no write fails, and again when the program has repositioned the *)
(* channel after one, the buffer cannot be told from a file written to     *)
(* directly.                                                               *)
Abstract == INSTANCE File WITH
  Positions <- 0 .. MaxFile,
  content   <- Overwrite(file, offset, Buffered(Channel)),
  pos       <- offset + curr

ImplementsFile ==
  Abstract!Init /\ [][failed \/ failed' \/ Abstract!Next \/ UNCHANGED Abstract!vars]_vars

(* A write that fails half way leaves bytes on the disk that the channel   *)
(* still holds.  What is written when the program goes on destroys nothing *)
(* that was written completely, before the buffer, until it seeks.         *)
SettledStays ==
  \A i \in 1 .. offset : i <= Len(file) => file'[i] = file[i]

SettledKept == [][SettledStays]_vars

(* "seek_out chan pos sets the current writing position to pos": what is   *)
(* written next goes there, and flushing what was written before does not  *)
(* change that.                                                            *)
FlushKeepsPlace == [][flush => offset' + curr' = offset + curr]_vars

=============================================================================
