----------------------------- MODULE MCChannels ----------------------------
(***************************************************************************)
(* The two kinds of channel on the same small file system, and a value     *)
(* that is written to one and read from the other: which of the three      *)
(* moves is chosen at the start, and the variables of the others keep one  *)
(* value.  The input channel is the one this module extends.               *)
(***************************************************************************)
EXTENDS InChannel, MCValues

CONSTANTS OutBufSize, OutMaxFile,           \* of OutChannel
          Graphs, Writers, Readers, Address, TableSize, Digit, SmallInt, MaxWosize32    \* of Marshal

VARIABLES
  which,                                    \* "in", "out" or "value"
  open, failed,                             \* of OutChannel
  heap, root, writer, reader, compact, pc, extern_table, used, extern_block, read_pos, todo, sizes,
  chan, mem, intern_ptr, intern_obj_table, result, mishap    \* of Marshal

shared  == <<file, fdpos, offset, curr, max, buff>>
inOnly  == <<got, scan, line, lost>>
outOnly == <<open, failed>>
valueVars == <<heap, root, writer, reader, compact, pc, extern_table, used, extern_block, read_pos, todo, sizes,
               chan, mem, intern_ptr, intern_obj_table, result, mishap>>
ioVars  == <<which, shared, inOnly, outOnly, valueVars>>

Out == INSTANCE OutChannel_proofs WITH BufSize <- OutBufSize, MaxFile <- OutMaxFile, Behind <- FALSE, WritesFail <- TRUE

Value == INSTANCE Marshal

InInit  == Init /\ open = FALSE /\ failed = FALSE
OutInit == Out!Init /\ got = << >> /\ scan = Idle /\ line = Idle /\ lost = FALSE
OneValue == Value!Init /\ root = IntVal(0) /\ compact /\ ~writer.long /\ ~reader.long /\ ~writer.big

ChannelInit ==
  \/ which = "in" /\ InInit /\ OneValue
  \/ which = "out" /\ OutInit /\ OneValue
  \/ which = "value" /\ OutInit /\ file = << >> /\ Value!Init

ChannelNext ==
  /\ UNCHANGED which
  /\ \/ which = "in" /\ Next /\ UNCHANGED <<outOnly, valueVars>>
     \/ which = "out" /\ Out!Next /\ UNCHANGED <<inOnly, valueVars>>
     \/ which = "value" /\ Value!Next /\ UNCHANGED <<shared, inOnly, outOnly>>

ChannelSpec == ChannelInit /\ [][ChannelNext]_ioVars /\ (which = "in" => Fairness)

(* offset is the place of the buffer in the file: its end for input, its   *)
(* beginning for output.                                                   *)
BuffersAreWindows ==
  /\ which = "in" => BufferIsWindow
  /\ which = "out" => Out!BufferIsWindow

(* A channel that is flushed, and overrun, only from the end of its buffer *)
(* cannot be told from the file, until a write fails.                      *)
ImplementsFile ==
  /\ which = "out" => Out!Abstract!Init
  /\ [][which # "out" \/ failed \/ failed' \/ UNCHANGED Out!Abstract!vars \/ Out!Abstract!Next]_ioVars

(* What was written completely, before the buffer, is not destroyed, even  *)
(* after a write has failed.                                               *)
SettledKept == [][which = "out" => Out!SettledStays]_ioVars

(* Input delivers the bytes of the file in order, whatever the operations, *)
(* and input_scan_line answers with the length of the line.                *)
InputInOrder == [][which = "in" => InOrder /\ LineAnswer]_ioVars

(* Input of what output wrote gives the same value, with the same sharing  *)
(* and the same cycles, whatever the two machines: or fails, where a short *)
(* word cannot hold a part of it.  But for the values named in Lossy.      *)
RoundTrip == which = "value" => Value!RoundTrip

(* An input that is over, by a result or by a failure, leaves the block it *)
(* has allocated, and perhaps half filled, such that the collector can     *)
(* walk it.  But for the three cases named in Marshal.                     *)
FailsCleanly == which = "value" => Value!FailsCleanly
=============================================================================
