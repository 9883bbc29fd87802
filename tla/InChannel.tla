----------------------------- MODULE InChannel -----------------------------
(***************************************************************************)
(* An input channel of the runtime (src/runtime/io.c): input_char,         *)
(* input and input_nonblocking, seek_in, and input_scan_line, which looks  *)
(* for the end of a line without consuming it.                             *)
(*                                                                         *)
(* The pointers of the code are counts from the start of the buffer.  An   *)
(* operation is one step, but for input_scan_line, which reads several     *)
(* times.  A read system call gives any part of what is there.  While an   *)
(* operation waits for it, and just after it has returned, the handler of  *)
(* a signal may raise and end the operation.                               *)
(***************************************************************************)
EXTENDS FileBytes

CONSTANTS
  Newline,
  BufSize,      \* IO_BUFFER_SIZE
  MaxBlock,     \* the longest block asked for
  MaxFile,      \* the longest file
  Raises        \* a signal handler may raise when a read has returned

VARIABLES
  file,
  fdpos,     \* the position of the file descriptor
  offset,
  curr, max, \* the current position in the buffer, the end of its contents
  buff,
  got,       \* the bytes the last operation delivered
  scan,      \* where input_scan_line stands in the buffer, or Idle
  line,      \* the last answer of input_scan_line, or Idle
  lost       \* history: bytes that were read have been lost, and seek_in has
             \* not left the buffer since

chanVars == <<offset, curr, max, buff>>
vars == <<file, fdpos, chanVars, got, scan, line, lost>>

Idle == - BufSize - 1     \* no place in the buffer and no answer

(* A channel read by refill, getblock, seek_in and input_scan_line keeps   *)
(* curr <= max within the buffer, and what was delivered are bytes of      *)
(* the file.                                                               *)
TypeOK ==
  /\ file \in UNION {[1 .. n -> Bytes] : n \in 0 .. MaxFile}
  /\ fdpos \in 0 .. MaxFile /\ offset \in 0 .. MaxFile
  /\ max \in 0 .. BufSize /\ curr \in 0 .. max
  /\ buff \in [1 .. BufSize -> Cells]
  /\ got \in Seq(Bytes)
  /\ scan \in {Idle} \cup curr .. max
  /\ line \in {Idle} \cup - BufSize .. BufSize
  /\ lost \in BOOLEAN

pos == offset - (max - curr)

-----------------------------------------------------------------------------
Size(n, m) == IF n < m THEN n ELSE m

(* What read may return when it is asked for n bytes: none only at the end *)
(* of the file.                                                            *)
Counts(n) ==
  LET there == Size(n, IF fdpos < Len(file) THEN Len(file) - fdpos ELSE 0)
  IN IF there = 0 THEN {0} ELSE 1 .. there

Read(k) == Between(file, fdpos, fdpos + k)

Advances(k) == fdpos' = fdpos + k /\ offset' = offset + k

Delivers(s) == got' = s

(* refill, after which the first byte is delivered.  At the end of the     *)
(* file it raises, and leaves the channel as it is.                        *)
refill ==
  \E l \in Counts(BufSize) \ {0} :
    /\ Advances(l)
    /\ buff' = Overwrite(buff, 0, Read(l))
    /\ max' = l /\ curr' = 1
    /\ Delivers(Between(Read(l), 0, 1))

input_char ==
  /\ scan = Idle
  /\ IF curr < max
       THEN /\ Delivers(Between(buff, curr, curr + 1))
            /\ curr' = curr + 1
            /\ UNCHANGED <<fdpos, offset, max, buff>>
       ELSE refill
  /\ UNCHANGED <<file, scan, line, lost>>

(* getblock, which input and input_nonblocking call: from what is buffered *)
(* if there is anything, through the buffer, or directly.                  *)
FromBuffer(n) ==
  LET k == Size(n, max - curr)
  IN /\ n <= max - curr \/ max > curr
     /\ Delivers(Between(buff, curr, curr + k))
     /\ curr' = curr + k
     /\ UNCHANGED <<fdpos, offset, max, buff>>

ThroughBuffer(n) ==
  /\ n > 0 /\ max = curr /\ n < BufSize
  /\ \E l \in Counts(BufSize) :
       /\ Advances(l)
       /\ buff' = Overwrite(buff, 0, Read(l))
       /\ max' = l /\ curr' = Size(n, l)
       /\ Delivers(Between(Read(l), 0, Size(n, l)))

(* Mutant: the buffer is not given up.                                     *)
DirectKept(n) ==
  /\ n > 0 /\ max = curr /\ n >= BufSize
  /\ \E l \in Counts(n) : Advances(l) /\ Delivers(Read(l))
  /\ UNCHANGED <<curr, max, buff>>

Direct(n) ==
  /\ n > 0 /\ max = curr /\ n >= BufSize
  /\ \E l \in Counts(n) : Advances(l) /\ Delivers(Read(l))
  /\ curr' = 0 /\ max' = 0
  /\ UNCHANGED buff

(* A read that gives nothing, because there is nothing yet and the call is *)
(* not to wait, or that fails: -1, or an exception.                        *)
NoData(n) ==
  /\ n > 0 /\ max = curr
  /\ IF n < BufSize THEN UNCHANGED <<curr, max>> ELSE (curr' = 0 /\ max' = 0)
  /\ Delivers(<< >>)
  /\ UNCHANGED <<fdpos, offset, buff>>

input(n) ==
  /\ scan = Idle
  /\ FromBuffer(n) \/ ThroughBuffer(n) \/ Direct(n) \/ NoData(n)
  /\ UNCHANGED <<file, scan, line, lost>>

(* The place of a position in the buffer, if it is there.                  *)
InBuffer(dest) ==
  IF offset - max <= dest /\ dest <= offset THEN {max - (offset - dest)} ELSE {}

seek_in(dest) ==
  /\ scan = Idle
  /\ IF InBuffer(dest) # {}
       THEN curr' \in InBuffer(dest) /\ UNCHANGED <<fdpos, offset, max, lost>>
       ELSE fdpos' = dest /\ offset' = dest /\ curr' = 0 /\ max' = 0 /\ lost' = FALSE
  /\ Delivers(<< >>)
  /\ UNCHANGED <<file, buff, scan, line>>

(* The end of the file is asked for, and the descriptor put back to where  *)
(* offset says it was.                                                     *)
channel_size ==
  /\ scan = Idle
  /\ fdpos' = offset /\ Delivers(<< >>)
  /\ UNCHANGED <<file, chanVars, scan, line, lost>>

-----------------------------------------------------------------------------
(* input_scan_line.                                                        *)

ScanStart ==
  /\ scan = Idle
  /\ scan' = curr /\ line' = Idle /\ Delivers(<< >>)
  /\ UNCHANGED <<file, fdpos, chanVars, lost>>

ScanByte ==
  /\ scan # Idle /\ scan < max
  /\ IF buff[scan + 1] = Newline
       THEN scan' = Idle /\ line' = scan + 1 - curr
       ELSE scan' = scan + 1 /\ UNCHANGED line
  /\ UNCHANGED <<file, fdpos, chanVars, got, lost>>

(* What is unread is moved to the start of the buffer.                     *)
Shift ==
  /\ buff' = Overwrite(buff, 0, Between(buff, curr, max))
  /\ curr' = 0

(* Mutant: what is read is stored over the unread bytes.                   *)
FillOver(l) ==
  /\ buff' = Overwrite(Overwrite(buff, 0, Between(buff, curr, max)), 0, Read(l))
  /\ curr' = 0

Fill(l) ==
  /\ buff' = Overwrite(Overwrite(buff, 0, Between(buff, curr, max)), max - curr, Read(l))
  /\ curr' = 0

Unread == max - curr

(* Mutant: the end of the file is not seen.                                *)
AtEofNever(l) == FALSE

AtEof(l) == l = 0

(* No byte is left: the buffer is filled, unless it is full of one line or *)
(* the file ends, which the negative answer tells.                         *)
ScanFill ==
  /\ scan # Idle /\ scan = max
  /\ IF Unread = BufSize
       THEN /\ Shift
            /\ scan' = Idle /\ line' = - Unread
            /\ max' = Unread
            /\ UNCHANGED <<fdpos, offset>>
       ELSE \E l \in Counts(BufSize - Unread) :
              /\ Fill(l) /\ Advances(l)
              /\ max' = Unread + l
              /\ IF AtEof(l) THEN scan' = Idle /\ line' = - Unread
                 ELSE scan' = Unread /\ UNCHANGED line
  /\ UNCHANGED <<file, got, lost>>

(* While it waits for bytes, a signal handler raises an exception, or the  *)
(* read fails.                                                             *)
ScanInterrupted ==
  /\ scan # Idle /\ scan = max /\ Unread < BufSize
  /\ Shift /\ max' = Unread
  /\ scan' = Idle
  /\ UNCHANGED <<file, fdpos, offset, got, line, lost>>

(* The handler raises between the return of read and the end of the        *)
(* blocking section: what was read is in the buffer, or in the string of   *)
(* the caller, and the channel does not know it.                           *)
ReadLost ==
  /\ Raises /\ (IF scan = Idle THEN curr = max ELSE scan = max)
  /\ UNCHANGED <<file, offset, line>> /\ Delivers(<< >>)
  /\ scan' = Idle /\ lost' = TRUE
  /\ \/ /\ scan = Idle
        /\ \E l \in Counts(BufSize) :
             fdpos' = fdpos + l /\ buff' = Overwrite(buff, 0, Read(l))
        /\ UNCHANGED <<curr, max>>
     \/ /\ scan = Idle
        /\ \E n \in BufSize .. MaxBlock : \E l \in Counts(n) : fdpos' = fdpos + l
        /\ curr' = 0 /\ max' = 0
        /\ UNCHANGED buff
     \/ /\ scan = max /\ Unread < BufSize
        /\ \E l \in Counts(BufSize - Unread) : Fill(l) /\ fdpos' = fdpos + l
        /\ max' = Unread

-----------------------------------------------------------------------------

Init ==
  /\ file \in UNION {[1 .. n -> Bytes] : n \in 0 .. MaxFile}
  /\ fdpos = 0 /\ offset = 0 /\ curr = 0 /\ max = 0
  /\ buff = [i \in 1 .. BufSize |-> Hole]
  /\ got = << >> /\ scan = Idle /\ line = Idle /\ lost = FALSE

Next ==
  \/ input_char \/ channel_size
  \/ \E n \in 0 .. MaxBlock : input(n)
  \/ \E dest \in 0 .. MaxFile : seek_in(dest)
  \/ ScanStart \/ ScanByte \/ ScanFill \/ ScanInterrupted \/ ReadLost

Fairness == WF_vars(ScanByte \/ ScanFill)
Spec     == Init /\ [][Next]_vars /\ Fairness

-----------------------------------------------------------------------------
(* [offset] is the absolute position of the logical end of the buffer: the *)
(* buffer holds the part of the file that ends there.  A handler that      *)
(* raises just after a read breaks this, and a seek out of the buffer      *)
(* mends it; the descriptor is never behind.                               *)
Window ==
  /\ offset <= fdpos
  /\ ~ lost => /\ fdpos = offset
               /\ max > 0 => Between(buff, 0, max) = Between(file, offset - max, offset)

BufferIsWindow == TypeOK /\ Window

(* The bytes delivered are those of the file at the position, which moves  *)
(* past them, however they come through the buffer; nothing but seek_in    *)
(* moves it otherwise: not a search for the end of the line, not one that  *)
(* is interrupted.                                                         *)
InOrder ==
  \/ lost
  \/ \E dest \in 0 .. MaxFile : seek_in(dest) /\ pos' = dest
  \/ got' = Between(file, pos, pos')
  \/ got' = got /\ pos' = pos

(* A positive answer of input_scan_line is the length of the line that     *)
(* starts at the position.  A negative one says that there is no newline   *)
(* in that many bytes, and that they fill the buffer or end the file.      *)
LineAnswer ==
  scan # Idle /\ line' # Idle /\ ~ lost =>
    IF line' > 0
      THEN \A i \in 1 .. line' : file[pos + i] = Newline <=> i = line'
      ELSE /\ \A i \in 1 .. - line' : file[pos + i] # Newline
           /\ - line' = BufSize \/ pos - line' >= Len(file)

(* A search for the end of a line ends, whatever the reads give.           *)
ScanEnds == (scan # Idle) ~> (scan = Idle)

=============================================================================
