------------------------------- MODULE Interp -------------------------------
(***************************************************************************)
(* Control in the runtime: activations of the bytecode interpreter         *)
(* (src/runtime/interp.c) and of the C functions it calls, which call      *)
(* it back; exceptions, which cross both; the ML stack, which is moved     *)
(* when it grows (stacks.c); and the interrupt signal (signals.c, sys.c),  *)
(* which may arrive between any two steps.                                 *)
(*                                                                         *)
(* The ML stack grows downwards from stack_high.  A pointer into it is     *)
(* <<g, n>>: n slots below the top of the g-th stack allocated.  A frame,  *)
(* of whatever size, takes one slot.  The C stack is the sequence          *)
(* [active]; a longjmp cuts it.                                            *)
(***************************************************************************)
EXTENDS Integers, SequencesExt

CONSTANTS
  MaxActive,   \* bound: activations on the C stack
  MaxSlots,    \* bound: slots of the ML stack
  StackSize,   \* words of the first stack
  MaxStackSize,
  WordSize,    \* bytes of a word
  MaxRoots,    \* Push_roots in one C function
  MaxBreaks    \* bound: interrupt signals

VARIABLES
  active,        \* the C stack, innermost last
  slot,          \* the ML stack: a value, or the trap frame that ends there
  stack,         \* which stack is allocated
  extern_sp, trapsp,
  external_raise,   \* the activation that the next longjmp goes to, 0: main
  c_roots_head,     \* the C roots: <<d, k>>, the k-th of activation d, latest first
  in_blocking_section, signal_is_pending, something_to_do, force_minor_flag,
  breaks, interrupts  \* signals that arrived, Interrupt exceptions raised

stackVars  == <<slot, stack, extern_sp, trapsp>>
signalVars == <<in_blocking_section, signal_is_pending, something_to_do, force_minor_flag>>
countVars  == <<breaks, interrupts>>
vars == <<active, stackVars, external_raise, c_roots_head, signalVars, countVars>>

Slots    == 1 .. MaxSlots
Pointers == Nat \X (0 .. MaxSlots)
Depths   == 0 .. MaxActive
CRoots   == Depths \X (1 .. MaxRoots)
Value    == [kind : {"value"}]
Trap     == [kind : {"trap"}, link : Pointers, owner : Depths]
aValue   == [kind |-> "value"]

(* A C function, and the body of a signal handler, which is one.           *)
C == [kind : {"C"}, mode : {"run", "entering", "blocking", "handler"}, roots : 0 .. MaxRoots]

(* interprete; its local variables.                                        *)
interprete ==
  [kind : {"ML"}, mode : {"run", "raise", "process_signal", "none_pending", "one_pending"},
   sp : Pointers, initial_sp_offset : 0 .. MaxSlots,
   initial_external_raise : Depths, initial_c_roots_head : Seq(CRoots)]

(* The stack pointers, activations and C roots that interprete, the        *)
(* C functions and the signal handler leave are of their types: no pointer *)
(* leaves the stack, no activation survives the one that called it.        *)
TypeOK ==
  /\ active \in Seq(C \cup interprete) /\ Len(active) <= MaxActive
  /\ slot \in [Slots -> Value \cup Trap]
  /\ stack \in Nat
  /\ extern_sp \in Pointers /\ trapsp \in Pointers
  /\ external_raise \in Depths
  /\ c_roots_head \in Seq(CRoots)
  /\ in_blocking_section \in BOOLEAN /\ signal_is_pending \in BOOLEAN
  /\ something_to_do \in BOOLEAN /\ force_minor_flag \in BOOLEAN
  /\ breaks \in 0 .. MaxBreaks /\ interrupts \in 0 .. MaxBreaks + 1

Depth  == Len(active)
Top    == Last(active)
Runs(kind, mode) == active # << >> /\ Top.kind = kind /\ Top.mode = mode
ML(mode) == Runs("ML", mode)
InC(mode) == Runs("C", mode)

Down(p, n) == <<p[1], p[2] + n>>
Up(p, n)   == <<p[1], p[2] - n>>

TopBecomes(a) == active' = [active EXCEPT ![Depth] = a]
Enters(a)     == Depth < MaxActive /\ active' = Append(active, a)

-----------------------------------------------------------------------------
(* Instructions.  Compiled code takes off the stack what it has pushed     *)
(* since the activation began, and pops the trap frames it pushed.         *)

Own(a)     == a.sp[2] > a.initial_sp_offset
IsTrap(p)  == p[2] > 0 /\ slot[p[2]].kind = "trap"

PushSlot(p, v) == p[2] < MaxSlots /\ slot' = [slot EXCEPT ![p[2] + 1] = v]

PUSH ==
  /\ ML("run")
  /\ PushSlot(Top.sp, aValue)
  /\ TopBecomes([Top EXCEPT !.sp = Down(@, 1)])
  /\ UNCHANGED <<stack, extern_sp, trapsp, external_raise, c_roots_head, signalVars, countVars>>

POP ==
  /\ ML("run") /\ Own(Top) /\ ~ IsTrap(Top.sp)
  /\ TopBecomes([Top EXCEPT !.sp = Up(@, 1)])
  /\ UNCHANGED <<stackVars, external_raise, c_roots_head, signalVars, countVars>>

PUSHTRAP ==
  /\ ML("run")
  /\ PushSlot(Top.sp, [kind |-> "trap", link |-> trapsp, owner |-> Depth])
  /\ trapsp' = Down(Top.sp, 1)
  /\ TopBecomes([Top EXCEPT !.sp = Down(@, 1)])
  /\ UNCHANGED <<stack, extern_sp, external_raise, c_roots_head, signalVars, countVars>>

(* Mutant: the frame is popped, and stays the innermost one.               *)
UnlinkedNot(p) == trapsp

Unlinked(p) == slot[p[2]].link

POPTRAP ==
  /\ ML("run") /\ Own(Top) /\ IsTrap(Top.sp)
  /\ trapsp' = Unlinked(Top.sp)
  /\ TopBecomes([Top EXCEPT !.sp = Up(@, 1)])
  /\ UNCHANGED <<slot, stack, extern_sp, external_raise, c_roots_head, signalVars, countVars>>

(* A longjmp to the activation d, where setjmp restores the C roots and    *)
(* goes to raise_exception; main ends the program.                         *)
Longjmp(d, roots) ==
  /\ active' = IF d = 0 THEN << >>
               ELSE [SubSeq(active, 1, d) EXCEPT ![d].mode = "raise"]
  /\ c_roots_head' = roots

(* Mutant: the roots of the functions that were left stay.                 *)
SavedRootsNot(d) == c_roots_head

SavedRoots(d) == IF d = 0 THEN << >> ELSE active[d].initial_c_roots_head

OuterBuffer(a) == a.initial_external_raise

RAISE ==
  /\ ML("run") \/ ML("raise")
  /\ IF trapsp[2] <= Top.initial_sp_offset
       THEN /\ external_raise' = OuterBuffer(Top)
            /\ Longjmp(Top.initial_external_raise, SavedRoots(Top.initial_external_raise))
            /\ UNCHANGED trapsp
       ELSE /\ trapsp' = slot[trapsp[2]].link
            /\ TopBecomes([Top EXCEPT !.mode = "run", !.sp = Up(trapsp, 1)])
            /\ UNCHANGED <<external_raise, c_roots_head>>
  /\ UNCHANGED <<slot, stack, extern_sp, signalVars, countVars>>

(* The trap frames that the links lead to, from trapsp to stack_high.      *)
TrapFrames ==
  {n \in Slots : \A S \in SUBSET (0 .. MaxSlots) :
     /\ trapsp[2] \in S
     /\ \A m \in S \ {0} : slot[m].kind = "trap" => slot[m].link[2] \in S
     => n \in S}

(* A pointer when the stack is copied below stack_high of the new one.     *)
Shift(p) == <<stack + 1, p[2]>>

(* Mutant: the links of the trap frames are not moved.                     *)
MovedLinksNot(frames) == slot

MovedLinks(frames) ==
  [n \in Slots |-> IF n \in frames THEN [slot[n] EXCEPT !.link = Shift(@)] ELSE slot[n]]

(* The words of the stack: each is twice as large as the one before.       *)
Size == StackSize * 2 ^ stack

(* APPLY finds little room on the stack.                                   *)
realloc_stack ==
  /\ ML("run") /\ Size < MaxStackSize
  /\ stack' = stack + 1
  /\ slot' = MovedLinks(TrapFrames)
  /\ trapsp' = Shift(trapsp)
  /\ extern_sp' = Shift(Top.sp)
  /\ TopBecomes([Top EXCEPT !.sp = Shift(@)])
  /\ UNCHANGED <<external_raise, c_roots_head, signalVars, countVars>>

(* mlraise.                                                                *)
mlraise ==
  /\ in_blocking_section' = FALSE
  /\ Longjmp(external_raise, SavedRoots(external_raise))
  /\ UNCHANGED <<slot, stack, trapsp, external_raise, signal_is_pending,
                 something_to_do, force_minor_flag, countVars>>

StackOverflow ==
  /\ ML("run") /\ Size >= MaxStackSize
  /\ extern_sp' = Top.sp
  /\ mlraise

-----------------------------------------------------------------------------
(* C functions.                                                            *)

Setup(sp) == extern_sp' = sp

C_CALL ==
  /\ ML("run") /\ Depth < MaxActive
  /\ PushSlot(Top.sp, aValue)
  /\ Setup(Down(Top.sp, 1))
  /\ active' = Append([active EXCEPT ![Depth].sp = Down(@, 1)],
                      [kind |-> "C", mode |-> "run", roots |-> 0])
  /\ UNCHANGED <<stack, trapsp, external_raise, c_roots_head, signalVars, countVars>>

Restored(a) == [a EXCEPT !.sp = Up(extern_sp, 1)]

Return ==
  /\ InC("run") /\ Top.roots = 0
  /\ active' = [Front(active) EXCEPT ![Depth - 1] = Restored(@)]
  /\ UNCHANGED <<stackVars, external_raise, c_roots_head, signalVars, countVars>>

Push_roots ==
  /\ InC("run") /\ Top.roots < MaxRoots
  /\ c_roots_head' = <<<<Depth, Top.roots + 1>>>> \o c_roots_head
  /\ TopBecomes([Top EXCEPT !.roots = @ + 1])
  /\ UNCHANGED <<stackVars, external_raise, signalVars, countVars>>

Pop_roots ==
  /\ InC("run") /\ Top.roots > 0
  /\ c_roots_head' = Tail(c_roots_head)
  /\ TopBecomes([Top EXCEPT !.roots = @ - 1])
  /\ UNCHANGED <<stackVars, external_raise, signalVars, countVars>>

(* Failure in a C function.                                                *)
Fail ==
  /\ InC("run")
  /\ mlraise /\ UNCHANGED extern_sp

(* alloc_shr in a C function asks for a minor collection.                  *)
force_minor_gc ==
  /\ InC("run")
  /\ force_minor_flag' = TRUE /\ something_to_do' = TRUE
  /\ UNCHANGED <<active, stackVars, external_raise, c_roots_head, in_blocking_section,
                 signal_is_pending, countVars>>

(* A C function calls the interpreter, with one slot for the closure and   *)
(* the argument.                                                           *)
callback(mode) ==
  LET sp == Down(extern_sp, 1) IN
    /\ PushSlot(extern_sp, aValue)
    /\ extern_sp' = sp
    /\ Enters([kind |-> "ML", mode |-> mode, sp |-> sp, initial_sp_offset |-> sp[2],
               initial_external_raise |-> external_raise,
               initial_c_roots_head |-> c_roots_head])
    /\ external_raise' = Depth + 1
    /\ UNCHANGED <<stack, trapsp, c_roots_head, signalVars>>

Callback == InC("run") /\ callback("run") /\ UNCHANGED countVars

(* The callback code pops the closure, and ends.                           *)
STOP ==
  /\ ML("run") /\ Depth > 1 /\ Top.sp[2] = Top.initial_sp_offset
  /\ extern_sp' = Up(Top.sp, 1)
  /\ external_raise' = Top.initial_external_raise
  /\ active' = Front(active)
  /\ UNCHANGED <<slot, stack, trapsp, c_roots_head, signalVars, countVars>>

-----------------------------------------------------------------------------
(* Signals.                                                                *)

(* The count stops when there is one exception too many.                   *)
Interrupted == interrupts' = Min({interrupts + 1, MaxBreaks + 1})

Handler == [kind |-> "C", mode |-> "handler", roots |-> 0]

(* execute_signal, outside the blocking section.                           *)
Postpone ==
  /\ signal_is_pending' = TRUE /\ something_to_do' = TRUE
  /\ UNCHANGED <<active, in_blocking_section, force_minor_flag>>

(* intr_handler: the system calls it on top of what is running.            *)
intr_handler ==
  /\ breaks < MaxBreaks /\ active # << >>
  /\ breaks' = breaks + 1
  /\ IF in_blocking_section THEN Enters(Handler) /\ UNCHANGED signalVars ELSE Postpone
  /\ UNCHANGED <<stackVars, external_raise, c_roots_head, interrupts>>

(* execute_signal, in the blocking section: a callback of the code that    *)
(* raises Interrupt.                                                       *)
RunHandler ==
  /\ InC("handler")
  /\ callback("raise")
  /\ Interrupted
  /\ UNCHANGED breaks

enter_blocking_section ==
  /\ InC("run")
  /\ in_blocking_section' = TRUE
  /\ TopBecomes([Top EXCEPT !.mode = "entering"])
  /\ UNCHANGED <<stackVars, external_raise, c_roots_head, signal_is_pending,
                 something_to_do, force_minor_flag, countVars>>

Entered ==
  /\ InC("entering")
  /\ IF signal_is_pending
       THEN Depth < MaxActive
            /\ active' = Append([active EXCEPT ![Depth].mode = "blocking"], Handler)
       ELSE TopBecomes([Top EXCEPT !.mode = "blocking"])
  /\ UNCHANGED <<stackVars, external_raise, c_roots_head, signalVars, countVars>>

leave_blocking_section ==
  /\ InC("blocking")
  /\ in_blocking_section' = FALSE
  /\ TopBecomes([Top EXCEPT !.mode = "run"])
  /\ UNCHANGED <<stackVars, external_raise, c_roots_head, signal_is_pending,
                 something_to_do, force_minor_flag, countVars>>

(* Mutant: the next instruction follows the minor collection.              *)
PolledOnce(a) == IF force_minor_flag THEN a ELSE [a EXCEPT !.mode = "process_signal"]

Polled(a) == [a EXCEPT !.mode = "process_signal"]

(* process_signal: something_to_do is reset, the minor collection done;    *)
(* signal_is_pending is read; it is reset, and the handler run.            *)
process_signal ==
  /\ ML("run") /\ something_to_do
  /\ something_to_do' = FALSE /\ force_minor_flag' = FALSE
  /\ extern_sp' = IF force_minor_flag THEN Down(Top.sp, 1) ELSE extern_sp
  /\ extern_sp'[2] <= MaxSlots
  /\ TopBecomes(Polled(Top))
  /\ UNCHANGED <<slot, stack, trapsp, external_raise, c_roots_head, in_blocking_section,
                 signal_is_pending, countVars>>

ReadPending ==
  /\ ML("process_signal")
  /\ TopBecomes([Top EXCEPT !.mode = IF signal_is_pending THEN "one_pending" ELSE "none_pending"])
  /\ UNCHANGED <<stackVars, external_raise, c_roots_head, signalVars, countVars>>

ResetPending ==
  /\ ML("one_pending") \/ ML("none_pending")
  /\ signal_is_pending' = FALSE
  /\ IF ML("one_pending")
       THEN /\ PushSlot(Top.sp, aValue)
            /\ TopBecomes([Top EXCEPT !.mode = "raise", !.sp = Down(@, 1)])
            /\ Interrupted
       ELSE /\ TopBecomes([Top EXCEPT !.mode = "run"])
            /\ UNCHANGED <<slot, interrupts>>
  /\ UNCHANGED <<stack, extern_sp, trapsp, external_raise, c_roots_head, in_blocking_section,
                 something_to_do, force_minor_flag, breaks>>

-----------------------------------------------------------------------------

Init ==
  /\ active = <<[kind |-> "ML", mode |-> "run", sp |-> <<0, 0>>, initial_sp_offset |-> 0,
                 initial_external_raise |-> 0, initial_c_roots_head |-> << >>]>>
  /\ slot = [n \in Slots |-> aValue]
  /\ stack = 0 /\ extern_sp = <<0, 0>> /\ trapsp = <<0, 0>>
  /\ external_raise = 1 /\ c_roots_head = << >>
  /\ in_blocking_section = FALSE /\ signal_is_pending = FALSE
  /\ something_to_do = FALSE /\ force_minor_flag = FALSE
  /\ breaks = 0 /\ interrupts = 0

Instruction ==
  PUSH \/ POP \/ PUSHTRAP \/ POPTRAP \/ RAISE \/ C_CALL \/ STOP
    \/ realloc_stack \/ StackOverflow \/ process_signal \/ ReadPending \/ ResetPending

CFunction ==
  Push_roots \/ Pop_roots \/ Callback \/ Return \/ Fail \/ force_minor_gc
    \/ enter_blocking_section \/ Entered \/ leave_blocking_section

Signal == intr_handler \/ RunHandler

Next == Instruction \/ CFunction \/ Signal

Spec == Init /\ [][Next]_vars

-----------------------------------------------------------------------------
(* How far the stack is in use.                                            *)
InUse ==
  IF Top.kind = "C" THEN extern_sp[2]
  ELSE IF Top.mode = "raise" THEN trapsp[2]
  ELSE Top.sp[2]

Activations == {d \in 1 .. Depth : active[d].kind = "ML"}

(* The trap frames from trapsp on are those on the stack, innermost first, *)
(* each pushed by an activation that has not ended: an exception goes to   *)
(* the innermost handler in force, whatever callbacks, exceptions and      *)
(* moves of the stack came before.                                         *)
TrapChain ==
  active # << >> =>
    LET frames == TrapFrames IN
      /\ frames = {n \in 1 .. InUse : slot[n].kind = "trap"}
      /\ trapsp[2] = 0 \/ \A n \in frames : n <= trapsp[2]
      /\ \A n \in frames :
           /\ slot[n].link[2] < n
           /\ slot[n].owner \in Activations
           /\ active[slot[n].owner].initial_sp_offset < n
           /\ \A d \in Activations : d > slot[n].owner => n <= active[d].initial_sp_offset

(* No pointer into a stack that was given up is used again: what outlives  *)
(* realloc_stack is moved, or an offset, or loaded again.                  *)
NoStaleStack ==
  /\ trapsp[1] = stack /\ \A n \in TrapFrames : slot[n].link[1] = stack
  /\ active # << >> =>
       IF Top.kind = "C" THEN extern_sp[1] = stack
       ELSE Top.mode # "raise" => Top.sp[1] = stack

(* A raise in C goes to the activation that runs, or that called the C     *)
(* function: its buffer is the one to use, and it has not ended.           *)
BufferLive ==
  active # << >> => external_raise \in Activations /\ \A d \in Activations : d <= external_raise

(* The C roots are those of the functions that have not been left, by      *)
(* their end or by an exception, the latest first.                         *)
RootsOf(d) == {r \in (1 .. d) \X (1 .. MaxRoots) : active[r[1]].kind = "C" /\ r[2] <= active[r[1]].roots}

Later(r, q) == r[1] > q[1] \/ (r[1] = q[1] /\ r[2] > q[2])

IsRootsOf(head, d) ==
  /\ Range(head) = RootsOf(d)
  /\ \A i, k \in DOMAIN head : i < k => Later(head[i], head[k])

RootsLive == IsRootsOf(c_roots_head, Depth)

(* "sp is a local copy of the global variable extern_sp": while a C        *)
(* function runs, or the handler of a signal, the collector and a callback *)
(* start from the stack pointer of the activation below it.                *)
SpIsExtern ==
  active # << >> /\ Top.kind = "C" =>
    LET below == active[Max(Activations)]
    IN below.mode # "raise" => extern_sp[2] = below.sp[2]

(* The stack of the machine: its handlers, and the pointers into it.       *)
StackDiscipline == TypeOK /\ TrapChain /\ NoStaleStack /\ SpIsExtern

(* What a raise in C restores is that of the activation it goes to.        *)
RaiseTarget == BufferLive /\ RootsLive

(* A signal is not forgotten: when one is pending, the next check will see *)
(* it, or the interpreter is at the window that process_signal names.      *)
PendingSeen ==
  signal_is_pending =>
    something_to_do \/ ML("process_signal") \/ ML("one_pending") \/ ML("none_pending")
      \/ active = << >>

(* Max_stack_size is the maximum size for the stacks, in bytes.            *)
StackWithinMax == Size * WordSize <= MaxStackSize

(* Interrupt signals the user's interrupt: one signal, one exception.      *)
EachOnce == interrupts <= breaks

=============================================================================
