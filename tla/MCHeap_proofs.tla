--------------------------- MODULE MCHeap_proofs ---------------------------
(***************************************************************************)
(* What is proved of the parts of the runtime's memory, for the module     *)
(* that instantiates them: of the stacks of ML and of C, for stacks of     *)
(* every size and any number of activations, with no more than one         *)
(* interrupt signal; of the free list, for heaps of every size; and of the *)
(* heap that grows and is collected, for pages, increments and percentages *)
(* of every size; and of the parsing engine on the collector, for heaps,   *)
(* environments and stacks of every size.                                  *)
(***************************************************************************)
EXTENDS MCHeap, TLAPS

ControlInv == which = "control" => Stacks!InterpInv /\ Stacks!QuietInv

LEMMA BoundsHold == Stacks!BoundsOK
BY BoundsAssumption DEF Stacks!BoundsOK

LEMMA InitHolds ==
  ASSUME HeapInit
  PROVE  ControlInv
<1>1. Stacks!Init
  BY DEF HeapInit
<1>2. Stacks!InterpInv
  BY <1>1, BoundsHold, Stacks!InitHolds
<1>3. Stacks!QuietInv
  BY <1>1 DEF Stacks!Init, Stacks!QuietInv
<1> QED
  BY <1>2, <1>3 DEF ControlInv

(* A step of this module is a step of the part that moves.                 *)
LEMMA StepIs ==
  ASSUME [HeapNext]_runtimeVars, which = "control"
  PROVE  which' = "control" /\ [Stacks!Next]_(Stacks!vars)
<1>1. CASE HeapNext
  BY <1>1 DEF HeapNext
<1>2. CASE UNCHANGED runtimeVars
  <2>1. UNCHANGED <<which, controlVars>>
    BY <1>2 DEF runtimeVars
  <2>2. UNCHANGED Stacks!vars
    BY <2>1 DEF controlVars, Stacks!vars, Stacks!stackVars, Stacks!signalVars, Stacks!countVars
  <2> QED
    BY <2>1, <2>2
<1> QED
  BY <1>1, <1>2

LEMMA Preserved ==
  ASSUME MaxBreaks <= 1, ControlInv, [HeapNext]_runtimeVars
  PROVE  ControlInv'
<1>1. CASE which = "control"
  <2>1. Stacks!InterpInv /\ Stacks!QuietInv /\ [Stacks!Next]_(Stacks!vars)
    BY <1>1, StepIs DEF ControlInv
  <2>2. Stacks!InterpInv' /\ Stacks!QuietInv'
    BY <2>1, BoundsHold, Stacks!OnePreserved
  <2> QED
    BY <2>2 DEF ControlInv
<1>2. CASE which # "control"
  <2>1. which' = which
    BY DEF HeapNext, runtimeVars
  <2> QED
    BY <1>2, <2>1 DEF ControlInv
<1> QED
  BY <1>1, <1>2

LEMMA ControlImplies ==
  ASSUME ControlInv
  PROVE  StackDiscipline /\ RaiseTarget /\ PendingSeen
<1>1. SUFFICES ASSUME which = "control"
               PROVE  Stacks!StackDiscipline /\ Stacks!RaiseTarget /\ Stacks!PendingSeen
  BY DEF StackDiscipline, RaiseTarget, PendingSeen
<1>2. Stacks!InterpInv
  BY <1>1 DEF ControlInv
<1> QED
  BY <1>2, BoundsHold, Stacks!InvImplies

(* The trap frames that trapsp leads to are those on the stack, each of an *)
(* activation that has not ended, and no pointer into a stack that was     *)
(* given up is used, whatever callbacks, exceptions, signal handlers and   *)
(* moves of the stack came before (interp.c, RAISE and callback; fail.c,   *)
(* mlraise; stacks.c, realloc_stack).                                      *)
THEOREM StackDisciplineTheorem ==
  ASSUME MaxBreaks <= 1
  PROVE  HeapSpec => []StackDiscipline
<1>1. HeapInit => ControlInv
  BY InitHolds
<1>2. ControlInv /\ [HeapNext]_runtimeVars => ControlInv'
  BY Preserved
<1>3. ControlInv => StackDiscipline
  BY ControlImplies
<1> QED
  BY <1>1, <1>2, <1>3, PTL DEF HeapSpec

(* A raise in C goes to the innermost activation of the interpreter, which *)
(* has not ended, and the C roots are those of the C functions that have   *)
(* not been left (fail.c, mlraise; memory.h, Push_roots; interp.c,         *)
(* initial_external_raise and initial_c_roots_head).                       *)
THEOREM RaiseTargetTheorem ==
  ASSUME MaxBreaks <= 1
  PROVE  HeapSpec => []RaiseTarget
<1>1. HeapInit => ControlInv
  BY InitHolds
<1>2. ControlInv /\ [HeapNext]_runtimeVars => ControlInv'
  BY Preserved
<1>3. ControlInv => RaiseTarget
  BY ControlImplies
<1> QED
  BY <1>1, <1>2, <1>3, PTL DEF HeapSpec

(* A signal that is pending will be seen by the next poll, or is at the    *)
(* window between the poll's tests (signals.c, execute_signal; interp.c,   *)
(* process_signal).                                                        *)
THEOREM PendingSeenTheorem ==
  ASSUME MaxBreaks <= 1
  PROVE  HeapSpec => []PendingSeen
<1>1. HeapInit => ControlInv
  BY InitHolds
<1>2. ControlInv /\ [HeapNext]_runtimeVars => ControlInv'
  BY Preserved
<1>3. ControlInv => PendingSeen
  BY ControlImplies
<1> QED
  BY <1>1, <1>2, <1>3, PTL DEF HeapSpec
-----------------------------------------------------------------------------
(* The free list.                                                          *)

OldInv == which = "old" => Old!ListInv

(* No chunk is added behind the sweep and beyond the last free block.      *)
NoneAddedBehind == [][which = "old" => Old!NoneBehind]_<<which, oldVars>>

LEMMA ChunksHold == Old!ChunksOK
BY ChunksAssumption DEF Old!ChunksOK, Old!Word

LEMMA OldVars == UNCHANGED <<which, oldVars>> => UNCHANGED Old!vars
BY DEF oldVars, Old!vars, Old!listVars

LEMMA InitOld ==
  ASSUME HeapInit
  PROVE  OldInv
<1>1. Old!Init
  BY DEF HeapInit
<1> QED
  BY <1>1, ChunksHold, Old!InitListInv DEF OldInv

LEMMA OldStepIs ==
  ASSUME [HeapNext]_runtimeVars, which = "old"
  PROVE  [Old!Next]_(Old!vars)
<1>1. CASE HeapNext
  BY <1>1 DEF HeapNext
<1>2. CASE UNCHANGED runtimeVars
  <2>1. UNCHANGED <<which, oldVars>>
    BY <1>2 DEF runtimeVars
  <2> QED
    BY <2>1, OldVars
<1> QED
  BY <1>1, <1>2

LEMMA OldPreserved ==
  ASSUME OldInv, [HeapNext]_runtimeVars, [which = "old" => Old!NoneBehind]_<<which, oldVars>>
  PROVE  OldInv' /\ (which = "old" => Old!InUseKeptStep)
<1>1. CASE which = "old"
  <2>1. Old!ListInv /\ [Old!Next]_(Old!vars)
    BY <1>1, OldStepIs DEF OldInv
  <2>2. CASE UNCHANGED <<which, oldVars>>
    <3>1. UNCHANGED Old!vars
      BY <2>2, OldVars
    <3> QED
      BY <2>1, <3>1, ChunksHold, Old!QuietStep DEF OldInv
  <2>3. CASE Old!NoneBehind
    BY <2>1, <2>3, ChunksHold, Old!ListNext DEF OldInv
  <2> QED
    BY <1>1, <2>2, <2>3
<1>2. CASE which # "old"
  <2>1. which' = which
    BY DEF HeapNext, runtimeVars
  <2> QED
    BY <1>2, <2>1 DEF OldInv
<1> QED
  BY <1>1, <1>2

(* The free list is sorted and complete and holds no two adjacent blocks,  *)
(* fl_prev and fl_merge are on it, the latter where the sweep merges, and  *)
(* the blocks divide the chunks, whatever is allocated, added and swept    *)
(* (freelist.c; major_gc.c, sweep_slice; memory.c, expand_heap), as long   *)
(* as no chunk is added behind the sweep and beyond the last free block:   *)
(* fl_add_block does not move fl_merge to that one.                        *)
THEOREM FreeListSoundTheorem ==
  HeapSpec /\ NoneAddedBehind => []FreeListSound
<1>1. HeapInit => OldInv
  BY InitOld
<1>2. OldInv /\ [HeapNext]_runtimeVars /\ [which = "old" => Old!NoneBehind]_<<which, oldVars>> => OldInv'
  BY OldPreserved
<1>3. OldInv => FreeListSound
  BY ChunksHold, Old!InvSound DEF OldInv, FreeListSound
<1> QED
  BY <1>1, <1>2, <1>3, PTL DEF HeapSpec, NoneAddedBehind

(* A block in use keeps its size and stays off the free list until the     *)
(* sweep finds it white: no allocation, merge or growth takes its words    *)
(* (freelist.c, allocate_block and fl_merge_block; memory.c, expand_heap). *)
THEOREM InUseKeptTheorem ==
  HeapSpec /\ NoneAddedBehind => InUseKept
<1>1. HeapInit => OldInv
  BY InitOld
<1>2. OldInv /\ [HeapNext]_runtimeVars /\ [which = "old" => Old!NoneBehind]_<<which, oldVars>>
        => OldInv' /\ [which = "old" => Old!InUseKeptStep]_<<which, oldVars>>
  BY OldPreserved
<1> QED
  BY <1>1, <1>2, PTL DEF HeapSpec, NoneAddedBehind, InUseKept

-----------------------------------------------------------------------------
(* The heap as a whole.                                                    *)

GrowInv == which = "grow" => Grow!MapInv
PaceHolds == which = "pace" => Pace!PaceInv

LEMMA GrowPolicyOK == Grow!PolicyOK
<1>1. GrowPage \in Nat \ {0} /\ GrowPage % 4 = 0 /\ GrowIncrements \subseteq Nat \ {0}
  BY PolicyAssumption
<1>2. PICK k \in Nat : GrowPage = 4 * k
  BY <1>1
<1>3. Grow!Multiple(GrowPage, 4)
  BY <1>2 DEF Grow!Multiple
<1>4. Grow!Multiple(4 * GrowPage, GrowPage) /\ 4 * GrowPage \in Nat \ {0}
  <2>1. 4 * GrowPage = GrowPage * 4
    BY <1>1
  <2> QED
    BY <1>1, <2>1 DEF Grow!Multiple
<1> QED
  BY <1>1, <1>3, <1>4 DEF Grow!PolicyOK

LEMMA PacePolicyOK == Pace!PolicyOK
<1>1. /\ PacePage \in Nat \ {0} /\ PacePage % 8 = 0 /\ PaceIncrements \subseteq Nat \ {0}
      /\ Percents \subseteq 1 .. 100
  BY PolicyAssumption
<1>2. PICK k \in Nat : PacePage = 8 * k
  BY <1>1
<1>3. Pace!Multiple(PacePage, 8)
  BY <1>2 DEF Pace!Multiple
<1>4. Pace!Multiple(16 * PacePage, PacePage) /\ 16 * PacePage \in Nat \ {0}
  <2>1. 16 * PacePage = PacePage * 16
    BY <1>1
  <2> QED
    BY <1>1, <2>1 DEF Pace!Multiple
<1> QED
  BY <1>1, <1>3, <1>4 DEF Pace!PolicyOK

(* A step of this module is one of the heap, and which heap it is stays.   *)
LEMMA PolicyStepIs ==
  ASSUME [HeapNext]_runtimeVars
  PROVE  /\ which' = which
         /\ which = "grow" => [Grow!Next]_(Grow!vars)
         /\ which = "pace" => [Pace!Next]_(Pace!vars)
<1>1. CASE HeapNext
  BY <1>1 DEF HeapNext
<1>2. CASE UNCHANGED runtimeVars
  <2>1. UNCHANGED <<which, policyVars>>
    BY <1>2 DEF runtimeVars
  <2>2. UNCHANGED Grow!vars
    BY <2>1 DEF policyVars, Grow!vars, Grow!heapVars, Grow!settings, Grow!paceVars
  <2>3. UNCHANGED Pace!vars
    BY <2>1 DEF policyVars, Pace!vars, Pace!heapVars, Pace!settings, Pace!paceVars
  <2> QED
    BY <2>1, <2>2, <2>3
<1> QED
  BY <1>1, <1>2

LEMMA GrowPreserved ==
  ASSUME GrowInv, [HeapNext]_runtimeVars
  PROVE  GrowInv'
<1>1. CASE which = "grow"
  <2>1. Grow!MapInv /\ [Grow!Next]_(Grow!vars)
    BY <1>1, PolicyStepIs DEF GrowInv
  <2>2. Grow!MapInv'
    BY <2>1, GrowPolicyOK, Grow!MapNext
  <2> QED
    BY <2>2 DEF GrowInv
<1>2. CASE which # "grow"
  BY <1>2, PolicyStepIs DEF GrowInv
<1> QED
  BY <1>1, <1>2

LEMMA PacePreserved ==
  ASSUME PaceHolds, [HeapNext]_runtimeVars
  PROVE  PaceHolds'
<1>1. CASE which = "pace"
  <2>1. Pace!PaceInv /\ [Pace!Next]_(Pace!vars)
    BY <1>1, PolicyStepIs DEF PaceHolds
  <2>2. Pace!PaceInv'
    BY <2>1, PacePolicyOK, Pace!PaceNext
  <2> QED
    BY <2>2 DEF PaceHolds
<1>2. CASE which # "pace"
  BY <1>2, PolicyStepIs DEF PaceHolds
<1> QED
  BY <1>1, <1>2

(* The chunks do not overlap, the list through them is in the order of     *)
(* their addresses, heap_end and stat_heap_size are true of them, and      *)
(* every way to search the page table finds their addresses and no others  *)
(* (memory.c, expand_heap; major_gc.c, p_table_in_heap and its likes),     *)
(* wherever in memory the chunks come.                                     *)
THEOREM HeapMappedTheorem ==
  HeapSpec => []HeapMapped
<1>1. HeapInit => GrowInv
  <2>1. SUFFICES ASSUME HeapInit, which = "grow" PROVE Grow!MapInv
    BY DEF GrowInv
  <2>2. Grow!Init
    BY <2>1 DEF HeapInit
  <2> QED
    BY <2>2, GrowPolicyOK, Grow!MapInit
<1>2. GrowInv /\ [HeapNext]_runtimeVars => GrowInv'
  BY GrowPreserved
<1>3. GrowInv => HeapMapped
  BY GrowPolicyOK, Grow!MapMeans DEF GrowInv, HeapMapped
<1> QED
  BY <1>1, <1>2, <1>3, PTL DEF HeapSpec

(* Before the program has allocated, in a phase of a collection, the free  *)
(* memory that the slices are reckoned from, the phase ends: as long as    *)
(* the percentage is left alone, whatever the sizes, the speed and the     *)
(* settings (major_gc.c, major_collection_slice; memory.c, alloc_shr and   *)
(* adjust_gc_speed; gc_ctrl.c).                                            *)
THEOREM PacedTheorem ==
  HeapSpec => []Paced
<1>1. HeapInit => PaceHolds
  <2>1. SUFFICES ASSUME HeapInit, which = "pace" PROVE Pace!PaceInv
    BY DEF PaceHolds
  <2>2. Pace!Init
    BY <2>1 DEF HeapInit
  <2> QED
    BY <2>2, PacePolicyOK, Pace!PaceInit
<1>2. PaceHolds /\ [HeapNext]_runtimeVars => PaceHolds'
  BY PacePreserved
<1>3. PaceHolds => Paced
  BY PacePolicyOK, Pace!PaceMeans DEF PaceHolds, Paced
<1> QED
  BY <1>1, <1>2, <1>3, PTL DEF HeapSpec

-----------------------------------------------------------------------------
(***************************************************************************)
(* The parsing engine on the collector.                                    *)
(***************************************************************************)

ParserHolds == which = "parser" => Parser!ParserInv

LEMMA ParserIsOK == Parser!ParserOK
<1>1. 2 \in Parser!Fields
  BY ParserAssumption DEF Parser!Fields
<1> QED
  BY <1>1, ParserAssumption DEF Parser!ParserOK, Parser!v_stack

LEMMA ParserStepIs ==
  ASSUME [HeapNext]_runtimeVars, which = "parser"
  PROVE  which' = "parser" /\ [Parser!ParserNext]_(Parser!allVars)
<1>1. CASE HeapNext
  BY <1>1 DEF HeapNext
<1>2. CASE UNCHANGED runtimeVars
  <2>1. UNCHANGED <<which, parserVars>>
    BY <1>2 DEF runtimeVars
  <2>2. UNCHANGED Parser!allVars
    BY <2>1 DEF parserVars, Parser!allVars, Parser!vars, Parser!heapVars, Parser!grayVars,
                Parser!cycleVars, Parser!callVars, Parser!parserVars
  <2> QED
    BY <2>1, <2>2
<1> QED
  BY <1>1, <1>2

LEMMA ParserPreserved ==
  ASSUME ParserHolds, [HeapNext]_runtimeVars
  PROVE  ParserHolds'
<1>1. CASE which = "parser"
  <2>1. Parser!ParserInv /\ which' = "parser" /\ [Parser!ParserNext]_(Parser!allVars)
    BY <1>1, ParserStepIs DEF ParserHolds
  <2>2. Parser!ParserInv'
    BY <2>1, ParserAssumption, ParserIsOK, Parser!ParserStep DEF Parser!Addr
  <2> QED
    BY <2>2 DEF ParserHolds
<1>2. CASE which # "parser"
  BY <1>2, PolicyStepIs DEF ParserHolds
<1> QED
  BY <1>1, <1>2

(* Nothing that the environment of the parsing engine leads to is freed,   *)
(* at any moment of any collection, though the engine clears lval without  *)
(* telling the collector (parsing.c, parse_engine), as long as it does so  *)
(* before the stacks are grown only.                                       *)
THEOREM NoDanglingTheorem ==
  HeapSpec => []NoDangling
<1>1. HeapInit => ParserHolds
  <2>1. SUFFICES ASSUME HeapInit PROVE Parser!ParserInv
    BY DEF ParserHolds
  <2>2. Parser!ParserInit
    BY <2>1 DEF HeapInit
  <2> QED
    BY <2>2, ParserAssumption, ParserIsOK, Parser!ParserInitInv DEF Parser!Addr
<1>2. ParserHolds /\ [HeapNext]_runtimeVars => ParserHolds'
  BY ParserPreserved
<1>3. ParserHolds => NoDangling
  BY ParserAssumption, Parser!ParserMeans DEF ParserHolds, NoDangling, Parser!Addr
<1> QED
  BY <1>1, <1>2, <1>3, PTL DEF HeapSpec
=============================================================================
