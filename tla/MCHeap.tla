------------------------------- MODULE MCHeap ------------------------------
(***************************************************************************)
(* The memory of the runtime, each part on its own: the young heap with    *)
(* its table; the free list of the major heap; the major heap as a whole,  *)
(* as it grows and as the slices of the collector keep up with the         *)
(* program; the stacks, of ML and of C; and the collector with the parsing *)
(* engine for its program.  Which of them moves is chosen at the start;    *)
(* the variables of the others keep their initial values.                  *)
(***************************************************************************)
EXTENDS MinorGC

CONSTANTS
  MaxWord, Chunks, FirstChunk, MaxWosize,                        \* of FreeList
  GrowPage, PacePage, GrowIncrements, PaceIncrements, Percents,  \* of HeapPolicy
  MaxActive, MaxSlots, StackSize, MaxStackSize, WordSize, MaxRoots, MaxBreaks,   \* of Interp
  MaxAddr, ParserChunk, ParserEnv, ParserFields, GraySize, GrayMax, ParserStack  \* of ParserGC

ASSUME ChunksAssumption ==
  /\ MaxWord \in Nat /\ MaxWosize \in Nat \ {0}
  /\ FirstChunk \in Chunks
  /\ \A c \in Chunks : c[1] \in 2 .. MaxWord /\ c[2] \in 2 .. MaxWord /\ c[1] < c[2]
  \* the chunk head keeps two chunks from being adjacent
  /\ \A c, d \in Chunks : c # d => c[2] + 1 < d[1] \/ d[2] + 1 < c[1]

(* With a larger percentage a slice has less than no work, and with no     *)
(* increment the heap grows by less than a page.                           *)
ASSUME PolicyAssumption ==
  /\ Percents \subseteq 1 .. 100
  /\ GrowIncrements \cup PaceIncrements \subseteq Nat \ {0}
  /\ GrowPage \in Nat \ {0} /\ GrowPage % 4 = 0
  /\ PacePage \in Nat \ {0} /\ PacePage % 8 = 0

ASSUME BoundsAssumption ==
  /\ MaxActive \in Nat \ {0} /\ MaxSlots \in Nat /\ MaxRoots \in Nat /\ MaxBreaks \in Nat
  /\ StackSize \in Nat \ {0} /\ MaxStackSize \in Nat /\ WordSize \in Nat \ {0}

(* The environment of the parser has a field for its stack.                *)
ASSUME ParserAssumption ==
  /\ MaxAddr \in Nat /\ ParserFields \in Nat /\ ParserFields >= 2
  /\ ParserChunk \subseteq 1 .. MaxAddr /\ ParserEnv \in ParserChunk
  /\ GraySize \in Nat \ {0} /\ GrayMax \in Nat /\ ParserStack \in Nat \ {0}

(* Growth at higher addresses.                                             *)
UpFirst  == <<2, 8>>
UpChunks == {<<2, 8>>, <<10, 14>>}

VARIABLES
  which,                         \* "young", "old", "grow", "pace", "control" or "parser"
  size, color, link, fl_prev, fl_merge, chunks, sweeping, gc_sweep_hp,
  chunk_list, chunk_size, heap_end, stat_heap_size, p_table, p_table_total_size,
  major_heap_increment, minor_heap_size, percent_free,
  allocated_words, extra_heap_memory, forced, gc_phase, left, consumed, steady,
  active, slot, stack, extern_sp, trapsp, external_raise, c_roots_head,
  in_blocking_section, signal_is_pending, something_to_do, minor_asked, breaks, interrupts,
  heap, header, tag, contents, held, phase, gray_vals, gray_size, heap_is_pure, markhp, sweep_hp, weak_arrays,
  slices, place, cur, idx, roots, command, arg, token, sp, stacksize

policyVars == <<chunk_list, chunk_size, heap_end, stat_heap_size, p_table, p_table_total_size,
                major_heap_increment, minor_heap_size, percent_free,
                allocated_words, extra_heap_memory, forced, gc_phase, left, consumed, steady>>
oldVars == <<size, color, link, fl_prev, fl_merge, chunks, sweeping, gc_sweep_hp>>
controlVars ==
  <<active, slot, stack, extern_sp, trapsp, external_raise, c_roots_head,
    in_blocking_section, signal_is_pending, something_to_do, minor_asked, breaks, interrupts>>

parserVars ==
  <<heap, header, tag, contents, held, phase, gray_vals, gray_size, heap_is_pure, markhp, sweep_hp, weak_arrays,
    slices, place, cur, idx, roots, command, arg, token, sp, stacksize>>

runtimeVars == <<which, vars, oldVars, policyVars, controlVars, parserVars>>

Old == INSTANCE FreeList_proofs WITH next <- link

(* A heap of small pages, whose chunks come in every order, and one of     *)
(* a real size, which stays.                                               *)
Grow == INSTANCE HeapPolicy_proofs WITH
  chunks <- chunk_list, force_minor_flag <- forced,
  Page_size <- GrowPage, WordSize <- 4, Heap_chunk_max <- 4 * GrowPage, Minor_heap_min <- 4, Minor_heap_max <- 16,
  InitialTable <- 1, Unrolled <- 3, UnrolledShort <- 2,
  Wosizes <- {1, 3}, Increments <- GrowIncrements, MinorSizes <- {4}, Percents <- {30}, Speeds <- {},
  MaxPage <- 12, MaxChunks <- 5, MaxAllocated <- 20, Sliced <- FALSE

Pace == INSTANCE HeapPolicy_proofs WITH
  chunks <- chunk_list, force_minor_flag <- forced,
  Page_size <- PacePage, WordSize <- 8, Heap_chunk_max <- 16 * PacePage, Minor_heap_min <- 4096, Minor_heap_max <- 65536,
  InitialTable <- 64, Unrolled <- 64, UnrolledShort <- 16,
  Wosizes <- {18}, Increments <- PaceIncrements, MinorSizes <- {4096, 64}, Speeds <- {<<1, 2>>},
  MaxPage <- 8, MaxChunks <- 1, MaxAllocated <- 40, Sliced <- TRUE

(* Activations of the interpreter, with a flag of their own.               *)
Stacks == INSTANCE Interp_proofs WITH force_minor_flag <- minor_asked

(* The parsing engine on the collector, with stacks that are not grown     *)
(* before a token without an attribute is read.                            *)
Parser == INSTANCE MajorGC_proofs WITH
  HeapInit <- ParserChunk, Global <- ParserEnv, NFields <- ParserFields,
  StackSize <- ParserStack, BareAfterGrowth <- FALSE,
  color <- header, field <- contents, gc_phase <- phase, gc_sweep_hp <- sweep_hp, calls <- slices, pc <- place

AsAtStart == Pace!Init /\ \A p \in Percents : percent_free <= p

HeapInit ==
  /\ Init /\ Old!Init /\ Stacks!Init /\ Parser!ParserInit
  /\ \/ which \in {"young", "old", "control", "parser"} /\ AsAtStart
     \/ which = "grow" /\ Grow!Init
     \/ which = "pace" /\ Pace!Init

HeapNext ==
  /\ UNCHANGED which
  /\ \/ which = "young" /\ Next /\ UNCHANGED <<oldVars, policyVars, controlVars, parserVars>>
     \/ which = "old" /\ Old!Next /\ UNCHANGED <<vars, policyVars, controlVars, parserVars>>
     \/ which = "grow" /\ Grow!Next /\ UNCHANGED <<vars, oldVars, controlVars, parserVars>>
     \/ which = "pace" /\ Pace!Next /\ UNCHANGED <<vars, oldVars, controlVars, parserVars>>
     \/ which = "control" /\ Stacks!Next /\ UNCHANGED <<vars, oldVars, policyVars, parserVars>>
     \/ which = "parser" /\ Parser!ParserNext /\ UNCHANGED <<vars, oldVars, policyVars, controlVars>>

HeapSpec == HeapInit /\ [][HeapNext]_runtimeVars

(* The free list is sorted, complete, and searched and merged at the right *)
(* places, and the words of the heap are divided into blocks, no two free  *)
(* ones side by side.                                                      *)
FreeListSound == which = "old" => Old!ListSound /\ Old!HeapTiled

(* No operation takes words from a block in use.                           *)
InUseKept == [][which = "old" => Old!InUseKeptStep]_<<which, oldVars>>

(* The list of chunks and the page table, searched in each of its ways,    *)
(* are of the same memory, however the heap has grown.                     *)
HeapMapped == which = "grow" => Grow!HeapMapped

(* Marking, and then sweeping, ends before the program has allocated the   *)
(* free memory that the slices are reckoned from.                          *)
Paced == which = "pace" => Pace!Paced

(* The links between the trap frames, and the pointers into the stack, fit *)
(* the activations that are left, after every callback, exception and move *)
(* of the stack (interp.c, callback; fail.c, mlraise; stacks.c).           *)
StackDiscipline == which = "control" => Stacks!StackDiscipline

(* A raise in C goes to an activation that has not ended, and the C roots  *)
(* are those of the functions that have not been left (fail.c, mlraise).   *)
RaiseTarget == which = "control" => Stacks!RaiseTarget

(* A signal that is pending is seen: it is not forgotten before the next   *)
(* poll (signals.c, execute_signal; interp.c, process_signal).             *)
PendingSeen == which = "control" => Stacks!PendingSeen

(* Nothing the environment of the parsing engine leads to is free.         *)
NoDangling == which = "parser" => Parser!NoDangling
=============================================================================
