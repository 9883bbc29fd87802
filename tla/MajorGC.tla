------------------------------ MODULE MajorGC ------------------------------
(***************************************************************************)
(* The incremental mark-weak-sweep collector of the Moscow ML runtime      *)
(* (src/runtime/major_gc.c) together with the operations through which     *)
(* the running program reaches it: alloc_shr, Modify, weak_sub, gc_major   *)
(* and gc_full_major.                                                      *)
(*                                                                         *)
(* The heap is seen block by block: an address stands for one block, and   *)
(* the order of addresses is what the collector's pointers [markhp] and    *)
(* [gc_sweep_hp] and the colour given to a new block depend on.  Sizes,    *)
(* splitting and merging of free blocks are the business of FreeList.tla.  *)
(* Everything the program holds outside the major heap (its stack, its C   *)
(* roots, its young blocks) is the set [held].                             *)
(*                                                                         *)
(* A collector call runs between two steps of the program.  Its loops are  *)
(* taken one iteration per step, and [calls] holds the collector calls     *)
(* under way: the program runs only when it is empty.                      *)
(***************************************************************************)
EXTENDS Integers, Sequences

CONSTANTS
  MaxAddr,    \* addresses are 1 .. MaxAddr
  HeapInit,   \* the addresses of the initial heap chunk
  Global,     \* the block global_data points to
  NFields,    \* the number of fields of a block
  GraySize,   \* the initial capacity of gray_vals
  GrayMax     \* gray_vals is not grown from this capacity on

Addr    == 1 .. MaxAddr
Fields  == 1 .. NFields

(* An integer, an atom, a pointer outside the heap, or NULL: what the      *)
(* collector does not follow.                                              *)
Nil     == 0

ASSUME AddrAssumption == MaxAddr \in Nat /\ NFields \in Nat
ASSUME HeapAssumption == HeapInit \subseteq Addr /\ Global \in HeapInit
ASSUME GrayAssumption == GraySize \in Nat \ {0} /\ GrayMax \in Nat

Colors  == {"White", "Gray", "Blue", "Black"}
Tags    == {"Scan", "Weak"}
Phases  == {"Phase_mark", "Phase_weak", "Phase_sweep"}

(* The collector calls: the slice that ends a minor collection, and the    *)
(* calls of finish_major_cycle made by gc_major and gc_full_major.         *)
Calls   == {"slice", "major", "full1", "full2"}

VARIABLES
  heap,          \* the addresses that belong to a heap chunk
  color,         \* the colour in each block's header; Blue is a free block
  tag,           \* Scan: fields are traced; Weak: an array of weak pointers
  field,         \* the contents of the blocks
  held,          \* the pointers the program holds outside the major heap
  gc_phase,
  gray_vals,     \* the mark stack
  gray_size,     \* its capacity
  heap_is_pure,  \* every gray block below markhp is in gray_vals
  markhp,        \* where the search for gray blocks stands, or Nil
  gc_sweep_hp,   \* the blocks below it are swept in this cycle
  weak_arrays,   \* the weak arrays met by this cycle's marking
  calls,         \* the collector calls under way, the running one first
  pc,            \* in a loop over blocks, over fields, or over the roots
  cur, idx,      \* the block being scanned, its fields still to be darkened
  roots          \* the roots start_cycle has still to darken

heapVars  == <<heap, tag, field, held>>
grayVars  == <<gray_vals, gray_size, heap_is_pure>>
callVars  == <<calls, pc, cur, idx, roots>>
cycleVars == <<gc_phase, markhp, gc_sweep_hp, weak_arrays>>
vars == <<heapVars, color, grayVars, cycleVars, callVars>>

(* The heap, the gray values, the pointers of the mark and sweep phases    *)
(* and the calls in progress are of their types after every step of the    *)
(* collector and of the program: mark_slice reads no field past the last.  *)
TypeOK ==
  /\ heap \in SUBSET Addr
  /\ color \in [Addr -> Colors]
  /\ tag \in [Addr -> Tags]
  /\ field \in [Addr -> [Fields -> Addr \cup {Nil}]]
  /\ held \in SUBSET Addr
  /\ gc_phase \in Phases
  /\ gray_vals \in Seq(Addr)
  /\ gray_size \in Nat \ {0}
  /\ heap_is_pure \in BOOLEAN
  /\ markhp \in 0 .. MaxAddr + 1
  /\ gc_sweep_hp \in 0 .. MaxAddr + 1
  /\ weak_arrays \in SUBSET Addr
  /\ calls \in Seq(Calls)
  /\ pc \in {"loop", "scan", "roots"}
  /\ cur \in Addr \cup {Nil} /\ (pc = "scan" => cur \in Addr)
  /\ idx \in 0 .. NFields
  /\ roots \in SUBSET Addr

-----------------------------------------------------------------------------
(* Where the program can get from here.                                    *)

Roots == held \cup {Global}

Closed(S) ==
  \A a \in S : tag[a] = "Scan" =>
    \A f \in Fields : field[a][f] \in S \cup {Nil}

(* The blocks reachable from the roots through traced fields: the least    *)
(* set that holds the roots and is closed under them.                      *)
Reach == {a \in Addr : \A S \in SUBSET Addr :
                          (Roots \subseteq S /\ Closed(S)) => a \in S}

(* The first heap address from p on: where a walk over the chunks that     *)
(* stands at p goes on.                                                    *)
IsNext(h, p) == h \in heap /\ h >= p /\ \A x \in heap : x >= p => h <= x

(* Mutant: the walk leaves out the last block.                             *)
AtEndEarly(p) == \A x \in heap : x <= p

AtEnd(p)     == \A x \in heap : x < p

-----------------------------------------------------------------------------
(* The mark stack.  [s] is gray_vals with a block pushed; at the capacity  *)
(* it is doubled, emptied when realloc fails, or cut in half when it has   *)
(* grown enough already.                                                   *)
PushGray(s) ==
  \/ /\ Len(s) < gray_size
     /\ gray_vals' = s
     /\ UNCHANGED <<gray_size, heap_is_pure>>
  \/ /\ Len(s) >= gray_size /\ gray_size < GrayMax
     /\ gray_vals' = s
     /\ gray_size' = 2 * gray_size
     /\ UNCHANGED heap_is_pure
  \/ /\ Len(s) >= gray_size /\ gray_size < GrayMax
     /\ gray_vals' = << >>
     /\ heap_is_pure' = FALSE
     /\ UNCHANGED gray_size
  \/ /\ Len(s) >= gray_size /\ gray_size >= GrayMax
     /\ gray_vals' = SubSeq(s, 1, gray_size \div 2)
     /\ heap_is_pure' = FALSE
     /\ UNCHANGED gray_size

Darken(v) ==
  IF v # Nil /\ color[v] = "White"
    THEN /\ color' = [color EXCEPT ![v] = "Gray"]
         /\ PushGray(Append(gray_vals, v))
    ELSE UNCHANGED <<color, grayVars>>

-----------------------------------------------------------------------------
(* The program.                                                            *)

Running == calls = << >>

(* Mutant: the phase is not looked at, so that marking meets white blocks. *)
AllocColorLate(a) == IF a >= gc_sweep_hp THEN "Black" ELSE "White"

(* Mutant: blocks ahead of the sweep are given no colour of their own.     *)
AllocColorAhead(a) == IF gc_phase = "Phase_mark" THEN "Black" ELSE "White"

(* alloc_shr, from the free list or from a chunk just obtained from malloc *)
(* at any address: blocks allocated behind the sweep are white at once.    *)
AllocColor(a) ==
  IF gc_phase = "Phase_mark" \/ a >= gc_sweep_hp THEN "Black" ELSE "White"

AllocShr(a, t, init) ==
  /\ Running
  /\ color[a] = "Blue"
  /\ heap' = heap \cup {a}
  /\ color' = [color EXCEPT ![a] = AllocColor(a)]
  /\ tag' = [tag EXCEPT ![a] = t]
  /\ field' = [field EXCEPT ![a] = init]
  /\ held' = held \cup {a}
  /\ UNCHANGED <<grayVars, cycleVars, callVars>>

(* A block of traced fields, filled with what the program holds: a large   *)
(* block, or a young one that a minor collection promotes.                 *)
AllocBlock(a) ==
  \E init \in [Fields -> Roots \cup {Nil}] : AllocShr(a, "Scan", init)

(* weak_arr: the cells of a new weak array are NULL.                       *)
AllocWeak(a) == AllocShr(a, "Weak", [f \in Fields |-> Nil])

Load(a, f) ==
  /\ Running
  /\ a \in Roots /\ tag[a] = "Scan" /\ field[a][f] # Nil
  /\ held' = held \cup {field[a][f]}
  /\ UNCHANGED <<heap, tag, field, color, grayVars, cycleVars, callVars>>

Drop(a) ==
  /\ Running
  /\ a \in held
  /\ held' = held \ {a}
  /\ UNCHANGED <<heap, tag, field, color, grayVars, cycleVars, callVars>>

(* Mutant: the value overwritten is not darkened.                          *)
ModifyNoBarrier(a, f, v) ==
  /\ Running
  /\ a \in Roots
  /\ v \in Roots \cup {Nil}
  /\ field' = [field EXCEPT ![a][f] = v]
  /\ UNCHANGED <<heap, tag, held, color, grayVars, cycleVars, callVars>>

(* The Modify macro: during marking, the value overwritten is darkened.    *)
Modify(a, f, v) ==
  /\ Running
  /\ a \in Roots
  /\ v \in Roots \cup {Nil}
  /\ field' = [field EXCEPT ![a][f] = v]
  /\ IF gc_phase = "Phase_mark"
       THEN Darken(field[a][f])
       ELSE UNCHANGED <<color, grayVars>>
  /\ UNCHANGED <<heap, tag, held, cycleVars, callVars>>

(* Mutant: a white block is taken for dead in every phase.                 *)
isdeadAnyPhase(v) == IF v = Nil THEN TRUE ELSE color[v] = "White"

isdead(v) ==
  IF v = Nil THEN TRUE ELSE gc_phase = "Phase_weak" /\ color[v] = "White"

WeakSub(a, f) ==
  /\ Running
  /\ a \in Roots /\ tag[a] = "Weak" /\ ~ isdead(field[a][f])
  /\ held' = held \cup {field[a][f]}
  /\ IF gc_phase = "Phase_mark"
       THEN Darken(field[a][f])
       ELSE UNCHANGED <<color, grayVars>>
  /\ UNCHANGED <<heap, tag, field, cycleVars, callVars>>

(* A minor collection ends in a slice; gc_major and gc_full_major go on to *)
(* finish the cycle, gc_full_major twice.                                  *)
Collect(cs) ==
  /\ Running
  /\ calls' = cs
  /\ UNCHANGED <<heapVars, color, grayVars, cycleVars, pc, cur, idx, roots>>

MinorCollection == Collect(<<"slice">>)
GcMajor         == Collect(<<"slice", "major">>)

(* Mutant: one cycle only.                                                 *)
GcFullMajorOnce == Collect(<<"slice", "full2">>)
GcFullMajor     == Collect(<<"slice", "full1", "full2">>)

-----------------------------------------------------------------------------
(* The collector.  The running call is at the head of its loop over blocks *)
(* and the phase says which loop that is.                                  *)

InLoop(phase) == calls # << >> /\ pc = "loop" /\ gc_phase = phase

(* A slice stops for good here; finish_major_cycle goes on with the next   *)
(* phase.                                                                  *)
EndPhase == calls' = IF Head(calls) = "slice" THEN Tail(calls) ELSE calls

(* After each block the work a slice was given may be used up; the work of *)
(* finish_major_cycle, LONG_MAX, is not.                                   *)
Worked ==
  \/ UNCHANGED calls
  \/ Head(calls) = "slice" /\ calls' = Tail(calls)

(* The field the scan of a block starts from, 0 if its fields are not      *)
(* traced.                                                                 *)
LastField(v) == IF tag[v] = "Scan" THEN NFields ELSE 0

(* mark_slice: a gray block is blackened, then its fields are darkened,    *)
(* the last one first.                                                     *)
MarkPop ==
  /\ InLoop("Phase_mark")
  /\ gray_vals # << >>
  /\ LET v == gray_vals[Len(gray_vals)] IN
       /\ gray_vals' = SubSeq(gray_vals, 1, Len(gray_vals) - 1)
       /\ color' = [color EXCEPT ![v] = "Black"]
       /\ cur' = v
       /\ idx' = LastField(v)
       /\ weak_arrays' = IF tag[v] = "Weak" THEN weak_arrays \cup {v}
                                            ELSE weak_arrays
  /\ pc' = "scan"
  /\ UNCHANGED <<heapVars, gray_size, heap_is_pure, gc_phase, markhp,
                 gc_sweep_hp, calls, roots>>

MarkChild ==
  /\ calls # << >> /\ pc = "scan" /\ idx > 0
  /\ Darken(field[cur][idx])
  /\ idx' = idx - 1
  /\ UNCHANGED <<heapVars, cycleVars, calls, pc, cur, roots>>

MarkedBlock ==
  /\ calls # << >> /\ pc = "scan" /\ idx = 0
  /\ pc' = "loop" /\ cur' = Nil
  /\ Worked
  /\ UNCHANGED <<heapVars, color, grayVars, cycleVars, idx, roots>>

(* The mark stack is empty and a walk over the heap looks for gray blocks  *)
(* that were lost from it.                                                 *)
MarkWalk ==
  /\ InLoop("Phase_mark")
  /\ gray_vals = << >> /\ markhp # Nil
  /\ \/ \E h \in heap :
            /\ IsNext(h, markhp)
            /\ gray_vals' = IF color[h] = "Gray" THEN <<h>> ELSE << >>
            /\ markhp' = h + 1
     \/ /\ AtEnd(markhp)
        /\ markhp' = Nil
        /\ UNCHANGED gray_vals
  /\ UNCHANGED <<heapVars, color, gray_size, heap_is_pure, gc_phase,
                 gc_sweep_hp, weak_arrays, callVars>>

(* Mutant: the heap is walked again without having been called pure.       *)
MarkRestartImpure ==
  /\ InLoop("Phase_mark")
  /\ gray_vals = << >> /\ markhp = Nil /\ ~ heap_is_pure
  /\ \E h \in heap : IsNext(h, 0) /\ markhp' = h
  /\ UNCHANGED <<heapVars, color, grayVars, gc_phase,
                 gc_sweep_hp, weak_arrays, callVars>>

MarkRestart ==
  /\ InLoop("Phase_mark")
  /\ gray_vals = << >> /\ markhp = Nil /\ ~ heap_is_pure
  /\ heap_is_pure' = TRUE
  /\ \E h \in heap : IsNext(h, 0) /\ markhp' = h
  /\ UNCHANGED <<heapVars, color, gray_vals, gray_size, gc_phase,
                 gc_sweep_hp, weak_arrays, callVars>>

MarkDone ==
  /\ InLoop("Phase_mark")
  /\ gray_vals = << >> /\ markhp = Nil /\ heap_is_pure
  /\ gc_phase' = "Phase_weak"
  /\ \E h \in heap : IsNext(h, 0) /\ gc_sweep_hp' = h
  /\ EndPhase
  /\ UNCHANGED <<heapVars, color, grayVars, markhp, weak_arrays,
                 pc, cur, idx, roots>>

(* Mutant: the colour of the target is not looked at.                      *)
DyingAll(v) == v # Nil

(* A weak pointer to a block the sweep is going to free.                   *)
Dying(v) == IF v = Nil THEN FALSE ELSE color[v] = "White"

(* weak_phase resets the weak pointers of the arrays marking has met.      *)
weak_phase ==
  /\ InLoop("Phase_weak")
  /\ field' = [a \in Addr |-> [f \in Fields |->
                 IF a \in weak_arrays /\ Dying(field[a][f])
                   THEN Nil ELSE field[a][f]]]
  /\ weak_arrays' = {}
  /\ gc_phase' = "Phase_sweep"
  /\ EndPhase
  /\ UNCHANGED <<heap, tag, held, color, grayVars, markhp, gc_sweep_hp,
                 pc, cur, idx, roots>>

(* Mutant: black blocks are not made white for the next cycle.             *)
SweptColorKeep(c) == IF c \in {"White", "Blue"} THEN "Blue" ELSE c

(* sweep_slice: what became of the colour of the block at the sweep        *)
(* pointer.                                                                *)
SweptColor(c) == IF c \in {"White", "Blue"} THEN "Blue" ELSE "White"

SweepBlock ==
  /\ InLoop("Phase_sweep")
  /\ \E h \in heap :
       /\ IsNext(h, gc_sweep_hp)
       /\ gc_sweep_hp' = h + 1
       /\ color' = [color EXCEPT ![h] = SweptColor(color[h])]
       /\ IF color[h] = "White"
            THEN /\ tag' = [tag EXCEPT ![h] = "Scan"]
                 /\ field' = [field EXCEPT ![h] = [f \in Fields |-> Nil]]
            ELSE UNCHANGED <<tag, field>>
  /\ Worked
  /\ UNCHANGED <<heap, held, grayVars, gc_phase, markhp, weak_arrays,
                 pc, cur, idx, roots>>

SweepDone ==
  /\ InLoop("Phase_sweep")
  /\ AtEnd(gc_sweep_hp)
  /\ pc' = "roots"
  /\ roots' = Roots
  /\ UNCHANGED <<heapVars, color, grayVars, cycleVars, calls, cur, idx>>

(* start_cycle *)
DarkenRoot ==
  /\ calls # << >> /\ pc = "roots"
  /\ \E v \in roots : Darken(v) /\ roots' = roots \ {v}
  /\ UNCHANGED <<heapVars, cycleVars, calls, pc, cur, idx>>

StartCycle ==
  /\ calls # << >> /\ pc = "roots" /\ roots = {}
  /\ gc_phase' = "Phase_mark"
  /\ markhp' = Nil
  /\ pc' = "loop"
  /\ calls' = Tail(calls)
  /\ UNCHANGED <<heapVars, color, grayVars, gc_sweep_hp, weak_arrays,
                 cur, idx, roots>>

-----------------------------------------------------------------------------

(* init_major_heap, and the loading of the globals into it.                *)
Init ==
  /\ heap = HeapInit
  /\ color = [a \in Addr |-> IF a = Global THEN "Black" ELSE "Blue"]
  /\ tag = [a \in Addr |-> "Scan"]
  /\ field = [a \in Addr |-> [f \in Fields |-> Nil]]
  /\ held = {}
  /\ gc_phase = "Phase_mark"
  /\ gray_vals = << >> /\ gray_size = GraySize /\ heap_is_pure = TRUE
  /\ markhp = Nil /\ gc_sweep_hp = 0 /\ weak_arrays = {}
  /\ calls = << >> /\ pc = "loop" /\ cur = Nil /\ idx = 0 /\ roots = {}

Program ==
  \/ \E a \in Addr : AllocBlock(a) \/ AllocWeak(a) \/ Drop(a)
  \/ \E a \in Addr, f \in Fields : Load(a, f) \/ WeakSub(a, f)
  \/ \E a \in Addr, f \in Fields, v \in Addr \cup {Nil} : Modify(a, f, v)
  \/ MinorCollection \/ GcMajor \/ GcFullMajor

Collector ==
  \/ MarkPop \/ MarkChild \/ MarkedBlock
  \/ MarkWalk \/ MarkRestart \/ MarkDone
  \/ weak_phase
  \/ SweepBlock \/ SweepDone
  \/ DarkenRoot \/ StartCycle

Next == Program \/ Collector

Spec == Init /\ [][Next]_vars

(* A collector call runs to its end, and a program that runs on allocates  *)
(* and so comes to a minor collection time and again.                      *)
FairSpec == Spec /\ WF_vars(Collector) /\ WF_vars(MinorCollection)

-----------------------------------------------------------------------------
(* No block the program can reach is on the free list: what the mutator    *)
(* barrier of Modify and weak_sub, the colour alloc_shr gives and the      *)
(* rescans after an overflow of gray_vals are for.                         *)
NoDangling == \A a \in Reach : color[a] # "Blue"

(* The assertions of the collector: a block popped from gray_vals is gray, *)
(* sweeping meets no gray block, and a cycle starts with an empty mark     *)
(* stack and a white global_data.                                          *)
CollectorAsserts ==
  /\ InLoop("Phase_mark") /\ gray_vals # << >> =>
       color[gray_vals[Len(gray_vals)]] = "Gray"
  /\ InLoop("Phase_sweep") =>
       /\ gray_vals = << >>
       /\ \A h \in heap : IsNext(h, gc_sweep_hp) => color[h] # "Gray"
       /\ AtEnd(gc_sweep_hp) => color[Global] = "White"

(* Weak.isdead is true only of a value that cannot be reached otherwise.   *)
DeadIsUnreachable ==
  Running =>
    \A w \in Reach : tag[w] = "Weak" =>
      \A f \in Fields :
        field[w][f] # Nil /\ isdead(field[w][f]) => field[w][f] \notin Reach

(* A weak pointer once dead stays dead until the program stores into it.   *)
DeadStaysDead ==
  [][ \A w \in Addr, f \in Fields :
        /\ tag[w] = "Weak" /\ isdead(field[w][f]) /\ w \in Reach
        /\ ~ \E v \in Addr \cup {Nil} : Modify(w, f, v)
        => isdead(field[w][f])' ]_vars

(* gc_full_major frees every block that is out of reach, also those its    *)
(* first cycle had already marked.                                         *)
FullMajorReclaims ==
  [][ calls = <<"full2">> /\ calls' = << >> =>
        \A a \in Addr : color'[a] # "Blue" => a \in Reach' ]_vars

(* A collector call ends, whatever gets lost from gray_vals on the way.    *)
CollectionEnds == calls # << >> ~> Running

(* A block that stays out of reach is freed.                               *)
GarbageFreed ==
  \A a \in Addr : color[a] # "Blue" /\ a \notin Reach
                   ~> color[a] = "Blue" \/ a \in Reach

(* MajorGC implements Store.tla: the blocks in use are those that are not  *)
(* on the free list.  Every step of the program and of the collector is a  *)
(* step the store allows, or changes nothing the program can see.          *)
Abstract == INSTANCE Store WITH alloc <- {a \in Addr : color[a] # "Blue"}

(* Every step of the program and of the collector is one of the store.     *)
ImplementsStore == Abstract!Spec

=============================================================================
