------------------------------ MODULE FreeList ------------------------------
(***************************************************************************)
(* The free list of the major heap (src/runtime/freelist.c) and its        *)
(* callers alloc_shr, expand_heap and sweep_slice, word by word.           *)
(*                                                                         *)
(* A block is known by the address of its header; its wosize words follow. *)
(* The list is linked through the first words of the free blocks, is       *)
(* searched next-fit from fl_prev, and grows at fl_merge as the sweep      *)
(* returns dead blocks to it.  Marking is reduced to its outcome: which    *)
(* blocks the sweep will find white.                                       *)
(***************************************************************************)
EXTENDS Integers, SequencesExt

CONSTANTS
  MaxWord,     \* the heap lies in the words 2 .. MaxWord
  Chunks,      \* the chunks <<first word, last word>> malloc may return
  FirstChunk,  \* the chunk of init_major_heap
  MaxWosize    \* the largest block asked for, in words without the header

Word    == 2 .. MaxWord
Null    == -1
Fl_head == 0    \* the sentinel: static data, below the heap, adjacent to nothing

VARIABLES
  size,        \* the wosize in the header at a word, Null if it is none
  color,
  next,        \* the link of a free block, and of Fl_head
  fl_prev,     \* the current allocation pointer
  fl_merge,    \* the current insertion pointer
  chunks,      \* the chunks of the heap
  sweeping,    \* between the end of marking and the next cycle
  gc_sweep_hp

listVars == <<size, color, next, fl_prev, fl_merge>>
vars == <<listVars, chunks, sweeping, gc_sweep_hp>>

Blocks == {b \in Word : size[b] # Null}
Free   == {b \in Blocks : color[b] = "Blue"}

(* The header that follows a block.                                        *)
After(b) == b + 1 + size[b]

(* The sizes, colors and links are of their types; fl_prev and fl_merge    *)
(* are Fl_head or in the heap, whatever fl_allocate, fl_merge_block,       *)
(* fl_add_block and the sweep did.                                         *)
TypeOK ==
  /\ size \in [Word -> 0 .. MaxWord \cup {Null}]
  /\ color \in [Word -> {"White", "Black", "Blue"}]
  /\ next \in [Word \cup {Fl_head} -> Word \cup {Null}]
  /\ fl_prev \in Word \cup {Fl_head}
  /\ fl_merge \in Word \cup {Fl_head}
  /\ chunks \subseteq Chunks
  /\ sweeping \in BOOLEAN
  /\ gc_sweep_hp \in 0 .. MaxWord + 1

-----------------------------------------------------------------------------
(* The blocks the links nx lead through from p, in order.                  *)

Walk(nx, p) ==
  LET walk[n \in 0 .. MaxWord] ==
        IF n = 0 THEN <<p>>
        ELSE LET w == walk[n - 1]
                 q == nx[Last(w)]
             IN IF q = Null THEN w ELSE Append(w, q)
  IN walk[MaxWord]

OnList == Range(Walk(next, Fl_head))

(* fl_allocate: the first block that is large enough, from fl_prev to the  *)
(* end of the list, then from its start to fl_prev; [prev] is the one      *)
(* before it.                                                              *)
FirstFit(s, wo) ==
  LET behind == Walk(s.next, s.fl_prev)
      all    == Walk(s.next, Fl_head)
      fits(w) == {n \in 2 .. Len(w) : s.size[w[n]] >= wo}
      before == {n \in fits(all) : \A k \in 1 .. n - 1 : all[k] # s.fl_prev}
      found(w, n) == {[prev |-> w[n - 1], cur |-> w[n]]}
  IN IF fits(behind) # {} THEN found(behind, Min(fits(behind)))
     ELSE IF before # {} THEN found(all, Min(before))
     ELSE {}

(* A pointer into the list leaves a block that is taken off it.            *)
MovedOff(p, prev, cur) == IF p = cur THEN prev ELSE p

(* Mutant: the block is linked in before its own link is set.              *)
LinkedEarly(nx, prev, bp, behind) == [nx EXCEPT ![prev] = bp, ![bp] = bp]

Linked(nx, prev, bp, behind) == [nx EXCEPT ![bp] = behind, ![prev] = bp]

(* Words left in a free block when wo words and a header are taken.        *)
RestWosize(s, cur, wo) == s.size[cur] - (wo + 1)

(* allocate_block takes the right end of a free block.  One word left over *)
(* becomes an empty white block, and no word left detaches the block.      *)
TakeBlock(s, prev, cur, wo) ==
  LET new   == cur + s.size[cur] - wo
      rest  == IF RestWosize(s, cur, wo) > 0
                 THEN [s EXCEPT !.size[cur] = RestWosize(s, cur, wo)]
                 ELSE [s EXCEPT !.size[cur] = 0, !.color[cur] = "White",
                                !.next[prev] = s.next[cur], !.next[cur] = Null,
                                !.fl_merge = MovedOff(@, prev, cur)]
  IN [rest EXCEPT
        !.fl_prev    = prev,
        !.size[new]  = wo,
        !.color[new] = IF ~ sweeping \/ new >= gc_sweep_hp THEN "Black" ELSE "White"]

(* fl_add_block: a new chunk is one free block.                            *)
AddBlock(s, c) ==
  LET bp      == c[1]
      fl_last == Last(Walk(s.next, s.fl_prev))
      below   == [b \in DOMAIN s.next |-> IF s.next[b] < bp THEN s.next[b] ELSE Null]
      prev    == Last(Walk(below, Fl_head))
      t       == [s EXCEPT !.size[bp] = c[2] - bp, !.color[bp] = "Blue"]
  IN IF bp > fl_last
       THEN [t EXCEPT !.next = Linked(@, fl_last, bp, Null)]
       ELSE [t EXCEPT !.next = Linked(@, prev, bp, s.next[prev]),
                      !.fl_merge = IF @ = prev /\ bp <= gc_sweep_hp THEN bp ELSE @]

Joins(s, bp, cur) == cur # Null /\ bp + 1 + s.size[bp] = cur

(* fl_merge_block: a dead block is merged with the free block behind it,   *)
(* and with the one before it or else linked in behind fl_merge; an empty  *)
(* block that is adjacent to neither stays white.                          *)
MergeBlock(s, bp) ==
  LET prev     == s.fl_merge
      cur      == s.next[prev]
      t        == IF Joins(s, bp, cur)
                    THEN [s EXCEPT !.size[bp] = @ + s.size[cur] + 1, !.size[cur] = Null,
                                   !.color[bp] = "Blue", !.color[cur] = "White",
                                   !.next[prev] = s.next[cur], !.next[cur] = Null,
                                   !.fl_prev = MovedOff(@, prev, cur)]
                    ELSE s
  IN [hp |-> bp + 1 + t.size[bp],
      s  |-> IF prev # Fl_head /\ prev + 1 + s.size[prev] = bp
               THEN [t EXCEPT !.size[prev] = @ + t.size[bp] + 1,
                              !.size[bp] = Null, !.color[bp] = "White"]
             ELSE IF t.size[bp] > 0
               THEN [t EXCEPT !.color[bp] = "Blue",
                              !.next = Linked(@, prev, bp, t.next[prev]),
                              !.fl_merge = bp]
             ELSE t]

-----------------------------------------------------------------------------

List == [size |-> size, color |-> color, next |-> next,
         fl_prev |-> fl_prev, fl_merge |-> fl_merge]

Becomes(s) ==
  /\ size' = s.size /\ color' = s.color /\ next' = s.next
  /\ fl_prev' = s.fl_prev /\ fl_merge' = s.fl_merge

Allocate(wo) ==
  /\ \E fit \in FirstFit(List, wo) : Becomes(TakeBlock(List, fit.prev, fit.cur, wo))
  /\ UNCHANGED <<chunks, sweeping, gc_sweep_hp>>

(* alloc_shr when nothing fits: expand_heap, fl_add_block, and once more.  *)
Expand(wo, c) ==
  /\ FirstFit(List, wo) = {}
  /\ c \in Chunks \ chunks /\ c[2] - c[1] >= wo
  /\ chunks' = chunks \cup {c}
  /\ LET s == AddBlock(List, c) IN
       \E fit \in FirstFit(s, wo) : Becomes(TakeBlock(s, fit.prev, fit.cur, wo))
  /\ UNCHANGED <<sweeping, gc_sweep_hp>>

fl_init_merge == fl_merge' = Fl_head

(* The end of marking: of the blocks that were white some have been        *)
(* reached.                                                                *)
MarkDone ==
  /\ ~ sweeping
  /\ \E live \in SUBSET {b \in Blocks : color[b] = "White" /\ size[b] > 0} :
       color' = [b \in Word |-> IF b \in live THEN "Black" ELSE color[b]]
  /\ fl_init_merge
  /\ \E c \in chunks : (\A d \in chunks : c[1] <= d[1]) /\ gc_sweep_hp' = c[1]
  /\ sweeping' = TRUE
  /\ UNCHANGED <<size, next, fl_prev, chunks>>

(* The block the sweep comes to: at the end of a chunk, the first of the   *)
(* next one.                                                               *)
SweptBlock ==
  {b \in Blocks : b >= gc_sweep_hp /\ \A x \in Blocks : x >= gc_sweep_hp => b <= x}

(* Mutant: marked blocks are freed as well.                                *)
IsDeadMarked(b) == color[b] # "Blue"

IsDead(b) == color[b] = "White"

SweepFree(b) ==
  /\ color[b] = "Blue"
  /\ fl_merge' = b
  /\ gc_sweep_hp' = After(b)
  /\ UNCHANGED <<size, color, next, fl_prev>>

SweepMarked(b) ==
  /\ color[b] = "Black"
  /\ color' = [color EXCEPT ![b] = "White"]
  /\ gc_sweep_hp' = After(b)
  /\ UNCHANGED <<size, next, fl_prev, fl_merge>>

SweepDead(b) ==
  /\ IsDead(b)
  /\ Becomes(MergeBlock(List, b).s)
  /\ gc_sweep_hp' = MergeBlock(List, b).hp

SweepBlock ==
  /\ sweeping
  /\ \E b \in SweptBlock : SweepDead(b) \/ SweepMarked(b) \/ SweepFree(b)
  /\ UNCHANGED <<chunks, sweeping>>

StartCycle ==
  /\ sweeping /\ SweptBlock = {}
  /\ sweeping' = FALSE
  /\ UNCHANGED <<listVars, chunks, gc_sweep_hp>>

Init ==
  /\ size = [b \in Word |-> IF b = FirstChunk[1] THEN FirstChunk[2] - b ELSE Null]
  /\ color = [b \in Word |-> IF b = FirstChunk[1] THEN "Blue" ELSE "White"]
  /\ next = [b \in Word \cup {Fl_head} |->
               IF b = Fl_head THEN FirstChunk[1] ELSE Null]
  /\ fl_prev = Fl_head /\ fl_merge = FirstChunk[1]
  /\ chunks = {FirstChunk} /\ sweeping = FALSE /\ gc_sweep_hp = 0

Next ==
  \/ \E wo \in 1 .. MaxWosize : Allocate(wo) \/ \E c \in Chunks : Expand(wo, c)
  \/ MarkDone \/ SweepBlock \/ StartCycle

Spec == Init /\ [][Next]_vars

-----------------------------------------------------------------------------
(* "The free-list is kept sorted by increasing addresses."                 *)
Sorted ==
  \A b \in OnList : next[b] # Null => b < next[b]

(* The list holds the free blocks, each of them once: no block is lost,    *)
(* none is in use and on the list.                                         *)
ListIsFree ==
  /\ OnList = Free \cup {Fl_head}
  /\ next[Last(Walk(next, Fl_head))] = Null

(* What fl_verify asserts: the search and the merge start on the list.     *)
PointersOnList == fl_prev \in OnList /\ fl_merge \in OnList

(* The blocks of a chunk follow each other from its first word to its last.*)
Tiled ==
  \A c \in chunks :
    /\ c[1] \in Blocks
    /\ \A b \in Blocks : c[1] <= b /\ b <= c[2] =>
         /\ After(b) = c[2] + 1 \/ After(b) \in Blocks
         /\ \A x \in Blocks : ~ (b < x /\ x < After(b))

(* Two free blocks are never adjacent: a request fails only if no run of   *)
(* free words is long enough.                                              *)
Coalesced == \A b \in Free : After(b) \notin Free

(* "fl_merge is always the last free-list block before gc_sweep_hp", and   *)
(* so the place to insert a block the sweep frees.                         *)
MergePointer ==
  sweeping =>
    /\ fl_merge < gc_sweep_hp
    /\ next[fl_merge] # Null => next[fl_merge] >= gc_sweep_hp

(* The list is what allocation and sweeping rely on: sorted, complete, and *)
(* with the search and the merge in the right places of it.                *)
ListSound == TypeOK /\ Sorted /\ ListIsFree /\ PointersOnList /\ MergePointer

(* The words of the heap are divided into blocks, no two free ones side by *)
(* side.                                                                   *)
HeapTiled == Tiled /\ Coalesced

(* A block in use keeps its place, its size and its header until the sweep *)
(* comes to it and finds it white: neither an allocation nor the merging   *)
(* of its neighbours takes words from it.                                  *)
InUseKeptStep ==
  \A b \in Blocks \ Free :
    size[b] > 0 /\ ~ (sweeping /\ b \in SweptBlock /\ color[b] = "White")
      => size'[b] = size[b] /\ color'[b] # "Blue"
InUseKept == [][InUseKeptStep]_vars

(* What gc_stat asserts of a free block and of an empty one.               *)
HeapVerifies ==
  \A b \in Blocks :
    (color[b] = "Blue" \/ size[b] = 0) /\ After(b) \in Blocks
      => color[After(b)] # "Blue" /\ size[After(b)] > 0

=============================================================================
