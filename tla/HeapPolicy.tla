----------------------------- MODULE HeapPolicy ----------------------------
(***************************************************************************)
(* How large the major heap is and how fast it is collected                *)
(* (src/runtime/major_gc.c, memory.c, gc_ctrl.c, and the size of the young *)
(* heap in minor_gc.c): the list of chunks and the page table that tells   *)
(* an address of the heap from any other, and the work of the slices.      *)
(*                                                                         *)
(* Addresses and sizes are in bytes, as in the code, work in words.  What  *)
(* a slice marks and sweeps is only the number of words it has left; what  *)
(* the free list can give is not decided here.                             *)
(***************************************************************************)
EXTENDS Integers, SequencesExt, FiniteSetsExt

CONSTANTS
  Page_size, WordSize,           \* bytes of a page, and of a value
  Heap_chunk_max,                \* bytes of the largest chunk
  Minor_heap_min, Minor_heap_max,
  InitialTable,                  \* entries of p_table at first: 64 in the code
  Unrolled,                      \* entries searched in one round of p_table_in_heap: 64
  UnrolledShort,                 \* the same of p_table_in_heap_16
  Wosizes,                       \* words of the blocks that are asked for
  Increments, MinorSizes,        \* words that gc_set and init_gc are given
  Percents,                      \* the percentages
  Speeds,                        \* pairs <<mem, max>> that adjust_gc_speed is given
  MaxPage, MaxChunks,            \* bound: the pages of memory, the chunks
  MaxAllocated,                  \* bound: allocated_words
  Sliced                         \* bound: whether slices are explored

Heap_chunk_min == (2 * Page_size) \div WordSize     \* meant in words

Bsize_wsize(w) == w * WordSize
Wsize_bsize(b) == b \div WordSize
Bhsize_wosize(w) == Bsize_wsize(w + 1)

VARIABLES
  chunks,                 \* the addresses of the chunks along next, from heap_start
  chunk_size,
  heap_end,
  stat_heap_size,
  p_table, p_table_total_size,
  major_heap_increment, minor_heap_size, percent_free,
  allocated_words, extra_heap_memory, force_minor_flag,
  gc_phase,
  left,                   \* words to be marked, or swept, in this phase
  consumed,               \* history: words allocated in this phase that its slices
                          \* have been given work for
  steady                  \* history: percent_free has not changed in this cycle

heapVars  == <<chunks, chunk_size, heap_end, stat_heap_size, p_table, p_table_total_size>>
settings  == <<major_heap_increment, minor_heap_size, percent_free>>
paceVars  == <<allocated_words, extra_heap_memory, force_minor_flag, gc_phase, left, consumed, steady>>
vars      == <<heapVars, settings, paceVars>>

-----------------------------------------------------------------------------
(* The page table.                                                         *)

RawPage(a) == a \div Page_size

Within(p, i) == p_table[i].low <= p /\ p < p_table[i].high

p_table_in_heap_simple(a) == \E i \in DOMAIN p_table : Within(RawPage(a), i)

(* The unrolled search: rounds of n entries, as long as n are left, and    *)
(* then what the switch falls through, from the first entry of no round.   *)
Rounds(p, n) ==
  \E i \in DOMAIN p_table : i % n = 1 % n /\ i + n - 1 <= Len(p_table) /\ \E k \in 0 .. n - 1 : Within(p, i + k)

Rest(p, n) == \E i \in (Len(p_table) - (Len(p_table) % n)) + 1 .. Len(p_table) : Within(p, i)

p_table_in_heap(a) == Rounds(RawPage(a), Unrolled) \/ Rest(RawPage(a), Unrolled)

p_table_in_heap_16(a) == Rounds(RawPage(a), UnrolledShort) \/ Rest(RawPage(a), UnrolledShort)

(* The size of the table once one more entry is added.                     *)
p_table_update_size == IF Len(p_table) = p_table_total_size THEN 2 * p_table_total_size ELSE p_table_total_size

EntryInner(mem, size) == [low |-> RawPage(mem), high |-> RawPage(mem + size - 1)]
Entry(mem, size)      == [low |-> RawPage(mem), high |-> RawPage(mem + size)]

p_table_add_pages(mem, size) ==
  /\ p_table_total_size' = p_table_update_size
  /\ p_table' = Append(p_table, Entry(mem, size))

-----------------------------------------------------------------------------
(* The chunks.                                                             *)

RoundUp(n, unit) == ((n + unit - 1) \div unit) * unit

NoRoom == -1     \* raise_out_of_memory

round_heap_chunk_size(request) ==
  IF request < major_heap_increment THEN major_heap_increment
  ELSE IF request <= Heap_chunk_max THEN RoundUp(request, Page_size)
  ELSE NoRoom

(* Memory that aligned_malloc may give: page aligned, after a head that    *)
(* keeps it a page from the chunks there are.                              *)
FreePages(size) ==
  {p * Page_size : p \in {q \in 1 .. MaxPage :
     /\ q * Page_size + size <= (MaxPage + 1) * Page_size
     /\ \A c \in DOMAIN chunk_size :
          \/ c + chunk_size[c] + Page_size <= q * Page_size
          \/ q * Page_size + size + Page_size <= c}}

(* A chunk goes before the first one that is not below it.                 *)
Linked(mem) ==
  LET k == Cardinality({i \in DOMAIN chunks : \A j \in 1 .. i : chunks[j] < mem})
  IN SubSeq(chunks, 1, k) \o <<mem>> \o SubSeq(chunks, k + 1, Len(chunks))

expand_heap(mem, size) ==
  /\ chunks' = Linked(mem)
  /\ chunk_size' = [c \in DOMAIN chunk_size \cup {mem} |-> IF c = mem THEN size ELSE chunk_size[c]]
  /\ heap_end' = IF mem >= heap_end THEN mem + size ELSE heap_end
  /\ p_table_add_pages(mem, size)
  /\ stat_heap_size' = stat_heap_size + size

(* A block from the free list or, when it has none that is large enough,   *)
(* from a new chunk, which sweeping has before it.                         *)
CountBlock(wosize) ==
  /\ allocated_words' = allocated_words + wosize + 1
  /\ force_minor_flag' = (force_minor_flag \/ allocated_words' > Wsize_bsize(minor_heap_size))
  /\ allocated_words' <= MaxAllocated
  /\ UNCHANGED <<settings, extra_heap_memory, gc_phase, consumed, steady>>

AllocFound(wosize) == Sliced /\ CountBlock(wosize) /\ UNCHANGED <<heapVars, left>>

AllocGrows(wosize) ==
  LET size == round_heap_chunk_size(Bhsize_wosize(wosize))
  IN /\ size # NoRoom /\ Len(chunks) < MaxChunks
     /\ \E mem \in FreePages(size) : expand_heap(mem, size)
     /\ left' = IF gc_phase = "sweep" THEN left + Wsize_bsize(size) ELSE left
     /\ CountBlock(wosize)

(* Memory outside the heap that a block keeps, for the speed only.         *)
adjust_gc_speed(mem, max) ==
  LET part  == (mem * stat_heap_size) \div (IF max = 0 THEN 1 ELSE max)
      extra == Min({extra_heap_memory + Min({part, stat_heap_size}), stat_heap_size})
  IN /\ extra_heap_memory' = extra
     /\ force_minor_flag' = (force_minor_flag \/ extra > Wsize_bsize(minor_heap_size) \div 2)
     /\ UNCHANGED <<heapVars, settings, allocated_words, gc_phase, left, consumed, steady>>

-----------------------------------------------------------------------------
(* The slices.                                                             *)

Margin == 100

(* Words to be done per per cent of the heap, in the order of the integer  *)
(* divisions.                                                              *)
Effort(percent) == ((allocated_words * 3) \div percent) \div 2 + 100 * extra_heap_memory

MarkWork(percent)  == 2 * (100 - percent) * Effort(percent) + Margin
SweepWorkExact(percent) == 200 * Effort(percent)
SweepWork(percent) == 200 * Effort(percent) + Margin

(* What there is to mark when the free part is as the percentage says.     *)
Live(percent) == (Wsize_bsize(stat_heap_size) * (100 - percent)) \div 100

Begun(percent) == gc_phase' = "mark" /\ left' = Live(percent) /\ consumed' = 0 /\ steady' = TRUE

(* A part of the work that is left, or all of it and the next phase.       *)
Part(work, still) ==
  /\ left' = left - work /\ steady' = still
  /\ consumed' = IF still THEN consumed + allocated_words ELSE 0
  /\ UNCHANGED gc_phase

major_collection_slice(percent, still) ==
  /\ allocated_words' = 0 /\ extra_heap_memory' = 0 /\ force_minor_flag' = FALSE
  /\ \/ /\ gc_phase = "mark"
        /\ IF MarkWork(percent) > left
           THEN gc_phase' = "weak" /\ left' = 0 /\ consumed' = 0 /\ steady' = still
           ELSE Part(MarkWork(percent), still)
     \/ /\ gc_phase = "weak" /\ steady' = still
        /\ gc_phase' = "sweep" /\ left' = Wsize_bsize(stat_heap_size) /\ UNCHANGED consumed
     \/ /\ gc_phase = "sweep"
        /\ IF SweepWork(percent) > left THEN Begun(percent) ELSE Part(SweepWork(percent), still)

(* A minor collection, when the young heap is full or it is asked for.     *)
MinorCollection ==
  Sliced /\ major_collection_slice(percent_free, steady) /\ UNCHANGED <<heapVars, settings>>

(* gc_major ends the cycle whatever the phase its slice has come to.       *)
GcMajor ==
  /\ Sliced
  /\ allocated_words' = 0 /\ extra_heap_memory' = 0 /\ force_minor_flag' = FALSE
  /\ Begun(percent_free)
  /\ UNCHANGED <<heapVars, settings>>

-----------------------------------------------------------------------------
(* The settings.                                                           *)

norm_pfree(p) == Max({p, 1})

norm_heapincr(i) == Min({Max({RoundUp(i, Page_size), Heap_chunk_min}), Heap_chunk_max})

norm_minsize(s) == Min({Max({s, Minor_heap_min}), Minor_heap_max})

(* gc_get divides the tagged sizes, and what it gives is the int below the *)
(* word with the lowest bit missing.                                       *)
Val_long(n) == 2 * n + 1
Long_val(v) == v \div 2

gc_get == [incr |-> Long_val(Wsize_bsize(Val_long(major_heap_increment))),
           minor |-> Long_val(Wsize_bsize(Val_long(minor_heap_size))),
           percent |-> percent_free]

(* set_minor_heap_size empties the young heap, unless it is empty, and     *)
(* then allocates the new one, which may fail.                             *)
set_minor_heap_size(size, percent, still) ==
  /\ minor_heap_size' \in {size, minor_heap_size}
  /\ \/ major_collection_slice(percent, still)
     \/ UNCHANGED <<allocated_words, extra_heap_memory, force_minor_flag, gc_phase, left, consumed>> /\ steady' = still

gc_set(v) ==
  LET percent == norm_pfree(v.percent)
      still   == steady /\ percent = percent_free
  IN /\ percent_free' = percent
     /\ major_heap_increment' = IF Bsize_wsize(v.incr) # major_heap_increment
                                THEN norm_heapincr(Bsize_wsize(v.incr)) ELSE major_heap_increment
     /\ IF Bsize_wsize(v.minor) # minor_heap_size
        THEN set_minor_heap_size(norm_minsize(Bsize_wsize(v.minor)), percent, still)
        ELSE /\ steady' = still
             /\ UNCHANGED <<minor_heap_size, allocated_words, extra_heap_memory, force_minor_flag, gc_phase, left, consumed>>
     /\ UNCHANGED heapVars

Wishes == [incr : Increments, minor : MinorSizes, percent : Percents]

-----------------------------------------------------------------------------
(* init_gc rounds words where gc_set rounds bytes.                         *)
init_gc(v) ==
  /\ minor_heap_size = Bsize_wsize(norm_minsize(v.minor))
  /\ major_heap_increment = Bsize_wsize(norm_heapincr(v.incr))
  /\ percent_free = norm_pfree(v.percent)

init_major_heap(heap_size) ==
  /\ heap_size # NoRoom
  /\ \E mem \in {p * Page_size : p \in 1 .. MaxPage} :
       /\ mem + heap_size <= (MaxPage + 1) * Page_size
       /\ chunks = <<mem>> /\ chunk_size = [c \in {mem} |-> heap_size]
       /\ heap_end = mem + heap_size
       /\ stat_heap_size = heap_size
       /\ p_table = <<Entry(mem, heap_size)>> /\ p_table_total_size = InitialTable
       /\ gc_phase = "mark" /\ left = 0
       /\ allocated_words = 0 /\ extra_heap_memory = 0 /\ force_minor_flag = FALSE
       /\ consumed = 0 /\ steady = TRUE

Init ==
  /\ \E v \in Wishes : init_gc(v)
  /\ init_major_heap(round_heap_chunk_size(major_heap_increment))

Next ==
  \/ \E w \in Wosizes : AllocFound(w) \/ AllocGrows(w)
  \/ \E s \in Speeds : adjust_gc_speed(s[1], s[2])
  \/ MinorCollection \/ GcMajor
  \/ \E v \in Wishes \cup {gc_get} : gc_set(v)

Spec == Init /\ [][Next]_vars

-----------------------------------------------------------------------------
(* The list has every chunk, in the order of addresses, from heap_start to *)
(* heap_end: sweeping and alloc_shr compare addresses along it.            *)
ChunksInOrder ==
  /\ ToSet(chunks) = DOMAIN chunk_size
  /\ \A i \in 1 .. Len(chunks) - 1 : chunks[i] + chunk_size[chunks[i]] <= chunks[i + 1]
  /\ heap_end = Last(chunks) + chunk_size[Last(chunks)]
  /\ stat_heap_size = MapThenSumSet(LAMBDA c : chunk_size[c], DOMAIN chunk_size)

(* Every way to search the page table finds the addresses of the chunks,   *)
(* the last word of each included, and no other.                           *)
PagesKnown ==
  \A a \in {w * WordSize : w \in 0 .. Wsize_bsize((MaxPage + 2) * Page_size)} :
    LET inHeap == \E c \in DOMAIN chunk_size : c <= a /\ a < c + chunk_size[c]
    IN /\ p_table_in_heap(a) = inHeap
       /\ p_table_in_heap_16(a) = inHeap
       /\ p_table_in_heap_simple(a) = inHeap

HeapMapped == ChunksInOrder /\ PagesKnown

(* Marking, and then sweeping, ends before the program has allocated all   *)
(* of the free memory that the comment in major_collection_slice reckons   *)
(* with, as long as the percentage is left alone: the comment has half of  *)
(* it in mind, the rest is what the integer divisions lose.  (Memory       *)
(* allocated before a slice that has no work left is not counted.)         *)
Paced == steady => 300 * consumed <= 2 * Wsize_bsize(stat_heap_size) * percent_free
=============================================================================
