# Moscow ML: models and proofs of the runtime

TLA+ models of the Moscow ML runtime system (`src/runtime/`), of the generators
of lexers and parsers and of the back end of the compiler, the TLC runs that
check them, and the theorems about the collectors, the parser that runs on
them, the free list, the size and the pace of the heap, the channels and the
stacks of the interpreter that TLAPS proves. Paths below are relative to the
repository's `src/` directory; a reference such as `memory.c:145` is to
`runtime/memory.c`, line 145.

1. [The system](#1-the-system)
2. [Modules](#2-modules)
3. [What each run checks](#3-what-each-run-checks)
4. [What is proved](#4-what-is-proved)
5. [Where the code and its documentation disagree](#5-where-the-code-and-its-documentation-disagree)
6. [Assumptions, bounds and fairness](#6-assumptions-bounds-and-fairness)
7. [What is not modelled](#7-what-is-not-modelled)

## 1. The system

Moscow ML is a compiler from Standard ML to bytecode (`compiler/`, written in
ML), a bytecode machine with its memory management and primitives
(`runtime/`, in C), a library (`mosmllib/`), generators for lexers and parsers
(`lex/`, `mosmlyac/`), build tools, and bindings to C libraries (`dynlibs/`).
The behaviour that is hardest to get right and to test is in the runtime: a
collector that runs in slices between the program's steps, pointers that must
be recorded or darkened when they are stored, exceptions that cross C and ML
frames, signals that arrive anywhere, buffers in front of files.  The
generators and the compiler are sequential, but long: what the user runs is the
end of a chain of translations, each of which must preserve a meaning.

### Components

| Component | State | Operations | Interacts with | What makes it correct |
|---|---|---|---|---|
| Major collector, `major_gc.c` | colors in the headers, `gray_vals`, `heap_is_pure`, `markhp`, `gc_sweep_hp`, `gc_phase`, `weak_arrays`; the page table, the chunks, the credit and debt of a slice | `darken`, `mark_slice`, `weak_phase`, `sweep_slice`, `start_cycle`, `finish_major_cycle`, `major_collection_slice`, `expand_heap` | is called at the end of a minor collection and by `gc_ctrl.c`; is told of stores by `Modify` and of allocations by `alloc_shr`; frees through `freelist.c` | nothing the program can reach is freed; what it cannot reach is; a call ends however often the mark stack overflows; a cycle ends before the free memory is used up |
| Free list, `freelist.c`, `memory.c` | links, sizes and colors of blocks, `fl_prev`, `fl_merge`, `fl_last`, the chunks | `fl_allocate`, `fl_init_merge`, `fl_merge_block`, `fl_add_block`, `expand_heap`, `alloc_shr` | allocation by the program and by `oldify`; merging by `sweep_slice`, interleaved | blocks tile the chunks; the list holds the free blocks, in order, merged; no word of a block in use is taken |
| Minor collector, `minor_gc.c` | `young_ptr`, forwarded headers, `ref_table` and its limits | `oldify`, `minor_collection`, `realloc_ref_table`; `Alloc_small`, `Modify`, `initialize` | copies into the major heap through `alloc_shr`; reads the roots of `roots.c` | every old field that holds a young block is recorded; copying keeps the graph; there is room in the table |
| Weak pointers, `mosml.c:1288`, `mosmllib/Weak.*` | cells of weak arrays | `weak_arr`, `weak_sub`, `isdead`, and Array's update | colors and phase of the major collector | dead is said of the unreachable only, and for ever |
| Interpreter, `interp.c`, `fail.c`, `stacks.c`, `callback.c` | the ML stack, `extern_sp`, `trapsp`, `external_raise`, `c_roots_head`, C frames; the accumulator, the environment, the globals | instructions, `callback`, `mlraise`, `realloc_stack` | every primitive; the collectors take their roots from it | an exception goes to the innermost handler; no pointer to a stack or frame that is gone is used; each instruction does what the compiler means by it |
| Signals, `signals.c`, `sys.c:274` | `signal_is_pending`, `something_to_do`, `in_blocking_section` | `handle_signal`, `execute_signal`, `enter_/leave_blocking_section` | the interpreter polls; primitives that block enclose the call | a signal is not forgotten, and is delivered once |
| Channels, `io.c` | `offset`, `curr`, `max`, the buffer, the descriptor | `putch`, `putblock`, `flush`, `seek_out`; `getch`, `refill`, `getblock`, `seek_in`, `input_scan_line` | system calls that write or read less than asked, fail, or are interrupted by a handler that raises | the buffer cannot be told from the file |
| Structured I/O, `extern*.c`, `intern*.c` | the table of shared objects, the block being filled | `extern_val`, `extern_compact_val`, `intern_val`, `intern_compact_val` | channels, `alloc_shr` | values come back with their sharing and cycles, on any of four machines |
| Parsing engine, `parsing.c`, `mosmllib/Parsing.sml` | the stacks and the current token in a heap block, `state` and `sp` | `parse_engine`, called in turn with the lexer, the actions and `growStacks` | tables of `mosmlyac`; the collectors, between its calls | the language of the grammar, its derivations, their positions; attributes survive |
| Parser generator, `mosmlyac/` | symbols, rules, item sets, lookaheads, tables | `reader`, `lr0`, `lalr`, `make_parser`, `output` | the engine reads its tables | the LALR(1) automaton of the grammar as written, packed without loss |
| Lexer generator, `lex/`; lexing engine, `lexing.c` | the automaton under construction; the lexer buffer and its positions | `Lexgen`'s subset construction; `getLexeme`, `get_next_char`, refill functions | generated code calls the engine | the longest match, by the first rule, across refills |
| Back end, `compiler/Back.sml` ... | terms, lists of instructions, code with labels | `compileExp`, the lifting of functions, `Emitcode`, the layout of a phrase | `expand.c` translates the code once more when it is loaded | code means what the term means, and polls in every loop |
| Comparison, hashing, numbers, `compare.c`, `hash.c`, `mosml.c`, `ints.c` | none | primitives | | equality is that of trees, order and hash agree with it; conversions are exact or raise |

The library, the front end, the toplevel and the tools are listed with their
files in `PROJECT.json`, with the reason each is left out.

### Where it is hard

`PROJECT.json` lists the hazards at their lines.  In short:

* *Interleaving.*  A slice of marking stops anywhere, and the program then
  overwrites pointers and allocates (`memory.h:47`, `memory.c:145`); a sweep
  stops anywhere, and the program allocates from the list it is merging
  (`freelist.c:80`, `:169`).  A signal arrives between any two instructions
  (`interp.c:1107`, `signals.c:36`), and its handler may raise out of a read
  (`io.c:263`).
* *Limits.*  The mark stack overflows and forgets gray blocks
  (`major_gc.c:449`); `ref_table` fills before the collection it asked for
  (`minor_gc.c:162`); the stack reaches its maximum (`stacks.c:35`); the buffer
  fills with one line (`io.c:484`).
* *Half-done work.*  A write fails after a part was written (`io.c:106`);
  `oldify` works on a graph half of which is forwarded (`minor_gc.c:60`); an
  exception leaves C frames by `longjmp` (`fail.c`, `interp.c:248`); an input
  ends in the middle of a value.
* *Stale state.*  Pointers into a list, a stack or a frame survive a change of
  it (`freelist.c:167`, `stacks.c:52`, `interp.c:1089`).
* *Long chains.*  Two phases that are right on their own disagree: the lookups
  in packed tables, the positions of empty symbols, the sharing of terms that a
  later pass updates in place.

## 2. Modules

| Module | Models | State and actions |
|---|---|---|
| `Store` | what the collected store promises | blocks in use, their fields, what the program holds; `New`, `Read`, `Write`, `Drop`, `ClearWeak`, `Free` |
| `MajorGC` | `major_gc.c`, with `alloc_shr`, `Modify`, `weak_*`, `gc_minor`, `gc_major`, `gc_full_major` | one variable for each of the collector's globals; one action for each operation of the program and for each iteration of each loop of the collector, so that a slice may end after any block. It implements `Store`: the blocks in use are those that are not blue |
| `MajorGCInv` | the inductive invariant of `MajorGC` | |
| `ParserGC` | the parsing engine as a program on the collector | extends `MajorGC`: the actions of its program are replaced by those of the engine and of the ML code it returns to |
| `FreeList` | `freelist.c`, `alloc_shr`, `expand_heap`, `sweep_slice`, word by word | headers as sizes and colors by address; the links; `Allocate`, `Expand`, `MarkDone`, `SweepBlock`, `StartCycle` |
| `HeapPolicy` | the page table, the sizes of chunks, the work of slices, `gc_ctrl.c` | chunks and pages; `phase`, the work done and owed; two variables say which of the two parts moves |
| `MinorGC` | `minor_gc.c`, `Modify`, `initialize`, `Alloc_small` | addresses tell young from old; the identity of a block survives its move; the recursion of `oldify` is the list `calls` of calls still to be made |
| `FileBytes`, `File` | the bytes of a file; a file and a position without a buffer | |
| `OutChannel`, `InChannel` | the two kinds of channel | one action for each operation; `input_scan_line` takes a step for each byte and each read |
| `Values`, `Marshal`, `MCValues` | `extern.c`, `externcp.c`, `intern.c`, `interncp.c` on graphs of blocks | the digits written, the table of objects, the heap that is filled; one action for each phase of writing and for each word that is read |
| `Interp` | `interp.c`, `fail.c`, `stacks.c`, `callback.c`, `signals.c` at the level of control | the C stack as a sequence of activations, the ML stack as slots; one action for each instruction that matters to control, each C operation, each signal step |
| `Lambda`, `Lifting`, `Back`, `Bytecode`, `Machine`, `Arith` | terms and their meaning; the passes of the back end; the code and its layout, `expand.c`; the instructions; the arithmetic | `Machine` runs one instruction at a step; the rest are functions from terms to code |
| `Numerals`, `Structural` | numbers as text and back; equality, order and hash | functions, with the reference definitions they are compared with |
| `YaccScan`, `YaccReader`, `YaccLR0`, `YaccLalr`, `YaccTables`, `YaccEngine` | `mosmlyac` from the text of a grammar to the packed tables, and the engine that runs them | the generator is a chain of functions; the engine takes a step for each of its labels |
| `Lexgen`, `Lexing` | the lexer generator; `lexing.c` with `Lexing.sml` | the generator is a function; the engine takes a step for each character and each refill |
| `MCHeap`, `MCChannels`, `MCMarshal`, `MCParsing`, `MCYacc`, `MCCode`, `MCPrims` | instances for TLC | |
| `MajorGC_proofs`, `MinorGC_proofs`, `OutChannel_proofs`, `MCChannels_proofs`, `Interp_proofs`, `FreeList_proofs`, `HeapPolicy_proofs`, `MCHeap_proofs` | the theorems of section 4, with the inductive invariants of all but the first | |

How they fit together.  `MajorGC` abstracts sizes and adjacency, which
`FreeList` has; the two meet in the color given to a new block and in the sweep
pointer, which both have.  `FreeList` in turn reduces marking to its outcome.
`HeapPolicy` decides how far a slice goes, which the other two leave open.
`MinorGC` reduces the major collector to what it can do to its state: take back
unreachable old blocks.  `ParserGC` is the composition of a client with the
collector.  In every module of the collectors, what the program does is any
sequence of the operations the runtime offers to it on values it holds.
`YaccEngine` runs the tables `YaccTables` computes from what `YaccReader` makes
of the text that `YaccScan` has read; `Machine` runs the code that `Back` and
`Bytecode` make of the terms of `Lambda`.

What is abstracted.  Contents of blocks that the collector does not follow
(integers, strings, code) are the value `Nil`; a block stands for one address
in `MajorGC` and `MinorGC`; a stack frame takes one slot in `Interp`; bytes are
a set of two; a word of the external format is a few digits; the text of a
grammar is a sequence of lexeme classes.

Several components share one run: their MC module chooses at the start which of
them moves (`which`, `halted`), and the variables of the others stay as they
are.  This is a matter of economy only.

## 3. What each run checks

All runs are over every interleaving and every choice within the bounds.  Those
marked *violated* end with a counterexample; section 5 says what it shows.

| Run | Instance | Shows |
|---|---|---|
| `gc_safety` | 3 blocks of 1 field, two in the first chunk, a third by growth of the heap; `gray_vals` of 1, which overflows | `NoDangling`: nothing in reach is free. `CollectorAsserts`: the assertions of the C code. `FullMajorReclaims`: after `gc_full_major` nothing out of reach is left. `DeadIsUnreachable`, `DeadStaysDead`: what `Weak.isweak` may say. `ImplementsStore`: every step is one the abstract store allows |
| `gc_live` | 2 blocks of 2 fields; `gray_vals` of 1 growing to 2 | `CollectionEnds`: a call of the collector returns. `GarbageFreed`: what stays out of reach is freed. `IInv`: the invariant the proofs induct on, on a heap with two fields and a mark stack that grows |
| `gc_lowchunk` | as `gc_safety`, the lowest block not in the first chunk | `DeadIsUnreachable` *violated* |
| `gc_parser_bare` | the parser's environment, a stack, 2 more blocks of 2 fields; tokens without an attribute at any time | `NoDangling` *violated* |
| `heap` | young: 2 young and 3 old blocks of 1 field, 1 root, a table of 1 + 1 that grows. Free list: chunks of 7 and 5 words, requests of up to 3. Chunks: up to 5, on 12 pages of 8 bytes, in every order. Slices: pages of 2048 bytes, requests of 18 words, up to 40 words allocated. Stacks: 5 activations, 4 slots, an ML stack that moves once, 1 C root per function, 1 signal. Parser on the collector: 4 blocks of 2 fields, two of them by growth of the heap; `gray_vals` of 2, which overflows; a stack of 2 that is grown | `RefTable`: every old field with a young pointer is in the table, which has room. `NoStale`: no live pointer leads to where a block was. `ViewKept`: no step of a minor collection changes what the program sees. `FreeListSound`, `InUseKept`: the list is sorted, complete, merged, the blocks tile the chunks, and no block in use is touched. `HeapMapped`: each of the three searches of the page table finds the addresses of the heap and no other. `Paced`: phases end before the memory they are reckoned from is used. `StackDiscipline`, `RaiseTarget`, `PendingSeen`: the trap chain and the stack pointers fit the activations that are left, a raise in C goes to a live one with its C roots, a pending signal is seen by the next poll, but for the window that `interp.c:1107` names. `NoDangling`: nothing the parser can reach is freed |
| `channels` | output: buffer of 2 bytes, blocks of up to 4, files of up to 5; writes may fail half way. Input: buffer of 3, every file of up to 4 bytes, short reads, handlers that raise. Values: graphs of 3 blocks, blocks of up to 17 fields and one of 255 where `MaxWosize32` is 15, a table of 2 that grows, words of 4 or 8 digits in either order; the input may end, or raise, at any place | `BuffersAreWindows`, `ImplementsFile`, `SettledKept`, `InputInOrder`, `ScanEnds` for channels, `RoundTrip` and `FailsCleanly` for values |
| `out_behind` | output: flush and overrun from anywhere, no failure | `ImplementsFile` *violated* |
| `values_lossy` | values, also those that the format cannot hold | `Returned` *violated* |
| `interpreter` | terms: about 1900, ints of 7 bits. Primitives: all ints of 7 bits, texts of 3 digits, 1152 graphs of 4 blocks | `EvaluatesAsTerm`, `CodeWellFormed`, `LoopsPoll`, `ArithmeticExact` for the compiled code; `ConversionsExact`, `EqualityAgrees` for primitives |
| `shared_refs` | terms that share a subterm with a reference in it | `EvaluatesAsTerm` *violated* |
| `parsing` | every grammar of two rules for S and one for T with right sides of up to 2 symbols, and 6 larger ones; inputs of up to 7 tokens; stacks that grow from 2. Five lexers on buffers of 4 characters | `ReadAsWritten`, `AutomatonIsLALR`, `AcceptsLanguage`, `ValueIsDerivation`, `Precedences`, `ItemPositions`; `LongestMatch` |
| `yacc_positions` | rules for the empty string | `ItemStarts` *violated* |

Why the bounds are enough.  Three blocks are the least with which a black, a
gray and a white block exist at once and a chain of two pointers can be cut
behind the marking; a mark stack of one overflows as soon as two blocks are
gray.  Two young blocks make a cycle and a block that is reached twice.  Seven
words hold three blocks, so that a block is freed with a free, a used and an
empty block on either side; requests of three words leave remainders of zero,
one and more words, the three cases of `allocate_block`.  A block of four bytes
is longer than the buffer and what is left of it at any position, so every
branch of `putblock` and `getblock` is taken.  Three blocks of a graph share
and close cycles; blocks of 16 and of 17 fields are the least whose compact header
loses its upper bits, and lose all of the size or all but 1, and one of 255 fields
is the least value that `ObjectTooBig` refuses.  Five activations are the main interpreter, a C function, its
callback, a second C function and the handler of a signal above it: the deepest
nesting in which each kind has each other kind below it.  The grammars cover
every clause of the generator's passes: nullable symbols, conflicts of both
kinds with each associativity, right sides that end alike, two entry points.
The variables `failed` and `lost` of the channels are histories: they say from
when to when a property is suspended, and that an lseek restores it.

## 4. What is proved

The theorems hold for every value of the constants that the assumptions of the
modules allow: heaps, tables, buffers, blocks and files of every size.  Each
that names a property of a run states that very definition; the run is where a
mistake in it would show cheaply, and the theorem says that the bounds of the
run hide nothing.

| Theorem | Module | Property |
|---|---|---|
| `Invariance`, `TypeCorrect` | `MajorGC_proofs` | `IInv`, and `TypeOK`, its first conjunct |
| `NoDanglingTheorem`, from `ReachIsKept` | `MajorGC_proofs` | `NoDangling` |
| `AssertsTheorem` | `MajorGC_proofs` | `CollectorAsserts` |
| `DeadTheorem`, `DeadStaysDeadTheorem` | `MajorGC_proofs` | `DeadIsUnreachable`, `DeadStaysDead`, under `LowestChunk` |
| `FullMajorTheorem` | `MajorGC_proofs` | `FullMajorReclaims` |
| `ImplementsStoreTheorem` | `MajorGC_proofs` | `ImplementsStore`, under `LowestChunk` |
| `MinorInvariance`, `RefTableTheorem`, `NoStaleTheorem` | `MinorGC_proofs` | `RefTable`, `NoStale` |
| `ViewKeptTheorem`, from `ViewInvariance` | `MinorGC_proofs` | `ViewKept` |
| `BuffersAreWindowsTheorem`, `ImplementsFileTheorem`, `SettledKeptTheorem`, `InputInOrderTheorem` | `MCChannels_proofs` | `BuffersAreWindows`, `ImplementsFile`, `SettledKept`, `InputInOrder` |
| `StackDisciplineTheorem`, `RaiseTargetTheorem`, `PendingSeenTheorem` | `MCHeap_proofs` | `StackDiscipline`, `RaiseTarget`, `PendingSeen`, with at most one signal |
| `InterpTheorem`, `OneSignalTheorem` | `Interp_proofs` | the three of them, in the module of the stacks |
| `FreeListSoundTheorem`, `InUseKeptTheorem` | `MCHeap_proofs` | `FreeListSound`, `InUseKept`, under `NoneAddedBehind` |
| `ListTheorem`, `InUseTheorem` | `FreeList_proofs` | the two of them, in the module of the free list |
| `HeapMappedTheorem`, `PacedTheorem` | `MCHeap_proofs` | `HeapMapped`, `Paced` |
| the same names | `HeapPolicy_proofs` | the two of them, in the module of the heap as a whole |
| `NoDanglingTheorem` | `MCHeap_proofs` | `NoDangling` of the parsing engine |
| `ParserNoDanglingTheorem` | `MajorGC_proofs` | the same, in the module of the collector, under `ParserOK` |

`LowestChunk` says that the lowest chunk of all is in the heap from the start.
Three theorems need it: without it the code is wrong, as `gc_lowchunk` shows.
The theorems about the stacks take at most one signal (`MaxBreaks <= 1`), or
that none arrives where section 5 shows that it does harm (`Undisturbed`).
Those about the free list suppose that no chunk is added behind the sweep and
beyond the last free block (`NoneAddedBehind`): section 5 shows that the code
puts `fl_merge` in the wrong place then.  Those about the heap as a whole
suppose of the sizes and settings what `PolicyOK` says: a page is a whole number
of words of at least two bytes, the largest chunk is a whole number of pages,
increments are above 0 and percentages lie between 1 and 100; section 5 shows
that the last two are needed.
The theorem about the parser supposes that no token without an attribute is
read after the stacks were grown (`~ BareAfterGrowth`): `gc_parser_bare` shows
what happens otherwise.
The sizes of the channels are hypotheses of their theorems (`SizesOK`): a
buffer of at least one byte.

### Major collector

`NoDangling` is not inductive: whether a white block will survive depends on
marking that has not been done.  `IInv` (in `MajorGCInv`) says:

* `ControlInv`, `HeapInv`: where the running call is, and that blocks in use lie
  in chunks.
* `GrayInv`: a gray block is on the mark stack, or the heap is known not to be
  pure, or the walk under way has it still ahead.  It is what keeps marking
  complete when the stack overflows.
* `SweepInv`, `RootsInv`: no gray block between marking and the next cycle,
  nothing black behind the sweep, the roots gray one after the other.
* `KeptInv`: the blocks that the sweep under way will not free hold the roots
  and are closed under traced fields.  This gives `Reach \subseteq Kept`
  (`ReachIsKept`), hence `NoDangling`.
* `MarkInv`: during marking the roots, and all fields of black blocks, lie in
  `Protected`, the least set that holds what is marked and is closed under the
  fields of unscanned blocks.  It is the snapshot invariant of a deletion
  barrier: the program may hide a pointer in a black block, because whatever it
  overwrites is darkened.  When marking is done `Protected` is the set of black
  blocks, and `MarkInv` becomes `KeptInv`.
* `WeakInv`: a weak cell the program may read points to a block in use.

`Reach` and `Protected` are least closed sets, defined as intersections, so that
the proofs need no induction over paths: to show that a block is protected after
a step, one shows that every set closed afterwards contains a set closed before
(`ProtectedGrows`).  There is a lemma for each action (`MarkPopStep`,
`SweepBlockStep`, ...), and below it a step for each conjunct it can disturb.

The refinement of `Store` maps each action of the program to the action of the
same name, the death of a weak pointer to `ClearWeak`, the freeing of a block to
`Free`, and all other steps of the collector to stutters.  It needs three facts
more than `IInv`: the arrays `weak_phase` has ahead are weak and marked
(`ArraysInv`), the calls pending are those some function of the C code makes
(`CallsInv`), and what `gc_full_major` has seen by its second cycle (`FullInv`),
from which `FullMajorTheorem` follows: a block that was out of reach when the
second cycle began is white when it is swept.

### Minor collector

`RefTable` speaks of the program's steps only, and `NoStale` of every step of a
collection.  `MinorInv` connects them:

* `TableInv`: the next entry always finds room, on either side of the threshold
  and of the end of the table.
* `RecordedInv`: an old field that holds a young block has an entry, or a call
  that is pending, in every state.
* `EntriesInv`, `CallsInv`, `ForwardInv`, `RootsInv`: entries and pending calls
  fill fields of blocks in use; a forwarded block leads to its copy.
* `YoungInv`: blocks not allocated hold nothing.

That nothing stale is in reach is shown by transforming sets: from a closed set
of blocks in use before a step one makes a closed set of blocks in use after it.
`ViewKept` compares the graphs of live blocks before and after a step up to
identities that survive a move; its lemmas on graphs (`Forwarded`, `Moved`,
`LeastIsLive`) are about constants, and one lemma for each kind of step applies
them.  It needs two facts more: no slot has two pending calls (`UniqueCalls`),
and a copy has the identity and, up to forwarding, the contents of the block it
copies (`CopiesInv`).

### Channels

Both proofs begin with what the operators on bytes do: a file overwritten in
two parts is the file overwritten once, and so on.  For output, a lemma for each
operation of `io.c` says what it leaves in each variable (`FlushedIs`,
`PutchIs`, `PutblockIs`, `SeekedIs`, `FailsIs`), and the three properties are
read off them: the invariant (`OutInv`), that no settled byte changes, and that
each operation is one write or one seek of `File`, where the contents of the
file are those on the disk overwritten with the buffer.  For input, `InInv` says
that the pointers are in order, that what is buffered is bytes, that each
buffered byte is the one of the file at its place unless a handler has raised
just after a read, and that a search under way has met no newline between the
position and the place it has come to.  The last is what makes the answers of
`input_scan_line` true, also when the buffer was moved below its feet.

The run checks the two channels together: `MCChannels` extends `InChannel` with an
instance of `OutChannel`, and one of them moves.  `MCChannels_proofs` holds the
proof of the input channel and carries the theorems of the output channel over.

### Free list

`ListSound` follows the links by the recursive function `Walk`, and `Tiled` says
of each chunk what its blocks are.  The invariant (`ListInv`) is said of the
list as one record, as the operators of the model take and return it, and
locally:

* `LinksOn`: the link of each free block, and of `Fl_head`, leads to the next
  free block above it, or to none if there is none.  That the walk from `Fl_head`
  then meets each free block once, in order, is `ListWalk`; it rests on the
  existence of a walk of any number of steps (`RunExists`) and on the sentinel
  being below the heap.
* `Tiles`: each block lies in a chunk and ends where the next one begins or
  where the chunk ends; no block begins inside another.
* `Merged`: no free block ends where another begins.  It is what lets
  `fl_merge_block` look no further than the one block on each side.
* `MergeAt`: during a sweep `fl_merge` is the last on the list before
  `gc_sweep_hp`; and `SweepAt`: `gc_sweep_hp` is in a chunk or at the end of one.

Each operation has a lemma about records (`TakeKeeps` for `allocate_block`,
`AddKeeps` for `fl_add_block`, `JoinNextKeeps`, `JoinPrevKeeps` and `MergeKeeps`
for the two parts of `fl_merge_block`), which rest on lemmas about links
(`Unlink`, `LinkIn`) and about tiles (`SplitTiles`, `JoinTiles`, `AddTiles`),
and then one about the action.  The same lemmas say what becomes of the blocks in
use (`KeptIn`), which gives `InUseKept`.

`fl_add_block` is where the invariant would fail: a chunk that is put at the
end of the list does not become `fl_merge`, and a sweep that has passed its
address needs it to be.  `NoneBehind` excludes just that.  A heap that only
grows upwards keeps to it (`UpwardSuffices`), as the one of the run `heap` does,
and so does every heap while nothing is swept.

### Size and pace of the heap

`MapInv` is the invariant behind `HeapMapped`:

* `ChunksApart`: chunks are page-aligned, a whole number of pages, and do not
  overlap.
* `ChunksListed`: the list is rising and holds just the chunks, and `heap_end` is
  the end of the last.  It is `expand_heap`'s search for the place of a new
  chunk that has to keep this (`Inserted`, `LinkedIs`).
* `ChunksEntered`: each entry of the page table is that of a chunk, and each
  chunk has one.  An entry holds numbers of pages; since chunks begin and end at
  pages, an address is in a chunk just when its page is in the entry (`PageOf`,
  `FoundIs`).
* `stat_heap_size` is the sum of the sizes.  The fold that defines a sum takes
  the elements in an order chosen by CHOOSE: that one element can be taken out
  first, whichever it is (`SumTakes`), is proved by taking a set of least
  cardinality for which it fails.

The three searches differ in how they walk the table: one entry at a time, or
in rounds of a fixed length and a rest.  `SearchIs` says that rounds and rest together
are the whole table, for tables of every length.

`Paced` compares what was allocated since a phase began with the size of the heap,
and says nothing of the work that is left, so it is not inductive.  `PaceInv`
supposes a number `e`, the sum of the efforts of the phase's slices, each with 1
for what its integer divisions lose:

* the memory consumed is at most `2 * percent_free * e / 3` (`EffortIs`);
* while marking, `100 * e` is at most the size of the heap, and what is left,
  with `(100 - percent_free) * e`, at most the live words (`MarkCredit`); while
  sweeping, what is left, with `100 * e`, is at most the size of the heap
  (`SweepCredit`).  The margin of 100 that the code adds to the work of a slice
  pays for the 1.

So a phase that is not over has consumed less than `Paced` allows.  A growth of
the heap only makes the bounds weaker; a change of the percentage ends `steady`
and with it the claim.  `MCHeap_proofs` carries both theorems over to the two instances
that the run `heap` checks, where `PolicyAssumption` gives the hypotheses.

### The parser on the collector

`parse_engine` stores with `modify`, but for one place, where it clears `lval`
by plain assignment (`parsing.c:99`).  A store with the barrier keeps `IInv`,
whoever makes it (`StoreStep`); the plain one need not, since it may take away
the only pointer through which marking would come to an attribute.
`ParserInv` says why it does no harm as long as the first stack is in place:

* `EngineInv`: where the engine is, and that nothing holds the environment, so
  that it is a root and nothing else.  `EnvMarked`: it is marked from the start
  of each cycle.
* `Unshared`: the first stack is known to the environment alone, neither the
  program nor another block holds it.  `EnvFirst` follows: marking comes to it
  after the environment.
* `Copies`: as long as the environment is not scanned, a black block holds only
  what is marked or lies on the stack, or what the rest of its own scan will
  mark.  So no black block needs the attribute in `lval`: if it is also on the
  stack, the environment leads to it by way of the stack.  Black blocks that
  hold attributes from the stack exist even then: they are the new stacks that
  `growStacks` has filled and not yet put in place.

Once the environment is black, nothing is protected through its fields any more,
and to clear one of them changes nothing either (`BareKeeps`).  After growth the
new stack has been in the program's hands, so that none of the last three
conjuncts can be kept up, and there are no plain assignments left.  `CollectorLeaves`, `CollectorMarks` and
`CollectorCopies` say what the steps of the collector do to each part.

### Stacks, exceptions and signals

`StackDiscipline` says where the links from `trapsp` lead, and that is a matter
of paths: `TrapFrames` is the least set that `trapsp` is in and that is closed
under the links.  `InterpInv` says it slot by slot:

* `ChainInv`: `trapsp` is at a trap frame or at the end, and each trap frame
  below it links to the next one down, in the stack that is allocated.  Two
  sets are then equal, the frames that the links reach and the frames on the
  stack: at the first slot from `trapsp` down where they differed a link would
  miss its frame (`Least`).
* `OwnersInv`: a trap frame lies in the part of the stack of the activation that
  pushed it, above the part of every activation inside that one.
* `Entry`, for every activation: what an interpreter has saved on entry, its
  offset into the stack, `initial_external_raise` and `initial_c_roots_head`,
  is what belongs to the activations below it, and these do not change while
  it runs.  This is what makes `longjmp` safe: the activation that is jumped
  to is a live interpreter, and what it restores is its own.
* `TopInv`: `external_raise` is the innermost interpreter; no trap frame lies
  between `trapsp` and the stack pointer in force; while a C function runs
  `extern_sp` is the stack pointer of the interpreter that called it.
* `RootsLive`, `PendingSeen` and `TypeOK`, which are inductive with the others.

The hard steps are those that cut the C stack at any depth (`mlraise`, and
`RAISE` when the handler is not in the activation that runs) and
`realloc_stack`, which must move every link and no other value.  A signal that
finds `in_blocking_section` set in ML code breaks the invariant, as section 5
says: `InterpTheorem` supposes `Undisturbed`, that none does.  `OneSignalTheorem`
supposes instead that there is at most one signal: until it arrives
`in_blocking_section` is set only in a C function that has entered the section
(`QuietInv`), since it is an exception out of a handler that leaves it set.
`MCHeap_proofs` carries this theorem over to the module that the run `heap`
checks.

### What stays with the model checker

* Liveness (`CollectionEnds`, `GarbageFreed`, `ScanEnds`) and `ENABLED` are
  beyond the prover.
* What a recursive definition computes for every input: the back end, the
  generators, the conversions and `Structural` are functions by recursion over
  terms, grammars and graphs.  Ten modules (`Back`, `Bytecode`, `Lambda`,
  `Lexgen`, `Lexing`, `Lifting`, `Structural`, `YaccEngine`, `YaccLalr`,
  `YaccScan`) declare RECURSIVE operators, and whatever reaches them is checked
  only.
* `RoundTrip` and `FailsCleanly` need an induction over the graph of a value and
  over the words that stand for it.

## 5. Where the code and its documentation disagree

Six disagreements have a run that TLC ends with a counterexample;
`PROJECT.json` quotes the lines.

* `gc_lowchunk`: when `malloc` returns a chunk below the first one in the weak
  phase, `alloc_shr` makes the new block white (`memory.c:145`), and
  `Weak.isweak` reports a weak pointer to it dead while the program holds it; a
  phase later it is alive again.  `Weak.sig`: dead remains dead.
* `gc_parser_bare`: `parse_engine` stores the attribute of a token without one
  by plain assignment (`parsing.c:99`).  If the stacks were grown while marking
  is under way, the new stack is black, and the attribute moved to it was still
  to be marked through the field that the assignment overwrites: it is freed
  while it is on the stack.  The rule is in `memory.h:40`.
* `out_behind`: after `seek_out` back to the start of the buffer, a large block
  is written past the buffered bytes (`io.c:144`), which come out after it.
* `shared_refs`: the pass that unboxes references rewrites the term of a shared
  action in place, and gives up without undoing it when the reference escapes in
  another row (`Back.sml:346`).
* `values_lossy`: an int that is written on its own is read as four unsigned
  bytes (`intern.c:447`), so that one below 0 comes back above 0 where words are
  longer.
* `yacc_positions`: the engine stores the end of an item reduced from the empty
  string and not its start (`parsing.c:162`), which is then what an earlier item
  left there.  `Parsing.sig:65` promises the start.

The modules state these further ones; each is reproduced by adding the property
to the instance named, and TLC then finds a counterexample.

| Property | Added to | What the counterexample shows |
|---|---|---|
| `HeapVerifies` | `FreeList`, as in `heap` | an empty block in front of a dead one is not merged with it, so the assertions of `gc_stat` in a DEBUG build (`gc_ctrl.c:71`) fail |
| `FreeListSound` | `heap`, with a first chunk that is not the lowest | `fl_add_block` appends a chunk without advancing `fl_merge` (`freelist.c:216`), and the next freed block is linked in front of it; the branch that searches for the place does advance it |
| `ReserveSuffices` | `MinorGC`, as in `heap` | the branch of `realloc_ref_table` that "will never happen" does (`minor_gc.c:162`): C code stores as many young pointers as it likes before the next poll. The branch itself works (`RefTable`) |
| `FlushKeepsPlace` | `out_behind` | `flush` after `seek_out` into the buffer moves the writing position to the end of what is buffered (`io.c:107`) |
| `EachOnce` | `Interp`, as in `heap` | `enter_blocking_section` runs the handler of a pending signal and leaves it pending (`signals.c:36`): one interrupt, two exceptions |
| `StackDiscipline` | `heap`, with `MaxBreaks = 2` | `mlraise` resets `in_blocking_section` (`fail.c:34`), and `RAISE` that leaves an activation does not (`interp.c:1087`). The next interrupt runs its handler at once, in the midst of ML code, with the `extern_sp` of an earlier call |
| `StackWithinMax` | `Interp`, with `MaxStackSize = 4` | `realloc_stack` compares words with `Max_stack_size`, which `config.h:67` gives in bytes (`stacks.c:35`) |
| `Wide => Returned` | `MCMarshal`, as in `channels` | a header goes into the compact format in 32 bits (`externcp.c:118`), and the size of a block is read from them (`interncp.c:114`): with long words a block of more fields than `Max_wosize` of a short one comes back with the size truncated, or as an atom. Only a value of 2^32 words is refused, since "some of the block sizes [...] may have overflowed" (`externcp.c:148`) |
| `HeapWalkable` | `MCMarshal`, as in `channels` | the header of the block that is read into is put back to "avoid confusing the GC" when the file ends (`intern.c:485`, `:540`), and not when an exception comes out of the read: from a signal handler, a system call that fails, or `getch` at the end of the file (`interncp.c:41`). Read with short words, an int of 64 bits that is the whole value frees the table of objects and puts back a header although there is neither block nor table: both pointers are an earlier call's (`interncp.c:95`). A truncated block, too, leaves words behind it that no one writes |
| `EndNoticed` | `MCMarshal`, as in `channels` | the file ends in a string or a float of the compact format, and the value is returned, with bytes that no one wrote (`interncp.c:78`, `:133`); everywhere else the end raises |

That `offset` is not "the absolute position of fd" (`io.h:16`) after a write
that fails half way (`io.c:106`), or after a handler that raises just after
`read` (`io.c:263`), is part of what `BuffersAreWindows` says.

Corners that the properties name and leave out:

* `Arith`: the one product that SMLMULINT gets wrong (`MulCorner`).
* `Numerals`: `round` of the least real above the ints returns the least int
  and does not raise Overflow, as `Real.sig:81` has it; `ceil` and `trunc` raise
  for the least int; a literal without digits reads as 0.
* `Structural`: 0.0 and ~0.0 are equal and have different hashes
  (`HasMinusZero`); comparison reads through references and equality does not.
* `Marshal`: the fast format loses the value of an int at the root and writes
  the cells of weak arrays as if they were strong; the compact one, read with
  short words, wraps ints of exactly 32 bits, and read with long words loses the
  upper bits of the size of a block (`Lossy`).  `FailsCleanly` leaves out the
  inputs in which `HeapWalkable` is refuted above.
* `HeapPolicy`: `gc_set` takes an increment of 0, which makes chunks smaller
  than a page, and a `percent_free` above 100, which makes the work of a slice
  negative (`gc_ctrl.c:119`).  `PolicyAssumption` excludes both; `HeapMapped`
  and `Paced` fail without it.  Phases end before the memory their comment
  reckons with, though later than the half of it that the comment promises.
* `Lexing`: an entry whose rules match only the empty text is compiled to no
  function; a rule that takes the character 0 again and again does not end on
  a string buffer; a reader that raises in the middle of a token drops what was
  read of it.

## 6. Assumptions, bounds and fairness

* The assumptions on constants are stated in the modules that declare them, and
  TLC evaluates them in each run: sizes that the code has (`GrayAssumption`,
  `SizeAssumption`, `TableAssumption`, `ChunkAssumption`, `LexerAssumption`,
  `EngineAssumption`), heaps that the code
  can be given (`HeapAssumption`, `ChunksAssumption`, `PolicyAssumption`),
  and that bounds are numbers (`AddrAssumption`, `BoundsAssumption`,
  `ParserAssumption`).
* Bounds are constants named in each module: `MaxAddr`, `NYoung`, `NOld`,
  `NIds`, `MaxTable`, `MaxWord`, `MaxWosize`, `MaxFile`, `MaxBlock`,
  `MaxActive`, `MaxSlots`, `MaxBreaks`, `MaxRoots`, `MaxTokens`, `MaxChar`,
  `MaxPage`, `MaxChunks`, `MaxAllocated`, `MaxCode`, `MaxLabels`, `MaxIds`.
  They limit what is explored; none of them is part of the code, and the
  theorems hold for all of their values, but for `MaxBreaks`.  `Behind`,
  `BareAfterGrowth`, `WritesFail` and `Raises` switch on what section 5 or
  section 3 is about.  `GraySize`, `GrayMax`, `Threshold`, `Reserve`, `BufSize`,
  `StackSize`, `MaxStackSize`, `WordSize`, `TableSize`, `Digit`, `SmallInt`,
  `MaxWosize32`, `Chunk`, `BufferSize`, `AuxSize`, `Interval` are the code's own
  sizes, made small so that they are exceeded.
* A program may stop: the runs with CHECK_DEADLOCK FALSE are those in which it
  runs out of memory (`MinorGC`, `FreeList`, `HeapPolicy`), a parse or the input
  ends (`YaccEngine`, `ParserGC`, `Lexing`), the channel is closed or the value
  read (`OutChannel`, `Marshal`), or the program ends with its value, with an
  uncaught exception or at a bound (`Machine`, `Interp`).
* Fairness.  `MajorGC`: the collector's loops go on while a call is under way
  (`WF(Collector)`: it is one C function), and for `GarbageFreed` the program
  goes on allocating and so comes to a minor collection again and again
  (`WF(MinorCollection)`: each one ends in a slice, `minor_gc.c:119`).
  `InChannel`: the scan goes on, that is, a read returns.  Nothing is assumed
  of the program otherwise, and nothing of signals.
* `ParserGC` takes the environment of the parser for the root.  In the code it
  is held by a global of `Parsing.sml`.

## 7. What is not modelled

`PROJECT.json` has the reason for each component.  Of the parts that are
modelled these are left out:

* *Collectors.*  The growth of `weak_arrays`; `stat_alloc`; the wrappers of
  `alloc.c`, which choose between the two heaps.
* *Interpreter.*  Instructions on floats, strings and bits, and those the
  compiler does not emit for the terms modelled; the registry of named values;
  start-up, linking and the debugger.
* *Channels.*  The mode of the descriptor (`io.c:239`), and the word and block
  operations that repeat `putch`, `getch`, `putblock` and `getblock`.
* *Values.*  The split of headers and of the lengths of strings into bytes, so
  that strings of 2^32 bytes are not modelled; in the fast format, values of 2^32
  words or more; an input that ends in the words before the first block or code.
* *Generators.*  The scanner and the grammar of `lex/`, the copying of actions,
  the report of `verbose.c`; nested parses (`parsing.c:78`); text is a sequence
  of lexeme classes, and an action is known by its first word.
* *Numbers.*  NaN, the functions of libm, the Windows branch of `sml_round`.
* *Compiler.*  What comes before Lambda terms (parsing, elaboration, matching),
  constants of more than one word, and relocation and linking.

Not modelled at all: the library's data structures and I/O layers, the front
end, the toplevel, the build tools; start-up and platform code (`unix.c`,
`msdos.c`, `graph.c`, the launchers), which is pure input and output; bindings
in `dynlibs/`, whose other half is not here; the vendored regex; and
`compiler.cminusminus/`, a copy of the compiler.
