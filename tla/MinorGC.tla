------------------------------ MODULE MinorGC ------------------------------
(***************************************************************************)
(* The copying collector of the young heap (src/runtime/minor_gc.c)        *)
(* and the operations of memory.c and memory.h that keep the table of      *)
(* pointers from old blocks to young ones on which it depends.             *)
(*                                                                         *)
(* A block is an address; the young heap is 1 .. young_ptr, and it is the  *)
(* address of a value that tells whether it is young.  A minor collection  *)
(* is taken one call of oldify per step.  The major collector is only what *)
(* it can do to this state: at the end of a minor collection it may take   *)
(* back old blocks that cannot be reached.                                 *)
(***************************************************************************)
EXTENDS Integers, SequencesExt

CONSTANTS
  NYoung,     \* blocks the young heap holds
  NOld,       \* blocks the major heap holds
  NIds,       \* blocks in use at one time
  NFields,    \* fields of a block
  NRoots,     \* values on the stack and in C roots
  Threshold,  \* entries of ref_table before a minor collection is asked for
  Reserve,    \* entries it has beyond them, and is grown by
  MaxTable    \* bound: the entries of ref_table in the states explored

YoungAddr == 1 .. NYoung
OldAddr   == NYoung + 1 .. NYoung + NOld
Addr      == YoungAddr \cup OldAddr
Global    == NYoung + 1      \* the block of the globals, always old
Fields    == 1 .. NFields
RootSlots == 1 .. NRoots
Nil       == 0               \* a value that is no pointer; no identity
Value     == Addr \cup {Nil}
Slots     == {0} \X RootSlots \cup OldAddr \X Fields

ASSUME SizeAssumption ==
  /\ NYoung \in Nat /\ NOld \in Nat \ {0} /\ NIds \in Nat \ {0}
  /\ NFields \in Nat \ {0} /\ NRoots \in Nat
ASSUME TableAssumption == Threshold \in Nat \ {0} /\ Reserve \in Nat \ {0}

VARIABLES
  young_ptr,         \* young blocks allocated since the last collection
  id,                \* which block of the program's is at an address
  field,             \* the contents of the blocks
  forwarded,         \* young blocks with a blue header: the first field is
                     \* the address of the old copy
  root,              \* the stack and the C roots
  ref_table,         \* fields of old blocks that may hold young blocks
  ref_table_limit,
  ref_table_end,
  force_minor_flag,
  pc,                \* run: the program; init: it fills a block; roots, table:
                     \* what is being copied
  next,              \* the root or the entry of ref_table that comes next
  calls              \* the calls oldify (p, v), or initialize (p, v), to be made,
                     \* the next one first

heapVars  == <<young_ptr, id, field, forwarded>>
tableVars == <<ref_table, ref_table_limit, ref_table_end, force_minor_flag>>
minorVars == <<pc, next, calls>>
vars == <<heapVars, root, tableVars, minorVars>>

(* The two heaps, the roots, the table and the calls that are left are of  *)
(* their types after every step: only fields of old blocks are recorded in *)
(* the table, and only they and roots are stored into.                     *)
TypeOK ==
  /\ young_ptr \in 0 .. NYoung
  /\ id \in [Addr -> 0 .. NIds]
  /\ field \in [Addr -> [Fields -> Value]]
  /\ forwarded \subseteq YoungAddr
  /\ root \in [RootSlots -> Value]
  /\ ref_table \in Seq(OldAddr \X Fields)
  /\ ref_table_limit \in Nat /\ ref_table_end \in Nat
  /\ force_minor_flag \in BOOLEAN
  /\ pc \in {"run", "init", "roots", "table", "exit"}
  /\ next \in Nat
  /\ calls \in Seq(Slots \X Value)

Is_young(v) == v \in YoungAddr
InUse(a)    == id[a] # Nil

-----------------------------------------------------------------------------
(* Allocation takes an old address and an identity that are not in use.    *)

FreeOld == {a \in OldAddr : ~ InUse(a)}
FreeIds == 1 .. NIds \ Range(id)
NewOld  == CHOOSE a \in FreeOld : TRUE
NewId   == CHOOSE i \in FreeIds : TRUE

(* alloc_shr asks for a minor collection when much has been allocated.     *)
AllocShrForces == force_minor_flag' \in {force_minor_flag, TRUE}

-----------------------------------------------------------------------------
(* The table of old fields that hold young blocks.                         *)

realloc_ref_table(t) ==
  IF t.limit = Threshold
    THEN [t EXCEPT !.limit = t.end, !.force = TRUE]
    ELSE [t EXCEPT !.end = @ + Reserve, !.limit = t.end + Reserve]

Record(t, p) ==
  LET u == [t EXCEPT !.entries = Append(@, p)]
  IN IF Len(u.entries) >= u.limit THEN realloc_ref_table(u) ELSE u

Table == [entries |-> ref_table, limit |-> ref_table_limit,
          end |-> ref_table_end, force |-> force_minor_flag]

TableBecomes(t, force) ==
  /\ ref_table' = t.entries
  /\ ref_table_limit' = t.limit
  /\ ref_table_end' = t.end
  /\ force_minor_flag' = force
  /\ Len(t.entries) <= MaxTable

(* Mutant: a pointer to a young block is not recorded when it overwrites a *)
(* pointer to an old one.                                                  *)
MustRecordOverInt(a, old, v) == a \in OldAddr /\ Is_young(v) /\ old = Nil

(* The test of the Modify macro.  A field that holds a young block already *)
(* is in the table.                                                        *)
MustRecord(a, old, v) == a \in OldAddr /\ Is_young(v) /\ ~ Is_young(old)

-----------------------------------------------------------------------------
(* The program.                                                            *)

Running == pc = "run"
Held    == Range(root) \cup {Global}
Unused  == {r \in RootSlots : root[r] = Nil}
Hold(a) == Unused # {} /\ root' = [root EXCEPT ![CHOOSE r \in Unused : TRUE] = a]

Room == young_ptr < NYoung

Alloc_small(init) ==
  /\ Running /\ Room /\ FreeIds # {}
  /\ LET a == young_ptr + 1 IN
       /\ young_ptr' = a
       /\ id' = [id EXCEPT ![a] = NewId]
       /\ field' = [field EXCEPT ![a] = init]
       /\ Hold(a)
  /\ UNCHANGED <<forwarded, tableVars, minorVars>>

(* MAKEBLOCK of a large block: alloc_shr, and initialize on its fields     *)
(* from the last one down.                                                 *)
MakeShared(init) ==
  /\ Running /\ FreeOld # {} /\ FreeIds # {}
  /\ id' = [id EXCEPT ![NewOld] = NewId]
  /\ Hold(NewOld)
  /\ calls' = [i \in Fields |-> <<<<NewOld, NFields + 1 - i>>, init[NFields + 1 - i]>>]
  /\ pc' = "init"
  /\ AllocShrForces
  /\ UNCHANGED <<young_ptr, field, forwarded, ref_table, ref_table_limit, ref_table_end, next>>

initialize ==
  /\ pc = "init"
  /\ LET p == Head(calls)[1]
         v == Head(calls)[2]
     IN /\ field' = [field EXCEPT ![p[1]][p[2]] = v]
        /\ IF Is_young(v)
             THEN LET t == Record(Table, p) IN TableBecomes(t, t.force)
             ELSE UNCHANGED tableVars
  /\ calls' = Tail(calls)
  /\ pc' = IF Len(calls) = 1 THEN "run" ELSE "init"
  /\ UNCHANGED <<young_ptr, id, forwarded, root, next>>

Modify(a, f, v) ==
  /\ Running
  /\ a \in Held \ {Nil} /\ v \in Held \cup {Nil}
  /\ field' = [field EXCEPT ![a][f] = v]
  /\ IF MustRecord(a, field[a][f], v)
       THEN LET t == Record(Table, <<a, f>>) IN TableBecomes(t, t.force)
       ELSE UNCHANGED tableVars
  /\ UNCHANGED <<young_ptr, id, forwarded, root, minorVars>>

Load(a, f) ==
  /\ Running
  /\ a \in Held \ {Nil} /\ field[a][f] # Nil
  /\ Hold(field[a][f])
  /\ UNCHANGED <<heapVars, tableVars, minorVars>>

Pop(r) ==
  /\ Running
  /\ root[r] # Nil
  /\ root' = [root EXCEPT ![r] = Nil]
  /\ UNCHANGED <<heapVars, tableVars, minorVars>>

-----------------------------------------------------------------------------
(* minor_collection: from Alloc_small when the young heap is full, from    *)
(* gc_minor, or from the interpreter when it is asked for.                 *)

Start ==
  /\ Running
  /\ pc' = "roots" /\ next' = 1
  /\ UNCHANGED <<heapVars, root, ref_table, ref_table_limit, ref_table_end, calls>>

MinorCollection == Start /\ UNCHANGED force_minor_flag

process_signal == Start /\ force_minor_flag /\ force_minor_flag' = FALSE

(* Mutant: the last root is left out.                                      *)
RootsLeftButOne == next < NRoots

RootsLeft == next <= NRoots

(* local_roots (oldify), and then the entries of the table.                *)
CopyRoot ==
  /\ pc = "roots" /\ calls = << >>
  /\ IF RootsLeft
       THEN /\ calls' = << <<<<0, next>>, root[next]>> >>
            /\ next' = next + 1
            /\ UNCHANGED pc
       ELSE pc' = "table" /\ next' = 1 /\ UNCHANGED calls
  /\ UNCHANGED <<heapVars, root, tableVars>>

CopyEntry ==
  /\ pc = "table" /\ calls = << >> /\ next <= Len(ref_table)
  /\ LET p == ref_table[next] IN calls' = << <<p, field[p[1]][p[2]]>> >>
  /\ next' = next + 1
  /\ UNCHANGED <<heapVars, root, tableVars, pc>>

(* The contents with v stored at p.                                        *)
Stored(contents, p, v) ==
  IF p[1] = 0 THEN contents ELSE [contents EXCEPT ![p[1]][p[2]] = v]

Store(p, v) == root' = IF p[1] = 0 THEN [root EXCEPT ![p[2]] = v] ELSE root

(* Mutant: the first field is read when it holds the forward pointer.      *)
FieldsToCopyLate(v, result) ==
  [f \in Fields |-> <<<<result, f>>, IF f = 1 THEN result ELSE field[v][f]>>]

(* The calls oldify makes on the fields of the copy; the first field was   *)
(* read before the forward pointer took its place.                         *)
FieldsToCopy(v, result) == [f \in Fields |-> <<<<result, f>>, field[v][f]>>]

MarkForwarded(v) == forwarded' = forwarded \cup {v}

OldifyOther(p, v) ==
  /\ ~ Is_young(v)
  /\ field' = Stored(field, p, v) /\ Store(p, v)
  /\ calls' = Tail(calls)
  /\ UNCHANGED <<young_ptr, id, forwarded, tableVars, pc, next>>

OldifyForwarded(p, v) ==
  /\ v \in forwarded
  /\ field' = Stored(field, p, field[v][1]) /\ Store(p, field[v][1])
  /\ calls' = Tail(calls)
  /\ UNCHANGED <<young_ptr, id, forwarded, tableVars, pc, next>>

OldifyCopy(p, v) ==
  /\ Is_young(v) /\ v \notin forwarded /\ FreeOld # {}
  /\ LET result == NewOld IN
       /\ id' = [id EXCEPT ![result] = id[v]]
       /\ field' = [Stored(field, p, result) EXCEPT ![v][1] = result]
       /\ Store(p, result)
       /\ calls' = FieldsToCopy(v, result) \o Tail(calls)
  /\ MarkForwarded(v)
  /\ AllocShrForces
  /\ UNCHANGED <<young_ptr, ref_table, ref_table_limit, ref_table_end, pc, next>>

(* alloc_shr raises, and minor_collection ends the program.                *)
OutOfMemory(v) ==
  /\ Is_young(v) /\ v \notin forwarded /\ FreeOld = {}
  /\ pc' = "exit"
  /\ UNCHANGED <<heapVars, root, tableVars, next, calls>>

oldify ==
  /\ calls # << >> /\ pc \in {"roots", "table"}
  /\ LET p == Head(calls)[1]
         v == Head(calls)[2]
     IN OldifyOther(p, v) \/ OldifyForwarded(p, v) \/ OldifyCopy(p, v) \/ OutOfMemory(v)

(* The old blocks that can be reached when there are no young ones.        *)
Reachable ==
  {a \in Addr : \A S \in SUBSET Addr :
     (Held \subseteq S \cup {Nil} /\ \A b \in S, f \in Fields : field[b][f] \in S \cup {Nil})
       => a \in S}

Empty == [f \in Fields |-> Nil]

(* The young heap and the table are emptied; then a slice of the major     *)
(* collector runs.                                                         *)
FinishMinor ==
  /\ pc = "table" /\ calls = << >> /\ next > Len(ref_table)
  /\ young_ptr' = 0 /\ forwarded' = {}
  /\ ref_table' = << >> /\ ref_table_limit' = Threshold
  /\ \E swept \in SUBSET {a \in OldAddr : InUse(a) /\ a \notin Reachable} :
       LET gone == swept \cup YoungAddr IN
         /\ id' = [a \in Addr |-> IF a \in gone THEN Nil ELSE id[a]]
         /\ field' = [a \in Addr |-> IF a \in gone THEN Empty ELSE field[a]]
  /\ pc' = "run" /\ next' = 1
  /\ UNCHANGED <<root, ref_table_end, force_minor_flag, calls>>

-----------------------------------------------------------------------------

Init ==
  /\ young_ptr = 0
  /\ id = [a \in Addr |-> IF a = Global THEN 1 ELSE Nil]
  /\ field = [a \in Addr |-> Empty]
  /\ forwarded = {}
  /\ root = [r \in RootSlots |-> Nil]
  /\ ref_table = << >>
  /\ ref_table_limit = Threshold
  /\ ref_table_end = Threshold + Reserve
  /\ force_minor_flag = FALSE
  /\ pc = "run" /\ next = 1 /\ calls = << >>

Program ==
  \/ \E init \in [Fields -> Held \cup {Nil}] : Alloc_small(init) \/ MakeShared(init)
  \/ \E a \in Addr, f \in Fields : Load(a, f) \/ \E v \in Value : Modify(a, f, v)
  \/ \E r \in RootSlots : Pop(r)
  \/ initialize \/ MinorCollection \/ process_signal

Collector == CopyRoot \/ CopyEntry \/ oldify \/ FinishMinor

Next == Program \/ Collector

Spec == Init /\ [][Next]_vars

-----------------------------------------------------------------------------
(* What a field holds; when a call is still to fill it, what that call is  *)
(* given.                                                                  *)
Contents(a, f) ==
  LET pending == {c[2] : c \in {d \in Range(calls) : d[1] = <<a, f>>}}
  IN IF pending = {} THEN {field[a][f]} ELSE pending

(* A field of an old block holds a young block only if it is in ref_table, *)
(* where the minor collection will find it: the pointers that modify,      *)
(* initialize and MAKEBLOCK create are all recorded, in any order of       *)
(* stores, and however often a field is overwritten.                       *)
Remembered ==
  Running => \A a \in OldAddr, f \in Fields :
               InUse(a) /\ Is_young(field[a][f]) => Contains(ref_table, <<a, f>>)

(* Where a block leads: while blocks are being moved, from one that was    *)
(* moved to its copy.                                                      *)
Successors(a) ==
  IF a \in forwarded THEN {field[a][1]} ELSE UNION {Contents(a, f) : f \in Fields}

Closed(S) == Held \subseteq S \cup {Nil} /\ \A a \in S : Successors(a) \subseteq S \cup {Nil}

(* The blocks the program can reach lie in every closed set.               *)
ClosedSets == {S \in SUBSET {a \in Addr : InUse(a)} : Closed(S)}
Live       == LET closed == ClosedSets IN {a \in Addr : InUse(a) /\ \A S \in closed : a \in S}

(* No pointer the program can follow leads to a block that is gone: not    *)
(* after the young heap was emptied, not after the major collector took    *)
(* back old blocks, and not while blocks are being moved.                  *)
NoStale == ClosedSets # {}

(* What the program can see: the blocks it can reach, by identity.  A      *)
(* block and its copy are one block, whose contents are those of the copy. *)
IdOf(v)  == IF v = Nil THEN Nil ELSE id[v]
View ==
  [root  |-> [r \in RootSlots |-> IdOf(root[r])],
   block |-> {<<id[a], [f \in Fields |-> {IdOf(v) : v \in Contents(a, f)}]>> : a \in Live \ forwarded}]

(* No step of a minor collection, of which each moves one block or stores  *)
(* one pointer, and no call of initialize changes what the program can     *)
(* see: contents and sharing are kept, cycles and blocks reached twice     *)
(* included.                                                               *)
ViewKept == [][~ Running => View' = View]_vars

(* An entry is stored without a test for room: there is always room for    *)
(* one more, and a collection is asked for as soon as the threshold has    *)
(* been crossed (the assertions of realloc_ref_table).                     *)
TableHasRoom ==
  /\ Len(ref_table) < ref_table_end
  /\ ref_table_limit > Threshold /\ Running => force_minor_flag

(* The table of the references from old blocks to young ones is complete   *)
(* and has room.                                                           *)
RefTable == TypeOK /\ Remembered /\ TableHasRoom

(* "This will never happen": the reserve is never used up.                 *)
ReserveSuffices == [][ref_table_end' = ref_table_end]_vars
=============================================================================
