--------------------------- MODULE MinorGC_proofs ---------------------------
EXTENDS MinorGC, SequenceTheorems, TLAPS

(***************************************************************************)
(* The inductive invariant of MinorGC.                                     *)
(***************************************************************************)

Collecting == pc \in {"roots", "table"}

(* ref_table_limit is at the threshold, or at the end of the table; in     *)
(* either case the next entry finds room.                                  *)
TableInv ==
  /\ Len(ref_table) < ref_table_limit
  /\ ref_table_end > Threshold
  /\ \/ ref_table_limit = Threshold
     \/ ref_table_limit = ref_table_end /\ (pc \in {"run", "init"} => force_minor_flag)

(* The fields recorded are of blocks in use, and roots and entries are     *)
(* counted from 1.                                                         *)
EntriesInv ==
  /\ \A i \in DOMAIN ref_table : InUse(ref_table[i][1])
  /\ Collecting => next >= 1

(* The calls that are left fill blocks in use; a root is filled at once.   *)
CallsInv ==
  /\ pc = "run" => calls = << >>
  /\ pc = "init" => calls # << >> /\ \A i \in DOMAIN calls : calls[i][1][1] # 0
  /\ \A i \in DOMAIN calls :
       IF calls[i][1][1] = 0
         THEN Len(calls) = 1 /\ calls[i][2] = root[calls[i][1][2]]
         ELSE InUse(calls[i][1][1])

(* A block that was moved leads to its copy, which is old.                 *)
ForwardInv ==
  /\ pc \in {"run", "init"} => forwarded = {}
  /\ \A v \in forwarded : field[v][1] \in OldAddr

(* An entry of the table, or a call, is still to come for each field of an *)
(* old block that holds a young one, and a call for each root.             *)
Recorded(a, f) ==
  \/ \E i \in DOMAIN ref_table : ref_table[i] = <<a, f>> /\ (pc = "table" => i >= next)
  \/ \E i \in DOMAIN calls : calls[i][1] = <<a, f>>

RecordedInv ==
  pc # "exit" => \A a \in OldAddr, f \in Fields : InUse(a) /\ Is_young(field[a][f]) => Recorded(a, f)

RootsInv ==
  /\ pc = "roots" => \A r \in RootSlots :
       Is_young(root[r]) => r >= next \/ \E i \in DOMAIN calls : calls[i][1] = <<0, r>>
  /\ pc = "table" => \A r \in RootSlots : ~ Is_young(root[r])

(* The blocks of the young heap are in use until it is emptied, and no     *)
(* value leads beyond them; old blocks that are not in use are empty.      *)
WithinYoung(v) == Is_young(v) => v <= young_ptr
YoungInv ==
  /\ \A a \in YoungAddr : a <= young_ptr => InUse(a)
  /\ \A r \in RootSlots : WithinYoung(root[r])
  /\ \A i \in DOMAIN calls : WithinYoung(calls[i][2])
  /\ \A a \in Addr, f \in Fields : InUse(a) => WithinYoung(field[a][f])
  /\ \A a \in OldAddr : ~ InUse(a) => field[a] = Empty

MinorInv ==
  /\ TypeOK
  /\ TableInv
  /\ EntriesInv
  /\ CallsInv
  /\ ForwardInv
  /\ RecordedInv
  /\ RootsInv
  /\ YoungInv
  /\ NoStale
  /\ InUse(Global)

(* What keeps the program's view of the heap: one call at most is left for *)
(* each slot, and a copy has the identity of the block it is a copy of.    *)
UniqueCalls ==
  \A i, k \in DOMAIN calls : calls[i][1] = calls[k][1] => i = k

CopiesInv ==
  \A v \in forwarded : InUse(field[v][1]) /\ id[field[v][1]] = id[v]

ViewInv == MinorInv /\ UniqueCalls /\ CopiesInv
-----------------------------------------------------------------------------

USE SizeAssumption, TableAssumption

LEMMA Addresses ==
  /\ Global \in OldAddr
  /\ \A a \in OldAddr : a \in Addr /\ a \notin YoungAddr /\ a # Nil
  /\ \A a \in YoungAddr : a \in Addr /\ a \notin OldAddr /\ a # Nil
  /\ \A a \in Addr : a # Nil /\ (a \in YoungAddr \/ a \in OldAddr)
BY DEF Global, OldAddr, YoungAddr, Addr, Nil

LEMMA HeadTail ==
  ASSUME NEW S, NEW s \in Seq(S), s # << >>
  PROVE  /\ Len(s) \in Nat \ {0} /\ DOMAIN s = 1 .. Len(s)
         /\ Head(s) = s[1] /\ Head(s) \in S /\ 1 \in DOMAIN s
         /\ Tail(s) \in Seq(S) /\ DOMAIN Tail(s) = 1 .. Len(s) - 1
         /\ \A i \in 1 .. Len(s) - 1 : Tail(s)[i] = s[i + 1]
OBVIOUS

LEMMA ConcatSeq ==
  ASSUME NEW S, NEW s \in Seq(S), NEW t \in Seq(S)
  PROVE  /\ s \o t \in Seq(S) /\ DOMAIN (s \o t) = 1 .. Len(s) + Len(t)
         /\ Len(s) \in Nat /\ Len(t) \in Nat
         /\ \A i \in 1 .. Len(s) : (s \o t)[i] = s[i]
         /\ \A i \in 1 .. Len(t) : (s \o t)[Len(s) + i] = t[i]
         /\ \A i \in DOMAIN (s \o t) : i \in 1 .. Len(s) \/ \E j \in 1 .. Len(t) : i = Len(s) + j
<1>1. /\ s \o t \in Seq(S) /\ Len(s \o t) = Len(s) + Len(t)
      /\ Len(s) \in Nat /\ Len(t) \in Nat
      /\ \A i \in 1 .. Len(s) : (s \o t)[i] = s[i]
      /\ \A i \in 1 .. Len(t) : (s \o t)[Len(s) + i] = t[i]
  OBVIOUS
<1>2. DOMAIN (s \o t) = 1 .. Len(s) + Len(t)
  BY <1>1
<1>3. ASSUME NEW i \in 1 .. Len(s) + Len(t), i \notin 1 .. Len(s)
      PROVE  \E j \in 1 .. Len(t) : i = Len(s) + j
  <2>1. i - Len(s) \in 1 .. Len(t) /\ i = Len(s) + (i - Len(s))
    BY <1>1, <1>3
  <2> QED
    BY <2>1
<1> QED
  BY <1>1, <1>2, <1>3

(* What a sequence holds whose head gave way to others.                    *)
Replaced(t, new, s) == t = new \o Tail(s)

LEMMA HeadReplaced ==
  ASSUME NEW S, NEW s \in Seq(S), s # << >>, NEW new \in Seq(S), NEW t, Replaced(t, new, s)
  PROVE  /\ t \in Seq(S)
         /\ \A j \in 1 .. Len(new) : j \in DOMAIN t /\ t[j] = new[j]
         /\ \A k \in DOMAIN s : k # 1 => \E i \in DOMAIN t : t[i] = s[k]
         /\ \A i \in DOMAIN t : \/ \E j \in 1 .. Len(new) : t[i] = new[j]
                                \/ \E k \in DOMAIN s : k # 1 /\ t[i] = s[k]
<1> DEFINE n == Len(new)
           m == Len(s)
           rest == Tail(s)
<1>1. /\ m \in Nat \ {0} /\ DOMAIN s = 1 .. m
      /\ rest \in Seq(S) /\ DOMAIN rest = 1 .. m - 1 /\ Len(rest) = m - 1
      /\ \A i \in 1 .. m - 1 : rest[i] = s[i + 1]
  BY HeadTail
<1>2. /\ t \in Seq(S) /\ DOMAIN t = 1 .. n + (m - 1) /\ n \in Nat
      /\ \A i \in 1 .. n : t[i] = new[i]
      /\ \A i \in 1 .. m - 1 : t[n + i] = rest[i]
  BY <1>1, ConcatSeq DEF Replaced
<1> HIDE DEF n, m, rest
<1>3. \A j \in 1 .. n : j \in DOMAIN t /\ t[j] = new[j]
  BY <1>1, <1>2
<1>4. ASSUME NEW k \in DOMAIN s, k # 1 PROVE \E i \in DOMAIN t : t[i] = s[k]
  <2>1. k - 1 \in 1 .. m - 1 /\ (k - 1) + 1 = k
    BY <1>1, <1>4
  <2>2. n + (k - 1) \in DOMAIN t /\ t[n + (k - 1)] = s[k]
    <3>1. t[n + (k - 1)] = rest[k - 1] /\ rest[k - 1] = s[k]
      BY <1>1, <1>2, <2>1
    <3>2. n + (k - 1) \in DOMAIN t
      BY <1>1, <1>2, <2>1
    <3> QED
      BY <3>1, <3>2
  <2> QED
    BY <2>2
<1>5. ASSUME NEW i \in DOMAIN t
      PROVE  (\E j \in 1 .. n : t[i] = new[j]) \/ \E k \in DOMAIN s : k # 1 /\ t[i] = s[k]
  <2>1. CASE i \in 1 .. n
    BY <1>2, <2>1
  <2>2. CASE i \notin 1 .. n
    <3>0. i \in 1 .. n + (m - 1) /\ n \in Nat /\ m \in Nat
      BY <1>1, <1>2, <1>5
    <3>1. i - n \in 1 .. m - 1 /\ n + (i - n) = i /\ (i - n) + 1 \in DOMAIN s /\ (i - n) + 1 # 1
      BY <1>1, <3>0, <2>2
    <3>2. t[i] = s[(i - n) + 1]
      BY <1>1, <1>2, <3>1
    <3> QED
      BY <3>1, <3>2
  <2> QED
    BY <2>1, <2>2
<1> QED
  BY <1>2, <1>3, <1>4, <1>5 DEF n

LEMMA AppendSeq ==
  ASSUME NEW S, NEW s \in Seq(S), NEW v \in S
  PROVE  /\ Append(s, v) \in Seq(S) /\ Len(Append(s, v)) = Len(s) + 1 /\ Len(s) \in Nat
         /\ DOMAIN s = 1 .. Len(s) /\ DOMAIN Append(s, v) = 1 .. Len(s) + 1
         /\ \A i \in 1 .. Len(s) : Append(s, v)[i] = s[i]
         /\ Append(s, v)[Len(s) + 1] = v
OBVIOUS

LEMMA FieldSeq ==
  ASSUME NEW S, NEW g \in [Fields -> S]
  PROVE  g \in Seq(S) /\ DOMAIN g = Fields /\ Len(g) = NFields
BY DEF Fields

(* An entry more: it is in the table, behind all others, and there is room *)
(* again.                                                                  *)
LEMMA RecordRoom ==
  ASSUME TypeOK, TableInv, NEW p \in OldAddr \X Fields,
         LET t == Record(Table, p) IN
           /\ ref_table' = t.entries /\ ref_table_limit' = t.limit
           /\ ref_table_end' = t.end /\ force_minor_flag' = t.force,
         pc' \in {"run", "init"} => pc \in {"run", "init"}
  PROVE  /\ TableInv'
         /\ ref_table' = Append(ref_table, p)
         /\ ref_table_limit' \in Nat /\ ref_table_end' \in Nat /\ force_minor_flag' \in BOOLEAN
<1> DEFINE n == Len(ref_table)
           u == [Table EXCEPT !.entries = Append(ref_table, p)]
<1>1. /\ u.entries = Append(ref_table, p) /\ u.limit = ref_table_limit /\ u.end = ref_table_end
      /\ Table.entries = ref_table
  BY DEF Table
<1>2. u.force = force_minor_flag
  BY Zenon DEF Table
<1>3. /\ Append(ref_table, p) \in Seq(OldAddr \X Fields) /\ n \in Nat
      /\ Len(Append(ref_table, p)) = n + 1
  BY DEF TypeOK
<1>r. ASSUME ~ (n + 1 < ref_table_limit) PROVE Record(Table, p) = realloc_ref_table(u)
  BY SMTT(30), <1>1, <1>3, <1>r DEF Record, TypeOK
<1>4. CASE n + 1 < ref_table_limit
  <2>1. Record(Table, p) = u
    BY <1>1, <1>3, <1>4 DEF Record, TypeOK
  <2>2. /\ ref_table' = Append(ref_table, p) /\ ref_table_limit' = ref_table_limit
        /\ ref_table_end' = ref_table_end
    BY <2>1, <1>1
  <2>3. force_minor_flag' = force_minor_flag
    BY <2>1, <1>2, Zenon
  <2> QED
    BY <2>2, <2>3, <1>3, <1>4 DEF TableInv, TypeOK
<1>5. CASE ~ (n + 1 < ref_table_limit) /\ ref_table_limit = Threshold
  <2>1. Record(Table, p) = [u EXCEPT !.limit = ref_table_end, !.force = TRUE]
    BY <1>r, <1>1, <1>5, Zenon DEF realloc_ref_table
  <2>2. /\ ref_table' = Append(ref_table, p) /\ ref_table_limit' = ref_table_end
        /\ ref_table_end' = ref_table_end
    BY <2>1, <1>1 DEF Table
  <2>3. force_minor_flag' /\ force_minor_flag' \in BOOLEAN
    BY <2>1, Zenon DEF Table
  <2> QED
    BY <2>2, <2>3, <1>3, <1>5 DEF TableInv, TypeOK
<1>6. CASE ~ (n + 1 < ref_table_limit) /\ ref_table_limit # Threshold
  <2>1. Record(Table, p) = [u EXCEPT !.end = ref_table_end + Reserve, !.limit = ref_table_end + Reserve]
    BY <1>r, <1>1, <1>6, Zenon DEF realloc_ref_table
  <2>2. /\ ref_table' = Append(ref_table, p) /\ ref_table_limit' = ref_table_end + Reserve
        /\ ref_table_end' = ref_table_end + Reserve
    BY <2>1, <1>1 DEF Table
  <2>3. force_minor_flag' = force_minor_flag
    BY <2>1, <1>2, Zenon DEF Table
  <2> QED
    BY <2>2, <2>3, <1>3, <1>6 DEF TableInv, TypeOK
<1> QED
  BY <1>4, <1>5, <1>6

-----------------------------------------------------------------------------
(* Slots, and what is stored through them.                                 *)

LEMMA SlotType ==
  ASSUME NEW p \in Slots
  PROVE  /\ p = <<p[1], p[2]>>
         /\ \/ p[1] = 0 /\ p[2] \in RootSlots /\ p[1] \notin Addr
            \/ p[1] # 0 /\ p[1] \in OldAddr /\ p[1] \in Addr /\ p[1] \notin YoungAddr /\ p[2] \in Fields
BY Addresses DEF Slots, Nil

LEMMA FieldSlot ==
  ASSUME NEW a \in OldAddr, NEW f \in Fields
  PROVE  <<a, f>> \in Slots /\ <<a, f>>[1] = a /\ <<a, f>>[2] = f /\ a # 0
BY Addresses DEF Slots, Nil

LEMMA CallType ==
  ASSUME NEW c \in Slots \X Value
  PROVE  c = <<c[1], c[2]>> /\ c[1] \in Slots /\ c[2] \in Value
OBVIOUS

LEMMA SetField ==
  ASSUME NEW g \in [Addr -> [Fields -> Value]], NEW a \in Addr, NEW f \in Fields, NEW v \in Value,
         NEW h, h = [g EXCEPT ![a][f] = v]
  PROVE  /\ h \in [Addr -> [Fields -> Value]]
         /\ h[a][f] = v
         /\ \A b \in Addr, e \in Fields : <<b, e>> # <<a, f>> => h[b][e] = g[b][e]
OBVIOUS

LEMMA StoreSlot ==
  ASSUME field \in [Addr -> [Fields -> Value]], root \in [RootSlots -> Value],
         NEW p \in Slots, NEW v \in Value, Store(p, v)
  PROVE  /\ Stored(field, p, v) \in [Addr -> [Fields -> Value]]
         /\ \A b \in Addr, e \in Fields :
              Stored(field, p, v)[b][e] = IF p = <<b, e>> THEN v ELSE field[b][e]
         /\ root' \in [RootSlots -> Value]
         /\ \A r \in RootSlots : root'[r] = IF p = <<0, r>> THEN v ELSE root[r]
<1>1. CASE p[1] = 0
  BY <1>1, SlotType, Addresses DEF Stored, Store, Nil
<1>2. CASE p[1] # 0
  BY <1>2, SlotType, Addresses, SetField DEF Stored, Store, Nil
<1> QED
  BY <1>1, <1>2

-----------------------------------------------------------------------------
(* Closed sets.                                                            *)

LEMMA HeldIs ==
  ASSUME root \in [RootSlots -> Value]
  PROVE  Held = {root[r] : r \in RootSlots} \cup {Global} /\ Held \subseteq Value
BY Addresses DEF Held, Range, Value

LEMMA InContents ==
  ASSUME NEW a, NEW f, NEW v, v \in Contents(a, f)
  PROVE  \/ \E i \in DOMAIN calls : calls[i][1] = <<a, f>> /\ calls[i][2] = v
         \/ v = field[a][f] /\ \A i \in DOMAIN calls : calls[i][1] # <<a, f>>
BY DEF Contents, Range

LEMMA InContentsNext ==
  ASSUME NEW a, NEW f, NEW v, v \in Contents(a, f)'
  PROVE  \/ \E i \in DOMAIN calls' : calls'[i][1] = <<a, f>> /\ calls'[i][2] = v
         \/ v = field'[a][f] /\ \A i \in DOMAIN calls' : calls'[i][1] # <<a, f>>
BY DEF Contents, Range

LEMMA ContentsHas ==
  ASSUME NEW a, NEW f
  PROVE  /\ \A i \in DOMAIN calls : calls[i][1] = <<a, f>> => calls[i][2] \in Contents(a, f)
         /\ (\A i \in DOMAIN calls : calls[i][1] # <<a, f>>) => field[a][f] \in Contents(a, f)
BY DEF Contents, Range

LEMMA SuccessorsSame ==
  ASSUME UNCHANGED <<calls, field, forwarded>>, NEW a
  PROVE  Successors(a)' = Successors(a)
<1>1. \A f : Contents(a, f)' = Contents(a, f)
  BY DEF Contents
<1> QED
  BY <1>1, Zenon DEF Successors

(* A set closed in the next state.                                         *)
LEMMA ClosedNext ==
  ASSUME NEW S, S \subseteq Addr, \A a \in S : InUse(a)',
         Held' \subseteq S \cup {Nil}, \A a \in S : Successors(a)' \subseteq S \cup {Nil}
  PROVE  NoStale'
BY DEF NoStale, ClosedSets, Closed, InUse

(* A closed set of this state.                                             *)
LEMMA ClosedNow ==
  ASSUME NoStale
  PROVE  \E S \in SUBSET Addr : /\ \A a \in S : InUse(a)
                               /\ Held \subseteq S \cup {Nil}
                               /\ \A a \in S : Successors(a) \subseteq S \cup {Nil}
BY DEF NoStale, ClosedSets, Closed, InUse

-----------------------------------------------------------------------------
(* The steps of the program.                                               *)

(* A field or a root that is held is in use, and is no block beyond the    *)
(* young ones in use.                                                      *)
LEMMA HeldInUse ==
  ASSUME MinorInv, NEW v \in Held
  PROVE  v = Nil \/ (v \in Addr /\ InUse(v) /\ WithinYoung(v))
<1>1. v \in Value /\ (v = Global \/ \E r \in RootSlots : v = root[r])
  BY HeldIs DEF MinorInv, TypeOK
<1>2. WithinYoung(v)
  BY <1>1, Addresses DEF MinorInv, YoungInv, WithinYoung, Is_young
<1>3. v = Nil \/ InUse(v)
  BY ClosedNow DEF MinorInv
<1> QED
  BY <1>1, <1>2, <1>3 DEF Value

LEMMA HoldSlot ==
  ASSUME root \in [RootSlots -> Value], NEW a \in Value, Hold(a)
  PROVE  /\ root' \in [RootSlots -> Value]
         /\ \A r \in RootSlots : root'[r] = root[r] \/ root'[r] = a
<1>1. PICK q \in RootSlots : root' = [root EXCEPT ![q] = a]
  <2> DEFINE q == CHOOSE r \in Unused : TRUE
  <2>1. q \in Unused
    BY DEF Hold
  <2> QED
    BY <2>1 DEF Hold, Unused
<1> QED
  BY <1>1

LEMMA NewOldFree ==
  ASSUME FreeOld # {}
  PROVE  NewOld \in OldAddr /\ NewOld \in Addr /\ NewOld \notin YoungAddr /\ ~ InUse(NewOld)
BY Addresses DEF NewOld, FreeOld

LEMMA NewIdFree ==
  ASSUME FreeIds # {}
  PROVE  NewId \in 0 .. NIds /\ NewId # Nil
<1>1. NewId \in FreeIds
  BY DEF NewId
<1> QED
  BY <1>1 DEF FreeIds, Nil

(* Entries stay entries of blocks in use.                                  *)
LEMMA EntriesKept ==
  ASSUME MinorInv, ref_table' = ref_table, \A a \in Addr : InUse(a) => InUse(a)',
         pc' \in {"roots", "table"} => next' >= 1
  PROVE  EntriesInv'
<1>1. \A i \in DOMAIN ref_table : ref_table[i][1] \in Addr
  BY Addresses DEF MinorInv, TypeOK
<1> QED
  BY <1>1 DEF MinorInv, EntriesInv, Collecting, InUse

LEMMA StartStep ==
  ASSUME MinorInv, Start, force_minor_flag' \in BOOLEAN
  PROVE  MinorInv'
<1> USE DEF Start, heapVars, Running
<1>1. TypeOK'
  BY DEF MinorInv, TypeOK
<1>2. TableInv'
  BY DEF MinorInv, TypeOK, TableInv
<1>3. CallsInv' /\ ForwardInv'
  BY DEF MinorInv, TypeOK, CallsInv, ForwardInv, InUse
<1>4. RecordedInv'
  BY DEF MinorInv, RecordedInv, Recorded, InUse, Is_young
<1>5. RootsInv'
  BY DEF RootsInv, RootSlots
<1>6. YoungInv'
  BY DEF MinorInv, YoungInv, WithinYoung, InUse, Is_young
<1>7. NoStale'
  <2>1. PICK S \in SUBSET Addr : /\ \A a \in S : InUse(a)
                                /\ Held \subseteq S \cup {Nil}
                                /\ \A a \in S : Successors(a) \subseteq S \cup {Nil}
    BY ClosedNow DEF MinorInv
  <2>2. Held' = Held /\ \A a \in S : InUse(a)'
    BY <2>1 DEF Held, InUse
  <2>3. \A a \in S : Successors(a)' \subseteq S \cup {Nil}
    BY <2>1, SuccessorsSame
  <2> QED
    BY <2>1, <2>2, <2>3, ClosedNext
<1>8. InUse(Global)'
  BY DEF MinorInv, InUse
<1>e. EntriesInv'
  <2>1. (\A a \in Addr : InUse(a) => InUse(a)') /\ (pc' \in {"roots", "table"} => next' >= 1) /\ ref_table' = ref_table
    BY DEF InUse
  <2> QED
    BY <2>1, EntriesKept
<1> QED
  BY <1>e, <1>1, <1>2, <1>3, <1>4, <1>5, <1>6, <1>7, <1>8 DEF MinorInv

(* A step that only takes values the program may see into its roots, or    *)
(* drops them.                                                             *)
LEMMA RootStep ==
  ASSUME MinorInv, Running, UNCHANGED <<heapVars, tableVars, minorVars>>,
         root' \in [RootSlots -> Value],
         NEW S, S \subseteq Addr, \A a \in S : InUse(a),
         Held \subseteq S \cup {Nil}, \A a \in S : Successors(a) \subseteq S \cup {Nil},
         \A r \in RootSlots : WithinYoung(root'[r]) /\ root'[r] \in S \cup {Nil}
  PROVE  MinorInv'
<1> USE DEF heapVars, tableVars, minorVars, Running
<1>1. TypeOK'
  BY DEF MinorInv, TypeOK
<1>2. TableInv'
  BY DEF MinorInv, TypeOK, TableInv
<1>3. CallsInv' /\ ForwardInv'
  BY DEF MinorInv, TypeOK, CallsInv, ForwardInv, InUse
<1>4. RecordedInv'
  BY DEF MinorInv, RecordedInv, Recorded, InUse, Is_young
<1>5. RootsInv'
  BY DEF RootsInv
<1>6. YoungInv'
  BY DEF MinorInv, YoungInv, WithinYoung, InUse, Is_young
<1>7. NoStale'
  <2>1. Held' \subseteq S \cup {Nil}
    BY <1>1, HeldIs DEF TypeOK, Held, Range
  <2>2. \A a \in S : InUse(a)'
    BY DEF InUse
  <2>3. \A a \in S : Successors(a)' \subseteq S \cup {Nil}
    BY SuccessorsSame
  <2> QED
    BY <2>1, <2>2, <2>3, ClosedNext
<1>8. InUse(Global)'
  BY DEF MinorInv, InUse
<1>e. EntriesInv'
  <2>1. (\A a \in Addr : InUse(a) => InUse(a)') /\ (pc' \in {"roots", "table"} => next' >= 1) /\ ref_table' = ref_table
    BY DEF InUse
  <2> QED
    BY <2>1, EntriesKept
<1> QED
  BY <1>e, <1>1, <1>2, <1>3, <1>4, <1>5, <1>6, <1>7, <1>8 DEF MinorInv

LEMMA PopStep ==
  ASSUME MinorInv, NEW r \in RootSlots, Pop(r)
  PROVE  MinorInv'
<1>1. PICK S \in SUBSET Addr : /\ \A a \in S : InUse(a)
                              /\ Held \subseteq S \cup {Nil}
                              /\ \A a \in S : Successors(a) \subseteq S \cup {Nil}
  BY ClosedNow DEF MinorInv
<1>2. root \in [RootSlots -> Value] /\ root' = [root EXCEPT ![r] = Nil] /\ Nil \in Value
  BY DEF MinorInv, TypeOK, Pop, Value
<1>3. \A q \in RootSlots : WithinYoung(root'[q]) /\ root'[q] \in S \cup {Nil}
  BY <1>1, <1>2, HeldIs, Addresses DEF MinorInv, YoungInv, WithinYoung, Is_young
<1> QED
  BY <1>1, <1>2, <1>3, RootStep DEF Pop

LEMMA LoadStep ==
  ASSUME MinorInv, NEW a \in Addr, NEW f \in Fields, Load(a, f)
  PROVE  MinorInv'
<1> DEFINE v == field[a][f]
<1>1. PICK S \in SUBSET Addr : /\ \A b \in S : InUse(b)
                              /\ Held \subseteq S \cup {Nil}
                              /\ \A b \in S : Successors(b) \subseteq S \cup {Nil}
  BY ClosedNow DEF MinorInv
<1>2. a \in S /\ v \in Value
  BY <1>1 DEF Load, MinorInv, TypeOK
<1>3. forwarded = {} /\ calls = << >>
  BY DEF Load, Running, MinorInv, ForwardInv, CallsInv
<1>4. v \in Contents(a, f)
  BY <1>3, ContentsHas
<1>5. v \in S \cup {Nil}
  BY <1>1, <1>2, <1>3, <1>4 DEF Successors
<1>6. WithinYoung(v)
  BY <1>1, <1>2 DEF MinorInv, YoungInv
<1>7. /\ root' \in [RootSlots -> Value]
      /\ \A r \in RootSlots : root'[r] = root[r] \/ root'[r] = v
  BY <1>2, HoldSlot DEF Load, MinorInv, TypeOK
<1>8. \A r \in RootSlots : WithinYoung(root'[r]) /\ root'[r] \in S \cup {Nil}
  BY <1>1, <1>5, <1>6, <1>7, HeldIs DEF MinorInv, YoungInv, TypeOK
<1> QED
  BY <1>1, <1>7, <1>8, RootStep DEF Load

LEMMA AllocStep ==
  ASSUME MinorInv, NEW init \in [Fields -> Held \cup {Nil}], Alloc_small(init)
  PROVE  MinorInv'
<1>0. PICK n : n = young_ptr + 1
  OBVIOUS
<1> USE DEF Alloc_small, tableVars, minorVars
<1>1. n \in YoungAddr /\ n \in Addr /\ n \notin OldAddr /\ n # Nil /\ n \in Value
  BY <1>0, Addresses DEF MinorInv, TypeOK, Room, YoungAddr, Value
<1>2. /\ forwarded = {} /\ calls = << >> /\ pc = "run"
      /\ NewId \in 0 .. NIds /\ NewId # Nil
  BY NewIdFree DEF Running, MinorInv, ForwardInv, CallsInv
<1>3. \A f \in Fields : init[f] \in Value /\ WithinYoung(init[f]) /\ init[f] \in Held \cup {Nil}
  BY HeldInUse, HeldIs, Addresses DEF MinorInv, TypeOK, Value, WithinYoung, Is_young
<1>4. /\ root' \in [RootSlots -> Value]
      /\ \A r \in RootSlots : root'[r] = root[r] \/ root'[r] = n
  BY <1>0, <1>1, HoldSlot DEF MinorInv, TypeOK
<1>5. /\ id' \in [Addr -> 0 .. NIds]
      /\ \A a \in Addr : InUse(a)' <=> a = n \/ InUse(a)
  BY <1>0, <1>1, <1>2 DEF MinorInv, TypeOK, InUse
<1>6. /\ young_ptr' = n /\ field' \in [Addr -> [Fields -> Value]] /\ field'[n] = init
      /\ \A a \in Addr : a # n => field'[a] = field[a]
  BY <1>0, <1>1, <1>3 DEF MinorInv, TypeOK
<1>7. TypeOK'
  BY <1>0, <1>1, <1>2, <1>4, <1>5, <1>6 DEF MinorInv, TypeOK, Room
<1>8. TableInv'
  BY DEF MinorInv, TypeOK, TableInv
<1>9. CallsInv' /\ ForwardInv'
  BY <1>2 DEF CallsInv, ForwardInv
<1>10. RecordedInv'
  <2> SUFFICES ASSUME NEW a \in OldAddr, NEW f \in Fields, InUse(a)', Is_young(field'[a][f])
               PROVE  Recorded(a, f)'
    BY DEF RecordedInv, Is_young
  <2>1. InUse(a) /\ field'[a][f] = field[a][f]
    BY <1>1, <1>5, <1>6, Addresses
  <2>2. Recorded(a, f)
    BY <1>2, <2>1 DEF MinorInv, RecordedInv
  <2> QED
    BY <1>2, <2>2 DEF Recorded
<1>11. RootsInv'
  BY <1>2 DEF RootsInv
<1>12. YoungInv'
  <2>1. \A a \in YoungAddr : a <= young_ptr' => InUse(a)'
    <3>1. \A a \in YoungAddr : a <= young_ptr' => a = n \/ a <= young_ptr
      BY <1>0, <1>6 DEF YoungAddr, MinorInv, TypeOK
    <3>2. \A a \in YoungAddr : a \in Addr /\ (a <= young_ptr => InUse(a))
      BY Addresses DEF MinorInv, YoungInv
    <3> QED
      BY <1>5, <3>1, <3>2, Zenon
  <2>2. \A v : WithinYoung(v) => WithinYoung(v)'
    BY <1>0, <1>6 DEF WithinYoung, Is_young, YoungAddr, MinorInv, TypeOK
  <2>3. WithinYoung(n)'
    BY <1>0, <1>6 DEF WithinYoung, MinorInv, TypeOK
  <2>4. \A r \in RootSlots : WithinYoung(root[r])'
    BY <1>4, <2>2, <2>3 DEF MinorInv, YoungInv
  <2>5. \A a \in Addr, f \in Fields : InUse(a)' => WithinYoung(field[a][f])'
    BY <1>3, <1>5, <1>6, <2>2 DEF MinorInv, YoungInv
  <2>6. \A a \in OldAddr : ~ InUse(a)' => field'[a] = Empty
    BY <1>1, <1>5, <1>6, Addresses DEF MinorInv, YoungInv
  <2> QED
    BY <1>2, <2>1, <2>4, <2>5, <2>6 DEF YoungInv, Empty
<1>13. NoStale'
  <2>1. PICK S \in SUBSET Addr : /\ \A a \in S : InUse(a)
                                /\ Held \subseteq S \cup {Nil}
                                /\ \A a \in S : Successors(a) \subseteq S \cup {Nil}
    BY ClosedNow DEF MinorInv
  <2> DEFINE T == S \cup {n}
  <2>2. Held' \subseteq T \cup {Nil}
    BY <1>4, <2>1, HeldIs DEF Held, Range, MinorInv, TypeOK
  <2>3. ASSUME NEW a \in T PROVE Successors(a)' \subseteq T \cup {Nil}
    <3>1. forwarded' = {} /\ calls' = << >> /\ a \in Addr
      BY <1>1, <1>2
    <3>2. \A f \in Fields : Contents(a, f)' = {field'[a][f]}
      BY <3>1 DEF Contents, Range
    <3>3. \A f \in Fields : a # n => field[a][f] \in Contents(a, f)
      BY <1>2, ContentsHas
    <3>4. \A f \in Fields : field'[a][f] \in T \cup {Nil}
      BY <1>2, <1>3, <1>6, <2>1, <3>1, <3>3 DEF Successors
    <3> QED
      BY <3>1, <3>2, <3>4 DEF Successors
  <2>4. T \subseteq Addr /\ \A a \in T : InUse(a)'
    BY <1>1, <1>5, <2>1
  <2> QED
    BY <2>2, <2>3, <2>4, ClosedNext
<1>14. InUse(Global)'
  BY <1>5, Addresses DEF MinorInv
<1>e. EntriesInv'
  <2>1. (\A a \in Addr : InUse(a) => InUse(a)') /\ (pc' \in {"roots", "table"} => next' >= 1) /\ ref_table' = ref_table
    BY <1>2, <1>5
  <2> QED
    BY <2>1, EntriesKept
<1> QED
  BY <1>e, <1>7, <1>8, <1>9, <1>10, <1>11, <1>12, <1>13, <1>14 DEF MinorInv

LEMMA MakeSharedStep ==
  ASSUME MinorInv, NEW init \in [Fields -> Held \cup {Nil}], MakeShared(init)
  PROVE  MinorInv'
<1> USE DEF MakeShared, tableVars, minorVars
<1>1. NewOld \in OldAddr /\ NewOld \in Addr /\ NewOld \notin YoungAddr /\ ~ InUse(NewOld) /\ NewOld # Nil
      /\ NewOld \in Value
  BY NewOldFree, Addresses DEF Value
<1>2. /\ forwarded = {} /\ calls = << >> /\ pc = "run"
      /\ NewId \in 0 .. NIds /\ NewId # Nil
  BY NewIdFree DEF Running, MinorInv, ForwardInv, CallsInv
<1>3. \A f \in Fields : init[f] \in Value /\ WithinYoung(init[f]) /\ init[f] \in Held \cup {Nil}
  BY HeldInUse, HeldIs, Addresses DEF MinorInv, TypeOK, Value, WithinYoung, Is_young
<1>4. /\ root' \in [RootSlots -> Value]
      /\ \A r \in RootSlots : root'[r] = root[r] \/ root'[r] = NewOld
  BY <1>1, HoldSlot DEF MinorInv, TypeOK
<1>5. /\ id' \in [Addr -> 0 .. NIds]
      /\ \A a \in Addr : InUse(a)' <=> a = NewOld \/ InUse(a)
  BY <1>1, <1>2 DEF MinorInv, TypeOK, InUse
<1>6. /\ calls' \in Seq(Slots \X Value) /\ DOMAIN calls' = Fields /\ calls' # << >>
      /\ \A i \in Fields : /\ calls'[i][1] = <<NewOld, NFields + 1 - i>>
                            /\ calls'[i][2] = init[NFields + 1 - i]
                            /\ NFields + 1 - i \in Fields
      /\ \A f \in Fields : \E i \in Fields : NFields + 1 - i = f
  <2>1. \A i \in Fields : NFields + 1 - i \in Fields /\ NFields + 1 - (NFields + 1 - i) = i
    BY DEF Fields
  <2>2. calls' \in [Fields -> Slots \X Value]
    BY <1>1, <1>3, <2>1, FieldSlot
  <2>3. calls' \in Seq(Slots \X Value) /\ DOMAIN calls' = Fields /\ Len(calls') = NFields
    BY <2>2, FieldSeq
  <2> QED
    BY <2>1, <2>3
<1>7. TypeOK'
  <2>1. force_minor_flag' \in BOOLEAN
    BY Zenon DEF MinorInv, TypeOK, AllocShrForces
  <2> QED
    BY <1>4, <1>5, <1>6, <2>1 DEF MinorInv, TypeOK
<1>8. TableInv'
  <2>1. force_minor_flag => force_minor_flag'
    BY Zenon DEF AllocShrForces
  <2> QED
    BY <1>2, <2>1 DEF MinorInv, TypeOK, TableInv
<1>9. CallsInv' /\ ForwardInv'
  BY <1>1, <1>2, <1>5, <1>6 DEF CallsInv, ForwardInv, Nil
<1>10. RecordedInv'
  <2> SUFFICES ASSUME NEW a \in OldAddr, NEW f \in Fields, InUse(a)', Is_young(field'[a][f])
               PROVE  Recorded(a, f)'
    BY DEF RecordedInv, Is_young
  <2>1. CASE a = NewOld
    BY <1>6, <2>1 DEF Recorded
  <2>2. CASE a # NewOld
    <3>1. InUse(a) /\ field'[a][f] = field[a][f]
      BY <1>5, <2>2, Addresses
    <3>2. Recorded(a, f)
      BY <1>2, <3>1 DEF MinorInv, RecordedInv
    <3> QED
      BY <1>2, <3>2 DEF Recorded
  <2> QED
    BY <2>1, <2>2
<1>11. RootsInv'
  BY DEF RootsInv
<1>12. YoungInv'
  <2>1. \A a \in YoungAddr : a <= young_ptr' => InUse(a)'
    BY <1>5, Addresses DEF MinorInv, YoungInv
  <2>2. WithinYoung(NewOld) /\ \A v : WithinYoung(v)' = WithinYoung(v)
    BY <1>1 DEF WithinYoung, Is_young
  <2>3. \A r \in RootSlots : WithinYoung(root'[r])
    BY <1>4, <2>2 DEF MinorInv, YoungInv
  <2>4. \A i \in DOMAIN calls' : WithinYoung(calls'[i][2])
    BY <1>3, <1>6
  <2>5. \A a \in Addr, f \in Fields : InUse(a)' => WithinYoung(field'[a][f])
    <3>1. field'[NewOld] = Empty /\ field' = field
      BY <1>1 DEF MinorInv, YoungInv
    <3>2. WithinYoung(Nil)
      BY Addresses DEF WithinYoung, Is_young, Nil
    <3> QED
      BY <1>5, <3>1, <3>2 DEF MinorInv, YoungInv, Empty
  <2>6. \A a \in OldAddr : ~ InUse(a)' => field'[a] = Empty
    BY <1>5, Addresses DEF MinorInv, YoungInv
  <2> QED
    BY <2>1, <2>2, <2>3, <2>4, <2>5, <2>6, Zenon DEF YoungInv, Empty
<1>13. NoStale'
  <2>1. PICK S \in SUBSET Addr : /\ \A a \in S : InUse(a)
                                /\ Held \subseteq S \cup {Nil}
                                /\ \A a \in S : Successors(a) \subseteq S \cup {Nil}
    BY ClosedNow DEF MinorInv
  <2> DEFINE T == S \cup {NewOld}
  <2>2. Held' \subseteq T \cup {Nil}
    BY <1>4, <2>1, HeldIs DEF Held, Range, MinorInv, TypeOK
  <2>3. ASSUME NEW a \in T, NEW f \in Fields, NEW v, v \in Contents(a, f)' PROVE v \in T \cup {Nil}
    <3>1. CASE a = NewOld
      <4>0. \/ \E i \in DOMAIN calls' : calls'[i][1] = <<a, f>> /\ calls'[i][2] = v
            \/ v = field'[a][f] /\ \A i \in DOMAIN calls' : calls'[i][1] # <<a, f>>
        BY <2>3, InContentsNext
      <4>1. PICK k \in Fields : v = calls'[k][2]
        BY <1>6, <3>1, <4>0
      <4> QED
        BY <1>3, <1>6, <2>1, <4>1
    <3>2. CASE a # NewOld
      <4>1. \A i \in DOMAIN calls' : calls'[i][1] # <<a, f>>
        BY <1>6, <3>2
      <4>3. v = field'[a][f] /\ field' = field
        <5>1. \/ \E i \in DOMAIN calls' : calls'[i][1] = <<a, f>> /\ calls'[i][2] = v
              \/ v = field'[a][f] /\ \A i \in DOMAIN calls' : calls'[i][1] # <<a, f>>
          BY <2>3, InContentsNext
        <5> QED
          BY <4>1, <5>1
      <4>2. field[a][f] \in Contents(a, f)
        BY <1>2, ContentsHas
      <4> QED
        BY <1>2, <2>1, <3>2, <4>3, <4>2 DEF Successors
    <3> QED
      BY <3>1, <3>2
  <2>4. \A a \in T : Successors(a)' \subseteq T \cup {Nil}
    BY <1>2, <2>3 DEF Successors
  <2>5. T \subseteq Addr /\ \A a \in T : InUse(a)'
    BY <1>1, <1>5, <2>1
  <2> QED
    BY <2>2, <2>4, <2>5, ClosedNext
<1>14. InUse(Global)'
  BY <1>5, Addresses DEF MinorInv
<1>e. EntriesInv'
  <2>1. (\A a \in Addr : InUse(a) => InUse(a)') /\ (pc' \in {"roots", "table"} => next' >= 1) /\ ref_table' = ref_table
    BY <1>5
  <2> QED
    BY <2>1, EntriesKept
<1> QED
  BY <1>e, <1>7, <1>8, <1>9, <1>10, <1>11, <1>12, <1>13, <1>14 DEF MinorInv

-----------------------------------------------------------------------------
(* The calls of initialize and oldify.                                     *)

(* What the next call is.                                                  *)
LEMMA HeadCall ==
  ASSUME MinorInv, calls # << >>
  PROVE  /\ Head(calls) = calls[1] /\ Head(calls)[1] \in Slots /\ Head(calls)[2] \in Value
         /\ 1 \in DOMAIN calls /\ Len(calls) \in Nat \ {0} /\ DOMAIN calls = 1 .. Len(calls)
         /\ Tail(calls) \in Seq(Slots \X Value) /\ DOMAIN Tail(calls) = 1 .. Len(calls) - 1
         /\ \A i \in 1 .. Len(calls) - 1 : Tail(calls)[i] = calls[i + 1]
         /\ \A i \in DOMAIN calls : i # 1 => i - 1 \in DOMAIN Tail(calls) /\ Tail(calls)[i - 1] = calls[i]
         /\ \A i \in DOMAIN Tail(calls) : i + 1 \in DOMAIN calls
         /\ Len(calls) = 1 <=> Tail(calls) = << >>
<1>1. calls \in Seq(Slots \X Value)
  BY DEF MinorInv, TypeOK
<1>2. /\ Len(calls) \in Nat \ {0} /\ DOMAIN calls = 1 .. Len(calls)
      /\ Head(calls) = calls[1] /\ Head(calls) \in Slots \X Value /\ 1 \in DOMAIN calls
      /\ Tail(calls) \in Seq(Slots \X Value) /\ DOMAIN Tail(calls) = 1 .. Len(calls) - 1
      /\ \A i \in 1 .. Len(calls) - 1 : Tail(calls)[i] = calls[i + 1]
  BY <1>1, HeadTail
<1>3. \A i \in DOMAIN calls : i # 1 => i - 1 \in DOMAIN Tail(calls) /\ Tail(calls)[i - 1] = calls[i]
  <2> TAKE i \in DOMAIN calls
  <2> HAVE i # 1
  <2>1. i - 1 \in 1 .. Len(calls) - 1 /\ i - 1 + 1 = i
    BY <1>2
  <2> QED
    BY <1>2, <2>1
<1>4. \A i \in DOMAIN Tail(calls) : i + 1 \in DOMAIN calls
  BY <1>2
<1>5. Len(calls) = 1 <=> Tail(calls) = << >>
  <2>1. Len(Tail(calls)) = Len(calls) - 1
    BY <1>1, <1>2
  <2> QED
    <3>1. Tail(calls) = << >> <=> Len(Tail(calls)) = 0
      BY <1>2, EmptySeq, Zenon
    <3>2. Len(calls) = 1 <=> Len(Tail(calls)) = 0
      BY <1>2, <2>1
    <3> QED
      BY <3>1, <3>2, Zenon
<1> QED
  BY <1>2, <1>3, <1>4, <1>5

(* The call that was made is gone, and others may have come that do not    *)
(* fill this field.                                                        *)
LEMMA ContentsStep ==
  ASSUME NEW a, NEW f, NEW p, NEW v,
         1 \in DOMAIN calls, calls[1][1] = p, calls[1][2] = v,
         \A i \in DOMAIN calls' : calls'[i][1] = <<a, f>> => \E k \in DOMAIN calls : calls[k] = calls'[i],
         \A k \in DOMAIN calls : k # 1 /\ calls[k][1] = <<a, f>> => \E i \in DOMAIN calls' : calls'[i] = calls[k],
         p # <<a, f>> => field'[a][f] = field[a][f],
         NEW w, w \in Contents(a, f)'
  PROVE  w \in Contents(a, f) \/ (p = <<a, f>> /\ v \in Contents(a, f) /\ w = field'[a][f])
<1>1. \/ \E i \in DOMAIN calls' : calls'[i][1] = <<a, f>> /\ calls'[i][2] = w
      \/ w = field'[a][f] /\ \A i \in DOMAIN calls' : calls'[i][1] # <<a, f>>
  BY InContentsNext
<1>2. /\ \A i \in DOMAIN calls : calls[i][1] = <<a, f>> => calls[i][2] \in Contents(a, f)
      /\ (\A i \in DOMAIN calls : calls[i][1] # <<a, f>>) => field[a][f] \in Contents(a, f)
  BY ContentsHas
<1>3. CASE \E i \in DOMAIN calls' : calls'[i][1] = <<a, f>> /\ calls'[i][2] = w
  BY <1>2, <1>3
<1>4. CASE w = field'[a][f] /\ \A i \in DOMAIN calls' : calls'[i][1] # <<a, f>>
  <2>1. \A k \in DOMAIN calls : k # 1 => calls[k][1] # <<a, f>>
    BY <1>4
  <2>2. CASE p = <<a, f>>
    BY <1>2, <1>4, <2>2
  <2>3. CASE p # <<a, f>>
    BY <1>2, <1>4, <2>1, <2>3
  <2> QED
    BY <2>2, <2>3
<1> QED
  BY <1>1, <1>3, <1>4

(* A value is stored that the call was given, or the copy of the block it  *)
(* was given.                                                              *)
LEMMA StoreClosed ==
  ASSUME MinorInv, calls # << >>,
         NEW p, NEW v, p = Head(calls)[1], v = Head(calls)[2],
         NEW w \in Value, w = v \/ (v \in forwarded /\ w = field[v][1]),
         field' = Stored(field, p, w), Store(p, w), calls' = Tail(calls),
         UNCHANGED <<id, forwarded>>
  PROVE  NoStale'
<1>1. PICK S \in SUBSET Addr : /\ \A a \in S : InUse(a)
                              /\ Held \subseteq S \cup {Nil}
                              /\ \A a \in S : Successors(a) \subseteq S \cup {Nil}
  BY ClosedNow DEF MinorInv
<1>2. p \in Slots /\ v \in Value /\ 1 \in DOMAIN calls /\ calls[1][1] = p /\ calls[1][2] = v
  BY HeadCall
<1>3. /\ \A b \in Addr, e \in Fields : field'[b][e] = IF p = <<b, e>> THEN w ELSE field[b][e]
      /\ \A r \in RootSlots : root'[r] = IF p = <<0, r>> THEN w ELSE root[r]
      /\ root' \in [RootSlots -> Value]
  BY <1>2, StoreSlot DEF MinorInv, TypeOK
<1>4. v \in S \cup {Nil} => w \in S \cup {Nil}
  BY <1>1, Addresses DEF Successors, MinorInv, TypeOK
<1>5. Held' \subseteq S \cup {Nil}
  <2>1. ASSUME NEW r \in RootSlots PROVE root'[r] \in S \cup {Nil}
    <3>1. CASE p = <<0, r>>
      <4>1. v = root[r]
        BY <1>2, <3>1 DEF MinorInv, CallsInv
      <4> QED
        BY <1>1, <1>3, <1>4, <3>1, <4>1, HeldIs DEF MinorInv, TypeOK
    <3>2. CASE p # <<0, r>>
      BY <1>1, <1>3, <3>2, HeldIs DEF MinorInv, TypeOK
    <3> QED
      BY <3>1, <3>2
  <2> QED
    BY <1>1, <1>3, <2>1 DEF Held, Range
<1>6. ASSUME NEW a \in S, NEW f \in Fields, a \notin forwarded, NEW u, u \in Contents(a, f)'
      PROVE  u \in S \cup {Nil}
  <2>1. \A i \in DOMAIN calls' : \E k \in DOMAIN calls : calls[k] = calls'[i]
    BY HeadCall
  <2>2. \A k \in DOMAIN calls : k # 1 => \E i \in DOMAIN calls' : calls'[i] = calls[k]
    BY HeadCall
  <2>3. p # <<a, f>> => field'[a][f] = field[a][f]
    BY <1>3
  <2>4. u \in Contents(a, f) \/ (p = <<a, f>> /\ v \in Contents(a, f) /\ u = field'[a][f])
    BY ZenonT(40), <1>2, <1>6, <2>1, <2>2, <2>3, ContentsStep
  <2>5. Contents(a, f) \subseteq S \cup {Nil}
    BY <1>1, <1>6 DEF Successors
  <2> QED
    BY <1>3, <1>4, <2>4, <2>5
<1>7. ASSUME NEW a \in S PROVE Successors(a)' \subseteq S \cup {Nil}
  <2>1. CASE a \in forwarded
    <3>1. a \in YoungAddr /\ 1 \in Fields /\ a \in Addr /\ p # <<a, 1>>
      BY <1>2, <2>1, SlotType, Addresses DEF MinorInv, TypeOK, Fields
    <3>2. field'[a][1] = field[a][1]
      BY <1>3, <3>1
    <3> QED
      BY <1>1, <2>1, <3>2 DEF Successors
  <2>2. CASE a \notin forwarded
    BY <1>6, <2>2 DEF Successors
  <2> QED
    BY <2>1, <2>2
<1>8. \A a \in S : InUse(a)'
  BY <1>1 DEF InUse
<1> QED
  BY <1>5, <1>7, <1>8, ClosedNext

(* A field is recorded: what the table held it still holds.                *)
LEMMA RecordStep ==
  ASSUME TypeOK, TableInv, NEW p \in OldAddr \X Fields,
         LET t == Record(Table, p) IN TableBecomes(t, t.force),
         pc' \in {"run", "init"} => pc \in {"run", "init"}
  PROVE  /\ TableInv'
         /\ ref_table' \in Seq(OldAddr \X Fields)
         /\ ref_table_limit' \in Nat /\ ref_table_end' \in Nat /\ force_minor_flag' \in BOOLEAN
         /\ \A i \in DOMAIN ref_table : i \in DOMAIN ref_table' /\ ref_table'[i] = ref_table[i]
         /\ \E i \in DOMAIN ref_table' : ref_table'[i] = p
         /\ \A i \in DOMAIN ref_table' : ref_table'[i] = p \/ \E k \in DOMAIN ref_table : ref_table'[i] = ref_table[k]
<1>1. /\ TableInv'
      /\ ref_table' = Append(ref_table, p)
      /\ ref_table_limit' \in Nat /\ ref_table_end' \in Nat /\ force_minor_flag' \in BOOLEAN
  BY RecordRoom, Zenon DEF TableBecomes
<1>2. ref_table \in Seq(OldAddr \X Fields)
  BY DEF TypeOK
<1> QED
  BY <1>1, <1>2, AppendSeq

LEMMA InitializeStep ==
  ASSUME MinorInv, initialize
  PROVE  MinorInv'
<1> DEFINE p == Head(calls)[1]
           v == Head(calls)[2]
<1> USE DEF initialize, tableVars
<1>1. /\ calls # << >> /\ forwarded = {} /\ pc = "init" /\ p \in Slots /\ v \in Value
      /\ calls' = Tail(calls) /\ calls' \in Seq(Slots \X Value) /\ DOMAIN calls' = 1 .. Len(calls) - 1
      /\ calls[1][1] = p /\ calls[1][2] = v /\ DOMAIN calls = 1 .. Len(calls) /\ Len(calls) \in Nat \ {0}
      /\ \A i \in DOMAIN calls' : i + 1 \in DOMAIN calls /\ calls'[i] = calls[i + 1]
      /\ \A i \in DOMAIN calls : i # 1 => i - 1 \in DOMAIN calls' /\ calls'[i - 1] = calls[i]
      /\ (pc' = "run" /\ calls' = << >>) \/ (pc' = "init" /\ calls' # << >>)
  BY HeadCall DEF MinorInv, CallsInv, ForwardInv
<1>2. /\ p = <<p[1], p[2]>> /\ p[1] # 0 /\ p[1] \in OldAddr /\ p[1] \in Addr /\ p[2] \in Fields
      /\ InUse(p[1]) /\ WithinYoung(v)
  BY <1>1, SlotType DEF MinorInv, CallsInv, YoungInv
<1> HIDE DEF p, v
<1>3. field' = Stored(field, p, v) /\ Store(p, v)
  BY <1>2 DEF Stored, Store, p, v
<1>4. /\ field' \in [Addr -> [Fields -> Value]]
      /\ \A b \in Addr, e \in Fields : field'[b][e] = IF p = <<b, e>> THEN v ELSE field[b][e]
      /\ \A b \in Addr : b # p[1] => field'[b] = field[b]
  <2>1. field \in [Addr -> [Fields -> Value]] /\ root \in [RootSlots -> Value]
    BY DEF MinorInv, TypeOK
  <2>2. /\ Stored(field, p, v) \in [Addr -> [Fields -> Value]]
        /\ \A b \in Addr, e \in Fields :
             Stored(field, p, v)[b][e] = IF p = <<b, e>> THEN v ELSE field[b][e]
    BY <1>1, <1>3, <2>1, StoreSlot
  <2>3. \A b \in Addr : b # p[1] => field'[b] = field[b]
    BY <1>3, <2>1 DEF Stored
  <2> QED
    <3>1. field' \in [Addr -> [Fields -> Value]]
      BY <1>3, <2>2, Zenon
    <3>2. ASSUME NEW b \in Addr, NEW e \in Fields PROVE field'[b][e] = IF p = <<b, e>> THEN v ELSE field[b][e]
      BY <1>3, <2>2
    <3> QED
      BY <2>3, <3>1, <3>2
<1>5. /\ ref_table' \in Seq(OldAddr \X Fields)
      /\ ref_table_limit' \in Nat /\ ref_table_end' \in Nat /\ force_minor_flag' \in BOOLEAN
      /\ TableInv'
      /\ \A i \in DOMAIN ref_table : i \in DOMAIN ref_table' /\ ref_table'[i] = ref_table[i]
      /\ Is_young(v) => \E i \in DOMAIN ref_table' : ref_table'[i] = p
      /\ \A i \in DOMAIN ref_table' : ref_table'[i] = p \/ \E k \in DOMAIN ref_table : ref_table'[i] = ref_table[k]
  <2>1. p \in OldAddr \X Fields
    BY <1>2
  <2>2. CASE Is_young(v)
    <3>1. LET t == Record(Table, p) IN TableBecomes(t, t.force)
      BY <2>2 DEF p, v
    <3> QED
      BY <1>1, <2>1, <3>1, RecordStep DEF MinorInv
  <2>3. CASE ~ Is_young(v)
    <3>1. UNCHANGED tableVars
      BY <2>3 DEF p, v
    <3> QED
      BY <1>1, <2>3, <3>1 DEF MinorInv, TypeOK, TableInv
  <2> QED
    BY <2>2, <2>3
<1>6. TypeOK'
  BY <1>1, <1>4, <1>5 DEF MinorInv, TypeOK
<1>7. CallsInv' /\ ForwardInv'
  <2>1. \A i \in DOMAIN calls' : calls'[i][1][1] # 0 /\ InUse(calls'[i][1][1])
    BY <1>1 DEF MinorInv, CallsInv
  <2>2. CallsInv'
    BY <1>1, <2>1 DEF CallsInv, InUse
  <2> QED
    BY <1>1, <2>2 DEF ForwardInv
<1>8. RecordedInv'
  <2> SUFFICES ASSUME NEW a \in OldAddr, NEW f \in Fields, InUse(a)', Is_young(field'[a][f])
               PROVE  Recorded(a, f)'
    BY DEF RecordedInv, Is_young
  <2>1. CASE p = <<a, f>>
    BY ZenonT(40), <1>1, <1>4, <1>5, <2>1, Addresses DEF Recorded
  <2>2. CASE p # <<a, f>>
    <3>1. InUse(a) /\ field'[a][f] = field[a][f]
      BY <1>4, <2>2, Addresses DEF InUse
    <3>2. Recorded(a, f)
      BY <1>1, <3>1 DEF MinorInv, RecordedInv
    <3>3. CASE \E i \in DOMAIN ref_table : ref_table[i] = <<a, f>>
      BY <1>1, <1>5, <3>3 DEF Recorded
    <3>4. CASE \E i \in DOMAIN calls : calls[i][1] = <<a, f>>
      <4>1. PICK i \in DOMAIN calls : i # 1 /\ calls[i][1] = <<a, f>>
        BY <1>1, <2>2, <3>4
      <4>2. i - 1 \in DOMAIN calls' /\ calls'[i - 1][1] = <<a, f>>
        BY <1>1, <4>1
      <4> QED
        BY <4>2 DEF Recorded
    <3> QED
      BY <3>2, <3>3, <3>4 DEF Recorded
  <2> QED
    BY <2>1, <2>2
<1>9. RootsInv'
  BY <1>1 DEF RootsInv
<1>10. YoungInv'
  <2>1. \A u : WithinYoung(u)' = WithinYoung(u)
    BY DEF WithinYoung, Is_young
  <2>2. \A a : InUse(a)' = InUse(a)
    BY DEF InUse
  <2>3. \A a \in Addr, f \in Fields : InUse(a) => WithinYoung(field'[a][f])
    BY <1>2, <1>4 DEF MinorInv, YoungInv
  <2>4. \A a \in OldAddr : ~ InUse(a) => field'[a] = Empty
    BY <1>2, <1>4, Addresses DEF MinorInv, YoungInv
  <2>5. \A i \in DOMAIN calls' : WithinYoung(calls'[i][2])
    BY <1>1 DEF MinorInv, YoungInv
  <2>6. /\ \A a \in YoungAddr : a <= young_ptr' => InUse(a)
        /\ \A r \in RootSlots : WithinYoung(root'[r])
    BY DEF MinorInv, YoungInv
  <2> QED
    BY <2>1, <2>2, <2>3, <2>4, <2>5, <2>6, Zenon DEF YoungInv, Empty
<1>11. NoStale'
  <2>1. p = Head(calls)[1] /\ v = Head(calls)[2]
    BY DEF p, v
  <2> QED
    BY <1>1, <1>3, <2>1, StoreClosed
<1>12. InUse(Global)'
  BY DEF MinorInv, InUse
<1>e. EntriesInv'
  <2>1. \A i \in DOMAIN ref_table' : InUse(ref_table'[i][1])
    BY <1>2, <1>5 DEF MinorInv, EntriesInv
  <2> QED
    BY <1>1, <2>1 DEF EntriesInv, Collecting, InUse
<1> QED
  BY <1>e, <1>5, <1>6, <1>7, <1>8, <1>9, <1>10, <1>11, <1>12 DEF MinorInv

(* A call of oldify that only stores: a value that is not young.           *)
LEMMA OldifyStoreStep ==
  ASSUME MinorInv, calls # << >>, Collecting,
         NEW p, NEW v, p = Head(calls)[1], v = Head(calls)[2],
         NEW w \in Value, ~ Is_young(w), w = v \/ (v \in forwarded /\ w = field[v][1]),
         field' = Stored(field, p, w), Store(p, w), calls' = Tail(calls),
         UNCHANGED <<young_ptr, id, forwarded, tableVars, pc, next>>
  PROVE  MinorInv'
<1> USE DEF Collecting, tableVars
<1>1. /\ p \in Slots /\ v \in Value
      /\ calls' \in Seq(Slots \X Value) /\ DOMAIN calls' = 1 .. Len(calls) - 1
      /\ calls[1][1] = p /\ calls[1][2] = v /\ DOMAIN calls = 1 .. Len(calls) /\ Len(calls) \in Nat \ {0}
      /\ \A i \in DOMAIN calls' : i + 1 \in DOMAIN calls /\ calls'[i] = calls[i + 1]
      /\ \A i \in DOMAIN calls : i # 1 => i - 1 \in DOMAIN calls' /\ calls'[i - 1] = calls[i]
  BY HeadCall
<1>2. p[1] # 0 => p[1] \in OldAddr /\ InUse(p[1])
  BY <1>1, SlotType DEF MinorInv, CallsInv
<1>3. /\ field' \in [Addr -> [Fields -> Value]]
      /\ \A b \in Addr, e \in Fields : field'[b][e] = IF p = <<b, e>> THEN w ELSE field[b][e]
      /\ root' \in [RootSlots -> Value]
      /\ \A r \in RootSlots : root'[r] = IF p = <<0, r>> THEN w ELSE root[r]
  <2>1. field \in [Addr -> [Fields -> Value]] /\ root \in [RootSlots -> Value]
    BY DEF MinorInv, TypeOK
  <2>2. /\ Stored(field, p, w) \in [Addr -> [Fields -> Value]]
        /\ \A b \in Addr, e \in Fields :
             Stored(field, p, w)[b][e] = IF p = <<b, e>> THEN w ELSE field[b][e]
        /\ root' \in [RootSlots -> Value]
        /\ \A r \in RootSlots : root'[r] = IF p = <<0, r>> THEN w ELSE root[r]
    BY SMTT(30), <1>1, <2>1, StoreSlot
  <2> QED
    BY <2>2, Zenon
<1>4. \A b \in Addr : b # p[1] => field'[b] = field[b]
  BY DEF MinorInv, TypeOK, Stored
<1>5. TypeOK'
  BY <1>1, <1>3 DEF MinorInv, TypeOK
<1>6. TableInv'
  BY DEF MinorInv, TypeOK, TableInv
<1>7. CallsInv'
  <2>1. \A i \in DOMAIN calls' : calls'[i][1][1] # 0 /\ InUse(calls'[i][1][1])
    BY <1>1 DEF MinorInv, CallsInv
  <2> QED
    BY <2>1 DEF CallsInv, InUse
<1>8. ForwardInv'
  <2>1. \A u \in forwarded : field'[u][1] = field[u][1]
    BY <1>1, <1>3, SlotType, Addresses DEF MinorInv, TypeOK, Fields
  <2> QED
    BY <2>1 DEF MinorInv, ForwardInv
<1>9. RecordedInv'
  <2> SUFFICES ASSUME NEW a \in OldAddr, NEW f \in Fields, InUse(a)', Is_young(field'[a][f])
               PROVE  Recorded(a, f)'
    BY DEF RecordedInv, Is_young
  <2>1. p # <<a, f>> /\ InUse(a) /\ field'[a][f] = field[a][f]
    BY <1>3, Addresses DEF InUse
  <2>2. Recorded(a, f)
    BY <2>1 DEF MinorInv, RecordedInv
  <2>3. CASE \E i \in DOMAIN ref_table : ref_table[i] = <<a, f>> /\ (pc = "table" => i >= next)
    BY <2>3 DEF Recorded
  <2>4. CASE \E i \in DOMAIN calls : calls[i][1] = <<a, f>>
    <3>1. PICK i \in DOMAIN calls : i # 1 /\ calls[i][1] = <<a, f>>
      BY <1>1, <2>1, <2>4
    <3>2. i - 1 \in DOMAIN calls' /\ calls'[i - 1][1] = <<a, f>>
      BY <1>1, <3>1
    <3> QED
      BY <3>2 DEF Recorded
  <2> QED
    BY <2>2, <2>3, <2>4 DEF Recorded
<1>10. RootsInv'
  <2> SUFFICES ASSUME NEW r \in RootSlots, Is_young(root'[r])
               PROVE  /\ pc' = "roots" => r >= next' \/ \E i \in DOMAIN calls' : calls'[i][1] = <<0, r>>
                      /\ pc' # "table"
    BY DEF RootsInv, Is_young
  <2>1. p # <<0, r>> /\ root'[r] = root[r]
    BY <1>3
  <2>2. pc # "table"
    BY <2>1 DEF MinorInv, RootsInv
  <2>3. \A i \in DOMAIN calls : calls[i][1] = <<0, r>> => i - 1 \in DOMAIN calls' /\ calls'[i - 1][1] = <<0, r>>
    BY <1>1, <2>1
  <2>4. r >= next \/ \E i \in DOMAIN calls : calls[i][1] = <<0, r>>
    BY <2>1, <2>2 DEF MinorInv, RootsInv
  <2> QED
    BY <2>2, <2>3, <2>4
<1>11. YoungInv'
  <2>1. \A u : WithinYoung(u)' = WithinYoung(u)
    BY DEF WithinYoung, Is_young
  <2>2. \A a : InUse(a)' = InUse(a)
    BY DEF InUse
  <2>3. WithinYoung(w)
    BY DEF WithinYoung
  <2>4. \A a \in Addr, f \in Fields : InUse(a) => WithinYoung(field'[a][f])
    BY <1>3, <2>3 DEF MinorInv, YoungInv
  <2>5. \A a \in OldAddr : ~ InUse(a) => field'[a] = Empty
    <3>1. \A a \in OldAddr : a \in Addr /\ a # 0
      BY Addresses DEF Nil
    <3> QED
      BY <1>2, <1>4, <3>1 DEF MinorInv, YoungInv
  <2>6. \A i \in DOMAIN calls' : WithinYoung(calls'[i][2])
    BY <1>1 DEF MinorInv, YoungInv
  <2>7. /\ \A a \in YoungAddr : a <= young_ptr' => InUse(a)
        /\ \A r \in RootSlots : WithinYoung(root'[r])
    BY <1>3, <2>3 DEF MinorInv, YoungInv
  <2> QED
    BY <2>1, <2>2, <2>4, <2>5, <2>6, <2>7, Zenon DEF YoungInv, Empty
<1>12. NoStale'
  BY StoreClosed
<1>13. InUse(Global)'
  BY DEF MinorInv, InUse
<1>e. EntriesInv'
  <2>1. (\A a \in Addr : InUse(a) => InUse(a)') /\ (pc' \in {"roots", "table"} => next' >= 1) /\ ref_table' = ref_table
    BY DEF InUse, MinorInv, EntriesInv
  <2> QED
    BY <2>1, EntriesKept
<1> QED
  BY <1>e, <1>5, <1>6, <1>7, <1>8, <1>9, <1>10, <1>11, <1>12, <1>13 DEF MinorInv

(* A young block is moved: its fields are what is to be done next.         *)
LEMMA OldifyCopyStep ==
  ASSUME MinorInv, calls # << >>, Collecting,
         NEW p, NEW v, p = Head(calls)[1], v = Head(calls)[2], OldifyCopy(p, v)
  PROVE  MinorInv'
<1>0. PICK n : n = NewOld
  OBVIOUS
<1>1. /\ v \in YoungAddr /\ v \notin forwarded /\ FreeOld # {} /\ n = NewOld
      /\ id' = [id EXCEPT ![n] = id[v]]
      /\ field' = [Stored(field, p, n) EXCEPT ![v][1] = n]
      /\ Store(p, n) /\ calls' = FieldsToCopy(v, n) \o Tail(calls)
      /\ forwarded' = forwarded \cup {v}
      /\ young_ptr' = young_ptr /\ ref_table' = ref_table
      /\ ref_table_limit' = ref_table_limit /\ ref_table_end' = ref_table_end
      /\ pc' = pc /\ next' = next /\ pc \in {"roots", "table"}
  BY <1>0 DEF OldifyCopy, MarkForwarded, Is_young, Collecting
<1>2. n \in OldAddr /\ n \in Addr /\ n \notin YoungAddr /\ ~ InUse(n) /\ n # Nil /\ n \in Value
  BY <1>1, NewOldFree, Addresses DEF Value
<1>3. /\ p \in Slots /\ v \in YoungAddr /\ v \in Addr /\ v \notin OldAddr /\ v \in Value
      /\ calls[1][1] = p /\ calls[1][2] = v /\ DOMAIN calls = 1 .. Len(calls) /\ Len(calls) \in Nat \ {0}
  BY <1>1, HeadCall, Addresses
<1>4. InUse(v) /\ v <= young_ptr
  BY <1>3 DEF MinorInv, YoungInv, WithinYoung, Is_young
<1>5. p[1] # 0 => p[1] \in OldAddr /\ InUse(p[1])
  BY <1>3, SlotType DEF MinorInv, CallsInv
<1>6. /\ id' \in [Addr -> 0 .. NIds]
      /\ \A a \in Addr : InUse(a)' <=> a = n \/ InUse(a)
  BY <1>1, <1>2, <1>3, <1>4 DEF MinorInv, TypeOK, InUse
<1>7. /\ field' \in [Addr -> [Fields -> Value]]
      /\ \A b \in OldAddr, e \in Fields : field'[b][e] = IF p = <<b, e>> THEN n ELSE field[b][e]
      /\ \A b \in YoungAddr, e \in Fields : b # v \/ e # 1 => field'[b][e] = field[b][e]
      /\ field'[v][1] = n
      /\ root' \in [RootSlots -> Value]
      /\ \A r \in RootSlots : root'[r] = IF p = <<0, r>> THEN n ELSE root[r]
  <2>1. field \in [Addr -> [Fields -> Value]] /\ root \in [RootSlots -> Value] /\ 1 \in Fields
    BY DEF MinorInv, TypeOK, Fields
  <2> DEFINE g == Stored(field, p, n)
  <2>2. /\ g \in [Addr -> [Fields -> Value]]
        /\ \A b \in Addr, e \in Fields : g[b][e] = IF p = <<b, e>> THEN n ELSE field[b][e]
        /\ root' \in [RootSlots -> Value]
        /\ \A r \in RootSlots : root'[r] = IF p = <<0, r>> THEN n ELSE root[r]
    BY ZenonT(40), <1>1, <1>2, <1>3, <2>1, StoreSlot
  <2>3. field' = [g EXCEPT ![v][1] = n]
    BY <1>1
  <2> HIDE DEF g
  <2>4. /\ field' \in [Addr -> [Fields -> Value]] /\ field'[v][1] = n
        /\ \A b \in Addr, e \in Fields : <<b, e>> # <<v, 1>> => field'[b][e] = g[b][e]
    BY <1>2, <1>3, <2>1, <2>2, <2>3, SetField
  <2>5. \A b \in YoungAddr, e \in Fields : p # <<b, e>>
    BY <1>3, SlotType, Addresses DEF Nil
  <2>6. \A b \in OldAddr, e \in Fields : field'[b][e] = IF p = <<b, e>> THEN n ELSE field[b][e]
    BY <1>3, <2>2, <2>4, Addresses
  <2>7. \A b \in YoungAddr, e \in Fields : b # v \/ e # 1 => field'[b][e] = field[b][e]
    BY <2>2, <2>4, <2>5, Addresses
  <2> QED
    BY <2>2, <2>4, <2>6, <2>7
<1>8. \A b \in OldAddr : b # p[1] => field'[b] = field[b]
  BY <1>1, <1>3, Addresses DEF MinorInv, TypeOK, Stored
(* The calls: those on the fields of the copy, and those that were left.   *)
<1>9. /\ calls' \in Seq(Slots \X Value)
      /\ \A f \in Fields : /\ f \in DOMAIN calls' /\ calls'[f][1] = <<n, f>> /\ calls'[f][2] = field[v][f]
      /\ \A k \in DOMAIN calls : k # 1 => \E i \in DOMAIN calls' : calls'[i] = calls[k]
      /\ \A i \in DOMAIN calls' :
           \/ \E f \in Fields : calls'[i][1] = <<n, f>> /\ calls'[i][2] = field[v][f]
           \/ \E k \in DOMAIN calls : k # 1 /\ calls'[i] = calls[k]
  <2> DEFINE new == FieldsToCopy(v, n)
  <2>1. /\ new \in [Fields -> Slots \X Value]
        /\ \A f \in Fields : new[f][1] = <<n, f>> /\ new[f][2] = field[v][f]
    BY <1>2, <1>3, FieldSlot DEF FieldsToCopy, MinorInv, TypeOK
  <2>2. Replaced(calls', new, calls) /\ calls \in Seq(Slots \X Value)
    BY <1>1 DEF MinorInv, TypeOK, Replaced
  <2> HIDE DEF new
  <2>3. new \in Seq(Slots \X Value) /\ 1 .. Len(new) = Fields
    BY <2>1, FieldSeq DEF Fields
  <2>5. /\ calls' \in Seq(Slots \X Value)
        /\ \A f \in 1 .. Len(new) : f \in DOMAIN calls' /\ calls'[f] = new[f]
        /\ \A k \in DOMAIN calls : k # 1 => \E i \in DOMAIN calls' : calls'[i] = calls[k]
        /\ \A i \in DOMAIN calls' : \/ \E f \in 1 .. Len(new) : calls'[i] = new[f]
                                   \/ \E k \in DOMAIN calls : k # 1 /\ calls'[i] = calls[k]
    <3>1. PICK C : C = Slots \X Value
      OBVIOUS
    <3>2. calls \in Seq(C) /\ new \in Seq(C)
      BY <2>2, <2>3, <3>1
    <3>3. /\ calls' \in Seq(C)
          /\ \A f \in 1 .. Len(new) : f \in DOMAIN calls' /\ calls'[f] = new[f]
          /\ \A k \in DOMAIN calls : k # 1 => \E i \in DOMAIN calls' : calls'[i] = calls[k]
          /\ \A i \in DOMAIN calls' : \/ \E f \in 1 .. Len(new) : calls'[i] = new[f]
                                     \/ \E k \in DOMAIN calls : k # 1 /\ calls'[i] = calls[k]
      BY <2>2, <3>2, HeadReplaced
    <3> QED
      BY <3>1, <3>3
  <2>4. /\ calls' \in Seq(Slots \X Value)
        /\ \A f \in Fields : f \in DOMAIN calls' /\ calls'[f] = new[f]
        /\ \A k \in DOMAIN calls : k # 1 => \E i \in DOMAIN calls' : calls'[i] = calls[k]
        /\ \A i \in DOMAIN calls' : \/ \E f \in Fields : calls'[i] = new[f]
                                   \/ \E k \in DOMAIN calls : k # 1 /\ calls'[i] = calls[k]
    BY <2>3, <2>5, Zenon
  <2>6. ASSUME NEW f \in Fields
        PROVE  f \in DOMAIN calls' /\ calls'[f][1] = <<n, f>> /\ calls'[f][2] = field[v][f]
    BY <2>1, <2>4
  <2>7. ASSUME NEW i \in DOMAIN calls'
        PROVE  \/ \E f \in Fields : calls'[i][1] = <<n, f>> /\ calls'[i][2] = field[v][f]
               \/ \E k \in DOMAIN calls : k # 1 /\ calls'[i] = calls[k]
    BY <2>1, <2>4
  <2> QED
    BY <2>4, <2>6, <2>7, Zenon
<1>10. TypeOK'
  <2>1. force_minor_flag' \in BOOLEAN
    BY Zenon DEF MinorInv, TypeOK, AllocShrForces, OldifyCopy
  <2> QED
    BY <1>1, <1>3, <1>6, <1>7, <1>9, <2>1 DEF MinorInv, TypeOK
<1>11. TableInv'
  BY <1>1 DEF MinorInv, TypeOK, TableInv
<1>12. CallsInv'
  <2>1. \A i \in DOMAIN calls' : calls'[i][1][1] # 0 /\ InUse(calls[i][1][1])'
    <3> TAKE i \in DOMAIN calls'
    <3>1. CASE \E f \in Fields : calls'[i][1] = <<n, f>>
      BY <1>2, <1>6, <3>1 DEF Nil
    <3>2. CASE \E k \in DOMAIN calls : k # 1 /\ calls'[i] = calls[k]
      <4>1. PICK k \in DOMAIN calls : k # 1 /\ calls'[i] = calls[k]
        BY <3>2
      <4>2. Len(calls) # 1
        BY <1>3, <4>1
      <4>3. calls[k][1][1] # 0 /\ InUse(calls[k][1][1])
        BY <4>1, <4>2 DEF MinorInv, CallsInv
      <4>4. calls[k][1][1] \in Addr
        BY <4>3, SlotType DEF MinorInv, TypeOK
      <4> QED
        BY <1>6, <4>1, <4>3, <4>4
    <3> QED
      BY <1>9, <3>1, <3>2
  <2> QED
    BY <1>1, <2>1 DEF CallsInv, InUse
<1>13. ForwardInv'
  <2>1. ASSUME NEW u \in forwarded' PROVE field'[u][1] \in OldAddr
    <3>1. CASE u = v
      BY <1>2, <1>7, <3>1
    <3>2. CASE u # v
      <4>1. u \in forwarded /\ u \in YoungAddr /\ 1 \in Fields
        BY <1>1, <3>2 DEF MinorInv, TypeOK, Fields
      <4> QED
        BY <1>7, <3>2, <4>1 DEF MinorInv, ForwardInv
    <3> QED
      BY <3>1, <3>2
  <2> QED
    BY <1>1, <2>1 DEF ForwardInv
<1>14. RecordedInv'
  <2> SUFFICES ASSUME NEW a \in OldAddr, NEW f \in Fields, InUse(a)', Is_young(field'[a][f])
               PROVE  Recorded(a, f)'
    BY <1>1 DEF RecordedInv, Is_young
  <2>1. CASE a = n
    BY <1>9, <2>1 DEF Recorded
  <2>2. CASE a # n
    <3>1. p # <<a, f>> /\ InUse(a) /\ field'[a][f] = field[a][f]
      BY <1>2, <1>6, <1>7, <2>2, Addresses DEF Is_young
    <3>2. Recorded(a, f)
      BY <1>1, <3>1 DEF MinorInv, RecordedInv
    <3>3. CASE \E i \in DOMAIN ref_table : ref_table[i] = <<a, f>> /\ (pc = "table" => i >= next)
      BY <1>1, <3>3 DEF Recorded
    <3>4. CASE \E i \in DOMAIN calls : calls[i][1] = <<a, f>>
      <4>1. PICK k \in DOMAIN calls : k # 1 /\ calls[k][1] = <<a, f>>
        BY <1>3, <3>1, <3>4
      <4>2. \E i \in DOMAIN calls' : calls'[i][1] = <<a, f>>
        BY <1>9, <4>1
      <4> QED
        BY <4>2 DEF Recorded
    <3> QED
      BY <3>2, <3>3, <3>4 DEF Recorded
  <2> QED
    BY <2>1, <2>2
<1>15. RootsInv'
  <2> SUFFICES ASSUME NEW r \in RootSlots, Is_young(root'[r])
               PROVE  /\ pc' = "roots" => r >= next' \/ \E i \in DOMAIN calls' : calls'[i][1] = <<0, r>>
                      /\ pc' # "table"
    BY <1>1 DEF RootsInv, Is_young
  <2>1. p # <<0, r>> /\ root'[r] = root[r]
    BY <1>2, <1>7 DEF Is_young
  <2>2. pc # "table"
    BY <1>1, <2>1 DEF MinorInv, RootsInv
  <2>3. \A k \in DOMAIN calls : calls[k][1] = <<0, r>> => \E i \in DOMAIN calls' : calls'[i][1] = <<0, r>>
    <3> SUFFICES ASSUME NEW k \in DOMAIN calls, calls[k][1] = <<0, r>>
                 PROVE  \E i \in DOMAIN calls' : calls'[i][1] = <<0, r>>
      OBVIOUS
    <3>1. k # 1
      BY <1>3, <2>1
    <3>2. PICK i \in DOMAIN calls' : calls'[i] = calls[k]
      BY <1>9, <3>1
    <3> QED
      BY <3>2
  <2>4. r >= next \/ \E i \in DOMAIN calls : calls[i][1] = <<0, r>>
    BY <1>1, <2>1, <2>2 DEF MinorInv, RootsInv
  <2> QED
    BY <1>1, <2>2, <2>3, <2>4
<1>16. YoungInv'
  <2>1. WithinYoung(n) /\ \A u : WithinYoung(u)' = WithinYoung(u)
    BY <1>1, <1>2 DEF WithinYoung, Is_young
  <2>2. \A a \in YoungAddr : a <= young_ptr => InUse(a)'
    BY <1>6, Addresses DEF MinorInv, YoungInv
  <2>3. \A f \in Fields : WithinYoung(field[v][f])
    BY <1>3, <1>4 DEF MinorInv, YoungInv
  <2>4. \A i \in DOMAIN calls' : WithinYoung(calls'[i][2])
    BY <1>9, <2>3 DEF MinorInv, YoungInv
  <2>5. \A r \in RootSlots : WithinYoung(root'[r])
    BY <1>7, <2>1 DEF MinorInv, YoungInv
  <2>6. \A a \in OldAddr : ~ InUse(a)' => field'[a] = Empty
    <3>1. \A a \in OldAddr : a \in Addr /\ a # 0
      BY Addresses DEF Nil
    <3> QED
      BY <1>5, <1>6, <1>8, <3>1 DEF MinorInv, YoungInv
  <2>7. ASSUME NEW a \in Addr, NEW f \in Fields, InUse(a)' PROVE WithinYoung(field'[a][f])
    <3>1. CASE a = n
      <4>1. field[n][f] = Nil /\ WithinYoung(Nil)
        BY <1>2, Addresses DEF MinorInv, YoungInv, Empty, WithinYoung, Is_young, Nil
      <4> QED
        BY <1>2, <1>7, <2>1, <3>1, <4>1
    <3>2. CASE a # n
      <4>1. WithinYoung(field[a][f])
        BY <1>6, <2>7, <3>2 DEF MinorInv, YoungInv
      <4> QED
        BY <1>7, <2>1, <4>1, Addresses
    <3> QED
      BY <3>1, <3>2
  <2> QED
    BY <1>1, <2>1, <2>2, <2>4, <2>5, <2>6, <2>7, Zenon DEF YoungInv, Empty
<1>17. NoStale'
  <2>1. PICK S \in SUBSET Addr : /\ \A a \in S : InUse(a)
                                /\ Held \subseteq S \cup {Nil}
                                /\ \A a \in S : Successors(a) \subseteq S \cup {Nil}
    BY ClosedNow DEF MinorInv
  <2>t. PICK T : T = IF v \in S THEN S \cup {n} ELSE S
    OBVIOUS
  <2>2. n \notin S /\ n \notin forwarded'
    BY <1>1, <1>2, <1>3, <2>1 DEF MinorInv, TypeOK
  <2>3. v \in S => \A f \in Fields : field[v][f] \in S \cup {Nil}
    <3>1. \A f \in Fields : field[v][f] \in Contents(v, f)
      <4>1. \A i \in DOMAIN calls : calls[i][1][1] # v
        BY <1>3, SlotType, Addresses DEF MinorInv, TypeOK, Nil
      <4>2. \A i \in DOMAIN calls, f \in Fields : calls[i][1] # <<v, f>>
        BY <4>1
      <4> QED
        BY <4>2, ContentsHas
    <3> QED
      BY <1>1, <2>1, <3>1 DEF Successors
  <2>4. Held' \subseteq T \cup {Nil}
    <3>1. ASSUME NEW r \in RootSlots PROVE root'[r] \in T \cup {Nil}
      <4>1. CASE p = <<0, r>>
        <5>1. v = root[r]
          BY <1>3, <4>1 DEF MinorInv, CallsInv
        <5>2. v \in S
          BY <1>3, <2>1, <5>1, HeldIs, Addresses DEF MinorInv, TypeOK
        <5> QED
          BY <1>7, <2>t, <4>1, <5>2
      <4>2. CASE p # <<0, r>>
        BY <1>7, <2>1, <2>t, <4>2, HeldIs DEF MinorInv, TypeOK
      <4> QED
        BY <4>1, <4>2
    <3>2. Global \in T
      BY <2>1, <2>t, HeldIs, Addresses DEF MinorInv, TypeOK
    <3> QED
      BY <1>7, <3>1, <3>2 DEF Held, Range
  <2>5. ASSUME NEW a \in T, a \notin forwarded', NEW f \in Fields, NEW u, u \in Contents(a, f)'
        PROVE  u \in T \cup {Nil}
    <3>1. CASE a = n
      <4>1. \/ \E i \in DOMAIN calls' : calls'[i][1] = <<a, f>> /\ calls'[i][2] = u
            \/ u = field'[a][f] /\ \A i \in DOMAIN calls' : calls'[i][1] # <<a, f>>
        BY <2>5, InContentsNext
      <4>2. PICK i \in DOMAIN calls' : calls'[i][1] = <<n, f>> /\ calls'[i][2] = u
        BY <1>9, <3>1, <4>1
      <4>3. ~ \E k \in DOMAIN calls : k # 1 /\ calls'[i] = calls[k]
        <5> SUFFICES ASSUME NEW k \in DOMAIN calls, k # 1, calls'[i] = calls[k] PROVE FALSE
          OBVIOUS
        <5>1. calls[k][1][1] = n
          BY <4>2
        <5> QED
          BY <1>2, <5>1 DEF MinorInv, CallsInv, Nil
      <4>4. \E e \in Fields : u = field[v][e]
        BY <1>9, <4>2, <4>3
      <4> QED
        BY <2>2, <2>3, <2>5, <2>t, <3>1, <4>4
    <3>2. CASE a # n
      <4>1. a \in S /\ a \notin forwarded /\ a # v
        BY <1>1, <2>5, <2>t, <3>2
      <4>2. \A i \in DOMAIN calls' : calls'[i][1] = <<a, f>> => \E k \in DOMAIN calls : calls[k] = calls'[i]
        BY <1>9, <3>2
      <4>3. p # <<a, f>> => field'[a][f] = field[a][f]
        BY <1>7, <4>1, Addresses
      <4>4. u \in Contents(a, f) \/ (p = <<a, f>> /\ v \in Contents(a, f) /\ u = field'[a][f])
        <5>1. \A k \in DOMAIN calls : k # 1 /\ calls[k][1] = <<a, f>> => \E i \in DOMAIN calls' : calls'[i] = calls[k]
          BY <1>9
        <5>2. 1 \in DOMAIN calls /\ calls[1][1] = p /\ calls[1][2] = v
          BY <1>3
        <5> QED
          BY <2>5, <4>2, <4>3, <5>1, <5>2, ContentsStep
      <4>5. Contents(a, f) \subseteq S \cup {Nil}
        BY <2>1, <4>1 DEF Successors
      <4>6. CASE u \in Contents(a, f)
        BY <2>t, <4>5, <4>6
      <4>7. CASE p = <<a, f>> /\ v \in Contents(a, f) /\ u = field'[a][f]
        <5>1. a \in OldAddr
          <6>1. p[1] = a /\ a \in Addr
            BY <2>1, <4>1, <4>7
          <6> QED
            BY <1>3, <6>1, SlotType
        <5>2. u = n
          BY <1>7, <4>7, <5>1
        <5>3. v \in S
          BY <1>3, <4>5, <4>7, Addresses
        <5> QED
          BY <2>t, <5>2, <5>3
      <4> QED
        BY <4>4, <4>6, <4>7
    <3> QED
      BY <3>1, <3>2
  <2>6. ASSUME NEW a \in T PROVE Successors(a)' \subseteq T \cup {Nil}
    <3>1. CASE a = v
      BY <1>1, <1>7, <2>6, <2>t, <3>1 DEF Successors
    <3>2. CASE a \in forwarded
      <4>1. a # v /\ a \in YoungAddr /\ a \in S /\ 1 \in Fields
        <5>1. a # v /\ a # n
          BY <1>1, <2>2, <3>2
        <5>2. a \in S
          BY <2>6, <2>t, <5>1
        <5> QED
          BY <3>2, <5>1, <5>2 DEF MinorInv, TypeOK, Fields
      <4>2. field'[a][1] = field[a][1]
        BY <1>7, <4>1
      <4> QED
        BY <1>1, <2>1, <2>t, <3>2, <4>1, <4>2 DEF Successors
    <3>3. CASE a \notin forwarded'
      <4>1. \A f \in Fields : Contents(a, f)' \subseteq T \cup {Nil}
        BY <2>5, <2>6, <3>3
      <4> SUFFICES ASSUME NEW x, x \in Successors(a)' PROVE x \in T \cup {Nil}
        OBVIOUS
      <4>3. PICK f \in Fields : x \in Contents(a, f)'
        BY <3>3 DEF Successors
      <4> QED
        BY <4>1, <4>3
    <3> QED
      BY <1>1, <3>1, <3>2, <3>3
  <2>7. T \subseteq Addr /\ \A a \in T : InUse(a)'
    BY <1>2, <1>6, <2>1, <2>t
  <2> QED
    BY <2>4, <2>6, <2>7, ClosedNext
<1>18. InUse(Global)'
  BY <1>6, Addresses DEF MinorInv
<1>e. EntriesInv'
  <2>1. (\A a \in Addr : InUse(a) => InUse(a)') /\ (pc' \in {"roots", "table"} => next' >= 1) /\ ref_table' = ref_table
    BY <1>1, <1>6 DEF MinorInv, EntriesInv, Collecting
  <2> QED
    BY <2>1, EntriesKept
<1> QED
  BY <1>e, <1>10, <1>11, <1>12, <1>13, <1>14, <1>15, <1>16, <1>17, <1>18 DEF MinorInv

LEMMA OutOfMemoryStep ==
  ASSUME MinorInv, calls # << >>, Collecting, NEW v, OutOfMemory(v)
  PROVE  MinorInv'
<1> USE DEF OutOfMemory, heapVars, tableVars, Collecting
<1>1. TypeOK'
  BY DEF MinorInv, TypeOK
<1>2. TableInv'
  BY DEF MinorInv, TypeOK, TableInv
<1>3. CallsInv' /\ ForwardInv'
  BY DEF MinorInv, TypeOK, CallsInv, ForwardInv, InUse
<1>4. RecordedInv' /\ RootsInv'
  BY DEF RecordedInv, RootsInv
<1>5. YoungInv'
  BY DEF MinorInv, YoungInv, WithinYoung, InUse, Is_young
<1>6. NoStale'
  <2>1. PICK S \in SUBSET Addr : /\ \A a \in S : InUse(a)
                                /\ Held \subseteq S \cup {Nil}
                                /\ \A a \in S : Successors(a) \subseteq S \cup {Nil}
    BY ClosedNow DEF MinorInv
  <2>2. Held' = Held /\ \A a \in S : InUse(a)'
    BY <2>1 DEF Held, InUse
  <2>3. \A a \in S : Successors(a)' \subseteq S \cup {Nil}
    BY <2>1, SuccessorsSame
  <2> QED
    BY <2>1, <2>2, <2>3, ClosedNext
<1>7. InUse(Global)'
  BY DEF MinorInv, InUse
<1>e. EntriesInv'
  <2>1. (\A a \in Addr : InUse(a) => InUse(a)') /\ (pc' \in {"roots", "table"} => next' >= 1) /\ ref_table' = ref_table
    BY DEF InUse
  <2> QED
    BY <2>1, EntriesKept
<1> QED
  BY <1>e, <1>1, <1>2, <1>3, <1>4, <1>5, <1>6, <1>7 DEF MinorInv

LEMMA OldifyStep ==
  ASSUME MinorInv, oldify
  PROVE  MinorInv'
<1>1. PICK p, v : p = Head(calls)[1] /\ v = Head(calls)[2]
  OBVIOUS
<1>2. /\ calls # << >> /\ Collecting /\ v \in Value
      /\ OldifyOther(p, v) \/ OldifyForwarded(p, v) \/ OldifyCopy(p, v) \/ OutOfMemory(v)
  BY <1>1, HeadCall DEF oldify, Collecting
<1>3. CASE OldifyOther(p, v)
  BY <1>1, <1>2, <1>3, OldifyStoreStep DEF OldifyOther
<1>4. CASE OldifyForwarded(p, v)
  <2>1. field[v][1] \in Value /\ ~ Is_young(field[v][1])
    BY <1>4, Addresses DEF OldifyForwarded, MinorInv, ForwardInv, Value, Is_young
  <2> QED
    BY <1>1, <1>2, <1>4, <2>1, OldifyStoreStep DEF OldifyForwarded
<1>5. CASE OldifyCopy(p, v)
  BY <1>1, <1>2, <1>5, OldifyCopyStep
<1>6. CASE OutOfMemory(v)
  BY <1>2, <1>6, OutOfMemoryStep
<1> QED
  BY <1>2, <1>3, <1>4, <1>5, <1>6

-----------------------------------------------------------------------------
(* The other steps.                                                        *)

LEMMA ModifyStep ==
  ASSUME MinorInv, NEW a \in Addr, NEW f \in Fields, NEW v \in Value, Modify(a, f, v)
  PROVE  MinorInv'
<1>1. /\ pc = "run" /\ pc' = pc /\ calls = << >> /\ calls' = calls /\ forwarded = {} /\ forwarded' = {}
      /\ a \in Held /\ a # Nil /\ v \in Held \cup {Nil} /\ field' = [field EXCEPT ![a][f] = v]
      /\ young_ptr' = young_ptr /\ id' = id /\ root' = root /\ next' = next
  BY DEF Modify, Running, minorVars, MinorInv, CallsInv, ForwardInv
<1>2. InUse(a) /\ WithinYoung(v)
  BY <1>1, HeldInUse, Addresses DEF WithinYoung, Is_young
<1>3. /\ field' \in [Addr -> [Fields -> Value]]
      /\ field'[a][f] = v
      /\ \A b \in Addr, e \in Fields : <<b, e>> # <<a, f>> => field'[b][e] = field[b][e]
      /\ \A b \in Addr : b # a => field'[b] = field[b]
  <2>1. field \in [Addr -> [Fields -> Value]]
    BY DEF MinorInv, TypeOK
  <2> QED
    BY <1>1, <2>1, SetField
<1>4. /\ ref_table' \in Seq(OldAddr \X Fields)
      /\ ref_table_limit' \in Nat /\ ref_table_end' \in Nat /\ force_minor_flag' \in BOOLEAN
      /\ TableInv'
      /\ \A i \in DOMAIN ref_table : i \in DOMAIN ref_table' /\ ref_table'[i] = ref_table[i]
      /\ MustRecord(a, field[a][f], v) => \E i \in DOMAIN ref_table' : ref_table'[i] = <<a, f>>
      /\ \A i \in DOMAIN ref_table' :
           ref_table'[i] = <<a, f>> \/ \E k \in DOMAIN ref_table : ref_table'[i] = ref_table[k]
  <2>1. CASE MustRecord(a, field[a][f], v)
    <3>1. LET t == Record(Table, <<a, f>>) IN TableBecomes(t, t.force)
      BY <2>1 DEF Modify
    <3>2. <<a, f>> \in OldAddr \X Fields
      BY <2>1 DEF MustRecord
    <3> QED
      BY <1>1, <3>1, <3>2, RecordStep DEF MinorInv
  <2>2. CASE ~ MustRecord(a, field[a][f], v)
    <3>1. UNCHANGED tableVars
      BY <2>2 DEF Modify
    <3> QED
      BY <1>1, <2>2, <3>1 DEF MinorInv, TypeOK, TableInv, tableVars
  <2> QED
    BY <2>1, <2>2
<1>5. TypeOK'
  BY <1>1, <1>3, <1>4 DEF MinorInv, TypeOK
<1>6. CallsInv' /\ ForwardInv'
  BY <1>1 DEF CallsInv, ForwardInv
<1>7. RecordedInv'
  <2> SUFFICES ASSUME NEW b \in OldAddr, NEW e \in Fields, InUse(b)', Is_young(field'[b][e])
               PROVE  Recorded(b, e)'
    BY DEF RecordedInv, Is_young
  <2>1. InUse(b) /\ b \in Addr
    BY <1>1, Addresses DEF InUse
  <2>2. CASE Is_young(field[b][e])
    <3>1. \E i \in DOMAIN ref_table : ref_table[i] = <<b, e>>
      BY <1>1, <2>1, <2>2 DEF MinorInv, RecordedInv, Recorded
    <3> QED
      BY <1>1, <1>4, <3>1 DEF Recorded
  <2>3. CASE ~ Is_young(field[b][e])
    <3>1. b = a /\ e = f
      BY <1>3, <2>1, <2>3
    <3>2. MustRecord(a, field[a][f], v)
      BY <1>3, <2>3, <3>1 DEF MustRecord
    <3> QED
      BY <1>1, <1>4, <3>1, <3>2 DEF Recorded
  <2> QED
    BY <2>2, <2>3
<1>8. RootsInv'
  BY <1>1 DEF RootsInv
<1>9. YoungInv'
  <2>1. \A u : WithinYoung(u)' = WithinYoung(u)
    BY <1>1 DEF WithinYoung, Is_young
  <2>2. \A b : InUse(b)' = InUse(b)
    BY <1>1 DEF InUse
  <2>3. \A b \in Addr, e \in Fields : InUse(b) => WithinYoung(field'[b][e])
    BY <1>2, <1>3 DEF MinorInv, YoungInv
  <2>4. \A b \in OldAddr : ~ InUse(b) => field'[b] = Empty
    BY <1>2, <1>3, Addresses DEF MinorInv, YoungInv
  <2>5. /\ \A b \in YoungAddr : b <= young_ptr' => InUse(b)
        /\ \A r \in RootSlots : WithinYoung(root'[r])
        /\ \A i \in DOMAIN calls' : WithinYoung(calls'[i][2])
    BY <1>1 DEF MinorInv, YoungInv
  <2> QED
    BY <2>1, <2>2, <2>3, <2>4, <2>5, Zenon DEF YoungInv, Empty
<1>10. NoStale'
  <2>1. PICK S \in SUBSET Addr : /\ \A b \in S : InUse(b)
                                /\ Held \subseteq S \cup {Nil}
                                /\ \A b \in S : Successors(b) \subseteq S \cup {Nil}
    BY ClosedNow DEF MinorInv
  <2>2. Held' = Held /\ \A b \in S : InUse(b)'
    BY <1>1, <2>1 DEF Held, InUse
  <2>3. ASSUME NEW b \in S, NEW x, x \in Successors(b)' PROVE x \in S \cup {Nil}
    <3>1. PICK e \in Fields : x \in Contents(b, e)'
      BY <1>1, <2>3 DEF Successors
    <3>2. x = field'[b][e]
      BY <1>1, <3>1 DEF Contents, Range
    <3>3. field[b][e] \in Contents(b, e)
      BY <1>1, ContentsHas
    <3>4. field[b][e] \in S \cup {Nil}
      BY <1>1, <2>1, <3>3 DEF Successors
    <3> QED
      BY <1>1, <1>3, <2>1, <3>2, <3>4
  <2> QED
    BY <2>1, <2>2, <2>3, ClosedNext
<1>11. InUse(Global)'
  BY <1>1 DEF MinorInv, InUse
<1>e. EntriesInv'
  <2>1. \A i \in DOMAIN ref_table' : InUse(ref_table'[i][1])
    BY <1>2, <1>4 DEF MinorInv, EntriesInv
  <2> QED
    BY <1>1, <2>1 DEF EntriesInv, Collecting, InUse
<1> QED
  BY <1>e, <1>4, <1>5, <1>6, <1>7, <1>8, <1>9, <1>10, <1>11 DEF MinorInv

(* A root, or a field that was recorded, is what oldify is called for: it  *)
(* is given what the root or the field holds.                              *)
OneCall(c, p) == c = << <<p, IF p[1] = 0 THEN root[p[2]] ELSE field[p[1]][p[2]]>> >>

LEMMA OneCallContents ==
  ASSUME NEW p \in Slots, OneCall(calls', p), \A b, e : field'[b][e] = field[b][e],
         NEW a \in Addr, NEW f, NEW x, x \in Contents(a, f)'
  PROVE  x = field[a][f]
<1>1. \/ \E i \in DOMAIN calls' : calls'[i][1] = <<a, f>> /\ calls'[i][2] = x
      \/ x = field'[a][f] /\ \A i \in DOMAIN calls' : calls'[i][1] # <<a, f>>
  BY InContentsNext
<1>2. a # 0
  BY Addresses DEF Nil
<1>3. DOMAIN calls' = {1} /\ calls'[1] = <<p, IF p[1] = 0 THEN root[p[2]] ELSE field[p[1]][p[2]]>>
  BY DEF OneCall
<1> QED
  BY <1>1, <1>2, <1>3

LEMMA CallStep ==
  ASSUME MinorInv, Collecting, calls = << >>,
         UNCHANGED <<heapVars, root, tableVars>>,
         pc' \in {"roots", "table"}, next' \in Nat, next' >= 1,
         NEW p, \/ calls' = << >>
                \/ /\ p \in Slots /\ OneCall(calls', p)
                   /\ p[1] # 0 => InUse(p[1]),
         RecordedInv', RootsInv'
  PROVE  MinorInv'
<1> USE DEF heapVars, tableVars, Collecting
<1> DEFINE w == IF p[1] = 0 THEN root[p[2]] ELSE field[p[1]][p[2]]
<1>e. EntriesInv'
  <2>1. (\A a \in Addr : InUse(a) => InUse(a)') /\ (pc' \in {"roots", "table"} => next' >= 1) /\ ref_table' = ref_table
    BY DEF InUse
  <2> QED
    BY <2>1, EntriesKept
<1>1. CASE calls' = << >>
  <2>1. TypeOK'
    BY <1>1 DEF MinorInv, TypeOK
  <2>2. TableInv' /\ CallsInv' /\ ForwardInv'
    BY <1>1 DEF MinorInv, TypeOK, TableInv, CallsInv, ForwardInv
  <2>3. YoungInv'
    BY <1>1 DEF MinorInv, YoungInv, WithinYoung, InUse, Is_young
  <2>4. NoStale'
    <3>1. PICK S \in SUBSET Addr : /\ \A a \in S : InUse(a)
                                  /\ Held \subseteq S \cup {Nil}
                                  /\ \A a \in S : Successors(a) \subseteq S \cup {Nil}
      BY ClosedNow DEF MinorInv
    <3>2. Held' = Held /\ \A a \in S : InUse(a)'
      BY <3>1 DEF Held, InUse
    <3>3. \A a \in S : Successors(a)' \subseteq S \cup {Nil}
      BY <1>1, <3>1, SuccessorsSame
    <3> QED
      BY <3>1, <3>2, <3>3, ClosedNext
  <2>5. InUse(Global)'
    BY DEF MinorInv, InUse
  <2> QED
    BY <1>e, <2>1, <2>2, <2>3, <2>4, <2>5 DEF MinorInv
<1>2. CASE calls' # << >>
  <2>1. /\ p \in Slots /\ DOMAIN calls' = {1} /\ Len(calls') = 1
        /\ calls'[1][1] = p /\ calls'[1][2] = w
        /\ p[1] # 0 => InUse(p[1]) /\ p[1] \in OldAddr /\ p[1] \in Addr /\ p[2] \in Fields
        /\ p[1] = 0 => p[2] \in RootSlots
        /\ p = <<p[1], p[2]>>
    BY <1>2, SlotType DEF OneCall
  <2>2. w \in Value /\ WithinYoung(w)
    BY <2>1 DEF MinorInv, TypeOK, YoungInv
  <2>3. calls' \in Seq(Slots \X Value)
    BY <1>2, <2>1, <2>2 DEF OneCall
  <2> HIDE DEF w
  <2>4. TypeOK'
    BY <2>3 DEF MinorInv, TypeOK
  <2>5. TableInv' /\ ForwardInv'
    BY DEF MinorInv, TypeOK, TableInv, ForwardInv
  <2>6. CallsInv'
    BY <2>1 DEF CallsInv, InUse, w
  <2>7. YoungInv'
    <3>1. \A i \in DOMAIN calls' : WithinYoung(calls'[i][2])
      BY <2>1, <2>2
    <3>2. (\A u : WithinYoung(u)' = WithinYoung(u)) /\ \A b : InUse(b)' = InUse(b)
      BY DEF WithinYoung, Is_young, InUse
    <3>3. /\ \A a \in YoungAddr : a <= young_ptr' => InUse(a)
          /\ \A r \in RootSlots : WithinYoung(root'[r])
          /\ \A a \in Addr, f \in Fields : InUse(a) => WithinYoung(field'[a][f])
          /\ \A a \in OldAddr : ~ InUse(a) => field'[a] = Empty
      BY DEF MinorInv, YoungInv
    <3> QED
      BY <3>1, <3>2, <3>3, Zenon DEF YoungInv, Empty
  <2>8. NoStale'
    <3>1. PICK S \in SUBSET Addr : /\ \A a \in S : InUse(a)
                                  /\ Held \subseteq S \cup {Nil}
                                  /\ \A a \in S : Successors(a) \subseteq S \cup {Nil}
      BY ClosedNow DEF MinorInv
    <3>2. Held' = Held /\ \A a \in S : InUse(a)'
      BY <3>1 DEF Held, InUse
    <3>3. ASSUME NEW a \in S, NEW x, x \in Successors(a)' PROVE x \in S \cup {Nil}
      <4>1. CASE a \in forwarded
        BY <3>1, <3>3, <4>1 DEF Successors
      <4>2. CASE a \notin forwarded
        <5>1. PICK f \in Fields : x \in Contents(a, f)'
          BY <3>3, <4>2 DEF Successors
        <5>4. x = field[a][f]
          <6>1. \A b, e : field'[b][e] = field[b][e]
            OBVIOUS
          <6> QED
            BY <1>2, <3>1, <5>1, <6>1, OneCallContents
        <5>5. field[a][f] \in Contents(a, f)
          BY ContentsHas
        <5> QED
          BY <3>1, <4>2, <5>4, <5>5 DEF Successors
      <4> QED
        BY <4>1, <4>2
    <3> QED
      BY <3>1, <3>2, <3>3, ClosedNext
  <2>9. InUse(Global)'
    BY DEF MinorInv, InUse
  <2> QED
    BY <1>e, <2>4, <2>5, <2>6, <2>7, <2>8, <2>9 DEF MinorInv
<1> QED
  BY <1>1, <1>2

LEMMA CopyRootStep ==
  ASSUME MinorInv, CopyRoot
  PROVE  MinorInv'
<1>1. /\ pc = "roots" /\ calls = << >> /\ UNCHANGED <<heapVars, root, tableVars>>
      /\ root \in [RootSlots -> Value] /\ next \in Nat /\ ref_table' = ref_table
      /\ id' = id /\ field' = field /\ root' = root
  BY DEF CopyRoot, MinorInv, TypeOK, heapVars, tableVars
<1>2. RecordedInv'
  <2> SUFFICES ASSUME NEW a \in OldAddr, NEW f \in Fields, InUse(a)', Is_young(field'[a][f])
               PROVE  Recorded(a, f)'
    BY DEF RecordedInv, Is_young
  <2>1. \E i \in DOMAIN ref_table : ref_table[i] = <<a, f>> /\ i >= 1
    <3>1. Recorded(a, f)
      BY <1>1 DEF MinorInv, RecordedInv, InUse
    <3>2. DOMAIN ref_table = 1 .. Len(ref_table) /\ Len(ref_table) \in Nat
      BY DEF MinorInv, TypeOK
    <3> QED
      BY <1>1, <3>1, <3>2 DEF Recorded
  <2>2. pc' = "table" => next' = 1
    BY <1>1 DEF CopyRoot
  <2> QED
    BY <1>1, <2>1, <2>2 DEF Recorded
<1>3. CASE RootsLeft
  <2> DEFINE p == <<0, next>>
  <2>1. /\ next \in RootSlots /\ pc' = "roots" /\ next' = next + 1
        /\ calls' = << <<p, root[next]>> >>
    <3>1. next >= 1 /\ next <= NRoots
      BY <1>1, <1>3 DEF MinorInv, EntriesInv, Collecting, RootsLeft
    <3> QED
      BY <1>1, <1>3, <3>1 DEF CopyRoot, RootSlots
  <2>2. p \in Slots /\ p[1] = 0 /\ p[2] = next
    BY <2>1 DEF Slots
  <2>3. RootsInv'
    <3> SUFFICES ASSUME NEW r \in RootSlots, Is_young(root'[r])
                 PROVE  r >= next' \/ \E i \in DOMAIN calls' : calls'[i][1] = <<0, r>>
      BY <2>1 DEF RootsInv, Is_young
    <3>1. r >= next
      BY <1>1 DEF MinorInv, RootsInv
    <3>2. 1 \in DOMAIN calls' /\ calls'[1][1] = <<0, next>>
      BY <2>1
    <3> QED
      BY <1>1, <2>1, <3>1, <3>2 DEF RootSlots
  <2>4. next' \in Nat /\ next' >= 1
    BY <1>1, <2>1
  <2> HIDE DEF p
  <2>5. \E q : q \in Slots /\ OneCall(calls', q) /\ (q[1] # 0 => InUse(q[1]))
    BY <2>1, <2>2 DEF OneCall
  <2> QED
    BY <1>1, <1>2, <2>1, <2>3, <2>4, <2>5, CallStep DEF Collecting
<1>4. CASE ~ RootsLeft
  <2>1. pc' = "table" /\ next' = 1 /\ calls' = << >>
    BY <1>1, <1>4 DEF CopyRoot
  <2>2. RootsInv'
    BY <1>1, <1>4, <2>1 DEF MinorInv, RootsInv, RootsLeft, RootSlots, Is_young
  <2> QED
    BY <1>1, <1>2, <2>1, <2>2, CallStep DEF Collecting
<1> QED
  BY <1>3, <1>4

LEMMA CopyEntryStep ==
  ASSUME MinorInv, CopyEntry
  PROVE  MinorInv'
<1>1. /\ pc = "table" /\ pc' = pc /\ calls = << >> /\ UNCHANGED <<heapVars, root, tableVars>>
      /\ next \in Nat /\ next' = next + 1 /\ next <= Len(ref_table) /\ ref_table' = ref_table
      /\ id' = id /\ field' = field /\ root' = root
  BY DEF CopyEntry, MinorInv, TypeOK, heapVars, tableVars
<1>2. RootsInv'
  BY <1>1 DEF MinorInv, RootsInv, Is_young
<1>3. PICK p : p = ref_table[next] /\ calls' = << <<p, field[p[1]][p[2]]>> >>
  BY DEF CopyEntry
<1>4. /\ DOMAIN ref_table = 1 .. Len(ref_table) /\ Len(ref_table) \in Nat
      /\ 1 \in DOMAIN calls' /\ calls'[1][1] = p
  BY <1>3 DEF MinorInv, TypeOK
<1>5. RecordedInv'
  <2> SUFFICES ASSUME NEW a \in OldAddr, NEW f \in Fields, InUse(a)', Is_young(field'[a][f])
               PROVE  Recorded(a, f)'
    BY DEF RecordedInv, Is_young
  <2>1. Recorded(a, f)
    BY <1>1 DEF MinorInv, RecordedInv, InUse
  <2>2. PICK i \in DOMAIN ref_table : ref_table[i] = <<a, f>> /\ i >= next
    BY <1>1, <2>1 DEF Recorded
  <2>3. CASE i = next
    BY <1>3, <1>4, <2>2, <2>3 DEF Recorded
  <2>4. CASE i # next
    BY <1>1, <1>4, <2>2, <2>4 DEF Recorded
  <2> QED
    BY <2>3, <2>4
<1>6. CASE next \in DOMAIN ref_table /\ p[1] # 0 /\ p \in Slots /\ InUse(p[1])
  <2>1. next' \in Nat /\ next' >= 1
    BY <1>1
  <2>2. p \in Slots /\ OneCall(calls', p) /\ (p[1] # 0 => InUse(p[1]))
    BY <1>3, <1>6 DEF OneCall
  <2> QED
    BY <1>1, <1>2, <1>5, <2>1, <2>2, CallStep DEF Collecting
<1>7. next >= 1
  BY <1>1 DEF MinorInv, EntriesInv, Collecting
<1>8. next \in DOMAIN ref_table
  BY <1>1, <1>4, <1>7
<1>9. p \in OldAddr \X Fields /\ InUse(p[1])
  BY <1>3, <1>8 DEF MinorInv, TypeOK, EntriesInv
<1>10. p[1] # 0 /\ p \in Slots
  BY <1>9, Addresses DEF Slots, Nil
<1> QED
  BY <1>6, <1>8, <1>9, <1>10

(* The blocks that can be reached when no young block is held are those    *)
(* that no closed set leaves out; none is young.                           *)
LEMMA ReachableIs ==
  /\ Reachable \subseteq Addr
  /\ Held \cap Addr \subseteq Reachable
  /\ field \in [Addr -> [Fields -> Value]] =>
       \A b \in Reachable, f \in Fields : field[b][f] \in Reachable \cup {Nil}
  /\ \A S \in SUBSET Addr :
       Held \subseteq S \cup {Nil} /\ (\A b \in S, f \in Fields : field[b][f] \in S \cup {Nil})
         => Reachable \subseteq S
<1>1. Reachable \subseteq Addr
  BY DEF Reachable
<1>2. Held \cap Addr \subseteq Reachable
  BY Addresses DEF Reachable
<1>3. ASSUME field \in [Addr -> [Fields -> Value]], NEW b \in Reachable, NEW f \in Fields
      PROVE  field[b][f] \in Reachable \cup {Nil}
  <2>1. b \in Addr /\ field[b][f] \in Value
    BY <1>1, <1>3
  <2>2. CASE field[b][f] \in Addr
    <3>1. ASSUME NEW S \in SUBSET Addr, Held \subseteq S \cup {Nil},
                 \A c \in S, e \in Fields : field[c][e] \in S \cup {Nil}
          PROVE  field[b][f] \in S
      <4>1. b \in S
        BY <3>1 DEF Reachable
      <4>2. field[b][f] \in S \cup {Nil}
        BY <3>1, <4>1
      <4> QED
        BY <2>2, <4>2, Addresses
    <3> QED
      BY <2>2, <3>1 DEF Reachable
  <2> QED
    BY <2>1, <2>2 DEF Value
<1>4. ASSUME NEW S \in SUBSET Addr, Held \subseteq S \cup {Nil},
             \A b \in S, f \in Fields : field[b][f] \in S \cup {Nil}
      PROVE  Reachable \subseteq S
  BY <1>4 DEF Reachable
<1> QED
  BY <1>1, <1>2, <1>3, <1>4

LEMMA FinishStep ==
  ASSUME MinorInv, FinishMinor
  PROVE  MinorInv'
<1>1. PICK swept \in SUBSET {a \in OldAddr : InUse(a) /\ a \notin Reachable} :
        /\ id' = [a \in Addr |-> IF a \in swept \cup YoungAddr THEN Nil ELSE id[a]]
        /\ field' = [a \in Addr |-> IF a \in swept \cup YoungAddr THEN Empty ELSE field[a]]
  BY DEF FinishMinor
<1>2. /\ pc = "table" /\ calls = << >> /\ calls' = << >> /\ pc' = "run" /\ next > Len(ref_table)
      /\ young_ptr' = 0 /\ forwarded' = {} /\ next' = 1 /\ root' = root
      /\ ref_table' = << >> /\ ref_table_limit' = Threshold
      /\ ref_table_end' = ref_table_end /\ force_minor_flag' = force_minor_flag
  BY DEF FinishMinor
<1>3. /\ id \in [Addr -> 0 .. NIds] /\ field \in [Addr -> [Fields -> Value]]
      /\ root \in [RootSlots -> Value] /\ forwarded \subseteq YoungAddr /\ next \in Nat
      /\ DOMAIN ref_table = 1 .. Len(ref_table) /\ Len(ref_table) \in Nat
  BY DEF MinorInv, TypeOK
(* No root and no field of an old block in use holds a young block.        *)
<1>4. \A r \in RootSlots : ~ Is_young(root[r])
  BY <1>2 DEF MinorInv, RootsInv
<1>5. ASSUME NEW a \in OldAddr, NEW f \in Fields PROVE ~ Is_young(field[a][f])
  <2>1. CASE InUse(a)
    <3>1. ~ Recorded(a, f)
      BY <1>2, <1>3 DEF Recorded
    <3> QED
      BY <1>2, <2>1, <3>1 DEF MinorInv, RecordedInv
  <2>2. CASE ~ InUse(a)
    BY <2>2, Addresses DEF MinorInv, YoungInv, Empty, Is_young
  <2> QED
    BY <2>1, <2>2
<1>6. /\ id' \in [Addr -> 0 .. NIds] /\ field' \in [Addr -> [Fields -> Value]]
      /\ \A a \in OldAddr, f \in Fields : ~ Is_young(field'[a][f])
      /\ \A a \in YoungAddr : field'[a] = Empty
  <2>1. Empty \in [Fields -> Value] /\ \A f \in Fields : ~ Is_young(Empty[f])
    BY Addresses DEF Empty, Value, Is_young
  <2>2. id' \in [Addr -> 0 .. NIds]
    BY <1>1, <1>3 DEF Nil
  <2>3. field' \in [Addr -> [Fields -> Value]]
    BY <1>1, <1>3, <2>1
  <2>4. \A a \in OldAddr : field'[a] = Empty \/ field'[a] = field[a]
    BY <1>1, Addresses
  <2>5. \A a \in YoungAddr : field'[a] = Empty
    BY <1>1, Addresses
  <2> QED
    BY <1>5, <2>1, <2>2, <2>3, <2>4, <2>5
<1>7. TypeOK'
  BY <1>2, <1>3, <1>6 DEF MinorInv, TypeOK
<1>8. TableInv' /\ EntriesInv'
  BY <1>2 DEF MinorInv, TableInv, EntriesInv, Collecting, TypeOK
<1>9. CallsInv' /\ ForwardInv'
  BY <1>2 DEF CallsInv, ForwardInv
<1>10. RecordedInv' /\ RootsInv'
  BY <1>2, <1>6 DEF RecordedInv, RootsInv, Is_young
<1>11. YoungInv'
  <2>1. \A a \in YoungAddr : ~ a <= young_ptr'
    BY <1>2 DEF YoungAddr
  <2>2. \A u : ~ Is_young(u) => WithinYoung(u)'
    BY DEF WithinYoung, Is_young
  <2>3. \A r \in RootSlots : WithinYoung(root[r])'
    BY <1>2, <1>4, <2>2
  <2>4. \A a \in Addr, f \in Fields : WithinYoung(field[a][f])'
    BY <1>6, <2>2, Addresses DEF Empty, Is_young
  <2>5. \A a \in OldAddr : ~ InUse(a)' => field'[a] = Empty
    BY <1>1, Addresses DEF MinorInv, YoungInv, InUse
  <2> QED
    BY <1>2, <2>1, <2>3, <2>4, <2>5 DEF YoungInv, Empty
<1>12. PICK S \in SUBSET Addr : /\ \A a \in S : InUse(a)
                               /\ Held \subseteq S \cup {Nil}
                               /\ \A a \in S : Successors(a) \subseteq S \cup {Nil}
  BY ClosedNow DEF MinorInv
<1>13. PICK T : T = S \cap OldAddr
  OBVIOUS
<1>14. Reachable \subseteq T
  <2>1. Held \subseteq T \cup {Nil}
    BY <1>3, <1>4, <1>12, <1>13, HeldIs, Addresses DEF Is_young
  <2>2. ASSUME NEW b \in T, NEW f \in Fields PROVE field[b][f] \in T \cup {Nil}
    <3>1. field[b][f] \in Contents(b, f)
      BY <1>2, ContentsHas
    <3>2. b \notin forwarded
      BY <1>3, <1>13, Addresses
    <3>3. field[b][f] \in S \cup {Nil}
      BY <1>12, <1>13, <3>1, <3>2 DEF Successors
    <3> QED
      BY <1>3, <1>5, <1>12, <1>13, <3>3, Addresses DEF Is_young
  <2>3. T \in SUBSET Addr
    BY <1>12, <1>13
  <2> QED
    BY <2>1, <2>2, <2>3, ReachableIs
<1>15. PICK R : R = Reachable
  OBVIOUS
<1>16. \A a \in R : a \in OldAddr /\ a \in Addr /\ InUse(a)' /\ field'[a] = field[a]
  BY <1>1, <1>12, <1>13, <1>14, <1>15, Addresses DEF InUse
<1>17. NoStale'
  <2>1. Held' \subseteq R \cup {Nil}
    BY <1>2, <1>3, <1>15, HeldIs, ReachableIs DEF Held, Value
  <2>2. ASSUME NEW a \in R, NEW x, x \in Successors(a)' PROVE x \in R \cup {Nil}
    <3>1. PICK f \in Fields : x \in Contents(a, f)'
      BY <1>2, <2>2 DEF Successors
    <3>2. x = field'[a][f]
      BY <1>2, <3>1 DEF Contents, Range
    <3> QED
      BY <1>3, <1>15, <1>16, <3>2, ReachableIs
  <2>3. R \subseteq Addr /\ \A a \in R : InUse(a)'
    BY <1>16
  <2> QED
    BY <2>1, <2>2, <2>3, ClosedNext
<1>18. InUse(Global)'
  BY <1>3, <1>15, <1>16, HeldIs, ReachableIs, Addresses
<1> QED
  BY <1>7, <1>8, <1>9, <1>10, <1>11, <1>17, <1>18 DEF MinorInv

-----------------------------------------------------------------------------
(* The theorems.                                                           *)

LEMMA InitInv == Init => MinorInv
<1> SUFFICES ASSUME Init PROVE MinorInv
  OBVIOUS
<1> USE DEF Init
<1>1. \A f \in Fields : Empty[f] = Nil
  BY DEF Empty
<1>2. /\ Empty \in [Fields -> Value] /\ Nil \in Value /\ ~ Is_young(Nil)
      /\ Global \in Addr /\ Global \in OldAddr /\ Global # Nil
      /\ \A a \in Addr : InUse(a) <=> a = Global
  BY Addresses DEF Empty, Value, Is_young, InUse, Nil
<1>3. TypeOK
  <2>1. id \in [Addr -> 0 .. NIds]
    BY DEF Nil
  <2>2. field \in [Addr -> [Fields -> Value]] /\ root \in [RootSlots -> Value]
    BY <1>2
  <2>3. ref_table \in Seq(OldAddr \X Fields) /\ calls \in Seq(Slots \X Value)
    BY DEF Slots
  <2>4. force_minor_flag \in BOOLEAN
    BY Zenon
  <2> QED
    BY <2>1, <2>2, <2>3, <2>4 DEF TypeOK
<1>4. TableInv /\ EntriesInv /\ CallsInv /\ ForwardInv
  BY DEF TableInv, EntriesInv, CallsInv, ForwardInv, Collecting
<1>5. RecordedInv /\ RootsInv
  BY <1>1, <1>2, Addresses DEF RecordedInv, RootsInv
<1>6. YoungInv
  BY <1>1, <1>2, Addresses DEF YoungInv, WithinYoung, YoungAddr
<1>7. NoStale
  <2>1. Held \subseteq {Global} \cup {Nil}
    BY <1>3, HeldIs DEF TypeOK
  <2>2. Contents(Global, 1) = {Nil} /\ \A f \in Fields : Contents(Global, f) = {Nil}
    BY <1>1, <1>2 DEF Contents, Range, Fields
  <2>3. Successors(Global) \subseteq {Global} \cup {Nil}
    BY <2>2 DEF Successors
  <2> QED
    BY <1>2, <2>1, <2>3 DEF NoStale, ClosedSets, Closed
<1> QED
  BY <1>2, <1>3, <1>4, <1>5, <1>6, <1>7, Addresses DEF MinorInv

LEMMA NextInv == MinorInv /\ [Next]_vars => MinorInv'
<1> SUFFICES ASSUME MinorInv, [Next]_vars PROVE MinorInv'
  OBVIOUS
<1>1. ASSUME NEW init \in [Fields -> Held \cup {Nil}], Alloc_small(init) \/ MakeShared(init)
      PROVE  MinorInv'
  BY <1>1, AllocStep, MakeSharedStep
<1>2. ASSUME NEW a \in Addr, NEW f \in Fields, Load(a, f) PROVE MinorInv'
  BY <1>2, LoadStep
<1>3. ASSUME NEW a \in Addr, NEW f \in Fields, NEW v \in Value, Modify(a, f, v) PROVE MinorInv'
  BY <1>3, ModifyStep
<1>4. ASSUME NEW r \in RootSlots, Pop(r) PROVE MinorInv'
  BY <1>4, PopStep
<1>5. CASE initialize
  BY <1>5, InitializeStep
<1>6. CASE MinorCollection \/ process_signal
  <2>1. force_minor_flag' \in BOOLEAN
    BY <1>6, Zenon DEF MinorCollection, process_signal, MinorInv, TypeOK
  <2> QED
    BY <1>6, <2>1, StartStep DEF MinorCollection, process_signal
<1>7. CASE CopyRoot
  BY <1>7, CopyRootStep
<1>8. CASE CopyEntry
  BY <1>8, CopyEntryStep
<1>9. CASE oldify
  BY <1>9, OldifyStep
<1>10. CASE FinishMinor
  BY <1>10, FinishStep
<1>11. CASE UNCHANGED vars
  <2> USE <1>11 DEF vars, heapVars, tableVars, minorVars
  <2>1. TypeOK'
    BY DEF MinorInv, TypeOK
  <2>2. TableInv' /\ EntriesInv' /\ CallsInv' /\ ForwardInv'
    BY DEF MinorInv, TypeOK, TableInv, EntriesInv, CallsInv, ForwardInv, InUse, Collecting
  <2>3. RecordedInv' /\ RootsInv'
    BY DEF MinorInv, RecordedInv, Recorded, RootsInv, InUse, Is_young
  <2>4. YoungInv' /\ InUse(Global)'
    BY DEF MinorInv, YoungInv, WithinYoung, InUse, Is_young
  <2>5. NoStale'
    <3>1. PICK S \in SUBSET Addr : /\ \A a \in S : InUse(a)
                                  /\ Held \subseteq S \cup {Nil}
                                  /\ \A a \in S : Successors(a) \subseteq S \cup {Nil}
      BY ClosedNow DEF MinorInv
    <3>2. Held' = Held /\ \A a \in S : InUse(a)'
      BY <3>1 DEF Held, InUse
    <3>3. \A a \in S : Successors(a)' \subseteq S \cup {Nil}
      BY <3>1, SuccessorsSame
    <3> QED
      BY <3>1, <3>2, <3>3, ClosedNext
  <2> QED
    BY <2>1, <2>2, <2>3, <2>4, <2>5 DEF MinorInv
<1> QED
  BY <1>1, <1>2, <1>3, <1>4, <1>5, <1>6, <1>7, <1>8, <1>9, <1>10, <1>11 DEF Next, Program, Collector

(* Every reachable state satisfies the inductive invariant.                *)
THEOREM MinorInvariance == Spec => []MinorInv
BY InitInv, NextInv, PTL DEF Spec

(* The table of the pointers from old blocks to young ones: what the       *)
(* macro Modify, initialize and MAKEBLOCK record is all that a minor       *)
(* collection must find, and there is always room for one entry more.      *)
THEOREM RefTableTheorem == Spec => []RefTable
<1>1. MinorInv => RefTable
  <2> SUFFICES ASSUME MinorInv PROVE RefTable
    OBVIOUS
  <2>1. TypeOK /\ TableHasRoom
    BY DEF MinorInv, TypeOK, TableInv, TableHasRoom, Running
  <2>2. Remembered
    <3> SUFFICES ASSUME pc = "run", NEW a \in OldAddr, NEW f \in Fields, InUse(a), Is_young(field[a][f])
                 PROVE  Contains(ref_table, <<a, f>>)
      BY DEF Remembered, Running
    <3>1. Recorded(a, f) /\ calls = << >>
      BY DEF MinorInv, RecordedInv, CallsInv
    <3>2. DOMAIN ref_table = 1 .. Len(ref_table)
      BY DEF MinorInv, TypeOK
    <3> QED
      BY <3>1, <3>2 DEF Recorded, Contains
  <2> QED
    BY <2>1, <2>2 DEF RefTable
<1> QED
  BY <1>1, MinorInvariance, PTL

(* No pointer the program can follow leads to a block that is gone: copies *)
(* and forward pointers included, at every call of oldify.                 *)
THEOREM NoStaleTheorem == Spec => []NoStale
<1>1. MinorInv => NoStale
  BY DEF MinorInv
<1> QED
  BY <1>1, MinorInvariance, PTL

-----------------------------------------------------------------------------
(***************************************************************************)
(* A minor collection does not change what the program can see (ViewKept). *)
(***************************************************************************)

(* The invariant.                                                          *)

LEMMA UniqueReplaced ==
  ASSUME NEW S, NEW s \in Seq(S), s # << >>, NEW new \in Seq(S), NEW t, Replaced(t, new, s),
         \A i, k \in DOMAIN s : s[i][1] = s[k][1] => i = k,
         \A i, k \in 1 .. Len(new) : new[i][1] = new[k][1] => i = k,
         \A i \in 1 .. Len(new), k \in DOMAIN s : k # 1 => new[i][1] # s[k][1]
  PROVE  \A i, k \in DOMAIN t : t[i][1] = t[k][1] => i = k
<1>0. \A i, k, d \in Int : (i - d) + 1 = (k - d) + 1 => i = k
  OBVIOUS
<1> DEFINE n == Len(new)
           m == Len(s)
           rest == Tail(s)
<1>1. /\ m \in Nat \ {0} /\ DOMAIN s = 1 .. m
      /\ rest \in Seq(S) /\ DOMAIN rest = 1 .. m - 1 /\ Len(rest) = m - 1
      /\ \A i \in 1 .. m - 1 : rest[i] = s[i + 1]
  BY HeadTail
<1>2. /\ t \in Seq(S) /\ DOMAIN t = 1 .. n + (m - 1) /\ n \in Nat
      /\ \A i \in 1 .. n : t[i] = new[i]
      /\ \A i \in 1 .. m - 1 : t[n + i] = rest[i]
  BY <1>1, ConcatSeq DEF Replaced
<1>3. \A i, k \in 1 .. n : new[i][1] = new[k][1] => i = k
  OBVIOUS
<1>4. \A i \in 1 .. n, k \in DOMAIN s : k # 1 => new[i][1] # s[k][1]
  OBVIOUS
<1> HIDE DEF n, m, rest
<1>5. ASSUME NEW i \in DOMAIN t, i \notin 1 .. n
      PROVE  /\ (i - n) + 1 \in DOMAIN s /\ (i - n) + 1 # 1
             /\ t[i] = s[(i - n) + 1] /\ i \in Int
  <2>1. i - n \in 1 .. m - 1 /\ n + (i - n) = i /\ (i - n) + 1 \in DOMAIN s /\ (i - n) + 1 # 1 /\ i \in Int
    BY <1>1, <1>2, <1>5
  <2>2. t[n + (i - n)] = rest[i - n] /\ rest[i - n] = s[(i - n) + 1]
    BY <1>1, <1>2, <2>1
  <2> QED
    BY <2>1, <2>2
<1>6. ASSUME NEW i \in DOMAIN t, NEW k \in DOMAIN t, t[i][1] = t[k][1]
      PROVE  i = k
  <2>1. CASE i \in 1 .. n /\ k \in 1 .. n
    BY <1>2, <1>3, <1>6, <2>1
  <2>2. CASE i \in 1 .. n /\ k \notin 1 .. n
    <3>1. (k - n) + 1 \in DOMAIN s /\ (k - n) + 1 # 1 /\ t[k] = s[(k - n) + 1]
      BY <1>5, <2>2
    <3>2. t[i] = new[i] /\ new[i][1] # s[(k - n) + 1][1]
      BY <1>2, <1>4, <2>2, <3>1
    <3> QED
      BY <1>6, <3>1, <3>2
  <2>3. CASE i \notin 1 .. n /\ k \in 1 .. n
    <3>1. (i - n) + 1 \in DOMAIN s /\ (i - n) + 1 # 1 /\ t[i] = s[(i - n) + 1]
      BY <1>5, <2>3
    <3>2. t[k] = new[k] /\ new[k][1] # s[(i - n) + 1][1]
      BY <1>2, <1>4, <2>3, <3>1
    <3> QED
      BY <1>6, <3>1, <3>2
  <2>4. CASE i \notin 1 .. n /\ k \notin 1 .. n
    <3>1. (i - n) + 1 = (k - n) + 1
      BY <1>5, <1>6, <2>4
    <3>2. i \in Int /\ k \in Int /\ n \in Int
      BY <1>2, <1>5, <2>4
    <3> QED
      BY <1>0, <3>1, <3>2
  <2> QED
    BY <2>1, <2>2, <2>3, <2>4
<1> QED
  BY <1>6

LEMMA UniqueTail ==
  ASSUME MinorInv, UniqueCalls, calls # << >>, calls' = Tail(calls)
  PROVE  UniqueCalls'
<1>1. /\ DOMAIN calls' = 1 .. Len(calls) - 1 /\ Len(calls) \in Nat
      /\ \A i \in DOMAIN calls' : i + 1 \in DOMAIN calls /\ calls'[i] = calls[i + 1]
  BY HeadCall
<1> SUFFICES ASSUME NEW i \in DOMAIN calls', NEW k \in DOMAIN calls', calls'[i][1] = calls'[k][1]
             PROVE  i = k
  BY DEF UniqueCalls
<1>2. i + 1 = k + 1
  BY <1>1 DEF UniqueCalls
<1> QED
  BY <1>1, <1>2

(* What a block is moved by.                                               *)
LEMMA CopyFacts ==
  ASSUME MinorInv, calls # << >>, Collecting,
         NEW p, NEW v, p = Head(calls)[1], v = Head(calls)[2], OldifyCopy(p, v),
         NEW n, n = NewOld
  PROVE  /\ n \in OldAddr /\ n \in Addr /\ n \notin YoungAddr /\ ~ InUse(n) /\ n # Nil /\ n \notin forwarded
         /\ p \in Slots /\ v \in YoungAddr /\ v \in Addr /\ v \notin OldAddr /\ v \notin forwarded
         /\ InUse(v) /\ v # n /\ v # Nil
         /\ calls[1][1] = p /\ calls[1][2] = v /\ 1 \in DOMAIN calls
         /\ id' = [id EXCEPT ![n] = id[v]] /\ forwarded' = forwarded \cup {v}
         /\ field' = [Stored(field, p, n) EXCEPT ![v][1] = n] /\ Store(p, n)
         /\ Replaced(calls', FieldsToCopy(v, n), calls)
         /\ \A k \in DOMAIN calls : k # 1 => calls[k][1][1] # n
<1>1. n \in OldAddr /\ n \in Addr /\ n \notin YoungAddr /\ ~ InUse(n) /\ n # Nil /\ n \notin forwarded
  BY NewOldFree, Addresses DEF OldifyCopy, MinorInv, TypeOK
<1>2. /\ p \in Slots /\ v \in YoungAddr /\ v \in Addr /\ v \notin OldAddr /\ v \notin forwarded
      /\ calls[1][1] = p /\ calls[1][2] = v /\ 1 \in DOMAIN calls /\ v # n /\ v # Nil
  BY <1>1, HeadCall, Addresses DEF OldifyCopy, Is_young
<1>3. InUse(v)
  BY <1>2 DEF MinorInv, YoungInv, WithinYoung, Is_young
<1>4. /\ id' = [id EXCEPT ![n] = id[v]] /\ forwarded' = forwarded \cup {v}
      /\ field' = [Stored(field, p, n) EXCEPT ![v][1] = n] /\ Store(p, n)
      /\ Replaced(calls', FieldsToCopy(v, n), calls)
  BY DEF OldifyCopy, MarkForwarded, Replaced
<1>5. \A k \in DOMAIN calls : k # 1 => calls[k][1][1] # n
  BY <1>1 DEF MinorInv, CallsInv, Nil
<1> QED
  BY <1>1, <1>2, <1>3, <1>4, <1>5

LEMMA UniqueStep ==
  ASSUME MinorInv, UniqueCalls, [Next]_vars
  PROVE  UniqueCalls'
<1>1. CASE UNCHANGED calls
  BY <1>1 DEF UniqueCalls
<1>2. ASSUME NEW init \in [Fields -> Held \cup {Nil}], Alloc_small(init) \/ MakeShared(init)
      PROVE  UniqueCalls'
  <2>1. CASE MakeShared(init)
    <3>1. /\ DOMAIN calls' = Fields
          /\ \A i \in Fields : calls'[i][1] = <<NewOld, NFields + 1 - i>>
      BY <2>1 DEF MakeShared
    <3>2. \A i, k \in Fields : NFields + 1 - i = NFields + 1 - k => i = k
      BY DEF Fields
    <3> QED
      BY <3>1, <3>2 DEF UniqueCalls
  <2> QED
    BY <1>1, <1>2, <2>1 DEF Alloc_small, minorVars
<1>3. CASE initialize
  <2>1. calls # << >> /\ calls' = Tail(calls)
    BY <1>3 DEF initialize, MinorInv, CallsInv
  <2> QED
    BY <2>1, UniqueTail
<1>4. CASE CopyRoot \/ CopyEntry
  BY <1>4 DEF CopyRoot, CopyEntry, UniqueCalls
<1>5. CASE oldify
  <2>1. PICK p, v : p = Head(calls)[1] /\ v = Head(calls)[2]
    OBVIOUS
  <2>2. CASE OldifyOther(p, v) \/ OldifyForwarded(p, v)
    BY <1>5, <2>2, UniqueTail DEF oldify, OldifyOther, OldifyForwarded
  <2>3. CASE OldifyCopy(p, v)
    <3>1. PICK n : n = NewOld
      OBVIOUS
    <3>2. /\ calls # << >> /\ Replaced(calls', FieldsToCopy(v, n), calls)
          /\ n \in OldAddr /\ v \in YoungAddr /\ v \in Addr
          /\ \A k \in DOMAIN calls : k # 1 => calls[k][1][1] # n
      BY <1>5, <2>1, <2>3, <3>1, CopyFacts DEF oldify, Collecting
    <3> DEFINE new == FieldsToCopy(v, n)
    <3>3. /\ new \in [Fields -> Slots \X Value]
          /\ \A f \in Fields : new[f][1] = <<n, f>>
      BY <3>2, FieldSlot DEF FieldsToCopy, MinorInv, TypeOK
    <3>4. Replaced(calls', new, calls)
      BY <3>2
    <3> HIDE DEF new
    <3>5. new \in Seq(Slots \X Value) /\ 1 .. Len(new) = Fields
      BY <3>3, FieldSeq DEF Fields
    <3>6. PICK C : C = Slots \X Value
      OBVIOUS
    <3>7. calls \in Seq(C) /\ new \in Seq(C)
      BY <3>5, <3>6 DEF MinorInv, TypeOK
    <3>8. /\ \A i, k \in DOMAIN calls : calls[i][1] = calls[k][1] => i = k
          /\ \A i, k \in 1 .. Len(new) : new[i][1] = new[k][1] => i = k
          /\ \A i \in 1 .. Len(new), k \in DOMAIN calls : k # 1 => new[i][1] # calls[k][1]
      BY <3>2, <3>3, <3>5 DEF UniqueCalls
    <3>9. \A i, k \in DOMAIN calls' : calls'[i][1] = calls'[k][1] => i = k
      BY <3>2, <3>4, <3>7, <3>8, UniqueReplaced
    <3> QED
      BY <3>9 DEF UniqueCalls
  <2>4. CASE OutOfMemory(v)
    BY <1>1, <2>4 DEF OutOfMemory
  <2> QED
    BY <1>5, <2>1, <2>2, <2>3, <2>4 DEF oldify
<1>6. ASSUME NEW a \in Addr, NEW f \in Fields, Load(a, f) PROVE UniqueCalls'
  BY <1>1, <1>6 DEF Load, minorVars
<1>7. ASSUME NEW a \in Addr, NEW f \in Fields, NEW v \in Value, Modify(a, f, v) PROVE UniqueCalls'
  BY <1>1, <1>7 DEF Modify, minorVars
<1>8. ASSUME NEW r \in RootSlots, Pop(r) PROVE UniqueCalls'
  BY <1>1, <1>8 DEF Pop, minorVars
<1>9. CASE MinorCollection \/ process_signal \/ FinishMinor \/ UNCHANGED vars
  BY <1>1, <1>9 DEF MinorCollection, process_signal, Start, FinishMinor, vars, minorVars
<1> QED
  BY <1>2, <1>3, <1>4, <1>5, <1>6, <1>7, <1>8, <1>9 DEF Next, Program, Collector

LEMMA CopiesStep ==
  ASSUME MinorInv, CopiesInv, MinorInv', [Next]_vars
  PROVE  CopiesInv'
<1>1. CASE UNCHANGED <<forwarded, id, field>>
  BY <1>1 DEF CopiesInv, InUse
<1>2. CASE forwarded' = {}
  BY <1>2 DEF CopiesInv
<1>3. forwarded = {} \/ pc \in {"roots", "table", "exit"}
  BY DEF MinorInv, TypeOK, ForwardInv
<1>4. CASE Program
  BY <1>2, <1>3, <1>4 DEF Program, Alloc_small, MakeShared, Load, Modify, Pop, initialize,
                          MinorCollection, process_signal, Start, Running, heapVars
<1>5. CASE CopyRoot \/ CopyEntry
  BY <1>1, <1>5 DEF CopyRoot, CopyEntry, heapVars
<1>6. CASE FinishMinor
  BY <1>2, <1>6 DEF FinishMinor
<1>7. CASE oldify
  <2>1. PICK p, v : p = Head(calls)[1] /\ v = Head(calls)[2]
    OBVIOUS
  <2>2. calls # << >> /\ Collecting /\ p \in Slots
    BY <1>7, <2>1, HeadCall DEF oldify, Collecting
  <2>3. \A u \in forwarded : u \in YoungAddr /\ u \in Addr /\ u # p[1] /\ field[u][1] \in Addr
    BY <2>2, SlotType, Addresses DEF MinorInv, TypeOK, ForwardInv
  <2>4. CASE OldifyOther(p, v) \/ OldifyForwarded(p, v)
    <3>1. PICK w : field' = Stored(field, p, w) /\ id' = id /\ forwarded' = forwarded
      BY <2>4 DEF OldifyOther, OldifyForwarded
    <3>2. \A u \in forwarded : field'[u] = field[u]
      BY <2>3, <3>1 DEF Stored, MinorInv, TypeOK
    <3> QED
      BY <3>1, <3>2 DEF CopiesInv, InUse
  <2>5. CASE OldifyCopy(p, v)
    <3>1. PICK n : n = NewOld
      OBVIOUS
    <3>2. /\ n \in Addr /\ ~ InUse(n) /\ v \in YoungAddr /\ v \in Addr /\ v \notin forwarded /\ v # n /\ InUse(v)
          /\ n \notin forwarded
          /\ id' = [id EXCEPT ![n] = id[v]] /\ forwarded' = forwarded \cup {v}
          /\ field' = [Stored(field, p, n) EXCEPT ![v][1] = n] /\ n \in Value
      BY <2>1, <2>2, <2>5, <3>1, CopyFacts DEF Value
    <3>3. id \in [Addr -> 0 .. NIds] /\ field \in [Addr -> [Fields -> Value]] /\ 1 \in Fields
      BY DEF MinorInv, TypeOK, Fields
    <3>4. Stored(field, p, n) \in [Addr -> [Fields -> Value]] /\ \A u \in forwarded : Stored(field, p, n)[u] = field[u]
      BY <2>2, <2>3, <3>2, <3>3, SlotType DEF Stored
    <3>5. field'[v][1] = n /\ \A u \in forwarded : field'[u] = field[u]
      BY <2>3, <3>2, <3>3, <3>4
    <3>6. \A u \in forwarded : field[u][1] # n /\ id'[field[u][1]] = id[field[u][1]] /\ id'[u] = id[u]
      BY <2>3, <3>2, <3>3 DEF CopiesInv
    <3>7. id'[n] = id[v] /\ id'[v] = id[v]
      BY <3>2, <3>3
    <3> QED
      BY <3>2, <3>5, <3>6, <3>7 DEF CopiesInv, InUse
  <2>6. CASE OutOfMemory(v)
    BY <1>1, <2>6 DEF OutOfMemory, heapVars
  <2> QED
    BY <1>7, <2>1, <2>4, <2>5, <2>6 DEF oldify
<1>8. CASE UNCHANGED vars
  BY <1>1, <1>8 DEF vars, heapVars
<1> QED
  BY <1>4, <1>5, <1>6, <1>7, <1>8 DEF Next, Collector

(* The invariant of the minor collector, one call at most for each slot,   *)
(* and copies under the identity of their originals, in every state.       *)
THEOREM ViewInvariance == Spec => []ViewInv
<1>1. Init => ViewInv
  BY InitInv DEF ViewInv, UniqueCalls, CopiesInv, Init
<1>2. ViewInv /\ [Next]_vars => ViewInv'
  BY NextInv, UniqueStep, CopiesStep DEF ViewInv
<1> QED
  BY <1>1, <1>2, PTL DEF Spec

-----------------------------------------------------------------------------
(* What a field leads to, before and after a step that makes the first     *)
(* call.                                                                   *)

LEMMA ContentsHasNext ==
  ASSUME NEW a, NEW f
  PROVE  /\ \A i \in DOMAIN calls' : calls'[i][1] = <<a, f>> => calls'[i][2] \in Contents(a, f)'
         /\ (\A i \in DOMAIN calls' : calls'[i][1] # <<a, f>>) => field'[a][f] \in Contents(a, f)'
BY DEF Contents, Range

LEMMA ContentsNow ==
  ASSUME UniqueCalls, NEW a, NEW f
  PROVE  /\ \A i \in DOMAIN calls : calls[i][1] = <<a, f>> => Contents(a, f) = {calls[i][2]}
         /\ (\A i \in DOMAIN calls : calls[i][1] # <<a, f>>) => Contents(a, f) = {field[a][f]}
<1>1. ASSUME NEW i \in DOMAIN calls, calls[i][1] = <<a, f>>
      PROVE  Contents(a, f) = {calls[i][2]}
  <2>1. calls[i][2] \in Contents(a, f)
    BY <1>1, ContentsHas
  <2>2. ASSUME NEW x, x \in Contents(a, f) PROVE x = calls[i][2]
    <3>1. PICK k \in DOMAIN calls : calls[k][1] = <<a, f>> /\ calls[k][2] = x
      BY <1>1, <2>2, InContents
    <3>2. k = i
      BY <1>1, <3>1 DEF UniqueCalls
    <3> QED
      BY <3>1, <3>2
  <2> QED
    BY <2>1, <2>2
<1>2. ASSUME \A i \in DOMAIN calls : calls[i][1] # <<a, f>>
      PROVE  Contents(a, f) = {field[a][f]}
  <2>1. field[a][f] \in Contents(a, f)
    BY <1>2, ContentsHas
  <2>2. ASSUME NEW x, x \in Contents(a, f) PROVE x = field[a][f]
    <3>1. \/ \E i \in DOMAIN calls : calls[i][1] = <<a, f>> /\ calls[i][2] = x
          \/ x = field[a][f] /\ \A i \in DOMAIN calls : calls[i][1] # <<a, f>>
      BY SMTT(30), <2>2, InContents
    <3> QED
      BY <1>2, <3>1
  <2> QED
    BY <2>1, <2>2
<1> QED
  BY <1>1, <1>2

LEMMA ContentsThen ==
  ASSUME UniqueCalls', NEW a, NEW f
  PROVE  /\ \A i \in DOMAIN calls' : calls'[i][1] = <<a, f>> => Contents(a, f)' = {calls'[i][2]}
         /\ (\A i \in DOMAIN calls' : calls'[i][1] # <<a, f>>) => Contents(a, f)' = {field'[a][f]}
<1>1. ASSUME NEW i \in DOMAIN calls', calls'[i][1] = <<a, f>>
      PROVE  Contents(a, f)' = {calls'[i][2]}
  <2>1. calls'[i][2] \in Contents(a, f)'
    BY <1>1, ContentsHasNext
  <2>2. ASSUME NEW x, x \in Contents(a, f)' PROVE x = calls'[i][2]
    <3>1. PICK k \in DOMAIN calls' : calls'[k][1] = <<a, f>> /\ calls'[k][2] = x
      BY <1>1, <2>2, InContentsNext
    <3>2. k = i
      BY <1>1, <3>1 DEF UniqueCalls
    <3> QED
      BY <3>1, <3>2
  <2> QED
    BY <2>1, <2>2
<1>2. ASSUME \A i \in DOMAIN calls' : calls'[i][1] # <<a, f>>
      PROVE  Contents(a, f)' = {field'[a][f]}
  <2>1. field'[a][f] \in Contents(a, f)'
    BY <1>2, ContentsHasNext
  <2>2. ASSUME NEW x, x \in Contents(a, f)' PROVE x = field'[a][f]
    BY <1>2, <2>2, InContentsNext
  <2> QED
    BY <2>1, <2>2
<1> QED
  BY <1>1, <1>2

(* The first call is made, and no other on the same slot is added.         *)
LEMMA CallMade ==
  ASSUME UniqueCalls, UniqueCalls', NEW a, NEW f,
         1 \in DOMAIN calls,
         \A i \in DOMAIN calls' : calls'[i][1] = <<a, f>> => \E k \in DOMAIN calls : k # 1 /\ calls[k] = calls'[i],
         \A k \in DOMAIN calls : k # 1 /\ calls[k][1] = <<a, f>> => \E i \in DOMAIN calls' : calls'[i] = calls[k]
  PROVE  /\ calls[1][1] = <<a, f>> => Contents(a, f) = {calls[1][2]} /\ Contents(a, f)' = {field'[a][f]}
         /\ calls[1][1] # <<a, f>> /\ field'[a][f] = field[a][f] => Contents(a, f)' = Contents(a, f)
<1>1. ASSUME calls[1][1] = <<a, f>>
      PROVE  Contents(a, f) = {calls[1][2]} /\ Contents(a, f)' = {field'[a][f]}
  <2>1. \A k \in DOMAIN calls : k # 1 => calls[k][1] # <<a, f>>
    BY <1>1 DEF UniqueCalls
  <2>2. \A i \in DOMAIN calls' : calls'[i][1] # <<a, f>>
    BY <2>1
  <2>3. Contents(a, f) = {calls[1][2]}
    BY <1>1, ContentsNow
  <2>4. Contents(a, f)' = {field'[a][f]}
    BY <2>2, ContentsThen
  <2> QED
    BY <2>3, <2>4
<1>2. ASSUME calls[1][1] # <<a, f>>, field'[a][f] = field[a][f]
      PROVE  Contents(a, f)' = Contents(a, f)
  <2>1. CASE \E k \in DOMAIN calls : calls[k][1] = <<a, f>>
    <3>1. PICK k \in DOMAIN calls : calls[k][1] = <<a, f>> /\ k # 1
      BY <1>2, <2>1
    <3>2. PICK i \in DOMAIN calls' : calls'[i] = calls[k]
      BY <3>1
    <3>3. Contents(a, f) = {calls[k][2]}
      BY <3>1, ContentsNow
    <3>4. Contents(a, f)' = {calls'[i][2]}
      BY <3>1, <3>2, ContentsThen
    <3> QED
      BY <3>2, <3>3, <3>4
  <2>2. CASE \A k \in DOMAIN calls : calls[k][1] # <<a, f>>
    <3>1. \A i \in DOMAIN calls' : calls'[i][1] # <<a, f>>
      BY <2>2
    <3>2. Contents(a, f) = {field[a][f]}
      BY <2>2, ContentsNow
    <3>3. Contents(a, f)' = {field'[a][f]}
      BY <3>1, ContentsThen
    <3> QED
      BY <1>2, <3>2, <3>3
  <2> QED
    BY <2>1, <2>2
<1> QED
  BY <1>1, <1>2

-----------------------------------------------------------------------------
(* Graphs: the blocks that lie in every closed set, and what a change of   *)
(* the edges does to them.                                                 *)

ClosedIn(S, U, H, s) ==
  /\ S \subseteq U
  /\ H \subseteq S \cup {Nil}
  /\ \A a \in S : s[a] \subseteq S \cup {Nil}

LiveIn(U, H, s) == {a \in U : \A S : ClosedIn(S, U, H, s) => a \in S}

(* What is live leads to what is live.                                     *)
LEMMA LiveLeads ==
  ASSUME NEW U, NEW H, NEW s, NEW S0, ClosedIn(S0, U, H, s), NEW a \in LiveIn(U, H, s)
  PROVE  s[a] \subseteq LiveIn(U, H, s) \cup {Nil}
<1> SUFFICES ASSUME NEW x, x \in s[a], x # Nil
             PROVE  x \in LiveIn(U, H, s)
  OBVIOUS
<1>1. ASSUME NEW S, ClosedIn(S, U, H, s) PROVE x \in S /\ x \in U
  <2>1. a \in S
    BY <1>1 DEF LiveIn
  <2> QED
    BY <1>1, <2>1 DEF ClosedIn
<1> QED
  BY <1>1 DEF LiveIn

(* Some edges from H, and from the blocks in A, that led to v now lead     *)
(* to w.                                                                   *)
Redirected(A, H, s, G, t, v, w) ==
  /\ \A x \in G : x \in H \/ (x = w /\ v \in H)
  /\ \A x \in H : x \in G \/ (x = v /\ w \in G)
  /\ \A a \in A : \A x \in t[a] : x \in s[a] \/ (x = w /\ v \in s[a])
  /\ \A a \in A : \A x \in s[a] : x \in t[a] \/ (x = v /\ w \in t[a])

(* Edges to v become edges to w, where v leads.                            *)
LEMMA Forwarded ==
  ASSUME NEW U, NEW H, NEW s, NEW G, NEW t, NEW v \in U, NEW w, v # Nil, w # Nil,
         s[v] = {w}, t[v] = {w}, Redirected(U, H, s, G, t, v, w)
  PROVE  LiveIn(U, G, t) \ {v} = LiveIn(U, H, s) \ {v}
<1>0. /\ \A x \in G : x \in H \/ (x = w /\ v \in H)
      /\ \A x \in H : x \in G \/ (x = v /\ w \in G)
      /\ \A a \in U : \A x \in t[a] : x \in s[a] \/ (x = w /\ v \in s[a])
      /\ \A a \in U : \A x \in s[a] : x \in t[a] \/ (x = v /\ w \in t[a])
  BY DEF Redirected
<1>1. ASSUME NEW S, ClosedIn(S, U, H, s) PROVE ClosedIn(S, U, G, t)
  <2>0. S \subseteq U /\ H \subseteq S \cup {Nil} /\ \A a \in S : s[a] \subseteq S \cup {Nil}
    BY <1>1 DEF ClosedIn
  <2>1. v \in S => w \in S
    BY <2>0
  <2>2. G \subseteq S \cup {Nil}
    BY <1>0, <2>0, <2>1
  <2>3. ASSUME NEW a \in S, NEW x \in t[a] PROVE x \in S \cup {Nil}
    BY <1>0, <2>0, <2>1, <2>3
  <2> QED
    BY <2>0, <2>2, <2>3 DEF ClosedIn
<1>2. ASSUME NEW S, ClosedIn(S, U, G, t)
      PROVE  \E T : ClosedIn(T, U, H, s) /\ T \subseteq S \cup {v}
  <2>0. S \subseteq U /\ G \subseteq S \cup {Nil} /\ \A a \in S : t[a] \subseteq S \cup {Nil}
    BY <1>2 DEF ClosedIn
  <2>1. PICK T : T = IF w \in S THEN S \cup {v} ELSE S
    OBVIOUS
  <2>2. T \subseteq U /\ H \subseteq T \cup {Nil}
    BY <1>0, <2>0, <2>1
  <2>3. ASSUME NEW a \in T, NEW x \in s[a] PROVE x \in T \cup {Nil}
    <3>1. CASE a = v
      <4>1. x = w
        BY <2>3, <3>1
      <4>2. w \in S
        BY <2>0, <2>1, <2>3, <3>1
      <4> QED
        BY <2>1, <4>1, <4>2
    <3>2. CASE a # v
      <4>1. a \in S
        BY <2>1, <2>3, <3>2
      <4>2. a \in U
        BY <2>0, <4>1
      <4>3. x \in t[a] \/ (x = v /\ w \in t[a])
        BY <1>0, <2>3, <4>2
      <4>4. t[a] \subseteq S \cup {Nil}
        BY <2>0, <4>1
      <4> QED
        BY <2>1, <4>3, <4>4
    <3> QED
      BY <3>1, <3>2
  <2> QED
    BY <2>1, <2>2, <2>3 DEF ClosedIn
<1>3. ASSUME NEW a \in LiveIn(U, G, t) PROVE a \in LiveIn(U, H, s)
  BY <1>1, <1>3 DEF LiveIn
<1>4. ASSUME NEW a \in LiveIn(U, H, s), a # v PROVE a \in LiveIn(U, G, t)
  <2>1. ASSUME NEW S, ClosedIn(S, U, G, t) PROVE a \in S
    <3>1. PICK T : ClosedIn(T, U, H, s) /\ T \subseteq S \cup {v}
      BY <1>2, <2>1
    <3>2. a \in T
      BY <1>4, <3>1 DEF LiveIn
    <3> QED
      BY <1>4, <3>1, <3>2
  <2> QED
    BY <1>4, <2>1 DEF LiveIn
<1> QED
  BY <1>3, <1>4

(* v moves to n, which was not in use.                                     *)
LEMMA Moved ==
  ASSUME NEW U, NEW H, NEW s, NEW G, NEW t, NEW v \in U, NEW n, n \notin U, v # Nil, n # Nil,
         t[v] = {n}, t[n] = s[v], Redirected(U \ {v}, H, s, G, t, v, n),
         NEW S0, ClosedIn(S0, U, H, s)
  PROVE  /\ n \in LiveIn(U \cup {n}, G, t) <=> v \in LiveIn(U, H, s)
         /\ \A a : a # v /\ a # n => (a \in LiveIn(U \cup {n}, G, t) <=> a \in LiveIn(U, H, s))
<1>0. /\ \A x \in G : x \in H \/ (x = n /\ v \in H)
      /\ \A x \in H : x \in G \/ (x = v /\ n \in G)
      /\ \A a \in U : a # v => \A x \in t[a] : x \in s[a] \/ (x = n /\ v \in s[a])
      /\ \A a \in U : a # v => \A x \in s[a] : x \in t[a] \/ (x = v /\ n \in t[a])
  BY DEF Redirected
<1> DEFINE Before(S) == ClosedIn(S, U, H, s)
           After(S)  == ClosedIn(S, U \cup {n}, G, t)
<1>1. ASSUME NEW S, Before(S)
      PROVE  \E T : After(T) /\ (n \in T <=> v \in S) /\ \A a : a # n => (a \in T <=> a \in S)
  <2>0. S \subseteq U /\ H \subseteq S \cup {Nil} /\ (\A a \in S : s[a] \subseteq S \cup {Nil}) /\ n \notin S
    BY <1>1 DEF ClosedIn
  <2>1. PICK T : T = IF v \in S THEN S \cup {n} ELSE S
    OBVIOUS
  <2>2. T \subseteq U \cup {n} /\ G \subseteq T \cup {Nil}
    BY <1>0, <2>0, <2>1
  <2>3. ASSUME NEW a \in T, NEW x \in t[a] PROVE x \in T \cup {Nil}
    <3>1. CASE a = v
      BY <2>1, <2>3, <3>1
    <3>2. CASE a = n
      <4>1. v \in S /\ x \in s[v]
        BY <2>0, <2>1, <2>3, <3>2
      <4> QED
        BY <2>0, <2>1, <4>1
    <3>3. CASE a # v /\ a # n
      <4>1. a \in S /\ a \in U
        BY <2>0, <2>1, <2>3, <3>3
      <4>2. x \in s[a] \/ (x = n /\ v \in s[a])
        BY <1>0, <2>3, <3>3, <4>1
      <4>3. s[a] \subseteq S \cup {Nil}
        BY <2>0, <4>1
      <4> QED
        BY <2>1, <4>2, <4>3
    <3> QED
      BY <3>1, <3>2, <3>3
  <2>4. After(T)
    BY <2>2, <2>3 DEF ClosedIn
  <2> QED
    BY <2>0, <2>1, <2>4
<1>2. ASSUME NEW S, After(S)
      PROVE  \E T : /\ Before(T) /\ (v \in T => n \in S)
                    /\ \A a : a # v /\ a \in T => a \in S /\ a # n
  <2>0. G \subseteq S \cup {Nil} /\ \A a \in S : t[a] \subseteq S \cup {Nil}
    BY <1>2 DEF ClosedIn
  <2>1. S0 \subseteq U /\ H \subseteq S0 \cup {Nil} /\ (\A a \in S0 : s[a] \subseteq S0 \cup {Nil}) /\ n \notin S0
    BY DEF ClosedIn
  <2>2. PICK T : T = {a \in S0 : IF a = v THEN n \in S ELSE a \in S}
    OBVIOUS
  <2>3. ASSUME NEW x \in H PROVE x \in T \cup {Nil}
    <3>1. x \in S0 \cup {Nil} /\ (x \in G \/ (x = v /\ n \in G))
      BY <1>0, <2>1, <2>3
    <3>2. CASE x = v
      <4>1. v \in S => n \in S
        BY <2>0
      <4>2. n \in S
        BY <2>0, <3>1, <3>2, <4>1
      <4> QED
        BY <2>2, <3>1, <3>2, <4>2
    <3>3. CASE x # v
      BY <2>0, <2>2, <3>1, <3>3
    <3> QED
      BY <3>2, <3>3
  <2>4. ASSUME NEW a \in T, NEW x \in s[a] PROVE x \in T \cup {Nil}
    <3>1. a \in S0 /\ x \in S0 \cup {Nil} /\ x # n /\ a \in U
      BY <2>1, <2>2, <2>4
    <3>2. x # Nil => \/ x \in S /\ x # v
                     \/ x = v /\ n \in S
      <4>1. CASE a = v
        <5>1. n \in S
          BY <2>2, <2>4, <4>1
        <5>2. x \in S \cup {Nil}
          BY <2>0, <2>4, <4>1, <5>1
        <5> QED
          BY <5>1, <5>2
      <4>2. CASE a # v
        <5>1. a \in S
          BY <2>2, <2>4, <4>2
        <5>2. x \in t[a] \/ (x = v /\ n \in t[a])
          BY <1>0, <2>4, <3>1, <4>2
        <5>3. t[a] \subseteq S \cup {Nil} /\ (v \in S => n \in S)
          BY <2>0, <5>1
        <5> QED
          BY <5>2, <5>3
      <4> QED
        BY <4>1, <4>2
    <3> QED
      BY <2>2, <3>1, <3>2
  <2>5. Before(T)
    BY <2>1, <2>2, <2>3, <2>4 DEF ClosedIn
  <2> QED
    BY <2>1, <2>2, <2>5
<1>3. ASSUME NEW a, a # v, a # n PROVE a \in LiveIn(U \cup {n}, G, t) <=> a \in LiveIn(U, H, s)
  <2>1. ASSUME a \in LiveIn(U \cup {n}, G, t), NEW S, Before(S) PROVE a \in S
    <3>1. PICK T : After(T) /\ \A b : b # n => (b \in T <=> b \in S)
      BY <1>1, <2>1
    <3>2. a \in T
      BY <2>1, <3>1 DEF LiveIn
    <3> QED
      BY <1>3, <3>1, <3>2
  <2>2. ASSUME a \in LiveIn(U, H, s), NEW S, After(S) PROVE a \in S
    <3>1. PICK T : Before(T) /\ \A b : b # v /\ b \in T => b \in S
      BY <1>2, <2>2
    <3>2. a \in T
      BY <2>2, <3>1 DEF LiveIn
    <3> QED
      BY <1>3, <3>1, <3>2
  <2> QED
    BY <1>3, <2>1, <2>2 DEF LiveIn
<1>4. n \in LiveIn(U \cup {n}, G, t) <=> v \in LiveIn(U, H, s)
  <2>1. ASSUME n \in LiveIn(U \cup {n}, G, t), NEW S, Before(S) PROVE v \in S
    <3>1. PICK T : After(T) /\ (n \in T <=> v \in S)
      BY <1>1, <2>1
    <3> QED
      BY <2>1, <3>1 DEF LiveIn
  <2>2. ASSUME v \in LiveIn(U, H, s), NEW S, After(S) PROVE n \in S
    <3>1. PICK T : Before(T) /\ (v \in T => n \in S)
      BY <1>2, <2>2
    <3> QED
      BY <2>2, <3>1 DEF LiveIn
  <2> QED
    BY <2>1, <2>2 DEF LiveIn
<1> QED
  BY <1>3, <1>4

(* The blocks of the least closed set are the live ones.                   *)
LEMMA LeastIsLive ==
  ASSUME NEW U, NEW H, NEW s, NEW R, ClosedIn(R, U, H, s),
         \A S : ClosedIn(S, U, H, s) => R \subseteq S
  PROVE  LiveIn(U, H, s) = R
BY DEF LiveIn, ClosedIn

-----------------------------------------------------------------------------
(* The view before and after a step.                                       *)

Used      == {a \in Addr : InUse(a)}
Edges     == [a \in Addr |-> Successors(a)]
Ids(a, f) == {IdOf(v) : v \in Contents(a, f)}

(* b is after the step what a was before it.                               *)
SameBlock(a, b) == id'[b] = id[a] /\ \A f \in Fields : Ids(b, f)' = Ids(a, f)

LEMMA LiveNow == Live = LiveIn(Used, Held, Edges)
BY DEF Live, LiveIn, ClosedSets, Closed, ClosedIn, Used, Edges

LEMMA LiveThen == Live' = LiveIn(Used', Held', Edges')
BY DEF Live, LiveIn, ClosedSets, Closed, ClosedIn, Used, Edges

LEMMA LiveUsed == Live \subseteq Used /\ Live' \subseteq Used' /\ Used \subseteq Addr /\ Used' \subseteq Addr
BY DEF Live, Used

LEMMA SomeClosed ==
  ASSUME NoStale
  PROVE  \E S : ClosedIn(S, Used, Held, Edges)
BY DEF NoStale, ClosedSets, Closed, ClosedIn, Used, Edges

LEMMA ViewSame ==
  ASSUME \A r \in RootSlots : IdOf(root[r])' = IdOf(root[r]),
         \A a \in Live \ forwarded : \E b \in Live' \ forwarded' : SameBlock(a, b),
         \A b \in Live' \ forwarded' : \E a \in Live \ forwarded : SameBlock(a, b)
  PROVE  View' = View
<1> DEFINE Block(a) == <<id[a], [f \in Fields |-> Ids(a, f)]>>
           After(b) == <<id'[b], [f \in Fields |-> Ids(b, f)']>>
<1>1. \A a, b : SameBlock(a, b) => After(b) = Block(a)
  BY DEF SameBlock
<1> HIDE DEF Block, After
<1>2. {After(b) : b \in Live' \ forwarded'} = {Block(a) : a \in Live \ forwarded}
  <2>1. ASSUME NEW b \in Live' \ forwarded' PROVE \E a \in Live \ forwarded : After(b) = Block(a)
    BY <1>1
  <2>2. ASSUME NEW a \in Live \ forwarded PROVE \E b \in Live' \ forwarded' : After(b) = Block(a)
    BY <1>1
  <2> QED
    BY <2>1, <2>2
<1>3. View.block = {Block(a) : a \in Live \ forwarded}
  BY Zenon DEF View, Block, Ids
<1>4. View'.block = {After(b) : b \in Live' \ forwarded'}
  BY Zenon DEF View, After, Ids
<1>5. View'.root = View.root
  BY DEF View
<1> QED
  BY <1>2, <1>3, <1>4, <1>5 DEF View

(* A step that changes neither identities nor edges.                       *)
LEMMA SameView ==
  ASSUME UNCHANGED <<id, root, forwarded>>,
         \A a \in Addr, f \in Fields : Contents(a, f)' = Contents(a, f),
         \A u \in forwarded : field'[u][1] = field[u][1]
  PROVE  View' = View
<1>1. \A v : IdOf(v)' = IdOf(v)
  BY DEF IdOf
<1>2. ASSUME NEW a \in Addr PROVE Successors(a)' = Successors(a)
  <2>1. CASE a \in forwarded
    BY <2>1 DEF Successors
  <2>2. CASE a \notin forwarded
    <3>1. UNION {Contents(a, f)' : f \in Fields} = UNION {Contents(a, f) : f \in Fields}
      <4>1. \A x : (\E f \in Fields : x \in Contents(a, f)') <=> (\E f \in Fields : x \in Contents(a, f))
        OBVIOUS
      <4> QED
        BY <4>1
    <3> QED
      BY <2>2, <3>1 DEF Successors
  <2> QED
    BY <2>1, <2>2
<1>3. Edges' = Edges /\ Used' = Used /\ Held' = Held
  BY <1>2 DEF Edges, Used, InUse, Held
<1>4. Live' = Live
  BY <1>3, LiveNow, LiveThen
<1>5. ASSUME NEW a \in Addr PROVE SameBlock(a, a)
  <2>1. ASSUME NEW f \in Fields PROVE Ids(a, f)' = Ids(a, f)
    <3>1. Contents(a, f)' = Contents(a, f)
      OBVIOUS
    <3> QED
      BY <1>1, <3>1 DEF Ids
  <2> QED
    BY <2>1 DEF SameBlock
<1>6. \A r \in RootSlots : IdOf(root[r])' = IdOf(root[r])
  BY <1>1
<1> QED
  BY <1>4, <1>5, <1>6, LiveUsed, ViewSame

LEMMA StoredIs ==
  ASSUME MinorInv, NEW p \in Slots, NEW w \in Value, field' = Stored(field, p, w), Store(p, w)
  PROVE  /\ \A b \in Addr, e \in Fields : field'[b][e] = IF p = <<b, e>> THEN w ELSE field[b][e]
         /\ \A r \in RootSlots : root'[r] = IF p = <<0, r>> THEN w ELSE root[r]
         /\ root' \in [RootSlots -> Value]
BY StoreSlot DEF MinorInv, TypeOK

(* A call is made, and a value is stored: the value given or, for a block  *)
(* that was moved, its copy.                                               *)
LEMMA StoredView ==
  ASSUME ViewInv, UniqueCalls', calls # << >>,
         NEW p, NEW v, p = Head(calls)[1], v = Head(calls)[2],
         NEW w \in Value, w = v \/ (v \in forwarded /\ w = field[v][1]),
         field' = Stored(field, p, w), Store(p, w), calls' = Tail(calls),
         UNCHANGED <<id, forwarded>>
  PROVE  View' = View
<1>1. /\ p \in Slots /\ v \in Value /\ 1 \in DOMAIN calls /\ calls[1][1] = p /\ calls[1][2] = v
      /\ MinorInv /\ UniqueCalls
      /\ forwarded \subseteq YoungAddr
  BY HeadCall DEF ViewInv, MinorInv, TypeOK
<1>2. /\ \A b \in Addr, e \in Fields : field'[b][e] = IF p = <<b, e>> THEN w ELSE field[b][e]
      /\ \A r \in RootSlots : root'[r] = IF p = <<0, r>> THEN w ELSE root[r]
      /\ root' \in [RootSlots -> Value]
  BY <1>1, StoredIs
<1>3. ASSUME NEW a \in Addr, NEW f \in Fields
      PROVE  IF p = <<a, f>> THEN Contents(a, f) = {v} /\ Contents(a, f)' = {w}
                             ELSE Contents(a, f)' = Contents(a, f)
  <2>1. \A i \in DOMAIN calls' : \E k \in DOMAIN calls : k # 1 /\ calls[k] = calls'[i]
    <3> SUFFICES ASSUME NEW i \in DOMAIN calls' PROVE \E k \in DOMAIN calls : k # 1 /\ calls[k] = calls'[i]
      OBVIOUS
    <3>1. i \in 1 .. Len(calls) - 1 /\ Len(calls) \in Nat /\ calls'[i] = calls[i + 1] /\ i + 1 \in DOMAIN calls
      BY <1>1, HeadCall
    <3>2. i + 1 # 1
      BY <3>1
    <3> QED
      BY <3>1, <3>2
  <2>2. \A k \in DOMAIN calls : k # 1 => \E i \in DOMAIN calls' : calls'[i] = calls[k]
    BY <1>1, HeadCall
  <2>3. /\ calls[1][1] = <<a, f>> => Contents(a, f) = {calls[1][2]} /\ Contents(a, f)' = {field'[a][f]}
        /\ calls[1][1] # <<a, f>> /\ field'[a][f] = field[a][f] => Contents(a, f)' = Contents(a, f)
    BY <1>1, <2>1, <2>2, CallMade
  <2>4. field'[a][f] = IF p = <<a, f>> THEN w ELSE field[a][f]
    BY <1>2
  <2> QED
    BY <1>1, <2>3, <2>4
<1>4. ASSUME NEW u \in forwarded
      PROVE  u \in Addr /\ field'[u][1] = field[u][1] /\ field[u][1] \in Addr /\ \A f : p # <<u, f>>
  <2>1. u \in YoungAddr /\ u \in Addr /\ u \notin OldAddr /\ u # 0 /\ 1 \in Fields
    BY <1>1, Addresses DEF Fields, Nil
  <2>2. \A f : p # <<u, f>>
    BY <1>1, <2>1, SlotType
  <2> QED
    BY <1>1, <1>2, <2>1, <2>2, Addresses DEF MinorInv, ForwardInv
<1>5. \A r \in RootSlots : root'[r] = root[r] \/ (root[r] = v /\ root'[r] = w)
  <2> SUFFICES ASSUME NEW r \in RootSlots, p = <<0, r>> PROVE root[r] = v
    BY <1>2
  <2> QED
    BY <1>1 DEF MinorInv, CallsInv
<1>6. /\ \A x : IdOf(x)' = IdOf(x)
      /\ IdOf(w) = IdOf(v)
  <2>1. w # v => w # Nil /\ v # Nil /\ id[w] = id[v]
    BY <1>1, <1>4, Addresses DEF ViewInv, CopiesInv
  <2> QED
    BY <2>1 DEF IdOf
<1>7. CASE w = v
  <2>1. \A a \in Addr, f \in Fields : Contents(a, f)' = Contents(a, f)
    BY <1>3, <1>7
  <2>2. root' = root
    BY <1>1, <1>2, <1>5, <1>7 DEF MinorInv, TypeOK
  <2>3. \A u \in forwarded : field'[u][1] = field[u][1]
    BY <1>4
  <2> QED
    BY <2>1, <2>2, <2>3, SameView
<1>8. CASE w # v
  <2>1. /\ v \in forwarded /\ v \in Addr /\ v # Nil /\ w = field[v][1] /\ w \in Addr /\ w # Nil
        /\ field'[v][1] = w
    BY <1>4, <1>8, Addresses
  <2>2. v \in Used
    <3>1. v \in YoungAddr /\ WithinYoung(v)
      BY <1>1, <2>1 DEF MinorInv, YoungInv
    <3> QED
      BY <1>1, <2>1, <3>1 DEF MinorInv, YoungInv, WithinYoung, Is_young, Used
  <2>3. Edges[v] = {w} /\ Edges'[v] = {w}
    BY <2>1 DEF Edges, Successors
  <2>4. /\ \A x \in Held' : x \in Held \/ (x = w /\ v \in Held)
        /\ \A x \in Held : x \in Held' \/ (x = v /\ w \in Held')
    <3>1. Held = {root[r] : r \in RootSlots} \cup {Global} /\ Held' = {root'[r] : r \in RootSlots} \cup {Global}
      BY <1>1, <1>2 DEF Held, Range, MinorInv, TypeOK
    <3> QED
      BY <1>5, <3>1
  <2>5. ASSUME NEW a \in Used
        PROVE  /\ \A x \in Edges'[a] : x \in Edges[a] \/ (x = w /\ v \in Edges[a])
               /\ \A x \in Edges[a] : x \in Edges'[a] \/ (x = v /\ w \in Edges'[a])
    <3>1. a \in Addr /\ Edges[a] = Successors(a) /\ Edges'[a] = Successors(a)'
      BY DEF Used, Edges
    <3>2. CASE a \in forwarded
      BY <1>4, <3>1, <3>2 DEF Successors
    <3>3. CASE a \notin forwarded
      <4>1. /\ \A x : x \in Edges[a] <=> \E f \in Fields : x \in Contents(a, f)
            /\ \A x : x \in Edges'[a] <=> \E f \in Fields : x \in Contents(a, f)'
        BY <3>1, <3>3 DEF Successors
      <4>2. \A f \in Fields : /\ \A x \in Contents(a, f)' : x \in Contents(a, f) \/ (x = w /\ v \in Contents(a, f))
                              /\ \A x \in Contents(a, f) : x \in Contents(a, f)' \/ (x = v /\ w \in Contents(a, f)')
        BY <1>3, <3>1
      <4> QED
        BY <4>1, <4>2
    <3> QED
      BY <3>2, <3>3
  <2>6. Used' = Used
    BY DEF Used, InUse
  <2>7. LiveIn(Used, Held', Edges') \ {v} = LiveIn(Used, Held, Edges) \ {v}
    <3>1. PICK U, H, s, G, t : U = Used /\ H = Held /\ s = Edges /\ G = Held' /\ t = Edges'
      OBVIOUS
    <3>2. v \in U /\ s[v] = {w} /\ t[v] = {w} /\ Redirected(U, H, s, G, t, v, w)
      BY <2>2, <2>3, <2>4, <2>5, <3>1 DEF Redirected
    <3>3. LiveIn(U, G, t) \ {v} = LiveIn(U, H, s) \ {v}
      BY SMTT(30), <2>1, <3>2, Forwarded
    <3> QED
      BY <3>1, <3>3
  <2>8. Live' \ forwarded' = Live \ forwarded
    <3>1. Live' \ {v} = Live \ {v}
      BY <2>6, <2>7, LiveNow, LiveThen
    <3> QED
      BY <2>1, <3>1
  <2>9. ASSUME NEW a \in Addr PROVE SameBlock(a, a)
    <3>1. ASSUME NEW f \in Fields PROVE Ids(a, f)' = Ids(a, f)
      <4>1. CASE p = <<a, f>>
        <5>1. Contents(a, f) = {v} /\ Contents(a, f)' = {w}
          BY <1>3, <4>1
        <5> QED
          BY <1>6, <5>1 DEF Ids
      <4>2. CASE p # <<a, f>>
        <5>1. Contents(a, f)' = Contents(a, f)
          BY <1>3, <4>2
        <5> QED
          BY <1>6, <5>1 DEF Ids
      <4> QED
        BY <4>1, <4>2
    <3> QED
      BY <3>1 DEF SameBlock
  <2>10. \A r \in RootSlots : IdOf(root[r])' = IdOf(root[r])
    BY <1>5, <1>6
  <2> QED
    BY <2>8, <2>9, <2>10, LiveUsed, ViewSame
<1> QED
  BY <1>7, <1>8

(* A root or a recorded field is to be copied: nothing changes yet.        *)
LEMMA CallView ==
  ASSUME ViewInv, UniqueCalls', calls = << >>, UNCHANGED <<heapVars, root>>,
         calls' = << >> \/ \E p : p \in Slots /\ OneCall(calls', p)
  PROVE  View' = View
<1> USE DEF heapVars
<1>1. ASSUME NEW a \in Addr, NEW f \in Fields
      PROVE  Contents(a, f)' = Contents(a, f)
  <2>1. Contents(a, f) = {field[a][f]}
    BY ContentsNow DEF ViewInv
  <2>2. ASSUME NEW x, x \in Contents(a, f)' PROVE x = field[a][f]
    <3>1. CASE calls' = << >>
      BY <2>2, <3>1, InContentsNext
    <3>2. CASE calls' # << >>
      <4>1. PICK p : p \in Slots /\ OneCall(calls', p)
        BY <3>2
      <4>2. \A b, e : field'[b][e] = field[b][e]
        OBVIOUS
      <4> QED
        BY <2>2, <4>1, <4>2, OneCallContents
    <3> QED
      BY <3>1, <3>2
  <2>3. \E x : x \in Contents(a, f)'
    BY ContentsHasNext
  <2> QED
    BY <2>1, <2>2, <2>3
<1>2. \A u \in forwarded : field'[u][1] = field[u][1]
  OBVIOUS
<1> QED
  BY <1>1, <1>2, SameView

(* What moving a block does to the calls, and to the fields and roots.     *)
LEMMA CopyCalls ==
  ASSUME MinorInv, calls # << >>, NEW n \in OldAddr, NEW v \in Addr,
         Replaced(calls', FieldsToCopy(v, n), calls)
  PROVE  /\ \A f \in Fields : /\ f \in DOMAIN calls' /\ calls'[f][1] = <<n, f>> /\ calls'[f][2] = field[v][f]
         /\ \A k \in DOMAIN calls : k # 1 => \E i \in DOMAIN calls' : calls'[i] = calls[k]
         /\ \A i \in DOMAIN calls' :
              \/ \E f \in Fields : calls'[i][1] = <<n, f>> /\ calls'[i][2] = field[v][f]
              \/ \E k \in DOMAIN calls : k # 1 /\ calls'[i] = calls[k]
<1> DEFINE new == FieldsToCopy(v, n)
<1>1. /\ new \in [Fields -> Slots \X Value]
      /\ \A f \in Fields : new[f][1] = <<n, f>> /\ new[f][2] = field[v][f]
  BY FieldSlot DEF FieldsToCopy, MinorInv, TypeOK
<1>2. Replaced(calls', new, calls)
  OBVIOUS
<1> HIDE DEF new
<1>3. PICK C : C = Slots \X Value
  OBVIOUS
<1>4. calls \in Seq(C) /\ new \in Seq(C) /\ 1 .. Len(new) = Fields
  BY <1>1, <1>3, FieldSeq DEF Fields, MinorInv, TypeOK
<1>5. /\ \A f \in 1 .. Len(new) : f \in DOMAIN calls' /\ calls'[f] = new[f]
      /\ \A k \in DOMAIN calls : k # 1 => \E i \in DOMAIN calls' : calls'[i] = calls[k]
      /\ \A i \in DOMAIN calls' : \/ \E f \in 1 .. Len(new) : calls'[i] = new[f]
                                 \/ \E k \in DOMAIN calls : k # 1 /\ calls'[i] = calls[k]
  BY SMTT(30), <1>2, <1>4, HeadReplaced
<1>6. /\ \A f \in Fields : f \in DOMAIN calls' /\ calls'[f] = new[f]
      /\ \A i \in DOMAIN calls' : \/ \E f \in Fields : calls'[i] = new[f]
                                 \/ \E k \in DOMAIN calls : k # 1 /\ calls'[i] = calls[k]
  BY <1>4, <1>5, Zenon
<1>7. ASSUME NEW f \in Fields
      PROVE  f \in DOMAIN calls' /\ calls'[f][1] = <<n, f>> /\ calls'[f][2] = field[v][f]
  BY <1>1, <1>6
<1>8. ASSUME NEW i \in DOMAIN calls'
      PROVE  \/ \E f \in Fields : calls'[i][1] = <<n, f>> /\ calls'[i][2] = field[v][f]
             \/ \E k \in DOMAIN calls : k # 1 /\ calls'[i] = calls[k]
  BY <1>1, <1>6
<1> QED
  BY <1>5, <1>7, <1>8, Zenon

LEMMA CopyStores ==
  ASSUME MinorInv, NEW p \in Slots, NEW v \in YoungAddr, NEW n \in OldAddr,
         field' = [Stored(field, p, n) EXCEPT ![v][1] = n], Store(p, n)
  PROVE  /\ \A b \in Addr, e \in Fields : b # v \/ e # 1 => field'[b][e] = IF p = <<b, e>> THEN n ELSE field[b][e]
         /\ field'[v][1] = n
         /\ root' \in [RootSlots -> Value]
         /\ \A r \in RootSlots : root'[r] = IF p = <<0, r>> THEN n ELSE root[r]
<1>1. field \in [Addr -> [Fields -> Value]] /\ root \in [RootSlots -> Value] /\ 1 \in Fields
  BY DEF MinorInv, TypeOK, Fields
<1>2. n \in Value /\ v \in Addr
  BY Addresses DEF Value
<1> DEFINE g == Stored(field, p, n)
<1>3. /\ g \in [Addr -> [Fields -> Value]]
      /\ \A b \in Addr, e \in Fields : g[b][e] = IF p = <<b, e>> THEN n ELSE field[b][e]
      /\ root' \in [RootSlots -> Value]
      /\ \A r \in RootSlots : root'[r] = IF p = <<0, r>> THEN n ELSE root[r]
  BY <1>1, <1>2, StoreSlot
<1>4. field' = [g EXCEPT ![v][1] = n]
  OBVIOUS
<1> HIDE DEF g
<1>5. /\ field'[v][1] = n
      /\ \A b \in Addr, e \in Fields : <<b, e>> # <<v, 1>> => field'[b][e] = g[b][e]
  BY <1>1, <1>2, <1>3, <1>4, SetField
<1> QED
  BY <1>3, <1>5

(* A block is moved.                                                       *)
LEMMA CopyView ==
  ASSUME ViewInv, UniqueCalls', calls # << >>, Collecting,
         NEW p, NEW v, p = Head(calls)[1], v = Head(calls)[2], OldifyCopy(p, v)
  PROVE  View' = View
<1>0. PICK n : n = NewOld
  OBVIOUS
<1>1. MinorInv /\ UniqueCalls
  BY DEF ViewInv
<1>2. /\ n \in OldAddr /\ n \in Addr /\ n \notin YoungAddr /\ ~ InUse(n) /\ n # Nil /\ n \notin forwarded
      /\ p \in Slots /\ v \in YoungAddr /\ v \in Addr /\ v \notin OldAddr /\ v \notin forwarded
      /\ InUse(v) /\ v # n /\ v # Nil
      /\ calls[1][1] = p /\ calls[1][2] = v /\ 1 \in DOMAIN calls
      /\ id' = [id EXCEPT ![n] = id[v]] /\ forwarded' = forwarded \cup {v}
      /\ field' = [Stored(field, p, n) EXCEPT ![v][1] = n] /\ Store(p, n)
      /\ Replaced(calls', FieldsToCopy(v, n), calls)
      /\ \A k \in DOMAIN calls : k # 1 => calls[k][1][1] # n
  BY <1>0, <1>1, CopyFacts
<1>3. /\ \A f \in Fields : /\ f \in DOMAIN calls' /\ calls'[f][1] = <<n, f>> /\ calls'[f][2] = field[v][f]
      /\ \A k \in DOMAIN calls : k # 1 => \E i \in DOMAIN calls' : calls'[i] = calls[k]
      /\ \A i \in DOMAIN calls' :
           \/ \E f \in Fields : calls'[i][1] = <<n, f>> /\ calls'[i][2] = field[v][f]
           \/ \E k \in DOMAIN calls : k # 1 /\ calls'[i] = calls[k]
  BY <1>1, <1>2, CopyCalls
<1>4. /\ \A b \in Addr, e \in Fields : b # v \/ e # 1 => field'[b][e] = IF p = <<b, e>> THEN n ELSE field[b][e]
      /\ field'[v][1] = n
      /\ root' \in [RootSlots -> Value]
      /\ \A r \in RootSlots : root'[r] = IF p = <<0, r>> THEN n ELSE root[r]
  BY <1>1, <1>2, CopyStores
<1>5. \A r \in RootSlots : root'[r] = root[r] \/ (root[r] = v /\ root'[r] = n)
  <2> SUFFICES ASSUME NEW r \in RootSlots, p = <<0, r>> PROVE root[r] = v
    BY <1>4
  <2> QED
    BY <1>1, <1>2 DEF MinorInv, CallsInv
(* What the fields lead to.                                                *)
<1>6. ASSUME NEW a \in Addr, NEW f \in Fields, a # v, a # n
      PROVE  IF p = <<a, f>> THEN Contents(a, f) = {v} /\ Contents(a, f)' = {n}
                             ELSE Contents(a, f)' = Contents(a, f)
  <2>1. \A i \in DOMAIN calls' : calls'[i][1] = <<a, f>> => \E k \in DOMAIN calls : k # 1 /\ calls[k] = calls'[i]
    BY <1>3, <1>6
  <2>2. \A k \in DOMAIN calls : k # 1 /\ calls[k][1] = <<a, f>> => \E i \in DOMAIN calls' : calls'[i] = calls[k]
    BY <1>3
  <2>5. 1 \in DOMAIN calls
    BY <1>2
  <2>3. /\ calls[1][1] = <<a, f>> => Contents(a, f) = {calls[1][2]} /\ Contents(a, f)' = {field'[a][f]}
        /\ calls[1][1] # <<a, f>> /\ field'[a][f] = field[a][f] => Contents(a, f)' = Contents(a, f)
    BY <1>1, <2>5, <2>1, <2>2, CallMade
  <2>4. field'[a][f] = IF p = <<a, f>> THEN n ELSE field[a][f]
    BY <1>4, <1>6
  <2> QED
    BY <1>2, <2>3, <2>4
<1>7. ASSUME NEW f \in Fields
      PROVE  Contents(v, f) = {field[v][f]} /\ Contents(n, f)' = {field[v][f]}
  <2>1. \A i \in DOMAIN calls : calls[i][1] # <<v, f>>
    <3>1. \A i \in DOMAIN calls : calls[i][1] \in Slots
      BY <1>1 DEF MinorInv, TypeOK
    <3>2. <<v, f>> \notin Slots
      BY <1>2 DEF Slots, Nil
    <3> QED
      BY <3>1, <3>2
  <2>2. Contents(v, f) = {field[v][f]}
    BY <1>1, <2>1, ContentsNow
  <2>3. f \in DOMAIN calls' /\ calls'[f][1] = <<n, f>> /\ calls'[f][2] = field[v][f]
    BY <1>3
  <2>4. Contents(n, f)' = {calls'[f][2]}
    BY <2>3, ContentsThen
  <2> QED
    BY <2>2, <2>3, <2>4
<1>8. /\ Used' = Used \cup {n} /\ v \in Used /\ n \notin Used
      /\ id'[n] = id[v] /\ \A a \in Addr : a # n => id'[a] = id[a]
  <2>1. id \in [Addr -> 0 .. NIds]
    BY <1>1 DEF MinorInv, TypeOK
  <2>2. id'[n] = id[v] /\ \A a \in Addr : a # n => id'[a] = id[a]
    BY <1>2, <2>1
  <2> QED
    BY <1>2, <2>2 DEF Used, InUse
<1>9. Edges'[v] = {n} /\ Edges'[n] = Edges[v]
  <2>1. Edges'[v] = {n}
    BY <1>2, <1>4 DEF Edges, Successors
  <2>2. Edges[v] = UNION {Contents(v, f) : f \in Fields}
    BY <1>2 DEF Edges, Successors
  <2>3. Edges'[n] = UNION {Contents(n, f)' : f \in Fields}
    BY <1>2 DEF Edges, Successors
  <2>4. \A f \in Fields : Contents(n, f)' = Contents(v, f)
    BY <1>7
  <2>5. \A x : (\E f \in Fields : x \in Contents(n, f)') <=> (\E f \in Fields : x \in Contents(v, f))
    BY <2>4
  <2> QED
    BY <2>1, <2>2, <2>3, <2>5
<1>10. /\ \A x \in Held' : x \in Held \/ (x = n /\ v \in Held)
       /\ \A x \in Held : x \in Held' \/ (x = v /\ n \in Held')
  <2>1. Held = {root[r] : r \in RootSlots} \cup {Global} /\ Held' = {root'[r] : r \in RootSlots} \cup {Global}
    BY <1>1, <1>4 DEF Held, Range, MinorInv, TypeOK
  <2> QED
    BY <1>5, <2>1
<1>11. ASSUME NEW a \in Used \ {v}
       PROVE  /\ \A x \in Edges'[a] : x \in Edges[a] \/ (x = n /\ v \in Edges[a])
              /\ \A x \in Edges[a] : x \in Edges'[a] \/ (x = v /\ n \in Edges'[a])
  <2>1. a \in Addr /\ Edges[a] = Successors(a) /\ Edges'[a] = Successors(a)' /\ a # v /\ a # n
    BY <1>8 DEF Used, Edges
  <2>2. CASE a \in forwarded
    <3>1. a \in forwarded' /\ a \in YoungAddr /\ 1 \in Fields
      BY <1>1, <1>2, <2>2 DEF MinorInv, TypeOK, Fields
    <3>2. p # <<a, 1>>
      BY <1>2, <3>1, SlotType, Addresses DEF Nil
    <3>3. field'[a][1] = field[a][1]
      BY <1>4, <2>1, <3>1, <3>2
    <3> QED
      BY <2>1, <2>2, <3>1, <3>3 DEF Successors
  <2>3. CASE a \notin forwarded
    <3>1. a \notin forwarded'
      BY <1>2, <2>1, <2>3
    <3>2. /\ \A x : x \in Edges[a] <=> \E f \in Fields : x \in Contents(a, f)
          /\ \A x : x \in Edges'[a] <=> \E f \in Fields : x \in Contents(a, f)'
      BY <2>1, <2>3, <3>1 DEF Successors
    <3>3. \A f \in Fields : /\ \A x \in Contents(a, f)' : x \in Contents(a, f) \/ (x = n /\ v \in Contents(a, f))
                            /\ \A x \in Contents(a, f) : x \in Contents(a, f)' \/ (x = v /\ n \in Contents(a, f)')
      BY <1>6, <2>1
    <3> QED
      BY <3>2, <3>3
  <2> QED
    BY <2>2, <2>3
(* The blocks in reach: v gives way to n.                                  *)
<1>12. /\ n \in Live' <=> v \in Live
       /\ \A a : a # v /\ a # n => (a \in Live' <=> a \in Live)
       /\ \A a \in Live : Edges[a] \subseteq Live \cup {Nil}
  <2>1. PICK U, H, s, G, t : U = Used /\ H = Held /\ s = Edges /\ G = Held' /\ t = Edges'
    OBVIOUS
  <2>2. v \in U /\ n \notin U /\ t[v] = {n} /\ t[n] = s[v] /\ Redirected(U \ {v}, H, s, G, t, v, n)
    BY <1>8, <1>9, <1>10, <1>11, <2>1 DEF Redirected
  <2>3. PICK S0 : ClosedIn(S0, U, H, s)
    BY <1>1, <2>1, SomeClosed DEF MinorInv
  <2>4. /\ n \in LiveIn(U \cup {n}, G, t) <=> v \in LiveIn(U, H, s)
        /\ \A a : a # v /\ a # n => (a \in LiveIn(U \cup {n}, G, t) <=> a \in LiveIn(U, H, s))
    BY <1>2, <2>2, <2>3, Moved
  <2>5. \A a \in LiveIn(U, H, s) : s[a] \subseteq LiveIn(U, H, s) \cup {Nil}
    BY <2>3, LiveLeads
  <2>6. Live = LiveIn(U, H, s) /\ Live' = LiveIn(U \cup {n}, G, t)
    BY <1>8, <2>1, LiveNow, LiveThen
  <2> QED
    BY <2>1, <2>4, <2>5, <2>6
(* What the blocks in reach hold, by identity.                             *)
<1>13. /\ \A x : x \in Addr \cup {Nil} /\ x # n => IdOf(x)' = IdOf(x)
       /\ IdOf(n)' = IdOf(v)
  BY <1>2, <1>8 DEF IdOf
<1>14. ASSUME NEW a \in Live, a \notin forwarded, NEW f \in Fields
       PROVE  \A x \in Contents(a, f) : x \in Addr \cup {Nil} /\ x # n
  <2>1. a \in Addr /\ Edges[a] = Successors(a)
    BY LiveUsed DEF Used, Edges
  <2>2. Contents(a, f) \subseteq Edges[a]
    BY <1>14, <2>1 DEF Successors
  <2>3. n \notin Live /\ Live \subseteq Addr
    BY <1>8, LiveUsed
  <2> QED
    BY <1>2, <1>12, <2>2, <2>3
<1>15. ASSUME NEW a \in Live, a \notin forwarded, a # v PROVE SameBlock(a, a)
  <2>0. a \in Addr /\ a # n
    BY <1>8, LiveUsed
  <2>1. ASSUME NEW f \in Fields PROVE Ids(a, f)' = Ids(a, f)
    <3>1. CASE p = <<a, f>>
      <4>1. Contents(a, f) = {v} /\ Contents(a, f)' = {n}
        BY <1>6, <1>15, <2>0, <3>1
      <4> QED
        BY <1>13, <4>1 DEF Ids
    <3>2. CASE p # <<a, f>>
      <4>1. Contents(a, f)' = Contents(a, f)
        BY <1>6, <1>15, <2>0, <3>2
      <4>2. \A x \in Contents(a, f) : IdOf(x)' = IdOf(x)
        BY <1>13, <1>14, <1>15
      <4> QED
        BY <4>1, <4>2 DEF Ids
    <3> QED
      BY <3>1, <3>2
  <2> QED
    BY <1>8, <2>0, <2>1 DEF SameBlock
<1>16. ASSUME v \in Live PROVE SameBlock(v, n)
  <2>1. ASSUME NEW f \in Fields PROVE Ids(n, f)' = Ids(v, f)
    <3>1. PICK c : c = field[v][f]
      OBVIOUS
    <3>2. Contents(v, f) = {c} /\ Contents(n, f)' = {c}
      BY <1>7, <3>1
    <3>3. c \in Addr \cup {Nil} /\ c # n
      BY <1>2, <1>14, <1>16, <3>2
    <3>4. IdOf(c)' = IdOf(c)
      BY <1>13, <3>3
    <3> QED
      BY <3>2, <3>4 DEF Ids
  <2> QED
    BY <1>8, <2>1 DEF SameBlock
<1>17. \A r \in RootSlots : IdOf(root[r])' = IdOf(root[r])
  <2> SUFFICES ASSUME NEW r \in RootSlots PROVE IdOf(root[r])' = IdOf(root[r])
    OBVIOUS
  <2>1. CASE root'[r] = n /\ root[r] = v
    BY <1>13, <2>1 DEF IdOf
  <2>2. CASE root'[r] = root[r]
    <3>1. root[r] = Nil \/ (root[r] \in Addr /\ InUse(root[r]))
      BY <1>1, HeldInUse, HeldIs DEF MinorInv, TypeOK
    <3>2. root[r] # n
      BY <1>2, <3>1
    <3>3. id'[root[r]] = id[root[r]] \/ root[r] = Nil
      BY <1>8, <3>1, <3>2
    <3> QED
      BY <2>2, <3>3 DEF IdOf
  <2> QED
    BY <1>5, <2>1, <2>2
<1>18. ASSUME NEW a \in Live \ forwarded PROVE \E b \in Live' \ forwarded' : SameBlock(a, b)
  <2>1. CASE a = v
    BY <1>2, <1>12, <1>16, <2>1
  <2>2. CASE a # v
    <3>1. a # n
      BY <1>8, LiveUsed
    <3> QED
      BY <1>2, <1>12, <1>15, <2>2, <3>1
  <2> QED
    BY <2>1, <2>2
<1>19. ASSUME NEW b \in Live' \ forwarded' PROVE \E a \in Live \ forwarded : SameBlock(a, b)
  <2>1. CASE b = n
    BY <1>2, <1>12, <1>16, <2>1
  <2>2. CASE b # n
    <3>1. b # v /\ b \notin forwarded
      BY <1>2
    <3> QED
      BY <1>12, <1>15, <2>2, <3>1
  <2> QED
    BY <2>1, <2>2
<1> QED
  BY <1>17, <1>18, <1>19, ViewSame

(* The blocks in reach are those that Reachable finds, and stay as they    *)
(* are.                                                                    *)
LEMMA FinishView ==
  ASSUME ViewInv, UniqueCalls', FinishMinor
  PROVE  View' = View
<1>1. PICK swept \in SUBSET {a \in OldAddr : InUse(a) /\ a \notin Reachable} :
        /\ id' = [a \in Addr |-> IF a \in swept \cup YoungAddr THEN Nil ELSE id[a]]
        /\ field' = [a \in Addr |-> IF a \in swept \cup YoungAddr THEN Empty ELSE field[a]]
  BY DEF FinishMinor
<1>2. /\ pc = "table" /\ calls = << >> /\ calls' = << >> /\ next > Len(ref_table)
      /\ forwarded' = {} /\ root' = root
  BY DEF FinishMinor
<1>3. /\ MinorInv /\ UniqueCalls
      /\ id \in [Addr -> 0 .. NIds] /\ field \in [Addr -> [Fields -> Value]]
      /\ root \in [RootSlots -> Value] /\ forwarded \subseteq YoungAddr /\ next \in Nat
      /\ DOMAIN ref_table = 1 .. Len(ref_table) /\ Len(ref_table) \in Nat
  BY DEF ViewInv, MinorInv, TypeOK
<1>4. \A r \in RootSlots : ~ Is_young(root[r])
  BY <1>2, <1>3 DEF MinorInv, RootsInv
<1>5. ASSUME NEW a \in OldAddr, NEW f \in Fields, InUse(a) PROVE ~ Is_young(field[a][f])
  <2>1. ~ Recorded(a, f)
    BY <1>2, <1>3 DEF Recorded
  <2> QED
    BY <1>2, <1>3, <1>5, <2>1 DEF MinorInv, RecordedInv
<1>6. \A a, f : Contents(a, f) = {field[a][f]} /\ Contents(a, f)' = {field'[a][f]}
  BY <1>2, <1>3, ContentsNow, ContentsThen
<1>7. /\ \A a \in Addr \ forwarded : \A x : x \in Edges[a] <=> \E f \in Fields : x = field[a][f]
      /\ \A a \in Addr : \A x : x \in Edges'[a] <=> \E f \in Fields : x = field'[a][f]
  BY <1>2, <1>6 DEF Edges, Successors
<1>8. Held = {root[r] : r \in RootSlots} \cup {Global} /\ Held' = Held
  BY <1>2, <1>3, HeldIs DEF Held
<1>9. PICK R : R = Reachable
  OBVIOUS
(* Every closed set holds R, all of it old and in use.                     *)
<1>10. ASSUME NEW S, ClosedIn(S, Used, Held, Edges)
       PROVE  R \subseteq S /\ R \subseteq OldAddr
  <2>1. PICK T : T = S \cap OldAddr
    OBVIOUS
  <2>2. S \subseteq Used /\ Held \subseteq S \cup {Nil} /\ \A a \in S : Edges[a] \subseteq S \cup {Nil}
    BY <1>10 DEF ClosedIn
  <2>3. Held \subseteq T \cup {Nil}
    <3> SUFFICES ASSUME NEW x \in Held, x # Nil PROVE x \in T
      OBVIOUS
    <3>1. x \in S /\ x \in Addr /\ ~ Is_young(x)
      BY <1>4, <1>8, <2>2, Addresses DEF Used, Is_young
    <3> QED
      BY <2>1, <3>1, Addresses DEF Is_young
  <2>4. ASSUME NEW b \in T, NEW f \in Fields PROVE field[b][f] \in T \cup {Nil}
    <3>1. b \in OldAddr /\ b \in Addr /\ InUse(b) /\ b \notin forwarded /\ b \in S
      BY <1>3, <2>1, <2>2, Addresses DEF Used
    <3>2. field[b][f] \in S \cup {Nil} /\ ~ Is_young(field[b][f])
      BY <1>5, <1>7, <2>2, <3>1
    <3>3. S \subseteq Addr
      BY <2>2 DEF Used
    <3> QED
      BY <2>1, <3>2, <3>3, Addresses DEF Is_young
  <2>5. T \in SUBSET Addr
    BY <2>1, Addresses
  <2>6. R \subseteq T
    BY <1>9, <2>3, <2>4, <2>5, ReachableIs
  <2> QED
    BY <2>1, <2>6
<1>11. R \subseteq Used /\ R \subseteq OldAddr
  <2>1. PICK S : ClosedIn(S, Used, Held, Edges)
    BY <1>3, SomeClosed DEF MinorInv
  <2> QED
    BY <1>10, <2>1 DEF ClosedIn
<1>12. /\ Held \subseteq R \cup {Nil}
       /\ \A b \in R, f \in Fields : field[b][f] \in R \cup {Nil}
  <2>1. Held \subseteq Addr \cup {Nil}
    BY <1>3, HeldIs DEF Value
  <2>2. Held \cap Addr \subseteq R /\ \A b \in R, f \in Fields : field[b][f] \in R \cup {Nil}
    BY <1>3, <1>9, ReachableIs
  <2> QED
    BY <2>1, <2>2
<1>13. ASSUME NEW b \in R
       PROVE  /\ b \in Addr /\ b \notin forwarded /\ id'[b] = id[b] /\ field'[b] = field[b]
              /\ b \in Used'
  <2>1. b \in OldAddr /\ b \in Addr /\ b \notin YoungAddr /\ InUse(b) /\ b \notin swept
    BY <1>9, <1>11, Addresses DEF Used
  <2> QED
    BY <1>1, <1>3, <2>1 DEF Used, InUse
<1>14. ClosedIn(R, Used, Held, Edges)
  <2>1. ASSUME NEW a \in R, NEW x \in Edges[a] PROVE x \in R \cup {Nil}
    BY <1>7, <1>12, <1>13, <2>1
  <2> QED
    BY <1>11, <1>12, <2>1 DEF ClosedIn
<1>15. ClosedIn(R, Used', Held', Edges')
  <2>1. ASSUME NEW a \in R, NEW x \in Edges'[a] PROVE x \in R \cup {Nil}
    BY <1>7, <1>12, <1>13, <2>1
  <2> QED
    BY <1>8, <1>12, <1>13, <2>1 DEF ClosedIn
<1>16. ASSUME NEW S, ClosedIn(S, Used', Held', Edges') PROVE R \subseteq S
  <2>1. S \subseteq Used' /\ Held \subseteq S \cup {Nil} /\ \A a \in S : Edges'[a] \subseteq S \cup {Nil}
    BY <1>8, <1>16 DEF ClosedIn
  <2>2. S \in SUBSET Addr
    BY <2>1 DEF Used
  <2>3. ASSUME NEW b \in S, NEW f \in Fields PROVE field[b][f] \in S \cup {Nil}
    <3>1. b \in Addr /\ id'[b] # Nil
      BY <2>1, <2>2 DEF Used, InUse
    <3>2. field'[b] = field[b]
      BY <1>1, <3>1
    <3>3. field'[b][f] \in Edges'[b]
      BY <1>7, <3>1
    <3> QED
      BY <2>1, <3>2, <3>3
  <2> QED
    BY <1>9, <2>1, <2>2, <2>3, ReachableIs
<1>17. Live = R /\ Live' = R
  <2>1. LiveIn(Used, Held, Edges) = R
    BY <1>10, <1>14, LeastIsLive
  <2>2. PICK U, H, s : U = Used' /\ H = Held' /\ s = Edges'
    OBVIOUS
  <2>3. LiveIn(U, H, s) = R
    BY <1>15, <1>16, <2>2, LeastIsLive
  <2> QED
    BY <2>1, <2>2, <2>3, LiveNow, LiveThen
<1>18. \A x \in R \cup {Nil} : IdOf(x)' = IdOf(x)
  BY <1>13 DEF IdOf
<1>19. ASSUME NEW a \in R PROVE SameBlock(a, a)
  <2>1. ASSUME NEW f \in Fields PROVE Ids(a, f)' = Ids(a, f)
    <3>1. PICK c : c = field[a][f]
      OBVIOUS
    <3>2. Contents(a, f) = {c} /\ Contents(a, f)' = {c} /\ c \in R \cup {Nil}
      BY <1>6, <1>12, <1>13, <3>1
    <3>3. IdOf(c)' = IdOf(c)
      BY <1>18, <3>2
    <3> QED
      BY <3>2, <3>3 DEF Ids
  <2> QED
    BY <1>13, <2>1 DEF SameBlock
<1>20. \A r \in RootSlots : IdOf(root[r])' = IdOf(root[r])
  <2> SUFFICES ASSUME NEW r \in RootSlots PROVE IdOf(root[r])' = IdOf(root[r])
    OBVIOUS
  <2>1. PICK c : c = root[r]
    OBVIOUS
  <2>2. c \in R \cup {Nil} /\ root'[r] = c
    BY <1>2, <1>8, <1>12, <2>1
  <2>3. IdOf(c)' = IdOf(c)
    BY <1>18, <2>2
  <2> QED
    BY <2>1, <2>2, <2>3 DEF IdOf
<1>21. Live \ forwarded = R /\ Live' \ forwarded' = R
  BY <1>2, <1>13, <1>17
<1> QED
  BY <1>19, <1>20, <1>21, ViewSame

-----------------------------------------------------------------------------

LEMMA InitializeView ==
  ASSUME ViewInv, UniqueCalls', initialize
  PROVE  View' = View
<1>1. PICK p, v : p = Head(calls)[1] /\ v = Head(calls)[2]
  OBVIOUS
<1>2. MinorInv
  BY DEF ViewInv
<1>3. /\ calls # << >> /\ p \in Slots /\ v \in Value /\ p[1] # 0
      /\ field' = [field EXCEPT ![p[1]][p[2]] = v] /\ calls' = Tail(calls)
      /\ root' = root /\ UNCHANGED <<id, forwarded>>
  <2>1. calls # << >> /\ \A i \in DOMAIN calls : calls[i][1][1] # 0
    BY <1>2 DEF initialize, MinorInv, CallsInv
  <2> QED
    BY <1>1, <1>2, <2>1, HeadCall DEF initialize
<1>4. field' = Stored(field, p, v) /\ Store(p, v)
  BY <1>3 DEF Stored, Store
<1> QED
  BY <1>1, <1>3, <1>4, StoredView

LEMMA OldifyView ==
  ASSUME ViewInv, UniqueCalls', oldify
  PROVE  View' = View
<1>1. PICK p, v : p = Head(calls)[1] /\ v = Head(calls)[2]
  OBVIOUS
<1>2. MinorInv /\ calls # << >> /\ Collecting
  BY DEF ViewInv, oldify, Collecting
<1>3. p \in Slots /\ v \in Value
  BY <1>1, <1>2, HeadCall
<1>4. CASE OldifyOther(p, v)
  <2>1. /\ field' = Stored(field, p, v) /\ Store(p, v) /\ calls' = Tail(calls)
        /\ UNCHANGED <<id, forwarded>>
    BY <1>4 DEF OldifyOther
  <2> QED
    BY <1>1, <1>2, <1>3, <2>1, StoredView
<1>5. CASE OldifyForwarded(p, v)
  <2>1. PICK w : w = field[v][1]
    OBVIOUS
  <2>2. /\ v \in forwarded /\ field' = Stored(field, p, w) /\ Store(p, w) /\ calls' = Tail(calls)
        /\ UNCHANGED <<id, forwarded>>
    BY <1>5, <2>1 DEF OldifyForwarded
  <2>3. w \in Value
    BY <1>2, <2>1, <2>2, Addresses DEF MinorInv, ForwardInv, Value
  <2> QED
    BY <1>1, <1>2, <2>1, <2>2, <2>3, StoredView
<1>6. CASE OldifyCopy(p, v)
  BY <1>1, <1>2, <1>6, CopyView
<1>7. CASE OutOfMemory(v)
  <2>1. UNCHANGED <<id, field, forwarded, root, calls>>
    BY <1>7 DEF OutOfMemory, heapVars
  <2>2. \A a \in Addr, f \in Fields : Contents(a, f)' = Contents(a, f)
    BY <2>1 DEF Contents
  <2> QED
    BY <2>1, <2>2, SameView
<1> QED
  BY <1>1, <1>4, <1>5, <1>6, <1>7 DEF oldify

(* While the program is not running, whatever step comes next.             *)
LEMMA ViewStep ==
  ASSUME ViewInv, UniqueCalls', Next, ~ Running
  PROVE  View' = View
<1>1. CASE initialize
  BY <1>1, InitializeView
<1>2. CASE oldify
  BY <1>2, OldifyView
<1>3. CASE FinishMinor
  BY <1>3, FinishView
<1>4. CASE CopyRoot
  <2>1. calls = << >> /\ UNCHANGED <<heapVars, root>>
    BY <1>4 DEF CopyRoot
  <2>2. calls' = << >> \/ \E p : p \in Slots /\ OneCall(calls', p)
    <3>1. CASE RootsLeft
      <4>1. PICK p : p = <<0, next>>
        OBVIOUS
      <4>2. next \in RootSlots
        BY <1>4, <3>1 DEF CopyRoot, RootsLeft, RootSlots, ViewInv, MinorInv, TypeOK, EntriesInv, Collecting
      <4>3. p \in Slots /\ p[1] = 0 /\ p[2] = next
        BY <4>1, <4>2 DEF Slots
      <4>4. calls' = << <<p, root[next]>> >>
        BY <1>4, <3>1, <4>1 DEF CopyRoot
      <4> QED
        BY <4>3, <4>4 DEF OneCall
    <3>2. CASE ~ RootsLeft
      BY <1>4, <3>2 DEF CopyRoot
    <3> QED
      BY <3>1, <3>2
  <2> QED
    BY <2>1, <2>2, CallView
<1>5. CASE CopyEntry
  <2>1. calls = << >> /\ UNCHANGED <<heapVars, root>>
    BY <1>5 DEF CopyEntry
  <2>2. PICK p : p = ref_table[next]
    OBVIOUS
  <2>3. next \in DOMAIN ref_table
    BY <1>5 DEF CopyEntry, ViewInv, MinorInv, TypeOK, EntriesInv, Collecting
  <2>4. p \in OldAddr \X Fields
    BY <2>2, <2>3 DEF ViewInv, MinorInv, TypeOK
  <2>5. p \in Slots /\ p[1] # 0
    BY <2>4, Addresses DEF Slots, Nil
  <2>6. calls' = << <<p, field[p[1]][p[2]]>> >>
    BY <1>5, <2>2 DEF CopyEntry
  <2>7. OneCall(calls', p)
    BY <2>5, <2>6 DEF OneCall
  <2> QED
    BY <2>1, <2>5, <2>7, CallView
<1> QED
  BY <1>1, <1>2, <1>3, <1>4, <1>5
  DEF Next, Program, Collector, Alloc_small, MakeShared, Load, Modify, Pop,
      MinorCollection, process_signal, Start

(* No step of a minor collection and no call of initialize changes the     *)
(* graph the program can see.                                              *)
THEOREM ViewKeptTheorem == Spec => ViewKept
<1>1. ViewInv /\ ViewInv' /\ [Next]_vars => [~ Running => View' = View]_vars
  <2> SUFFICES ASSUME ViewInv, ViewInv', Next, ~ Running PROVE View' = View
    OBVIOUS
  <2> QED
    BY ViewStep DEF ViewInv
<1> QED
  BY <1>1, ViewInvariance, PTL DEF Spec, ViewKept
=============================================================================
