------------------------------ MODULE Marshal ------------------------------
(***************************************************************************)
(* Structured output and input (src/runtime/extern.c, externcp.c, intern.c *)
(* and interncp.c): output_value writes the graph of blocks reachable from *)
(* a value to a file, in the fast or in the compact format, input_value    *)
(* builds it again, in a runtime whose words may be longer, shorter or in  *)
(* the other order.                                                        *)
(*                                                                         *)
(* A word is a record: a header, an int, an atom, an offset, a pointer, or *)
(* the bytes of a string or of a float.  The words a machine has an order  *)
(* for carry it.  Bytes stand for themselves, numbers are scaled: a digit  *)
(* is what a byte is in the code, a word has four of them or eight.        *)
(***************************************************************************)
EXTENDS Values, Integers, SequencesExt, FiniteSetsExt

CONSTANTS
  Graphs,      \* pairs of a heap, a sequence of blocks, and the value to be written
  Writers,     \* records [long |-> is a word of eight bytes, big |-> their order]
  Readers,
  Address,     \* the word at which a block lies, by block
  TableSize,   \* INITIAL_EXTERN_TABLE_SIZE
  Digit,       \* the values of a digit
  SmallInt,    \* the ints that a prefix of the compact format can hold
  MaxWosize32  \* Max_wosize with short words

VARIABLES
  heap, root, writer, reader, compact,   \* the input
  pc,
  extern_table, used,                    \* used: extern_table_used or obj_counter
  extern_block, read_pos,                \* of the fast format
  todo,                                  \* fields, values or places that are left
  sizes,                                 \* <<size_32, size_64>>
  chan,                                  \* what was written, and then what is left to be read
  mem,                                   \* the block that is read into, from its header
  intern_ptr, intern_obj_table,          \* of the compact format
  result,                                \* the offset of the root, and then the value that is returned
  mishap                                 \* history: what happened to the input

input   == <<heap, root, writer, reader, compact>>
outvars == <<extern_table, used, extern_block, read_pos, sizes>>
invars  == <<mem, intern_ptr, intern_obj_table, mishap>>
vars    == <<input, pc, outvars, todo, chan, invars, result>>

(* Mishaps: "ended", the file ended too early for a getblock; "raised", an *)
(* exception came out of a read: from getch at the end of the file, from a *)
(* system call that failed, or from the handler of a signal; "stray", a    *)
(* header was put back through a pointer that this call had not set.       *)

-----------------------------------------------------------------------------
WordBytes(m) == IF m.long THEN 8 ELSE 4         \* sizeof(value)
Pow(d)   == Digit ^ d
Longest(m) == Pow(WordBytes(m))                 \* the values of a word

(* What a word holds when the number n is stored into it, unsigned and     *)
(* signed.                                                                 *)
Unsigned(m, n) == n % Longest(m)
Signed(m, n)   == LET u == n % Longest(m)
                  IN IF 2 * u < Longest(m) THEN u ELSE u - Longest(m)

Val_long(n) == 2 * n + 1
Long_val(v) == v \div 2
Is_long(v)  == v % 2 = 1

Scanned(tag) == tag \notin {"string", "double", "weak", "abstract"}    \* below No_scan_tag

(* The words of a block of the heap of machine m.                          *)
StringWords(m, b) ==
  LET s == (Len(b) + WordBytes(m)) \div WordBytes(m)
      all == [i \in 1 .. s * WordBytes(m) |-> IF i <= Len(b) THEN b[i]
                                          ELSE IF i = s * WordBytes(m) THEN i - 1 - Len(b) ELSE 0]
  IN [w \in 1 .. s |-> Raw(SubSeq(all, (w - 1) * WordBytes(m) + 1, w * WordBytes(m)))]
RawBytes(ws) == FlattenSeq([i \in DOMAIN ws |-> ws[i].b])
Split(m, bytes) ==
  [w \in 1 .. Len(bytes) \div WordBytes(m) |-> Raw(SubSeq(bytes, (w - 1) * WordBytes(m) + 1, w * WordBytes(m)))]
DoubleWords(m, b) == Split(m, IF m.big THEN Reverse(b) ELSE b)

WordsOf(m, obj) ==
  CASE obj.tag = "string" -> StringWords(m, obj.fields)
    [] obj.tag = "double" -> DoubleWords(m, obj.fields)
    [] OTHER              -> obj.fields

Order(m, w) == IF w.k = "raw" THEN w ELSE w @@ [big |-> m.big]
Readable(m, w) == w.k = "raw" \/ w.big = m.big

-----------------------------------------------------------------------------
(* The table of the blocks written so far, with open addressing.           *)
Hash(table, o) == Address[o] % Len(table)
SlotAt(table, h, i) == ((h + i) % Len(table)) + 1
Probe(table, h, Stop(_)) ==
  SlotAt(table, h, CHOOSE i \in 0 .. Len(table) - 1 :
    /\ Stop(table[SlotAt(table, h, i)])
    /\ \A j \in 0 .. i - 1 : ~Stop(table[SlotAt(table, h, j)]))
Empty(e) == e.obj = 0
EmptyTable(n) == [i \in 1 .. n |-> [obj |-> 0, ofs |-> 0]]

Rehash(table, e) ==
  IF Empty(e) THEN table ELSE [table EXCEPT ![Probe(table, Hash(table, e.obj), Empty)] = e]

(* Mutant: the new table starts with the old one.                          *)
resize_by_copy(table) == table \o EmptyTable(Len(table))

resize_extern_table(table) == FoldLeft(Rehash, EmptyTable(2 * Len(table)), table)

Grown == IF 2 * used >= Len(extern_table) THEN resize_extern_table(extern_table) ELSE extern_table
Slot(table, o) == Probe(table, Hash(table, o), LAMBDA e : e.obj \in {0, o})

-----------------------------------------------------------------------------
(* emit: what is to be written for a value, a block being appended to the  *)
(* ones to be scanned when it is met for the first time.  Its words go     *)
(* into extern_block as they are; At is the place in extern_block that     *)
(* gets the offset, 0 for the root.                                        *)
Emit(v, At) ==
  LET Put(block, w) == IF At = 0 THEN block ELSE [block EXCEPT ![At] = w]
      Done(w) == IF At = 0 THEN result' = w ELSE UNCHANGED result
  IN IF v.k # "ptr"
     THEN /\ extern_block' = Put(extern_block, v)
          /\ Done(v)
          /\ UNCHANGED <<extern_table, used>>
     ELSE LET t == Grown
              h == Slot(t, v.n)
              obj == heap[v.n]
              ws == WordsOf(writer, obj)
              res == (Len(extern_block) + 1) * WordBytes(writer)
          IN IF Empty(t[h])
             THEN /\ extern_block' = Put(extern_block, Ofs(res)) \o <<Header(Len(ws), obj.tag)>> \o ws
                  /\ extern_table' = [t EXCEPT ![h] = [obj |-> v.n, ofs |-> res]]
                  /\ used' = used + 1
                  /\ Done(Ofs(res))
             ELSE /\ extern_block' = Put(extern_block, Ofs(t[h].ofs))
                  /\ extern_table' = t
                  /\ Done(Ofs(t[h].ofs))
                  /\ UNCHANGED used

extern_val ==
  /\ pc = "extern" /\ ~compact
  /\ Emit(root, 0)
  /\ read_pos' = 1
  /\ pc' = "emit_all"
  /\ UNCHANGED <<input, todo, sizes, chan, invars>>

(* The header of the next block: todo counts its fields that are left.     *)
EmitHeader ==
  /\ pc = "emit_all" /\ todo = << >> /\ read_pos <= Len(extern_block)
  /\ LET hd == extern_block[read_pos]
     IN CASE hd.tag \in {"string", "double"} ->
               read_pos' = read_pos + 1 + hd.size /\ UNCHANGED <<todo, pc>>
          [] hd.tag \in {"abstract", "closure"} ->
               pc' = "refused" /\ read_pos' = read_pos + 1 /\ UNCHANGED todo
          [] OTHER ->
               /\ read_pos' = read_pos + 1
               /\ todo' = [i \in 1 .. hd.size |-> i]
               /\ UNCHANGED pc
  /\ UNCHANGED <<input, extern_table, used, extern_block, sizes, chan, invars, result>>

EmitField ==
  /\ pc = "emit_all" /\ todo # << >>
  /\ Emit(extern_block[read_pos], read_pos)
  /\ read_pos' = read_pos + 1
  /\ todo' = Tail(todo)
  /\ UNCHANGED <<input, pc, sizes, chan, invars>>

(* A word that is put by putword: four digits, whatever the machine.       *)
putword(n) == [k |-> "word", n |-> n % Pow(4)]
Encoded(v) == CASE v.k = "int" -> Val_long(v.n) [] v.k = "atom" -> 4 * v.n + 2 [] OTHER -> v.n

emit_all_done ==
  /\ pc = "emit_all" /\ todo = << >> /\ read_pos > Len(extern_block)
  /\ chan' = <<[k |-> "magic", m |-> writer], putword(Len(extern_block))>>
             \o (IF extern_block = << >> THEN <<putword(Encoded(result))>>
                 ELSE [i \in DOMAIN extern_block |-> Order(writer, extern_block[i])])
  /\ pc' = "intern"
  /\ result' = Null
  /\ UNCHANGED <<input, outvars, todo, invars>>

-----------------------------------------------------------------------------
(* The compact format: a code for each value, in preorder.  A number is    *)
(* put as one, two, four or eight digits, the highest first.               *)
output_number(n, k) == [i \in 1 .. k |-> (n \div Pow(k - i)) % Digit]
InDigits(n, k) == - Pow(k) <= 2 * n /\ 2 * n < Pow(k)

IntCode(n) ==
  IF n \in 0 .. SmallInt - 1 THEN [c |-> "small", n |-> n]
  ELSE [c |-> "int",
        ds |-> output_number(n, CASE InDigits(n, 1) -> 1
                                  [] ~InDigits(n, 1) /\ InDigits(n, 2) -> 2
                                  [] ~InDigits(n, 4) /\ writer.long -> 8
                                  [] OTHER -> 4)]
SharedCode(d) ==
  [c |-> "shared", ds |-> output_number(d, IF d < Pow(1) THEN 1 ELSE IF d < Pow(2) THEN 2 ELSE 4)]

(* A header is put in four digits, which hold the size of a block that a   *)
(* machine with short words can have.                                      *)
BlockCode(tag, size) == [c |-> "block", tag |-> tag, size |-> size % (MaxWosize32 + 1)]

extern_compact_val ==
  /\ pc = "extern" /\ compact
  /\ todo' = <<root>>
  /\ pc' = "emit_compact"
  /\ UNCHANGED <<input, outvars, chan, invars, result>>

Puts(codes) == chan' = chan \o codes
Counts(size32, size64) == sizes' = <<sizes[1] + 1 + size32, sizes[2] + 1 + size64>>

EmitBlock(obj) ==
  CASE obj.tag = "string" ->
         /\ Puts(<<[c |-> "string", b |-> obj.fields]>>)
         /\ Counts((Len(obj.fields) + 4) \div 4, (Len(obj.fields) + 8) \div 8)
         /\ todo' = Tail(todo) /\ UNCHANGED pc
    [] obj.tag = "double" ->
         /\ Puts(<<[c |-> "double", b |-> Reverse(obj.fields)]>>)
         /\ Counts(2, 1)
         /\ todo' = Tail(todo) /\ UNCHANGED pc
    [] obj.tag \in {"abstract", "closure"} -> pc' = "refused" /\ UNCHANGED <<chan, sizes, todo>>
    [] OTHER ->
         /\ Puts(<<BlockCode(obj.tag, Len(obj.fields))>>)
         /\ Counts(Len(obj.fields), Len(obj.fields))
         /\ todo' = obj.fields \o Tail(todo) /\ UNCHANGED pc

emit_compact ==
  /\ pc = "emit_compact" /\ todo # << >>
  /\ LET v == Head(todo)
     IN CASE v.k = "int"  -> Puts(<<IntCode(v.n)>>) /\ todo' = Tail(todo)
                             /\ UNCHANGED <<extern_table, used, sizes, pc>>
          [] v.k = "atom" -> Puts(<<BlockCode(v.n, 0)>>) /\ todo' = Tail(todo)
                             /\ UNCHANGED <<extern_table, used, sizes, pc>>
          [] v.k = "ptr"  ->
               LET t == Grown
                   h == Slot(t, v.n)
               IN IF Empty(t[h])
                  THEN /\ extern_table' = [t EXCEPT ![h] = [obj |-> v.n, ofs |-> used]]
                       /\ used' = used + 1
                       /\ EmitBlock(heap[v.n])
                  ELSE /\ extern_table' = t
                       /\ Puts(<<SharedCode(used - t[h].ofs)>>)
                       /\ todo' = Tail(todo)
                       /\ UNCHANGED <<used, sizes, pc>>
  /\ UNCHANGED <<input, extern_block, read_pos, invars, result>>

ObjectTooBig == writer.long /\ (sizes[1] >= Pow(4) \/ sizes[2] >= Pow(4))

emit_compact_done ==
  /\ pc = "emit_compact" /\ todo = << >>
  /\ \/ ObjectTooBig /\ pc' = "refused" /\ UNCHANGED chan
     \/ /\ ~ObjectTooBig /\ pc' = "intern"
        /\ chan' = <<putword(used), putword(sizes[1]), putword(sizes[2])>> \o chan
  /\ UNCHANGED <<input, outvars, todo, invars, result>>

-----------------------------------------------------------------------------
(* The headers of the blocks that fill ws.                                 *)
HeadsOf(ws) ==
  LET H[p \in 1 .. Len(ws) + 1] ==
        IF p > Len(ws) \/ ws[p].k # "header" \/ p + ws[p].size > Len(ws) THEN {}
        ELSE {p} \cup H[p + 1 + ws[p].size]
  IN H[1]
HeadOf(ws, p) == LET H == HeadsOf(ws) IN CHOOSE h \in H : h <= p /\ p <= h + ws[h].size
Body(ws, h) == SubSeq(ws, h + 1, h + ws[h].size)

(* rev_pointers and its two variants: the words of a machine of the other  *)
(* order.                                                                  *)
Flip(w) == IF w.k = "raw" THEN Raw(Reverse(w.b)) ELSE [w EXCEPT !.big = ~@]
rev_pointers(ws) ==
  [p \in DOMAIN ws |->
     LET h == HeadOf(ws, p)
     IN IF p = h THEN Flip(ws[p])
        ELSE CASE ws[h].tag = "string" -> ws[p]
               [] ws[h].tag = "double" -> Split(writer, Reverse(RawBytes(Body(ws, h))))[p - h]
               [] OTHER -> Flip(ws[p])]

(* Offsets become pointers: into the block that was read, or, by way of    *)
(* Forward, into the one its contents have been converted to.              *)
Resolve(ws, Forward(_)) ==
  [p \in DOMAIN ws |->
     IF ws[p].k = "ofs" /\ Scanned(ws[HeadOf(ws, p)].tag)
     THEN [k |-> "ptr", n |-> Forward(ws[p].n), big |-> ws[p].big] ELSE ws[p]]
adjust_pointers(ws) == Resolve(ws, LAMBDA v : v \div WordBytes(reader))

(* A field in words of the other length.  It does not fit in a short word  *)
(* when the high half is more than the sign of the low one.                *)
Low(n)  == Signed([long |-> FALSE], n)
High(n) == n \div Pow(4)
Shrinks(w) ==
  CASE w.k = "int" -> LET v == Val_long(w.n) IN (Low(v) >= 0 => High(v) = 0) /\ (Low(v) < 0 => High(v) = -1)
    [] w.k = "ofs" -> High(w.n) = 0
    [] OTHER       -> TRUE

(* The block at h as the reader has it.                                    *)
StringLength(bytes) == Len(bytes) - 1 - bytes[Len(bytes)]
Converted(ws, h) ==
  LET body == Body(ws, h)
      bytes == RawBytes(body)
      new == CASE ws[h].tag = "string" -> StringWords(reader, SubSeq(bytes, 1, StringLength(bytes)))
               [] ws[h].tag = "double" -> Split(reader, bytes)
               [] OTHER -> body
  IN <<[ws[h] EXCEPT !.size = Len(new)]>> \o new

(* expand_block and shrink_block, whose first pass leaves at each block of *)
(* the source the place it has been copied to.                             *)
convert_block(ws) ==
  LET hs == SetToSortSeq(HeadsOf(ws), <)
      blocks == [i \in DOMAIN hs |-> Converted(ws, hs[i])]
      Forward(v) == LET i == CHOOSE i \in DOMAIN hs : hs[i] = v \div WordBytes(writer)
                    IN 1 + Len(FlattenSeq(SubSeq(blocks, 1, i - 1)))
  IN Resolve(FlattenSeq(blocks), Forward)

TooBig(whsize) == ~reader.long /\ whsize - 1 > MaxWosize32
Shrinking == writer.long /\ ~reader.long
HeaderTooBig(ws) == \E h \in HeadsOf(ws) : ws[h].size > MaxWosize32
FieldTooBig(ws)  == \E h \in HeadsOf(ws) :
  ws[h].tag \notin {"string", "double"} /\ \E i \in 1 .. ws[h].size : ~Shrinks(ws[h + i])

(* The length of a converted block is computed before it is allocated.     *)
SizeAfter(ws, StringSize(_), doubleSize) ==
  MapThenSumSet(LAMBDA h : 1 + CASE ws[h].tag = "string" -> StringSize(h)
                                 [] ws[h].tag = "double" -> doubleSize
                                 [] OTHER                -> ws[h].size, HeadsOf(ws))
size_after_expansion(ws) == SizeAfter(ws, LAMBDA h : (ws[h].size * 4 + 7) \div 8, 1)
size_after_shrinkage(ws) == SizeAfter(ws, LAMBDA h : (StringLength(RawBytes(Body(ws, h))) + 4) \div 4, 2)

(* alloc_shr: one string as long as all that is to be read into it.        *)
Allocated(whsize) ==
  [i \in 1 .. whsize |-> IF i = 1 THEN [k |-> "header", size |-> whsize - 1, tag |-> "string", big |-> reader.big]
                         ELSE Junk]

Returns(v) == result' = v /\ pc' = "done"
Fails == pc' = "failed" /\ UNCHANGED result
ReadsAll(n) == chan' = SubSeq(chan, n + 1, Len(chan))

(* intern_fast_val, an int or an atom: getword gives an unsigned number of *)
(* four digits, and in a short word its sign is the one it had.            *)
intern_immediate ==
  /\ pc = "intern" /\ ~compact /\ chan[2].n = 0
  /\ LET v == Signed(reader, chan[3].n)
     IN Returns(IF Is_long(v) THEN IntVal(Long_val(v)) ELSE Atom(v \div 4))
  /\ ReadsAll(3)
  /\ UNCHANGED <<input, outvars, todo, invars>>

(* Mutant: a failure leaves the header that has been read.                 *)
HeaderLeft(m, hd) == m

HeaderBack(m, hd) == [m EXCEPT ![1] = hd]

(* A block in words of the reader's length is read into its place, over    *)
(* its header.                                                             *)
NaturalBlock == pc = "intern" /\ ~compact /\ chan[2].n > 0 /\ reader.long = writer.long
There(n) == [i \in 1 .. chan[2].n |-> IF i <= n THEN chan[2 + i] ELSE Allocated(chan[2].n)[i]]

intern_natural ==
  /\ NaturalBlock
  /\ LET ws == There(chan[2].n)
     IN \/ TooBig(chan[2].n) /\ Fails /\ ReadsAll(2) /\ UNCHANGED mem
        \/ /\ ~TooBig(chan[2].n)
           /\ mem' = adjust_pointers(IF reader.big = writer.big THEN ws ELSE rev_pointers(ws))
           /\ Returns(Ptr(1)) /\ ReadsAll(2 + chan[2].n)
  /\ UNCHANGED <<input, outvars, todo, intern_ptr, intern_obj_table, mishap>>

(* When the file ends too early the header is put back.  An exception out  *)
(* of the read passes that by.                                             *)
intern_natural_cut ==
  /\ NaturalBlock /\ ~TooBig(chan[2].n)
  /\ \E n \in 0 .. chan[2].n - 1 :
       /\ \/ mem' = HeaderBack(There(n), Allocated(chan[2].n)[1]) /\ mishap' = "ended"
          \/ mem' = There(n) /\ mishap' = "raised"
       /\ ReadsAll(2 + n)
  /\ Fails
  /\ UNCHANGED <<input, outvars, todo, intern_ptr, intern_obj_table>>

(* Any other block is read elsewhere and converted.                        *)
ForeignBlock == SubSeq(chan, 3, 2 + chan[2].n)
Ordered == IF reader.big = writer.big THEN ForeignBlock ELSE rev_pointers(ForeignBlock)

intern_foreign_cut ==
  /\ pc = "intern" /\ ~compact /\ chan[2].n > 0 /\ reader.long # writer.long
  /\ Fails /\ mishap' \in {"ended", "raised"} /\ ReadsAll(Len(chan))
  /\ UNCHANGED <<input, outvars, todo, mem, intern_ptr, intern_obj_table>>

intern_expanded ==
  /\ pc = "intern" /\ ~compact /\ chan[2].n > 0 /\ reader.long /\ ~writer.long
  /\ mem' = convert_block(Ordered) /\ Len(mem') = size_after_expansion(Ordered)
  /\ Returns(Ptr(1)) /\ ReadsAll(2 + chan[2].n)
  /\ UNCHANGED <<input, outvars, todo, intern_ptr, intern_obj_table, mishap>>

(* It may turn out that it cannot be converted: from the length of one of  *)
(* its blocks or of all of them, or, when it is half done, from a field.   *)
intern_shrunk ==
  /\ pc = "intern" /\ ~compact /\ chan[2].n > 0 /\ Shrinking
  /\ LET size == size_after_shrinkage(Ordered)
     IN \/ /\ HeaderTooBig(Ordered) \/ TooBig(size)
           /\ Fails /\ UNCHANGED mem
        \/ /\ ~(HeaderTooBig(Ordered) \/ TooBig(size)) /\ FieldTooBig(Ordered)
           /\ Fails /\ mem' = HeaderBack(Allocated(size), Allocated(size)[1])
        \/ /\ ~(HeaderTooBig(Ordered) \/ TooBig(size)) /\ ~FieldTooBig(Ordered)
           /\ mem' = convert_block(Ordered) /\ Len(mem') = size
           /\ Returns(Ptr(1))
  /\ ReadsAll(2 + chan[2].n)
  /\ UNCHANGED <<input, outvars, todo, intern_ptr, intern_obj_table, mishap>>

-----------------------------------------------------------------------------
(* intern_compact_val: todo holds the places of values that are to be      *)
(* read, 0 for the result.                                                 *)
intern_compact_val ==
  /\ pc = "intern" /\ compact
  /\ LET whsize == IF reader.long THEN chan[3].n ELSE chan[2].n
     IN IF whsize > 0 /\ TooBig(whsize)
        THEN Fails /\ UNCHANGED <<mem, todo>>
        ELSE mem' = Allocated(whsize) /\ todo' = <<0>> /\ pc' = "read_compact" /\ UNCHANGED result
  /\ intern_ptr' = 1 /\ intern_obj_table' = << >>
  /\ ReadsAll(3)
  /\ UNCHANGED <<input, outvars, mishap>>

input_bytes(ds, signed) ==
  LET first == IF signed /\ 2 * ds[1] >= Digit THEN ds[1] - Digit ELSE ds[1]
  IN FoldLeft(LAMBDA r, d : r * Digit + d, first, Tail(ds))

(* *dest = v, in a block that may just have been written.                  *)
Stores(m, v) ==
  IF Head(todo) = 0 THEN result' = v /\ mem' = m
  ELSE mem' = [m EXCEPT ![Head(todo)] = v @@ [big |-> reader.big]] /\ UNCHANGED result

Written(tag, ws) ==
  [i \in DOMAIN mem |->
     IF i = intern_ptr THEN [k |-> "header", size |-> Len(ws), tag |-> tag, big |-> reader.big]
     ELSE IF i \in intern_ptr + 1 .. intern_ptr + Len(ws) THEN ws[i - intern_ptr] ELSE mem[i]]
Enters(size) ==
  /\ intern_ptr' = intern_ptr + 1 + size
  /\ intern_obj_table' = Append(intern_obj_table, Ptr(intern_ptr))
Places(size) == [i \in 1 .. size |-> intern_ptr + i]

Leaf(v) == Stores(mem, v) /\ todo' = Tail(todo) /\ UNCHANGED <<intern_ptr, intern_obj_table>>

ReadBlock(code) ==
  IF code.size = 0 THEN Leaf(Atom(code.tag))
  ELSE /\ Stores(Written(code.tag, [i \in 1 .. code.size |-> Junk]), Ptr(intern_ptr))
       /\ Enters(code.size)
       /\ todo' = Places(code.size) \o Tail(todo)
ReadRaw(tag, ws) ==
  /\ Stores(Written(tag, ws), Ptr(intern_ptr)) /\ Enters(Len(ws)) /\ todo' = Tail(todo)

(* The words of a string or a float for which b was read.                  *)
RawWords(code, b) ==
  CASE code.c = "string" -> StringWords(reader, b)
    [] code.c = "double" -> DoubleWords(reader, Reverse(b))
TagOf(code) == code.c

(* Where obj_counter is behind, a distance leads out of the table.         *)
Shared(d) == IF d <= Len(intern_obj_table) THEN intern_obj_table[Len(intern_obj_table) + 1 - d] ELSE Junk

Int64Code(code) == code.c = "int" /\ Len(code.ds) = 8

read_compact ==
  /\ pc = "read_compact" /\ todo # << >> /\ chan # << >>
  /\ LET code == Head(chan)
     IN /\ ~(Int64Code(code) /\ ~reader.long)
        /\ CASE code.c = "small"  -> Leaf(IntVal(code.n))
             [] code.c = "int"    -> Leaf(IntVal(Long_val(Signed(reader, Val_long(input_bytes(code.ds, TRUE))))))
             [] code.c = "shared" -> Leaf(Shared(input_bytes(code.ds, FALSE)))
             [] code.c = "block"  -> ReadBlock(code)
             [] OTHER             -> ReadRaw(TagOf(code), RawWords(code, code.b))
  /\ ReadsAll(1)
  /\ UNCHANGED <<input, outvars, pc, mishap>>

(* An int that is too large for the reader.  The table is freed and the    *)
(* header put back even if there are neither, because the value is that    *)
(* int alone: intern_obj_table and intern_block are then those of an       *)
(* earlier call, if there was one, so that the table is freed again and    *)
(* the header goes into a block that is in use.                            *)
read_compact_too_large ==
  /\ pc = "read_compact" /\ todo # << >> /\ chan # << >>
  /\ Int64Code(Head(chan)) /\ ~reader.long
  /\ \/ mem # << >> /\ mem' = HeaderBack(mem, Allocated(Len(mem))[1]) /\ pc' = "failed" /\ UNCHANGED mishap
     \/ mem = << >> /\ pc' \in {"failed", "crashed"} /\ mishap' = "stray" /\ UNCHANGED mem
  /\ ReadsAll(1)
  /\ UNCHANGED <<input, outvars, result, todo, intern_ptr, intern_obj_table>>

read_compact_done ==
  /\ pc = "read_compact" /\ todo = << >>
  /\ pc' = "done"
  /\ UNCHANGED <<input, outvars, todo, chan, invars, result>>

(* getch raises: at the end of the file, or because the read does.         *)
read_compact_raise ==
  /\ pc = "read_compact" /\ todo # << >>
  /\ Fails /\ mishap' = "raised"
  /\ UNCHANGED <<input, outvars, todo, chan, mem, intern_ptr, intern_obj_table>>

(* The file ends in a string or a float, which no one notices: its other   *)
(* bytes stay as they were, zero in the last word of a string.  Or the     *)
(* read raises there.                                                      *)
Unwritten == -1
Partial(code, n) ==
  LET fresh(i) == IF code.c = "string" /\ (i - 1) \div WordBytes(reader) = Len(code.b) \div WordBytes(reader)
                  THEN 0 ELSE Unwritten
  IN [i \in DOMAIN code.b |-> IF i <= n THEN code.b[i] ELSE fresh(i)]

read_raw_cut ==
  /\ pc = "read_compact" /\ todo # << >> /\ chan # << >> /\ Head(chan).c \in {"string", "double"}
  /\ \E n \in 0 .. Len(Head(chan).b) - 1 :
       LET ws == RawWords(Head(chan), Partial(Head(chan), n))
       IN \/ ReadRaw(TagOf(Head(chan)), ws) /\ mishap' = "ended" /\ UNCHANGED pc
          \/ /\ mem' = Written(TagOf(Head(chan)), ws) /\ Enters(Len(ws))
             /\ Fails /\ mishap' = "raised" /\ UNCHANGED todo
  /\ ReadsAll(Len(chan))
  /\ UNCHANGED <<input, outvars>>

-----------------------------------------------------------------------------
(* The blocks reachable from the root.                                     *)
Pointees(o) == IF Scanned(heap[o].tag) \/ heap[o].tag = "weak"
               THEN {f.n : f \in {g \in Range(heap[o].fields) : g.k = "ptr"}} ELSE {}
Reach ==
  LET R[n \in Nat] == IF n = 0 THEN IF root.k = "ptr" THEN {root.n} ELSE {}
                      ELSE R[n - 1] \cup UNION {Pointees(o) : o \in R[n - 1]}
  IN R[Len(heap)]

(* Words of the blocks, as the machine m has them.                         *)
Size(m) == MapThenSumSet(LAMBDA o : 1 + Len(WordsOf(m, heap[o])), Reach)

Holds(m, v)  == v.k = "int" => InDigits(Val_long(v.n), WordBytes(m))
Represents(m, g) ==
  /\ Holds(m, g[2])
  /\ \A i \in DOMAIN g[1] :
       /\ ~m.long => Len(g[1][i].fields) <= MaxWosize32
       /\ Scanned(g[1][i].tag) => \A j \in DOMAIN g[1][i].fields : Holds(m, g[1][i].fields[j])

Init ==
  /\ \E g \in Graphs :
       /\ heap = g[1] /\ root = g[2]
       /\ writer \in {m \in Writers : Represents(m, g)}
  /\ reader \in Readers /\ compact \in BOOLEAN
  /\ compact \/ Size(writer) < Pow(4)         \* putword has no more digits for the size
  /\ pc = "extern"
  /\ extern_table = EmptyTable(TableSize) /\ used = 0
  /\ extern_block = << >> /\ read_pos = 1
  /\ todo = << >> /\ sizes = <<0, 0>> /\ chan = << >>
  /\ mem = << >> /\ intern_ptr = 1 /\ intern_obj_table = << >>
  /\ result = Null /\ mishap = "none"

Next ==
  \/ extern_val \/ EmitHeader \/ EmitField \/ emit_all_done
  \/ extern_compact_val \/ emit_compact \/ emit_compact_done
  \/ intern_immediate \/ intern_natural \/ intern_natural_cut
  \/ intern_foreign_cut \/ intern_expanded \/ intern_shrunk
  \/ intern_compact_val \/ read_compact \/ read_compact_too_large \/ read_compact_done
  \/ read_compact_raise \/ read_raw_cut

-----------------------------------------------------------------------------
Ints == {f.n : f \in {g \in UNION {Range(heap[o].fields) : o \in {b \in Reach : heap[b].tag = "block"}} : g.k = "int"}}

Same(v, w, f) == /\ w.k = v.k
                 /\ w.n = IF v.k = "ptr" THEN f[v.n] ELSE v.n

(* What has been read is the graph that was written, block for block.      *)
Copied ==
  \E f \in [Reach -> HeadsOf(mem)] :
    /\ IsInjective(f) /\ Cardinality(Reach) = Cardinality(HeadsOf(mem))
    /\ Same(root, result, f)
    /\ \A o \in Reach :
         LET body == Body(mem, f[o])
             ws == WordsOf(reader, heap[o])
         IN /\ mem[f[o]].tag = heap[o].tag
            /\ \A i \in 0 .. Len(body) : Readable(reader, mem[f[o] + i])
            /\ Len(body) = Len(ws)
            /\ \A i \in DOMAIN ws : IF ws[i].k = "raw" THEN body[i] = ws[i] ELSE Same(ws[i], body[i], f)

(* Blocks that a compact header does not have the size of.  A short word   *)
(* refuses them.                                                           *)
Wide == compact /\ reader.long
        /\ \E o \in Reach : heap[o].tag \notin {"string", "double"} /\ Len(heap[o].fields) > MaxWosize32

(* Values that do not survive: an int on its own that putword and getword  *)
(* change, the pointers of a weak array, which adjust_pointers does not    *)
(* see, an int of exactly 32 bits in a short word, and wide blocks.        *)
Lossy ==
  \/ ~compact /\ root.k = "int" /\ ~(root.n >= 0 /\ 2 * Val_long(root.n) < Pow(4))
              /\ ~(~reader.long /\ InDigits(Val_long(root.n), 4))
  \/ ~compact /\ \E o \in Reach : heap[o].tag = "weak"
  \/ compact /\ Shrinking
     /\ \E n \in Ints \cup (IF root.k = "int" THEN {root.n} ELSE {}) : InDigits(n, 4) /\ ~InDigits(Val_long(n), 4)
  \/ Wide

(* Input of what output wrote gives the same value, with the same sharing  *)
(* and the same cycles, whatever the two machines: or fails, where a short *)
(* word cannot hold a part of it.                                          *)
Returned ==
  /\ pc = "done" /\ mishap = "none" => Copied /\ \A o \in Reach : heap[o].tag \notin {"closure", "abstract"}
  /\ pc = "refused" => \/ \E o \in Reach : heap[o].tag \in {"closure", "abstract"}
                       \/ compact /\ Size([long |-> FALSE, big |-> FALSE]) >= Pow(4)
  /\ pc \in {"failed", "crashed"} /\ mishap \in {"none", "stray"} =>
       /\ ~reader.long
       /\ \/ \E n \in Ints \cup (IF root.k = "int" THEN {root.n} ELSE {}) : ~InDigits(Val_long(n), 4)
          \/ TooBig(Size(reader))
RoundTrip == ~Lossy => Returned

(* An input that ends too early is never taken for a value.                *)
EndNoticed == mishap = "ended" => pc # "done"

(* When the input is over the words of the block are whole blocks of       *)
(* values: what the collector can walk.                                    *)
Valid(w) == w.k \in {"int", "atom", "ptr", "raw"}
Walkable ==
  LET W[p \in 1 .. Len(mem) + 1] ==
        \/ p > Len(mem)
        \/ /\ mem[p].k = "header" /\ p + mem[p].size <= Len(mem)
           /\ mem[p].tag = "block" => \A i \in 1 .. mem[p].size : Valid(mem[p + i])
           /\ W[p + 1 + mem[p].size]
  IN W[1]
HeapWalkable == pc \in {"done", "failed", "crashed"} => mishap # "stray" /\ Walkable

(* But for an exception out of a read that fills the block, for wide       *)
(* blocks, and for an int too large that is the whole value.               *)
Unrestored == mishap = "raised" /\ (compact \/ reader.long = writer.long)
FailsCleanly == Unrestored \/ Wide \/ mishap = "stray" \/ HeapWalkable
=============================================================================
