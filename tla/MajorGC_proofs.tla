-------------------------- MODULE MajorGC_proofs ---------------------------
EXTENDS MajorGCInv, ParserGC, TLAPS

USE AddrAssumption, HeapAssumption, GrayAssumption

LEMMA TailSeq ==
  ASSUME NEW S, NEW s \in Seq(S), s # << >>
  PROVE  Tail(s) \in Seq(S)
OBVIOUS

LEMMA AppendSeq ==
  ASSUME NEW S, NEW s \in Seq(S), NEW v \in S
  PROVE  /\ Append(s, v) \in Seq(S) /\ Len(Append(s, v)) = Len(s) + 1
         /\ \A i \in 1 .. Len(s) : Append(s, v)[i] = s[i]
         /\ Append(s, v)[Len(Append(s, v))] = v
         /\ \A i \in 1 .. Len(Append(s, v)) : i = Len(Append(s, v)) \/ i \in 1 .. Len(s)
<1>1. /\ Append(s, v) \in Seq(S) /\ Len(Append(s, v)) = Len(s) + 1
      /\ \A i \in 1 .. Len(s) : Append(s, v)[i] = s[i]
      /\ Append(s, v)[Len(s) + 1] = v
      /\ Len(s) \in Nat
  OBVIOUS
<1>2. \A i \in 1 .. Len(s) + 1 : i = Len(s) + 1 \/ i \in 1 .. Len(s)
  BY <1>1
<1> QED
  BY <1>1, <1>2

LEMMA FrontSeq ==
  ASSUME NEW S, NEW s \in Seq(S), s # << >>
  PROVE  /\ SubSeq(s, 1, Len(s) - 1) \in Seq(S)
         /\ Len(SubSeq(s, 1, Len(s) - 1)) = Len(s) - 1
         /\ \A i \in 1 .. Len(s) - 1 : SubSeq(s, 1, Len(s) - 1)[i] = s[i]
<1> DEFINE n == Len(s) - 1
<1>1. n \in Nat /\ n <= Len(s)
  OBVIOUS
<1> HIDE DEF n
<1>2. /\ SubSeq(s, 1, n) \in Seq(S) /\ Len(SubSeq(s, 1, n)) = n
      /\ \A i \in 1 .. n : SubSeq(s, 1, n)[i] = s[i]
  BY <1>1
<1> QED
  BY <1>2 DEF n

(* Whatever happens to the mark stack in a push, it is cut to a prefix; if *)
(* anything is lost, heap_is_pure says so.                                 *)
LEMMA PushGrayPrefix ==
  ASSUME TypeOK, NEW s \in Seq(Addr), PushGray(s)
  PROVE  /\ gray_vals' \in Seq(Addr)
         /\ gray_size' \in Nat \ {0}
         /\ heap_is_pure' \in BOOLEAN
         /\ Len(gray_vals') <= Len(s)
         /\ \A i \in 1 .. Len(gray_vals') : gray_vals'[i] = s[i]
         /\ ~ heap_is_pure' \/ (gray_vals' = s /\ heap_is_pure' = heap_is_pure)
<1> USE DEF TypeOK
<1> DEFINE half == gray_size \div 2
<1>1. half \in Nat /\ half <= gray_size
  OBVIOUS
<1>2. CASE gray_vals' = s /\ UNCHANGED <<gray_size, heap_is_pure>>
  BY <1>2
<1>3. CASE gray_vals' = s /\ gray_size' = 2 * gray_size /\ UNCHANGED heap_is_pure
  BY <1>3
<1>4. CASE gray_vals' = << >> /\ heap_is_pure' = FALSE /\ UNCHANGED gray_size
  <2>1. gray_vals' \in Seq(Addr) /\ Len(gray_vals') = 0 /\ Len(s) \in Nat
    BY <1>4
  <2>2. Len(gray_vals') <= Len(s) /\ \A i \in 1 .. Len(gray_vals') : gray_vals'[i] = s[i]
    BY <2>1
  <2> QED
    BY <1>4, <2>1, <2>2
<1>5. CASE /\ Len(s) >= gray_size
           /\ gray_vals' = SubSeq(s, 1, half)
           /\ heap_is_pure' = FALSE /\ UNCHANGED gray_size
  <2>1. half <= Len(s) /\ Len(s) \in Nat
    BY <1>1, <1>5
  <2> HIDE DEF half
  <2>2. /\ SubSeq(s, 1, half) \in Seq(Addr)
        /\ Len(SubSeq(s, 1, half)) = half
        /\ \A i \in 1 .. half : SubSeq(s, 1, half)[i] = s[i]
    BY <1>1, <2>1
  <2> QED
    BY <1>1, <1>5, <2>1, <2>2
<1> QED
  BY <1>2, <1>3, <1>4, <1>5 DEF PushGray

(* darken turns one white block gray at most, and leaves it where the      *)
(* marking will find it.                                                   *)
LEMMA DarkenStep ==
  ASSUME TypeOK, GrayInv, NEW v \in Addr \cup {Nil}, Darken(v), markhp' = markhp
  PROVE  /\ color' \in [Addr -> Colors]
         /\ gray_vals' \in Seq(Addr)
         /\ gray_size' \in Nat \ {0}
         /\ heap_is_pure' \in BOOLEAN
         /\ \A a \in Addr : \/ color'[a] = color[a]
                            \/ a = v /\ color[a] = "White" /\ color'[a] = "Gray"
         /\ v # Nil => color'[v] # "White"
         /\ GrayInv'
<1> USE DEF TypeOK
<1>1. CASE v # Nil /\ color[v] = "White"
  <2> DEFINE s == Append(gray_vals, v)
  <2>1. v \in Addr
    BY <1>1
  <2>2. color' = [color EXCEPT ![v] = "Gray"] /\ PushGray(s)
    BY <1>1 DEF Darken
  <2>3. /\ s \in Seq(Addr) /\ Len(s) = Len(gray_vals) + 1
        /\ \A i \in 1 .. Len(gray_vals) : s[i] = gray_vals[i]
        /\ s[Len(s)] = v
    BY <2>1, AppendSeq
  <2> HIDE DEF s
  <2>4. /\ gray_vals' \in Seq(Addr)
        /\ gray_size' \in Nat \ {0}
        /\ heap_is_pure' \in BOOLEAN
        /\ Len(gray_vals') <= Len(s)
        /\ \A i \in 1 .. Len(gray_vals') : gray_vals'[i] = s[i]
        /\ ~ heap_is_pure' \/ (gray_vals' = s /\ heap_is_pure' = heap_is_pure)
    BY <2>2, <2>3, PushGrayPrefix
  <2>5. color' \in [Addr -> Colors] /\ \A a \in Addr : color'[a] = IF a = v THEN "Gray" ELSE color[a]
    BY <2>1, <2>2 DEF Colors
  <2>6. \A i \in 1 .. Len(gray_vals) : gray_vals[i] \in Addr
    OBVIOUS
  <2>7. \A i \in 1 .. Len(s) : i = Len(s) \/ i \in 1 .. Len(gray_vals)
    BY <2>1, AppendSeq DEF s
  <2>8. \A i \in 1 .. Len(s) : color'[s[i]] = "Gray"
    BY <2>1, <2>3, <2>5, <2>6, <2>7 DEF GrayInv
  <2>9. \A i \in 1 .. Len(gray_vals) : s[i] # v
    BY <1>1, <2>3 DEF GrayInv
  <2>10. \A i, j \in 1 .. Len(s) : s[i] = s[j] => i = j
    <3> TAKE i, j \in 1 .. Len(s)
    <3> HAVE s[i] = s[j]
    <3>1. CASE i \in 1 .. Len(gray_vals) /\ j \in 1 .. Len(gray_vals)
      BY <2>3, <3>1 DEF GrayInv
    <3>2. CASE i = Len(s) \/ j = Len(s)
      BY <2>3, <2>7, <2>9, <3>2
    <3>3. i = Len(s) \/ i \in 1 .. Len(gray_vals)
      BY <2>7
    <3>4. j = Len(s) \/ j \in 1 .. Len(gray_vals)
      BY <2>7
    <3> QED
      BY <3>1, <3>2, <3>3, <3>4
  <2>11. \A i \in 1 .. Len(gray_vals') : color'[gray_vals'[i]] = "Gray"
    BY <2>3, <2>4, <2>8
  <2>12. \A i, j \in 1 .. Len(gray_vals') : gray_vals'[i] = gray_vals'[j] => i = j
    BY <2>3, <2>4, <2>10
  <2>13. ASSUME NEW a \in Addr, color'[a] = "Gray", heap_is_pure',
                ~ (markhp' # Nil /\ a >= markhp')
         PROVE  a \in GraySet'
    <3>1. gray_vals' = s /\ heap_is_pure
      BY <2>4, <2>13
    <3>2. CASE a = v
      BY <2>3, <3>1, <3>2 DEF GraySet
    <3>3. CASE a # v
      <4>1. PICK i \in 1 .. Len(gray_vals) : a = gray_vals[i]
        BY <2>5, <2>13, <3>1, <3>3 DEF GrayInv, GraySet
      <4> QED
        BY <2>3, <3>1, <4>1 DEF GraySet
    <3> QED
      BY <3>2, <3>3
  <2>14. GrayInv'
    BY <2>11, <2>12, <2>13 DEF GrayInv
  <2> QED
    BY <1>1, <2>4, <2>5, <2>14
<1>2. CASE ~ (v # Nil /\ color[v] = "White")
  BY <1>2 DEF Darken, grayVars, GrayInv, GraySet
<1> QED
  BY <1>1, <1>2

(* Protected is itself closed, being the intersection of the closed sets.  *)
LEMMA ProtectedClosed ==
  ASSUME TypeOK, KeptInv, ControlInv, gc_phase = "Phase_mark"
  PROVE  MarkClosed(Protected) /\ Protected \subseteq NonBlue
<1> USE DEF TypeOK
<1>1. MarkClosed(NonBlue)
  <2>1. Kept = NonBlue /\ Closed(NonBlue)
    <3>1. Kept = NonBlue
      BY DEF Kept, Doomed
    <3> QED
      BY <3>1 DEF KeptInv
  <2>2. pc = "scan" => \A j \in 1 .. idx : field[cur][j] \in NonBlue \cup {Nil}
    BY <2>1 DEF ControlInv, Closed, Fields, NonBlue
  <2> QED
    BY <2>1, <2>2 DEF MarkClosed, Closed, NonBlue
<1>2. \A S \in SUBSET Addr : MarkClosed(S) => Protected \subseteq S
  BY DEF Protected
<1>3. Protected \subseteq Addr
  BY DEF Protected
<1>4. \A a \in Addr : color[a] \in {"Gray", "Black"} => a \in Protected
  BY DEF Protected, MarkClosed
<1>5. ASSUME pc = "scan", NEW j \in 1 .. idx, field[cur][j] # Nil
      PROVE  field[cur][j] \in Protected
  <2>1. field[cur][j] \in Addr
    BY <1>5 DEF Fields
  <2> QED
    BY <1>5, <2>1 DEF Protected, MarkClosed
<1>6. ASSUME NEW o \in Protected, color[o] \in {"White", "Gray"}, tag[o] = "Scan",
             NEW f \in Fields, field[o][f] # Nil
      PROVE  field[o][f] \in Protected
  <2>1. o \in Addr /\ field[o][f] \in Addr
    BY <1>3, <1>6
  <2>2. \A S \in SUBSET Addr : MarkClosed(S) => field[o][f] \in S
    BY <1>2, <1>6 DEF MarkClosed
  <2> QED
    BY <2>1, <2>2 DEF Protected
<1>7. MarkClosed(Protected)
  BY <1>4, <1>5, <1>6 DEF MarkClosed
<1> QED
  BY <1>1, <1>2, <1>7 DEF NonBlue

(* What is protected stays so if no new closed set leaves out a fact the   *)
(* old ones had.                                                           *)
LEMMA ProtectedGrows ==
  ASSUME \A S \in SUBSET Addr : MarkClosed(S)' => MarkClosed(S)
  PROVE  Protected \subseteq Protected'
BY DEF Protected, MarkClosed

-----------------------------------------------------------------------------
(* The initial state.                                                      *)

LEMMA InitType == Init => TypeOK
<1> USE DEF Init, TypeOK, Addr, Nil
<1>1. Init => gray_vals \in Seq(Addr) /\ calls \in Seq(Calls)
  OBVIOUS
<1> QED
  BY <1>1 DEF Colors, Tags, Phases

LEMMA InitInv == Init => IInv
<1> SUFFICES ASSUME Init PROVE IInv
  OBVIOUS
<1> USE DEF Init
<1>1. TypeOK
  BY InitType
<1>2. Global \in Addr /\ \A a \in Addr : color[a] # "Blue" => a = Global
  OBVIOUS
<1>3. color[Global] = "Black"
  BY <1>2
<1>4. ControlInv
  BY DEF ControlInv
<1>5. HeapInv
  BY <1>2 DEF HeapInv, NonBlue
<1>6. GrayInv
  BY <1>2, <1>3 DEF GrayInv
<1>7. SweepInv /\ RootsInv
  BY DEF SweepInv, RootsInv
<1>8. KeptInv
  BY <1>2, <1>3 DEF KeptInv, Closed, Kept, NonBlue, Doomed, Roots
<1>9. MarkInv
  BY <1>2, <1>3 DEF MarkInv, Protected, MarkClosed, Roots
<1>10. WeakInv
  BY DEF WeakInv, Kept, NonBlue
<1> QED
  BY <1>1, <1>4, <1>5, <1>6, <1>7, <1>8, <1>9, <1>10 DEF IInv

-----------------------------------------------------------------------------
(* The steps of the program.                                               *)

(* What the program can come to: a block that the sweep will not take and  *)
(* that marking will meet.                                                 *)
Alive == {x \in Kept : gc_phase = "Phase_mark" => x \in Protected}

LEMMA AllocStep ==
  ASSUME IInv, NEW a \in Addr, NEW t \in Tags,
         NEW init \in [Fields -> Alive \cup {Nil}],
         t = "Weak" => \A f \in Fields : init[f] = Nil,
         AllocShr(a, t, init)
  PROVE  IInv'
<1> USE DEF IInv
<1>0. /\ Roots \subseteq Addr /\ Roots \subseteq Kept
      /\ init \in [Fields -> Kept \cup {Nil}] /\ init \in [Fields -> Addr \cup {Nil}]
  BY DEF KeptInv, Kept, NonBlue, Alive
<1>1. /\ pc = "loop" /\ color[a] = "Blue"
      /\ color' = [color EXCEPT ![a] = AllocColor(a)]
      /\ tag' = [tag EXCEPT ![a] = t]
      /\ field' = [field EXCEPT ![a] = init]
      /\ heap' = heap \cup {a} /\ held' = held \cup {a}
      /\ AllocColor(a) \in {"Black", "White"}
      /\ UNCHANGED <<grayVars, cycleVars, callVars>>
  BY DEF AllocShr, Running, ControlInv, AllocColor
<1>2. TypeOK'
  BY <1>0, <1>1 DEF TypeOK, grayVars, cycleVars, callVars, Colors
<1>3. /\ \A x \in Addr : color'[x] = IF x = a THEN AllocColor(a) ELSE color[x]
      /\ \A x \in Addr : tag'[x] = IF x = a THEN t ELSE tag[x]
      /\ \A x \in Addr : field'[x] = IF x = a THEN init ELSE field[x]
  BY <1>1 DEF TypeOK
<1>4. ControlInv' /\ HeapInv' /\ RootsInv'
  BY <1>1, <1>3 DEF ControlInv, HeapInv, RootsInv, NonBlue, cycleVars, callVars
<1>5. GrayInv'
  <2>1. \A i \in 1 .. Len(gray_vals) : gray_vals[i] \in Addr /\ gray_vals[i] # a
    BY <1>1 DEF TypeOK, GrayInv
  <2> QED
    BY <1>1, <1>3, <2>1 DEF GrayInv, GraySet, grayVars, cycleVars
<1>6. SweepInv'
  BY <1>1, <1>3 DEF SweepInv, AllocColor, grayVars, cycleVars, callVars, TypeOK, Addr
<1>7. Kept' = Kept \cup {a} /\ a \notin Kept
  BY <1>1, <1>3 DEF Kept, NonBlue, Doomed, AllocColor, cycleVars
<1>8. KeptInv'
  <2>1. Roots' = Roots \cup {a}
    BY <1>1 DEF Roots
  <2>2. Closed(Kept)'
    BY <1>0, <1>3, <1>7 DEF KeptInv, Closed, Kept, NonBlue
  <2> QED
    BY <1>7, <2>1, <2>2 DEF KeptInv
<1>9. MarkInv'
  <2> SUFFICES ASSUME gc_phase = "Phase_mark" PROVE MarkInv'
    BY <1>1 DEF MarkInv, cycleVars
  <2>1. color'[a] = "Black"
    BY <1>3 DEF AllocColor
  <2>2. Protected \subseteq Protected'
    <3>1. ASSUME NEW S \in SUBSET Addr, MarkClosed(S)' PROVE MarkClosed(S)
      BY <1>1, <1>3, <2>1, <3>1 DEF MarkClosed, callVars
    <3> QED
      BY <3>1, ProtectedGrows
  <2>3. a \in Protected'
    BY <2>1 DEF Protected, MarkClosed
  <2>4. Roots \subseteq Protected /\ Roots' = Roots \cup {a}
    BY <1>1 DEF MarkInv, Roots
  <2>5. \A f \in Fields : init[f] \in Protected \cup {Nil}
    BY DEF Alive
  <2> QED
    BY <1>1, <1>3, <2>2, <2>3, <2>4, <2>5 DEF MarkInv, cycleVars
<1>10. WeakInv'
  <2>1. NonBlue \subseteq NonBlue'
    BY <1>1, <1>3 DEF NonBlue
  <2> QED
    BY <1>1, <1>3, <1>7, <2>1 DEF WeakInv, Kept, NonBlue, cycleVars
<1> QED
  BY <1>2, <1>4, <1>5, <1>6, <1>8, <1>9, <1>10

(* Steps that only change what the program holds.                          *)
LEMMA HeldStep ==
  ASSUME IInv, Running, held' \subseteq Addr,
         Roots' \subseteq Kept, gc_phase = "Phase_mark" => Roots' \subseteq Protected,
         UNCHANGED <<heap, tag, field, color, grayVars, cycleVars, callVars>>
  PROVE  IInv'
<1> USE DEF IInv, grayVars, cycleVars, callVars
<1>1. TypeOK'
  BY DEF TypeOK
<1>2. ControlInv' /\ HeapInv' /\ RootsInv' /\ SweepInv'
  BY DEF ControlInv, HeapInv, NonBlue, RootsInv, SweepInv, Running
<1>3. GrayInv'
  BY DEF GrayInv, GraySet
<1>4. Kept' = Kept /\ NonBlue' = NonBlue /\ Protected' = Protected
  BY DEF Kept, NonBlue, Doomed, Protected, MarkClosed
<1>5. KeptInv' /\ MarkInv' /\ WeakInv'
  BY <1>4 DEF KeptInv, Closed, MarkInv, WeakInv
<1> QED
  BY <1>1, <1>2, <1>3, <1>5

LEMMA LoadStep ==
  ASSUME IInv, NEW a \in Addr, NEW f \in Fields, Load(a, f)
  PROVE  IInv'
<1> USE DEF IInv
<1>1. /\ Running /\ a \in Roots /\ tag[a] = "Scan" /\ field[a][f] # Nil
      /\ held' = held \cup {field[a][f]}
      /\ UNCHANGED <<heap, tag, field, color, grayVars, cycleVars, callVars>>
  BY DEF Load
<1>2. field[a][f] \in Kept /\ field[a][f] \in Addr /\ Roots' = Roots \cup {field[a][f]}
  BY <1>1 DEF KeptInv, Closed, Kept, NonBlue, Roots
<1>3. gc_phase = "Phase_mark" => field[a][f] \in Protected
  <2> SUFFICES ASSUME gc_phase = "Phase_mark" PROVE field[a][f] \in Protected
    OBVIOUS
  <2>1. MarkClosed(Protected) /\ a \in Protected /\ color[a] # "Blue"
    BY <1>1, ProtectedClosed DEF MarkInv, NonBlue
  <2> QED
    BY <1>1, <2>1 DEF MarkClosed, MarkInv, TypeOK, Colors
<1> QED
  BY <1>1, <1>2, <1>3, HeldStep DEF KeptInv, MarkInv, TypeOK

LEMMA DropStep ==
  ASSUME IInv, NEW a \in Addr, Drop(a)
  PROVE  IInv'
BY HeldStep DEF Drop, IInv, KeptInv, MarkInv, Roots, TypeOK

(* The barrier: what Modify overwrites and what weak_sub returns during    *)
(* marking is darkened.                                                    *)
Barrier(x) ==
  IF gc_phase = "Phase_mark" THEN Darken(x) ELSE UNCHANGED <<color, grayVars>>

LEMMA BarrierStep ==
  ASSUME IInv, Running, NEW x \in Addr \cup {Nil}, Barrier(x),
         UNCHANGED <<heap, tag, cycleVars, callVars>>
  PROVE  /\ color' \in [Addr -> Colors]
         /\ gray_vals' \in Seq(Addr)
         /\ gray_size' \in Nat \ {0}
         /\ heap_is_pure' \in BOOLEAN
         /\ \A b \in Addr : \/ color'[b] = color[b]
                            \/ color[b] = "White" /\ color'[b] = "Gray"
         /\ gc_phase = "Phase_mark" /\ x # Nil => color'[x] # "White"
         /\ NonBlue' = NonBlue /\ Kept' = Kept
         /\ ControlInv' /\ HeapInv' /\ GrayInv' /\ SweepInv' /\ RootsInv'
<1> USE DEF IInv, cycleVars, callVars, Running, ControlInv
<1>1. CASE gc_phase = "Phase_mark"
  <2>1. Darken(x)
    BY <1>1 DEF Barrier
  <2>2. /\ color' \in [Addr -> Colors]
        /\ gray_vals' \in Seq(Addr)
        /\ gray_size' \in Nat \ {0}
        /\ heap_is_pure' \in BOOLEAN
        /\ \A b \in Addr : \/ color'[b] = color[b]
                           \/ color[b] = "White" /\ color'[b] = "Gray"
        /\ x # Nil => color'[x] # "White"
        /\ GrayInv'
    BY <2>1, DarkenStep
  <2>3. NonBlue' = NonBlue
    BY <2>2 DEF NonBlue
  <2>4. Kept' = Kept
    BY <1>1, <2>3 DEF Kept, Doomed
  <2> QED
    BY <1>1, <2>2, <2>3, <2>4 DEF HeapInv, SweepInv, RootsInv
<1>2. CASE gc_phase # "Phase_mark"
  <2>1. UNCHANGED <<color, grayVars>>
    BY <1>2 DEF Barrier
  <2>2. NonBlue' = NonBlue /\ Kept' = Kept
    BY <2>1 DEF NonBlue, Kept, Doomed
  <2>3. GrayInv' /\ SweepInv' /\ HeapInv' /\ RootsInv'
    BY <2>1, <2>2 DEF GrayInv, GraySet, SweepInv, grayVars, HeapInv, RootsInv
  <2> QED
    BY <1>2, <2>1, <2>2, <2>3 DEF TypeOK, grayVars
<1> QED
  BY <1>1, <1>2

(* A pointer is stored in a block, and the program may hold other pointers *)
(* from then on.                                                           *)
LEMMA StoreStep ==
  ASSUME IInv, Running, NEW a \in Kept, NEW f \in Fields, NEW v \in Alive \cup {Nil},
         field' = [field EXCEPT ![a][f] = v], Barrier(field[a][f]),
         held' \subseteq Addr, Roots' \subseteq Alive,
         UNCHANGED <<heap, tag, cycleVars, callVars>>
  PROVE  IInv'
<1> USE DEF IInv
<1> DEFINE x == field[a][f]
<1>1. /\ Running /\ a \in Addr /\ v \in Addr \cup {Nil}
      /\ field' = [field EXCEPT ![a][f] = v]
      /\ Barrier(x)
      /\ UNCHANGED <<heap, tag, cycleVars, callVars>>
  BY DEF Alive, Kept, NonBlue
<1>2. x \in Addr \cup {Nil}
  BY <1>1 DEF TypeOK
<1>3. /\ color' \in [Addr -> Colors]
      /\ gray_vals' \in Seq(Addr)
      /\ gray_size' \in Nat \ {0}
      /\ heap_is_pure' \in BOOLEAN
      /\ \A b \in Addr : \/ color'[b] = color[b]
                         \/ color[b] = "White" /\ color'[b] = "Gray"
      /\ gc_phase = "Phase_mark" /\ x # Nil => color'[x] # "White"
      /\ NonBlue' = NonBlue /\ Kept' = Kept
      /\ ControlInv' /\ HeapInv' /\ GrayInv' /\ SweepInv' /\ RootsInv'
  <2> HIDE DEF x
  <2> QED
    BY <1>1, <1>2, BarrierStep
<1>4. TypeOK'
  <2>1. field' \in [Addr -> [Fields -> Addr \cup {Nil}]]
    BY <1>1 DEF TypeOK
  <2> QED
    BY <1>1, <1>3, <2>1 DEF TypeOK, cycleVars, callVars
<1>5. /\ \A b \in Addr, g \in Fields :
           field'[b][g] = IF b = a /\ g = f THEN v ELSE field[b][g]
      /\ Roots' \subseteq Kept /\ v \in Kept \cup {Nil} /\ a \in Kept
      /\ Kept \subseteq Addr
  BY <1>1 DEF TypeOK, Kept, NonBlue, Alive
<1>6. KeptInv'
  BY <1>1, <1>3, <1>5 DEF KeptInv, Closed
<1>7. MarkInv'
  <2> SUFFICES ASSUME gc_phase = "Phase_mark" PROVE MarkInv'
    BY <1>1 DEF MarkInv, cycleVars
  <2>0. pc = "loop" /\ UNCHANGED <<pc, tag>>
    BY <1>1 DEF Running, ControlInv, callVars
  <2>1. tag[a] = "Scan" /\ x # Nil => color'[x] \in {"Gray", "Black"}
    <3> SUFFICES ASSUME tag[a] = "Scan", x # Nil
                 PROVE  color'[x] \in {"Gray", "Black"}
      OBVIOUS
    <3>1. x \in Kept
      BY <1>5 DEF KeptInv, Closed
    <3>2. x \in Addr /\ color'[x] # "Blue"
      BY <1>3, <3>1 DEF Kept, NonBlue
    <3> QED
      BY <1>3, <3>2 DEF Colors
  <2>2. Protected \subseteq Protected'
    <3>1. ASSUME NEW S \in SUBSET Addr, MarkClosed(S)' PROVE MarkClosed(S)
      <4>1. \A b \in Addr : color[b] \in {"Gray", "Black"} => b \in S
        BY <1>3, <3>1 DEF MarkClosed
      <4>2. ASSUME NEW o \in S, color[o] \in {"White", "Gray"}, tag[o] = "Scan",
                   NEW g \in Fields
            PROVE  field[o][g] \in S \cup {Nil}
        <5>1. color'[o] \in {"White", "Gray"}
          BY <1>3, <4>2
        <5>2. field'[o][g] \in S \cup {Nil}
          BY <2>0, <3>1, <4>2, <5>1 DEF MarkClosed
        <5>3. CASE o = a /\ g = f
          <6>1. x = Nil \/ x \in S
            BY <1>2, <2>1, <3>1, <4>2, <5>3 DEF MarkClosed
          <6> QED
            BY <5>3, <6>1
        <5> QED
          BY <1>5, <5>2, <5>3
      <4> QED
        BY <2>0, <4>1, <4>2 DEF MarkClosed
    <3> QED
      BY <3>1, ProtectedGrows
  <2>3. \A o \in Addr : color'[o] = "Black" => color[o] = "Black"
    BY <1>3
  <2>4. Roots' \subseteq Protected /\ v \in Protected \cup {Nil}
    BY DEF Alive
  <2> QED
    BY <1>1, <1>5, <2>2, <2>3, <2>4 DEF MarkInv, cycleVars
<1>8. WeakInv'
  BY <1>1, <1>3, <1>5 DEF WeakInv, Kept, cycleVars
<1> QED
  BY <1>3, <1>4, <1>6, <1>7, <1>8

LEMMA RootsAlive == IInv => Roots \subseteq Alive
BY DEF IInv, KeptInv, MarkInv, Alive

LEMMA ModifyStep ==
  ASSUME IInv, NEW a \in Addr, NEW f \in Fields, NEW v \in Addr \cup {Nil},
         Modify(a, f, v)
  PROVE  IInv'
<1>1. /\ Running /\ a \in Kept /\ v \in Alive \cup {Nil}
      /\ field' = [field EXCEPT ![a][f] = v] /\ Barrier(field[a][f])
      /\ UNCHANGED <<heap, tag, held, cycleVars, callVars>>
  BY RootsAlive DEF Modify, Barrier, Alive
<1>2. held' \subseteq Addr /\ Roots' \subseteq Alive
  BY <1>1, RootsAlive DEF IInv, TypeOK, Roots
<1> QED
  BY <1>1, <1>2, StoreStep

LEMMA WeakSubStep ==
  ASSUME IInv, NEW a \in Addr, NEW f \in Fields, WeakSub(a, f)
  PROVE  IInv'
<1> USE DEF IInv
<1> DEFINE x == field[a][f]
<1>1. /\ Running /\ a \in Roots /\ tag[a] = "Weak" /\ ~ isdead(x)
      /\ held' = held \cup {x}
      /\ Barrier(x)
      /\ UNCHANGED <<heap, tag, field, cycleVars, callVars>>
  BY DEF WeakSub, Barrier
<1>2. x \in Addr /\ x # Nil
  BY <1>1 DEF TypeOK, isdead
<1>3. /\ color' \in [Addr -> Colors]
      /\ gray_vals' \in Seq(Addr)
      /\ gray_size' \in Nat \ {0}
      /\ heap_is_pure' \in BOOLEAN
      /\ \A b \in Addr : \/ color'[b] = color[b]
                         \/ color[b] = "White" /\ color'[b] = "Gray"
      /\ gc_phase = "Phase_mark" => color'[x] # "White"
      /\ NonBlue' = NonBlue /\ Kept' = Kept
      /\ ControlInv' /\ HeapInv' /\ GrayInv' /\ SweepInv' /\ RootsInv'
  <2> HIDE DEF x
  <2> QED
    BY <1>1, <1>2, BarrierStep
<1>4. x \in Kept
  <2>1. a \in Kept
    BY <1>1 DEF KeptInv
  <2>2. x \in NonBlue /\ (gc_phase # "Phase_weak" => x \in Kept)
    BY <1>1, <1>2, <2>1 DEF WeakInv, Kept
  <2> QED
    BY <1>1, <1>2, <2>2 DEF isdead, Kept, Doomed
<1>5. TypeOK'
  BY <1>1, <1>2, <1>3 DEF TypeOK, cycleVars, callVars
<1>6. Roots' = Roots \cup {x}
  BY <1>1 DEF Roots
<1>7. KeptInv' /\ WeakInv'
  BY <1>1, <1>3, <1>4, <1>6 DEF KeptInv, Closed, WeakInv, cycleVars
<1>8. MarkInv'
  <2> SUFFICES ASSUME gc_phase = "Phase_mark" PROVE MarkInv'
    BY <1>1 DEF MarkInv, cycleVars
  <2>0. pc = "loop" /\ UNCHANGED <<pc, tag, field>>
    BY <1>1 DEF Running, ControlInv, callVars
  <2>1. Protected \subseteq Protected'
    <3>1. ASSUME NEW S \in SUBSET Addr, MarkClosed(S)' PROVE MarkClosed(S)
      <4>1. \A b \in Addr : color[b] \in {"Gray", "Black"} => b \in S
        BY <1>3, <3>1 DEF MarkClosed
      <4>2. \A o \in S : color[o] \in {"White", "Gray"} => color'[o] \in {"White", "Gray"}
        BY <1>3
      <4> QED
        BY <2>0, <3>1, <4>1, <4>2 DEF MarkClosed
    <3> QED
      BY <3>1, ProtectedGrows
  <2>2. x \in Protected'
    <3>1. color'[x] \in {"Gray", "Black"}
      BY <1>2, <1>3, <1>4 DEF Kept, NonBlue, Colors
    <3> QED
      BY <1>2, <3>1 DEF Protected, MarkClosed
  <2>3. \A o \in Addr : color'[o] = "Black" => color[o] = "Black"
    BY <1>3
  <2> QED
    BY <1>1, <1>6, <2>1, <2>2, <2>3 DEF MarkInv, cycleVars
<1> QED
  BY <1>3, <1>5, <1>7, <1>8

LEMMA CollectStep ==
  ASSUME IInv, NEW cs \in Seq(Calls), Collect(cs)
  PROVE  IInv'
<1> USE DEF IInv
<1>1. /\ pc = "loop" /\ calls' = cs
      /\ UNCHANGED <<heapVars, color, grayVars, cycleVars, pc, cur, idx, roots>>
  BY DEF Collect, Running, ControlInv
<1> USE DEF heapVars, grayVars, cycleVars
<1>2. TypeOK'
  BY <1>1 DEF TypeOK
<1>3. ControlInv' /\ HeapInv' /\ SweepInv' /\ RootsInv'
  BY <1>1 DEF ControlInv, HeapInv, NonBlue, SweepInv, RootsInv
<1>4. GrayInv'
  BY <1>1 DEF GrayInv, GraySet
<1>5. Kept' = Kept /\ NonBlue' = NonBlue /\ Protected' = Protected
  BY <1>1 DEF Kept, NonBlue, Doomed, Protected, MarkClosed
<1>6. KeptInv' /\ MarkInv' /\ WeakInv'
  BY <1>1, <1>5 DEF KeptInv, Closed, Roots, MarkInv, WeakInv
<1> QED
  BY <1>2, <1>3, <1>4, <1>6

LEMMA ProgramStep == IInv /\ Program => IInv'
<1> SUFFICES ASSUME IInv, Program PROVE IInv'
  OBVIOUS
<1>1. ASSUME NEW a \in Addr, AllocBlock(a) PROVE IInv'
  <2>1. PICK init \in [Fields -> Roots \cup {Nil}] : AllocShr(a, "Scan", init)
    BY <1>1 DEF AllocBlock
  <2>2. init \in [Fields -> Alive \cup {Nil}]
    BY RootsAlive
  <2> QED
    BY <2>1, <2>2, AllocStep DEF Tags
<1>2. ASSUME NEW a \in Addr, AllocWeak(a) PROVE IInv'
  BY <1>2, AllocStep DEF AllocWeak, Tags
<1>3. ASSUME MinorCollection \/ GcMajor \/ GcFullMajor PROVE IInv'
  <2>1. /\ <<"slice">> \in Seq(Calls)
        /\ <<"slice", "major">> \in Seq(Calls)
        /\ <<"slice", "full1", "full2">> \in Seq(Calls)
    BY DEF Calls
  <2> QED
    BY <1>3, <2>1, CollectStep DEF MinorCollection, GcMajor, GcFullMajor
<1> QED
  BY <1>1, <1>2, <1>3, LoadStep, DropStep, WeakSubStep, ModifyStep DEF Program

-----------------------------------------------------------------------------
(* The steps of the collector: marking.                                    *)

LEMMA MarkPopStep == IInv /\ MarkPop => IInv'
<1> SUFFICES ASSUME IInv, MarkPop PROVE IInv'
  OBVIOUS
<1> USE DEF IInv
<1> DEFINE n == Len(gray_vals)
           v == gray_vals[n]
<1>1. /\ gray_vals # << >> /\ calls # << >> /\ pc = "loop" /\ gc_phase = "Phase_mark"
      /\ gray_vals' = SubSeq(gray_vals, 1, n - 1)
      /\ color' = [color EXCEPT ![v] = "Black"]
      /\ cur' = v
      /\ idx' = IF tag[v] = "Scan" THEN NFields ELSE 0
      /\ weak_arrays' = IF tag[v] = "Weak" THEN weak_arrays \cup {v} ELSE weak_arrays
      /\ pc' = "scan"
      /\ UNCHANGED <<heapVars, gray_size, heap_is_pure, gc_phase, markhp,
                     gc_sweep_hp, calls, roots>>
  BY DEF MarkPop, InLoop, LastField
<1>2. n \in Nat /\ n > 0 /\ v \in Addr /\ color[v] = "Gray"
  BY <1>1 DEF TypeOK, GrayInv
<1>3. /\ gray_vals' \in Seq(Addr) /\ Len(gray_vals') = n - 1
      /\ \A i \in 1 .. n - 1 : gray_vals'[i] = gray_vals[i]
  <2>1. gray_vals \in Seq(Addr)
    BY DEF TypeOK
  <2> QED
    BY <1>1, <2>1, FrontSeq DEF n
<1> HIDE DEF v, n
<1>4. TypeOK'
  BY <1>1, <1>2, <1>3 DEF TypeOK, heapVars, Colors
<1>5. \A b \in Addr : color'[b] = IF b = v THEN "Black" ELSE color[b]
  BY <1>1 DEF TypeOK
<1>6. NonBlue' = NonBlue /\ Kept' = NonBlue /\ Kept = NonBlue
  BY <1>1, <1>2, <1>5 DEF NonBlue, Kept, Doomed
<1>7. ControlInv' /\ HeapInv' /\ SweepInv' /\ RootsInv'
  BY <1>1, <1>2, <1>5, <1>6
  DEF ControlInv, HeapInv, SweepInv, RootsInv, heapVars, TypeOK, Tags
<1>8. GrayInv'
  <2>1. \A i \in 1 .. n - 1 : gray_vals[i] # v
    BY <1>2 DEF GrayInv, v, n
  <2>2. \A i \in 1 .. n - 1 : color'[gray_vals'[i]] = "Gray"
    BY <1>2, <1>3, <1>5, <2>1 DEF GrayInv, TypeOK, n
  <2>3. \A i, j \in 1 .. n - 1 : gray_vals'[i] = gray_vals'[j] => i = j
    BY <1>2, <1>3 DEF GrayInv, n
  <2>4. ASSUME NEW a \in GraySet, a # v PROVE a \in GraySet'
    <3>1. PICK i \in 1 .. n : a = gray_vals[i]
      BY DEF GraySet, n
    <3>2. i \in 1 .. n - 1
      BY <1>2, <2>4, <3>1 DEF v
    <3> QED
      BY <1>3, <3>1, <3>2 DEF GraySet
  <2>5. \A a \in Addr : color'[a] = "Gray" => color[a] = "Gray" /\ a # v
    BY <1>5
  <2> QED
    BY <1>1, <1>3, <2>2, <2>3, <2>4, <2>5 DEF GrayInv
<1>9. KeptInv' /\ WeakInv'
  BY <1>1, <1>6 DEF KeptInv, Closed, Roots, WeakInv, heapVars
<1>10. MarkInv'
  <2>1. Protected \subseteq Protected'
    <3>1. ASSUME NEW S \in SUBSET Addr, MarkClosed(S)' PROVE MarkClosed(S)
      <4>1. \A b \in Addr : color[b] \in {"Gray", "Black"} => b \in S
        BY <1>5, <3>1 DEF MarkClosed
      <4>2. ASSUME NEW o \in S, color[o] \in {"White", "Gray"}, tag[o] = "Scan",
                   NEW g \in Fields
            PROVE  field[o][g] \in S \cup {Nil}
        <5>1. CASE o = v
          <6>1. idx' = NFields /\ cur' = o /\ pc' = "scan" /\ field' = field
            BY <1>1, <4>2, <5>1 DEF heapVars
          <6> QED
            BY <3>1, <6>1 DEF MarkClosed, Fields
        <5>2. CASE o # v
          BY <1>1, <1>5, <3>1, <4>2, <5>2 DEF MarkClosed, heapVars
        <5> QED
          BY <5>1, <5>2
      <4> QED
        BY <1>1, <4>1, <4>2 DEF MarkClosed
    <3> QED
      BY <3>1, ProtectedGrows
  <2>2. MarkClosed(Protected)
    BY <1>1, ProtectedClosed
  <2>3. tag[v] = "Scan" => \A f \in Fields : field[v][f] \in Protected \cup {Nil}
    BY <1>2, <2>2 DEF MarkClosed
  <2>4. tag[v] # "Scan" => tag[v] = "Weak" /\ v \in weak_arrays'
    BY <1>1, <1>2 DEF TypeOK, Tags
  <2>5. weak_arrays \subseteq weak_arrays'
    BY <1>1
  <2> QED
    BY <1>1, <1>5, <2>1, <2>3, <2>4, <2>5 DEF MarkInv, Roots, heapVars
<1> QED
  BY <1>4, <1>7, <1>8, <1>9, <1>10

LEMMA MarkChildStep == IInv /\ MarkChild => IInv'
<1> SUFFICES ASSUME IInv, MarkChild PROVE IInv'
  OBVIOUS
<1> USE DEF IInv
<1> DEFINE x == field[cur][idx]
<1>1. /\ calls # << >> /\ pc = "scan" /\ idx > 0
      /\ Darken(x)
      /\ idx' = idx - 1
      /\ UNCHANGED <<heapVars, cycleVars, calls, pc, cur, roots>>
  BY DEF MarkChild
<1>2. /\ gc_phase = "Phase_mark" /\ tag[cur] = "Scan"
      /\ cur \in Addr /\ idx \in Fields /\ color[cur] = "Black"
  BY <1>1 DEF ControlInv, TypeOK, Fields
<1>3. x \in Addr \cup {Nil} /\ (x # Nil => color[x] # "Blue")
  <2>1. Kept = NonBlue /\ cur \in NonBlue
    BY <1>2 DEF Kept, NonBlue, Doomed
  <2> QED
    BY <1>2, <2>1 DEF TypeOK, KeptInv, Closed, NonBlue
<1>4. /\ color' \in [Addr -> Colors]
      /\ gray_vals' \in Seq(Addr)
      /\ gray_size' \in Nat \ {0}
      /\ heap_is_pure' \in BOOLEAN
      /\ \A b \in Addr : \/ color'[b] = color[b]
                         \/ color[b] = "White" /\ color'[b] = "Gray"
      /\ x # Nil => color'[x] # "White"
      /\ GrayInv'
  <2> HIDE DEF x
  <2> QED
    BY <1>1, <1>3, DarkenStep DEF cycleVars
<1>5. TypeOK'
  BY <1>1, <1>4 DEF TypeOK, heapVars, cycleVars
<1>6. NonBlue' = NonBlue /\ Kept' = NonBlue /\ Kept = NonBlue
  BY <1>1, <1>2, <1>4 DEF NonBlue, Kept, Doomed, cycleVars
<1>7. ControlInv' /\ HeapInv' /\ SweepInv' /\ RootsInv'
  BY <1>1, <1>2, <1>4, <1>6
  DEF ControlInv, HeapInv, SweepInv, RootsInv, heapVars, cycleVars
<1>8. KeptInv' /\ WeakInv'
  BY <1>1, <1>6 DEF KeptInv, Closed, Roots, WeakInv, heapVars, cycleVars
<1>9. MarkInv'
  <2>1. Protected \subseteq Protected'
    <3>1. ASSUME NEW S \in SUBSET Addr, MarkClosed(S)' PROVE MarkClosed(S)
      <4>1. \A b \in Addr : color[b] \in {"Gray", "Black"} => b \in S
        BY <1>4, <3>1 DEF MarkClosed
      <4>2. \A o \in S : color[o] \in {"White", "Gray"} => color'[o] \in {"White", "Gray"}
        BY <1>4
      <4>3. x # Nil => x \in S
        <5>1. x # Nil => color'[x] \in {"Gray", "Black"}
          BY <1>3, <1>4 DEF Colors
        <5> QED
          BY <1>3, <3>1, <5>1 DEF MarkClosed
      <4>4. \A j \in 1 .. idx : j = idx \/ j \in 1 .. idx'
        BY <1>1, <1>2 DEF TypeOK
      <4>5. \A j \in 1 .. idx : field[cur][j] \in S \cup {Nil}
        BY <1>1, <3>1, <4>3, <4>4 DEF MarkClosed, heapVars
      <4> QED
        BY <1>1, <3>1, <4>1, <4>2, <4>5 DEF MarkClosed, heapVars
    <3> QED
      BY <3>1, ProtectedGrows
  <2>2. \A o \in Addr : color'[o] = "Black" => color[o] = "Black"
    BY <1>4
  <2> QED
    BY <1>1, <1>2, <2>1, <2>2 DEF MarkInv, Roots, heapVars, cycleVars
<1> QED
  BY <1>4, <1>5, <1>7, <1>8, <1>9

LEMMA MarkedBlockStep == IInv /\ MarkedBlock => IInv'
<1> SUFFICES ASSUME IInv, MarkedBlock PROVE IInv'
  OBVIOUS
<1> USE DEF IInv, heapVars, grayVars, cycleVars
<1>1. /\ calls # << >> /\ pc = "scan" /\ idx = 0
      /\ pc' = "loop" /\ cur' = Nil
      /\ calls' = calls \/ calls' = Tail(calls)
      /\ UNCHANGED <<heapVars, color, grayVars, cycleVars, idx, roots>>
  BY DEF MarkedBlock, Worked
<1>2. TypeOK'
  <2>1. calls' \in Seq(Calls)
    <3>1. calls \in Seq(Calls)
      BY DEF TypeOK
    <3> QED
      BY <1>1, <3>1, TailSeq
  <2> QED
    BY <1>1, <2>1 DEF TypeOK
<1>3. ControlInv' /\ HeapInv' /\ SweepInv' /\ RootsInv'
  BY <1>1 DEF ControlInv, HeapInv, NonBlue, SweepInv, RootsInv
<1>4. GrayInv'
  BY <1>1 DEF GrayInv, GraySet
<1>5. Kept' = Kept /\ NonBlue' = NonBlue
  BY <1>1 DEF Kept, NonBlue, Doomed
<1>6. KeptInv' /\ WeakInv'
  BY <1>1, <1>5 DEF KeptInv, Closed, Roots, WeakInv
<1>7. Protected \subseteq Protected'
  <2>1. ASSUME NEW S \in SUBSET Addr, MarkClosed(S)' PROVE MarkClosed(S)
    BY <1>1, <2>1 DEF MarkClosed
  <2> QED
    BY <2>1, ProtectedGrows
<1>8. MarkInv'
  BY <1>1, <1>7 DEF MarkInv, Roots
<1> QED
  BY <1>2, <1>3, <1>4, <1>6, <1>8

(* The walk for lost gray blocks changes neither colours nor fields.       *)
LEMMA WalkStep == IInv /\ (MarkWalk \/ MarkRestart) => IInv'
<1> SUFFICES ASSUME IInv, MarkWalk \/ MarkRestart PROVE IInv'
  OBVIOUS
<1> USE DEF IInv, heapVars, callVars
<1>1. /\ gc_phase = "Phase_mark" /\ gray_vals = << >>
      /\ UNCHANGED <<heapVars, color, gray_size, gc_phase, gc_sweep_hp,
                     weak_arrays, callVars>>
  BY DEF MarkWalk, MarkRestart, InLoop
<1>2. heap \subseteq Addr /\ \A h \in heap : h \in 1 .. MaxAddr
  BY DEF TypeOK, Addr
<1>3. \A a \in Addr : color[a] = "Gray" => a \in heap
  BY DEF HeapInv, NonBlue
<1>4. ASSUME MarkWalk PROVE TypeOK' /\ GrayInv'
  <2>1. markhp # Nil /\ UNCHANGED heap_is_pure
    BY <1>4 DEF MarkWalk
  <2>2. ASSUME NEW h \in heap, IsNext(h, markhp), markhp' = h + 1,
               gray_vals' = IF color[h] = "Gray" THEN <<h>> ELSE << >>
        PROVE  TypeOK' /\ GrayInv'
    <3>1. h \in Addr /\ markhp' \in 1 .. MaxAddr + 1
      BY <1>2, <2>2 DEF Addr
    <3>2. CASE color[h] = "Gray"
      <4>1. gray_vals' = <<h>>
        BY <2>2, <3>2
      <4>2. gray_vals' \in Seq(Addr) /\ Len(gray_vals') = 1 /\ gray_vals'[1] = h
        BY <3>1, <4>1
      <4>3. ASSUME NEW a \in Addr, color[a] = "Gray", heap_is_pure, a # h
            PROVE  a >= h + 1
        <5>1. a >= markhp
          BY <1>1, <4>3 DEF GrayInv, GraySet
        <5> QED
          BY <1>2, <1>3, <2>2, <4>3, <5>1 DEF IsNext
      <4> QED
        BY <1>1, <2>1, <2>2, <3>1, <3>2, <4>2, <4>3 DEF TypeOK, GrayInv, GraySet, Nil
    <3>3. CASE color[h] # "Gray"
      <4>1. gray_vals' = << >>
        BY <2>2, <3>3
      <4>2. gray_vals' \in Seq(Addr) /\ Len(gray_vals') = 0
        BY <4>1
      <4>3. ASSUME NEW a \in Addr, color[a] = "Gray", heap_is_pure
            PROVE  a >= h + 1
        <5>1. a >= markhp
          BY <1>1, <4>3 DEF GrayInv, GraySet
        <5> QED
          BY <1>2, <1>3, <2>2, <3>3, <4>3, <5>1 DEF IsNext
      <4> QED
        BY <1>1, <2>1, <2>2, <3>1, <4>2, <4>3 DEF TypeOK, GrayInv, GraySet, Nil
    <3> QED
      BY <3>2, <3>3
  <2>3. ASSUME AtEnd(markhp), markhp' = Nil, UNCHANGED gray_vals
        PROVE  TypeOK' /\ GrayInv'
    <3>1. \A a \in Addr : color[a] = "Gray" => ~ heap_is_pure
      BY <1>1, <1>2, <1>3, <2>3 DEF GrayInv, GraySet, AtEnd, TypeOK
    <3> QED
      BY <1>1, <2>1, <2>3, <3>1 DEF TypeOK, GrayInv, GraySet, Nil
  <2>4. \/ \E h \in heap : /\ IsNext(h, markhp) /\ markhp' = h + 1
                            /\ gray_vals' = IF color[h] = "Gray" THEN <<h>> ELSE << >>
        \/ AtEnd(markhp) /\ markhp' = Nil /\ UNCHANGED gray_vals
    BY <1>4 DEF MarkWalk
  <2> QED
    BY <2>2, <2>3, <2>4
<1>5. ASSUME MarkRestart PROVE TypeOK' /\ GrayInv'
  <2>1. PICK h \in heap : IsNext(h, 0) /\ markhp' = h
    BY <1>5 DEF MarkRestart
  <2>2. heap_is_pure' = TRUE /\ UNCHANGED gray_vals
    BY <1>5 DEF MarkRestart
  <2>3. h \in 1 .. MaxAddr /\ \A a \in heap : a >= h
    BY <1>2, <2>1 DEF IsNext
  <2>4. TypeOK'
    BY SMTT(30), <1>1, <2>1, <2>2, <2>3 DEF TypeOK
  <2>5. markhp' # Nil
    BY <2>1, <2>3 DEF Nil
  <2>6. \A a \in Addr : color[a] = "Gray" => a >= markhp'
    BY <1>3, <2>1, <2>3
  <2> QED
    BY <1>1, <2>2, <2>4, <2>5, <2>6 DEF GrayInv, GraySet
<1>6. TypeOK' /\ GrayInv'
  BY <1>4, <1>5
<1>7. ControlInv' /\ HeapInv' /\ SweepInv' /\ RootsInv'
  BY <1>1 DEF ControlInv, HeapInv, NonBlue, SweepInv, RootsInv
<1>8. Kept' = Kept /\ NonBlue' = NonBlue /\ Protected' = Protected
  BY <1>1 DEF Kept, NonBlue, Doomed, Protected, MarkClosed
<1>9. KeptInv' /\ WeakInv' /\ MarkInv'
  BY <1>1, <1>8 DEF KeptInv, Closed, Roots, WeakInv, MarkInv
<1> QED
  BY <1>6, <1>7, <1>9

LEMMA MarkDoneStep == IInv /\ MarkDone => IInv'
<1> SUFFICES ASSUME IInv, MarkDone PROVE IInv'
  OBVIOUS
<1> USE DEF IInv, heapVars, grayVars
<1>1. /\ calls # << >> /\ pc = "loop" /\ gc_phase = "Phase_mark"
      /\ gray_vals = << >> /\ markhp = Nil /\ heap_is_pure
      /\ gc_phase' = "Phase_weak"
      /\ calls' = calls \/ calls' = Tail(calls)
      /\ UNCHANGED <<heapVars, color, grayVars, markhp, weak_arrays,
                     pc, cur, idx, roots>>
  BY DEF MarkDone, InLoop, EndPhase
<1>2. PICK h \in heap : IsNext(h, 0) /\ gc_sweep_hp' = h
  BY DEF MarkDone
<1>3. h \in 1 .. MaxAddr /\ \A a \in heap : a \in 1 .. MaxAddr /\ a >= h
  BY <1>2 DEF IsNext, TypeOK, Addr
<1>4. TypeOK'
  <2>1. calls' \in Seq(Calls)
    BY ZenonT(40), <1>1, TailSeq DEF TypeOK
  <2>2. gc_sweep_hp' \in 0 .. MaxAddr + 1
    BY <1>2, <1>3
  <2> QED
    BY <1>1, <2>1, <2>2 DEF TypeOK, Phases
<1>5. ControlInv' /\ HeapInv' /\ GrayInv' /\ RootsInv'
  BY <1>1 DEF ControlInv, HeapInv, NonBlue, GrayInv, GraySet, RootsInv
<1>6. \A a \in Addr : color[a] # "Gray"
  BY <1>1 DEF GrayInv, GraySet
<1>7. NonBlue \subseteq heap
  BY DEF HeapInv
<1>8. SweepInv'
  <2>1. ASSUME NEW a \in Addr, a < h PROVE color[a] # "Black"
    <3>1. a \notin heap
      <4>1. a \in Int /\ h \in Int /\ ~ (a >= h)
        BY <1>3, <2>1 DEF Addr
      <4> QED
        BY <1>3, <4>1
    <3> QED
      BY <1>7, <3>1 DEF NonBlue
  <2> QED
    BY <1>1, <1>2, <1>6, <2>1 DEF SweepInv
<1>9. Kept' = {a \in Addr : color[a] = "Black"} /\ NonBlue' = NonBlue
  <2>1. ASSUME NEW a \in Addr PROVE a \in Kept' <=> color[a] = "Black"
    BY <1>1, <1>2, <1>3, <1>6, <1>7 DEF Kept, NonBlue, Doomed, TypeOK, Colors
  <2> QED
    BY <1>1, <2>1 DEF Kept, NonBlue
<1>10. Protected \subseteq Kept'
  <2>1. MarkClosed({a \in Addr : color[a] = "Black"})
    BY <1>1, <1>6 DEF MarkClosed
  <2> QED
    BY <1>9, <2>1 DEF Protected
<1>11. KeptInv'
  BY <1>1, <1>9, <1>10 DEF KeptInv, MarkInv, Closed, Roots
<1>12. MarkInv'
  BY <1>1 DEF MarkInv
<1>13. WeakInv'
  <2>1. Kept = NonBlue /\ Kept' \subseteq Kept
    BY <1>1, <1>9 DEF Kept, NonBlue, Doomed
  <2> SUFFICES ASSUME NEW w \in Kept', tag[w] = "Weak", NEW f \in Fields,
                      field[w][f] # Nil
               PROVE  IF w \in weak_arrays THEN field[w][f] \in NonBlue
                                           ELSE field[w][f] \in Kept'
    BY <1>1, <1>9 DEF WeakInv
  <2>2. field[w][f] \in NonBlue
    BY <1>1, <2>1 DEF WeakInv
  <2>3. w \notin weak_arrays => field[w][f] \in Kept'
    BY <1>1, <1>9, <1>10 DEF MarkInv
  <2> QED
    BY <2>2, <2>3
<1> QED
  BY <1>4, <1>5, <1>8, <1>11, <1>12, <1>13

-----------------------------------------------------------------------------
(* Resetting weak pointers, and sweeping.                                  *)

LEMMA WeakPhaseStep == IInv /\ weak_phase => IInv'
<1> SUFFICES ASSUME IInv, weak_phase PROVE IInv'
  OBVIOUS
<1> USE DEF IInv, grayVars
<1>1. /\ calls # << >> /\ pc = "loop" /\ gc_phase = "Phase_weak"
      /\ weak_arrays' = {} /\ gc_phase' = "Phase_sweep"
      /\ calls' = calls \/ calls' = Tail(calls)
      /\ UNCHANGED <<heap, tag, held, color, grayVars, markhp, gc_sweep_hp,
                     pc, cur, idx, roots>>
  BY DEF weak_phase, InLoop, EndPhase
<1>2. field' = [a \in Addr |-> [f \in Fields |->
                  IF /\ a \in weak_arrays
                     /\ field[a][f] # Nil
                     /\ color[field[a][f]] = "White"
                    THEN Nil ELSE field[a][f]]]
  BY DEF weak_phase, Dying
<1>3. field' \in [Addr -> [Fields -> Addr \cup {Nil}]]
  BY <1>2 DEF TypeOK
<1>4. \A a \in Addr, f \in Fields :
        \/ field'[a][f] = Nil
        \/ /\ field'[a][f] = field[a][f]
           /\ a \in weak_arrays => color[field[a][f]] # "White"
  BY <1>2 DEF TypeOK
<1>5. TypeOK'
  <2>1. calls' \in Seq(Calls)
    BY ZenonT(40), <1>1, TailSeq DEF TypeOK
  <2> QED
    BY <1>1, <1>3, <2>1 DEF TypeOK, Phases
<1>6. ControlInv' /\ HeapInv' /\ GrayInv' /\ RootsInv' /\ SweepInv' /\ MarkInv'
  BY <1>1 DEF ControlInv, HeapInv, NonBlue, GrayInv, GraySet, RootsInv, SweepInv, MarkInv
<1>7. Kept' = Kept /\ NonBlue' = NonBlue /\ Kept \subseteq Addr
  BY <1>1 DEF Kept, NonBlue, Doomed
<1>8. KeptInv'
  BY <1>1, <1>4, <1>7 DEF KeptInv, Closed, Roots
<1>9. WeakInv'
  <2> SUFFICES ASSUME NEW w \in Kept, tag[w] = "Weak", NEW f \in Fields,
                      field'[w][f] # Nil
               PROVE  field'[w][f] \in Kept
    BY <1>1, <1>7 DEF WeakInv
  <2>1. /\ field'[w][f] = field[w][f]
        /\ w \in weak_arrays => color[field[w][f]] # "White"
    BY <1>4, <1>7
  <2> QED
    BY <1>1, <2>1 DEF WeakInv, Kept, Doomed
<1> QED
  BY <1>5, <1>6, <1>8, <1>9

LEMMA SweepBlockStep == IInv /\ SweepBlock => IInv'
<1> SUFFICES ASSUME IInv, SweepBlock PROVE IInv'
  OBVIOUS
<1> USE DEF IInv, grayVars
<1>1. /\ calls # << >> /\ pc = "loop" /\ gc_phase = "Phase_sweep"
      /\ calls' = calls \/ calls' = Tail(calls)
      /\ UNCHANGED <<heap, held, grayVars, gc_phase, markhp, weak_arrays,
                     pc, cur, idx, roots>>
  BY DEF SweepBlock, InLoop, Worked
<1>2. PICK h \in heap :
        /\ IsNext(h, gc_sweep_hp)
        /\ gc_sweep_hp' = h + 1
        /\ color' = [color EXCEPT ![h] = SweptColor(color[h])]
        /\ IF color[h] = "White"
             THEN /\ tag' = [tag EXCEPT ![h] = "Scan"]
                  /\ field' = [field EXCEPT ![h] = [f \in Fields |-> Nil]]
             ELSE UNCHANGED <<tag, field>>
  BY DEF SweepBlock
<1>3. /\ h \in Addr /\ h \in 1 .. MaxAddr
      /\ h >= gc_sweep_hp /\ \A x \in heap : x >= gc_sweep_hp => x >= h
  BY <1>2 DEF TypeOK, Addr, IsNext
<1>4. /\ color' \in [Addr -> Colors]
      /\ tag' \in [Addr -> Tags]
      /\ field' \in [Addr -> [Fields -> Addr \cup {Nil}]]
      /\ gc_sweep_hp' \in 0 .. MaxAddr + 1
      /\ \A x \in Addr : color'[x] = IF x = h THEN SweptColor(color[h]) ELSE color[x]
      /\ \A x \in Addr : \/ x = h /\ color[h] = "White"
                         \/ tag'[x] = tag[x] /\ field'[x] = field[x]
  <2>1. gc_sweep_hp' \in 0 .. MaxAddr + 1
    BY <1>2, <1>3
  <2>2. SweptColor(color[h]) \in Colors
    BY DEF SweptColor, Colors
  <2>3. /\ color' \in [Addr -> Colors]
        /\ \A x \in Addr : color'[x] = IF x = h THEN SweptColor(color[h]) ELSE color[x]
    BY <1>2, <1>3, <2>2 DEF TypeOK
  <2>4. CASE color[h] = "White"
    <3> DEFINE empty == [f \in Fields |-> Nil]
    <3>1. /\ tag' = [tag EXCEPT ![h] = "Scan"]
          /\ field' = [field EXCEPT ![h] = empty]
      BY <1>2, <2>4
    <3>2. tag' \in [Addr -> Tags] /\ \A x \in Addr : x = h \/ tag'[x] = tag[x]
      BY <3>1 DEF TypeOK, Tags
    <3>3. empty \in [Fields -> Addr \cup {Nil}]
      OBVIOUS
    <3> HIDE DEF empty
    <3>4. /\ field' \in [Addr -> [Fields -> Addr \cup {Nil}]]
          /\ \A x \in Addr : x = h \/ field'[x] = field[x]
      BY <3>1, <3>3 DEF TypeOK
    <3> QED
      BY <2>1, <2>3, <2>4, <3>2, <3>4
  <2>5. CASE color[h] # "White"
    BY <1>2, <2>1, <2>3, <2>5 DEF TypeOK
  <2> QED
    BY <2>4, <2>5
<1>5. TypeOK'
  <2>1. calls' \in Seq(Calls)
    <3>1. calls \in Seq(Calls)
      BY DEF TypeOK
    <3> QED
      BY <1>1, <3>1, TailSeq
  <2> QED
    BY <1>1, <1>4, <2>1 DEF TypeOK
<1>6. color[h] # "Gray" /\ SweptColor(color[h]) \in {"White", "Blue"}
  BY <1>1, <1>3 DEF SweepInv, SweptColor
<1>7. NonBlue \subseteq heap
  BY DEF HeapInv
<1>8. ControlInv' /\ HeapInv' /\ RootsInv' /\ MarkInv'
  <2>1. NonBlue' \subseteq NonBlue
    BY <1>4 DEF NonBlue, SweptColor
  <2> QED
    BY <1>1, <2>1 DEF ControlInv, HeapInv, RootsInv, MarkInv
<1>9. GrayInv'
  <2>1. gray_vals' = << >> /\ \A a \in Addr : color'[a] # "Gray"
    BY <1>1, <1>4, <1>6 DEF SweepInv
  <2> QED
    BY <2>1 DEF GrayInv
<1>10. SweepInv'
  <2>1. \A a \in Addr : color'[a] # "Gray"
    BY <1>1, <1>4, <1>6 DEF SweepInv
  <2>2. ASSUME NEW a \in Addr, a < gc_sweep_hp' PROVE color'[a] # "Black"
    <3>1. CASE a = h
      BY <1>4, <1>6, <3>1
    <3>2. CASE a # h /\ a \in heap
      <4>1. a < gc_sweep_hp
        BY <1>2, <1>3, <2>2, <3>2 DEF TypeOK, Addr
      <4> QED
        BY <1>1, <1>4, <3>2, <4>1 DEF SweepInv
    <3>3. CASE a # h /\ a \notin heap
      BY <1>4, <1>7, <3>3 DEF NonBlue
    <3> QED
      BY <3>1, <3>2, <3>3
  <2> QED
    BY <1>1, <2>1, <2>2 DEF SweepInv
<1>11. Kept' = Kept
  <2>1. ASSUME NEW a \in Addr PROVE a \in Kept' <=> a \in Kept
    <3>1. CASE a = h
      BY <1>1, <1>2, <1>3, <1>4, <1>6, <3>1
      DEF Kept, NonBlue, Doomed, SweptColor, TypeOK, Colors
    <3>2. CASE a # h /\ a \in heap
      <4>1. a >= gc_sweep_hp <=> a >= gc_sweep_hp'
        BY <1>2, <1>3, <3>2 DEF TypeOK, Addr
      <4> QED
        BY <1>1, <1>4, <3>2, <4>1 DEF Kept, NonBlue, Doomed
    <3>3. CASE a # h /\ a \notin heap
      BY <1>4, <1>7, <3>3 DEF Kept, NonBlue
    <3> QED
      BY <3>1, <3>2, <3>3
  <2> QED
    BY <2>1 DEF Kept, NonBlue
<1>12. \A x \in Kept : x \in Addr /\ tag'[x] = tag[x] /\ field'[x] = field[x]
  BY <1>1, <1>3, <1>4 DEF Kept, NonBlue, Doomed
<1>13. KeptInv'
  BY <1>1, <1>11, <1>12 DEF KeptInv, Closed, Roots
<1>14. WeakInv'
  BY <1>1, <1>11, <1>12 DEF WeakInv
<1> QED
  BY <1>5, <1>8, <1>9, <1>10, <1>13, <1>14

LEMMA SweepDoneStep == IInv /\ SweepDone => IInv'
<1> SUFFICES ASSUME IInv, SweepDone PROVE IInv'
  OBVIOUS
<1> USE DEF IInv, heapVars, grayVars, cycleVars
<1>1. /\ calls # << >> /\ pc = "loop" /\ gc_phase = "Phase_sweep"
      /\ AtEnd(gc_sweep_hp)
      /\ pc' = "roots" /\ roots' = Roots
      /\ UNCHANGED <<heapVars, color, grayVars, cycleVars, calls, cur, idx>>
  BY DEF SweepDone, InLoop
<1>2. Kept' = Kept /\ NonBlue' = NonBlue /\ Roots' = Roots
  BY <1>1 DEF Kept, NonBlue, Doomed, Roots
<1>3. TypeOK'
  <2>1. Roots \subseteq Addr
    BY DEF Roots, TypeOK
  <2> QED
    BY <1>1, <2>1 DEF TypeOK
<1>4. ControlInv' /\ HeapInv' /\ SweepInv' /\ MarkInv'
  BY <1>1, <1>2 DEF ControlInv, HeapInv, SweepInv, MarkInv
<1>5. GrayInv'
  BY <1>1 DEF GrayInv, GraySet
<1>6. RootsInv'
  BY <1>1, <1>2 DEF RootsInv, AtEnd
<1>7. KeptInv' /\ WeakInv'
  BY <1>1, <1>2 DEF KeptInv, Closed, WeakInv
<1> QED
  BY <1>3, <1>4, <1>5, <1>6, <1>7

LEMMA DarkenRootStep == IInv /\ DarkenRoot => IInv'
<1> SUFFICES ASSUME IInv, DarkenRoot PROVE IInv'
  OBVIOUS
<1> USE DEF IInv, heapVars, cycleVars
<1>1. /\ calls # << >> /\ pc = "roots" /\ gc_phase = "Phase_sweep"
      /\ UNCHANGED <<heapVars, cycleVars, calls, pc, cur, idx>>
  BY DEF DarkenRoot, ControlInv
<1>2. PICK v \in roots : Darken(v) /\ roots' = roots \ {v}
  BY DEF DarkenRoot
<1>3. v \in Addr /\ v # Nil
  BY DEF TypeOK, Addr, Nil
<1>4. /\ color' \in [Addr -> Colors]
      /\ gray_vals' \in Seq(Addr)
      /\ gray_size' \in Nat \ {0}
      /\ heap_is_pure' \in BOOLEAN
      /\ \A b \in Addr : \/ color'[b] = color[b]
                         \/ b = v /\ color[b] = "White" /\ color'[b] = "Gray"
      /\ color'[v] # "White"
      /\ GrayInv'
  BY <1>1, <1>2, <1>3, DarkenStep
<1>5. TypeOK'
  BY <1>1, <1>2, <1>4 DEF TypeOK
<1>6. NonBlue' = NonBlue /\ NonBlue \subseteq heap
  BY <1>4 DEF NonBlue, HeapInv
<1>7. \A a \in heap : a \in Addr /\ a < gc_sweep_hp
  BY <1>1 DEF RootsInv, TypeOK
<1>8. Kept' = NonBlue /\ Kept = NonBlue
  <2>1. \A a \in NonBlue : ~ (a >= gc_sweep_hp)
    BY <1>6, <1>7 DEF TypeOK, Addr
  <2> QED
    BY <1>1, <1>6, <2>1 DEF Kept, Doomed
<1>9. ControlInv' /\ HeapInv' /\ SweepInv' /\ MarkInv'
  BY <1>1, <1>4, <1>6 DEF ControlInv, HeapInv, SweepInv, MarkInv
<1>10. RootsInv'
  <2>1. ASSUME NEW a \in Roots \ roots' PROVE color'[a] = "Gray"
    <3>0. a \in Addr /\ color[a] # "Blue"
      BY DEF KeptInv, Kept, NonBlue
    <3>1. CASE a # v
      BY <1>1, <1>2, <1>4, <2>1, <3>0, <3>1 DEF RootsInv
    <3>2. CASE a = v
      <4>1. color[a] # "Black"
        BY <1>1, <1>6, <1>7, <3>0 DEF SweepInv, NonBlue
      <4> QED
        BY <1>4, <3>0, <3>2, <4>1 DEF TypeOK, Colors
    <3> QED
      BY <3>1, <3>2
  <2> QED
    BY <1>1, <2>1 DEF RootsInv, Roots
<1>11. KeptInv' /\ WeakInv'
  BY <1>1, <1>6, <1>8 DEF KeptInv, Closed, Roots, WeakInv
<1> QED
  BY <1>4, <1>5, <1>9, <1>10, <1>11

LEMMA StartCycleStep == IInv /\ StartCycle => IInv'
<1> SUFFICES ASSUME IInv, StartCycle PROVE IInv'
  OBVIOUS
<1> USE DEF IInv, heapVars, grayVars
<1>1. /\ calls # << >> /\ pc = "roots" /\ roots = {} /\ gc_phase = "Phase_sweep"
      /\ gc_phase' = "Phase_mark" /\ markhp' = Nil /\ pc' = "loop"
      /\ calls' = Tail(calls) /\ markhp = Nil
      /\ UNCHANGED <<heapVars, color, grayVars, gc_sweep_hp, weak_arrays,
                     cur, idx, roots>>
  BY DEF StartCycle, ControlInv
<1>2. TypeOK'
  <2>1. calls' \in Seq(Calls)
    BY <1>1, TailSeq DEF TypeOK
  <2> QED
    BY <1>1, <2>1 DEF TypeOK, Phases, Nil
<1>3. NonBlue' = NonBlue /\ NonBlue \subseteq heap
  BY <1>1 DEF NonBlue, HeapInv
<1>4. \A a \in NonBlue : a \in Addr /\ a < gc_sweep_hp
  BY <1>1, <1>3 DEF RootsInv, NonBlue
<1>5. Kept' = NonBlue /\ Kept = NonBlue
  <2>1. \A a \in NonBlue : ~ (a >= gc_sweep_hp)
    BY <1>4 DEF TypeOK, Addr
  <2> QED
    BY <1>1, <1>3, <2>1 DEF Kept, Doomed
<1>6. ControlInv' /\ HeapInv' /\ RootsInv' /\ SweepInv'
  BY <1>1, <1>3 DEF ControlInv, HeapInv, RootsInv, SweepInv
<1>7. GrayInv'
  BY <1>1 DEF GrayInv, GraySet
<1>8. KeptInv' /\ WeakInv'
  BY <1>1, <1>3, <1>5 DEF KeptInv, Closed, Roots, WeakInv
<1>9. MarkInv'
  <2>1. \A a \in Addr : color[a] # "Black"
    BY <1>1, <1>4 DEF SweepInv, NonBlue
  <2>2. Roots \subseteq Addr /\ \A a \in Roots : color[a] = "Gray"
    BY <1>1 DEF RootsInv, KeptInv, Kept, NonBlue
  <2>3. Roots' \subseteq Protected'
    BY <1>1, <2>2 DEF Protected, MarkClosed, Roots
  <2> QED
    BY <1>1, <2>1, <2>3 DEF MarkInv
<1> QED
  BY <1>2, <1>6, <1>7, <1>8, <1>9

LEMMA CollectorStep == IInv /\ Collector => IInv'
BY MarkPopStep, MarkChildStep, MarkedBlockStep, WalkStep, MarkDoneStep,
   WeakPhaseStep, SweepBlockStep, SweepDoneStep, DarkenRootStep, StartCycleStep
DEF Collector

-----------------------------------------------------------------------------

LEMMA StutterStep == IInv /\ UNCHANGED vars => IInv'
<1> SUFFICES ASSUME IInv, UNCHANGED vars PROVE IInv'
  OBVIOUS
<1> USE DEF IInv, vars, heapVars, grayVars, cycleVars, callVars
<1>1. TypeOK' /\ ControlInv' /\ HeapInv' /\ SweepInv' /\ RootsInv'
  BY DEF TypeOK, ControlInv, HeapInv, NonBlue, SweepInv, RootsInv, Roots
<1>2. GrayInv'
  BY DEF GrayInv, GraySet
<1>3. Kept' = Kept /\ NonBlue' = NonBlue /\ Protected' = Protected
  BY DEF Kept, NonBlue, Doomed, Protected, MarkClosed
<1>4. KeptInv' /\ MarkInv' /\ WeakInv'
  BY <1>3 DEF KeptInv, Closed, Roots, MarkInv, WeakInv
<1> QED
  BY <1>1, <1>2, <1>4

LEMMA NextStep == IInv /\ [Next]_vars => IInv'
BY ProgramStep, CollectorStep, StutterStep DEF Next

(* The invariant holds of every run, on any heap.                          *)
THEOREM Invariance == Spec => []IInv
BY InitInv, NextStep, PTL DEF Spec

(* Every variable keeps its type.                                          *)
THEOREM TypeCorrect == Spec => []TypeOK
<1>1. IInv => TypeOK
  BY DEF IInv
<1> QED
  BY <1>1, Invariance, PTL

(* A block the program can reach is never on the free list: the collector  *)
(* frees nothing in use, whatever the heap, wherever new chunks come to    *)
(* lie and however often gray_vals overflows.                              *)
THEOREM ReachIsKept == IInv => Reach \subseteq Kept
<1> SUFFICES ASSUME IInv PROVE Reach \subseteq Kept
  OBVIOUS
<1>1. Kept \in SUBSET Addr /\ Roots \subseteq Kept /\ Closed(Kept)
  BY DEF IInv, KeptInv, Kept, NonBlue
<1> QED
  BY <1>1 DEF Reach

THEOREM NoDanglingTheorem == Spec => []NoDangling
<1>1. IInv => NoDangling
  BY ReachIsKept DEF NoDangling, Kept, NonBlue
<1> QED
  BY <1>1, Invariance, PTL

(* The assertions the collector makes of its mark stack and of colours     *)
(* hold.                                                                   *)
THEOREM AssertsTheorem == Spec => []CollectorAsserts
<1>1. IInv => CollectorAsserts
  <2> SUFFICES ASSUME IInv PROVE CollectorAsserts
    OBVIOUS
  <2>1. ASSUME gray_vals # << >>
        PROVE  color[gray_vals[Len(gray_vals)]] = "Gray"
    <3>1. Len(gray_vals) \in 1 .. Len(gray_vals)
      BY <2>1 DEF IInv, TypeOK
    <3> QED
      BY <3>1 DEF IInv, GrayInv
  <2>2. ASSUME InLoop("Phase_sweep")
        PROVE  gray_vals = << >> /\ \A h \in heap : color[h] # "Gray"
    BY <2>2 DEF IInv, InLoop, SweepInv, TypeOK
  <2>3. ASSUME InLoop("Phase_sweep"), AtEnd(gc_sweep_hp)
        PROVE  color[Global] = "White"
    <3>1. Global \in NonBlue /\ Global \in heap
      BY DEF IInv, KeptInv, Kept, Roots, HeapInv
    <3>2. color[Global] \notin {"Black", "Gray", "Blue"}
      BY <2>3, <3>1 DEF IInv, InLoop, SweepInv, AtEnd, NonBlue
    <3> QED
      BY <3>1, <3>2 DEF IInv, TypeOK, Colors, NonBlue
  <2> QED
    BY <2>1, <2>2, <2>3 DEF CollectorAsserts
<1> QED
  BY <1>1, Invariance, PTL

-----------------------------------------------------------------------------
(* What Weak.isdead reports, when no chunk is ever added below the first:  *)
(* the sweep then starts each cycle at the same address, and every block   *)
(* left white by the marking lies ahead of it.                             *)

LowestChunk == 1 \in HeapInit

LowInv ==
  /\ 1 \in heap
  /\ gc_phase = "Phase_weak" => gc_sweep_hp = 1

LEMMA LowInvariance == ASSUME LowestChunk PROVE Spec => []LowInv
<1>1. Init => LowInv
  BY DEF LowestChunk, Init, LowInv
<1>2. IInv /\ LowInv /\ [Next]_vars => LowInv'
  <2> SUFFICES ASSUME IInv, LowInv, [Next]_vars PROVE LowInv'
    OBVIOUS
  <2> USE DEF LowInv, heapVars, cycleVars, callVars, grayVars
  <2>1. ASSUME NEW h \in heap, IsNext(h, 0) PROVE h = 1
    BY <2>1 DEF IInv, TypeOK, Addr, IsNext
  <2>2. CASE Program
    BY <2>2
    DEF Program, AllocBlock, AllocWeak, AllocShr, Load, Drop, WeakSub, Modify,
        MinorCollection, GcMajor, GcFullMajor, Collect
  <2>3. CASE MarkDone
    BY <2>1, <2>3 DEF MarkDone
  <2>4. CASE weak_phase \/ StartCycle
    BY <2>4 DEF weak_phase, StartCycle
  <2>5. CASE MarkPop \/ MarkChild \/ MarkedBlock \/ MarkWalk \/ MarkRestart
    BY <2>5 DEF MarkPop, MarkChild, MarkedBlock, MarkWalk, MarkRestart
  <2>6. CASE SweepBlock \/ SweepDone \/ DarkenRoot
    BY <2>6 DEF SweepBlock, SweepDone, DarkenRoot, InLoop, IInv, ControlInv
  <2>7. CASE UNCHANGED vars
    BY <2>7 DEF vars
  <2> QED
    BY <2>2, <2>3, <2>4, <2>5, <2>6, <2>7 DEF Next, Collector
<1> QED
  BY <1>1, <1>2, Invariance, PTL DEF Spec

(* A value reported dead cannot be reached in any other way.               *)
THEOREM DeadTheorem == ASSUME LowestChunk PROVE Spec => []DeadIsUnreachable
<1>1. IInv /\ LowInv => DeadIsUnreachable
  <2> SUFFICES ASSUME IInv, LowInv, NEW v \in Reach, v # Nil, isdead(v) PROVE FALSE
    BY DEF DeadIsUnreachable
  <2>1. v \in Kept
    BY ReachIsKept
  <2>2. gc_phase = "Phase_weak" /\ color[v] = "White"
    BY DEF isdead
  <2> QED
    BY <2>1, <2>2 DEF LowInv, Kept, NonBlue, Doomed, Addr
<1> QED
  BY <1>1, Invariance, LowInvariance, PTL

(* A weak pointer that was reported dead is never reported live again,     *)
(* until the program stores into it.                                       *)
THEOREM DeadStaysDeadTheorem == ASSUME LowestChunk PROVE Spec => DeadStaysDead
<1> DEFINE D == \A w \in Addr, f \in Fields :
                  /\ tag[w] = "Weak" /\ isdead(field[w][f]) /\ w \in Reach
                  /\ ~ \E v \in Addr \cup {Nil} : Modify(w, f, v)
                  => isdead(field[w][f])'
<1>1. IInv /\ LowInv /\ [Next]_vars => [D]_vars
  <2> SUFFICES ASSUME IInv, LowInv, Next,
                      NEW w \in Addr, NEW f \in Fields,
                      tag[w] = "Weak", isdead(field[w][f]), w \in Reach,
                      ~ \E v \in Addr \cup {Nil} : Modify(w, f, v)
               PROVE  isdead(field[w][f])'
    BY DEF Reach
  <2> USE DEF heapVars, cycleVars, callVars, grayVars
  <2>1. /\ w \in Kept /\ w \in Addr /\ color[w] # "Blue"
        /\ field[w][f] \in Addr \cup {Nil}
    BY ReachIsKept DEF Kept, NonBlue, IInv, TypeOK
  <2>2. CASE field[w][f] = Nil
    <3>1. field'[w][f] = Nil
      <4>1. ASSUME NEW a \in Addr, AllocBlock(a) \/ AllocWeak(a) PROVE field'[w][f] = Nil
        BY <2>1, <2>2, <4>1 DEF AllocBlock, AllocWeak, AllocShr, IInv, TypeOK
      <4>2. ASSUME NEW a \in Addr, NEW g \in Fields, NEW v \in Addr \cup {Nil},
                   Modify(a, g, v)
            PROVE  field'[w][f] = Nil
        BY <2>1, <2>2, <4>2 DEF Modify, IInv, TypeOK
      <4>3. CASE weak_phase
        BY <2>1, <2>2, <4>3 DEF weak_phase
      <4>4. CASE SweepBlock
        <5>1. PICK h \in heap : \/ field' = [field EXCEPT ![h] = [g \in Fields |-> Nil]]
                                \/ field' = field
          BY <4>4 DEF SweepBlock
        <5> QED
          BY <2>1, <2>2, <5>1 DEF IInv, TypeOK
      <4>5. CASE MarkPop \/ MarkChild \/ MarkedBlock \/ MarkWalk \/ MarkRestart
                 \/ MarkDone \/ SweepDone \/ DarkenRoot \/ StartCycle
        BY <2>2, <4>5 DEF MarkPop, MarkChild, MarkedBlock, MarkWalk, MarkRestart,
                          MarkDone, SweepDone, DarkenRoot, StartCycle
      <4>6. ASSUME NEW a \in Addr, NEW g \in Fields,
                   Drop(a) \/ Load(a, g) \/ WeakSub(a, g)
                   \/ MinorCollection \/ GcMajor \/ GcFullMajor
            PROVE  field'[w][f] = Nil
        BY <2>2, <4>6 DEF Drop, Load, WeakSub, MinorCollection, GcMajor,
                          GcFullMajor, Collect
      <4> QED
        BY <2>1, <4>1, <4>2, <4>3, <4>4, <4>5, <4>6 DEF Next, Program, Collector
    <3> QED
      BY <3>1 DEF isdead
  <2>3. CASE field[w][f] # Nil
    <3> DEFINE x == field[w][f]
    <3>1. gc_phase = "Phase_weak" /\ color[x] = "White" /\ x \in Addr /\ gc_sweep_hp = 1
      BY <2>1, <2>3 DEF isdead, LowInv
    <3>2. x \notin Kept
      BY <3>1 DEF Kept, Doomed, Addr
    <3>3. w \in weak_arrays
      BY <2>1, <2>3, <3>2 DEF IInv, WeakInv
    <3> HIDE DEF x
    <3>4. pc = "loop"
      BY <3>1 DEF IInv, ControlInv, TypeOK
    <3>5. ASSUME gc_phase' = gc_phase, field'[w][f] = x, color'[x] = color[x]
          PROVE  isdead(field[w][f])'
      BY <3>1, <3>5 DEF isdead
    <3>6. ASSUME NEW a \in Addr, AllocBlock(a) \/ AllocWeak(a) PROVE isdead(field[w][f])'
      BY <2>1, <3>1, <3>5, <3>6 DEF AllocBlock, AllocWeak, AllocShr, IInv, TypeOK, x
    <3>7. ASSUME NEW a \in Addr, NEW g \in Fields, NEW v \in Addr \cup {Nil},
                 Modify(a, g, v)
          PROVE  isdead(field[w][f])'
      BY <2>1, <3>1, <3>5, <3>7 DEF Modify, IInv, TypeOK, x
    <3>8. ASSUME NEW a \in Addr, NEW g \in Fields,
                 Drop(a) \/ Load(a, g) \/ WeakSub(a, g)
                 \/ MinorCollection \/ GcMajor \/ GcFullMajor
          PROVE  isdead(field[w][f])'
      BY <3>1, <3>5, <3>8 DEF Drop, Load, WeakSub, MinorCollection, GcMajor,
                              GcFullMajor, Collect, x
    <3>9. CASE weak_phase
      <4>1. field'[w][f] = Nil
        BY <2>1, <2>3, <3>1, <3>3, <3>9 DEF weak_phase, Dying, x
      <4> QED
        BY <4>1 DEF isdead
    <3>10. CASE Collector /\ ~ weak_phase
      BY <3>1, <3>4, <3>10
      DEF Collector, MarkPop, MarkChild, MarkedBlock, MarkWalk, MarkRestart, MarkDone,
          SweepBlock, SweepDone, DarkenRoot, StartCycle, InLoop
    <3> QED
      BY <2>1, <3>6, <3>7, <3>8, <3>9, <3>10 DEF Next, Program
  <2> QED
    BY <2>2, <2>3
<1> QED
  BY <1>1, Invariance, LowInvariance, PTL DEF Spec, DeadStaysDead
-----------------------------------------------------------------------------
(***************************************************************************)
(* The collector implements the store (Store.tla) for every heap, and a    *)
(* full collection leaves no garbage.                                      *)
(***************************************************************************)


(* The arrays that weak_phase is going to look at have been marked, and    *)
(* are weak: weak_phase touches no traced field.                           *)
ArraysInv ==
  /\ \A a \in weak_arrays : color[a] = "Black" /\ tag[a] = "Weak"
  /\ gc_phase = "Phase_sweep" => weak_arrays = {}

(* The calls of the collector that gc_minor, gc_major and gc_full_major    *)
(* have still to make.                                                     *)
CallsInv ==
  calls \in {<< >>, <<"slice">>, <<"slice", "major">>, <<"major">>,
             <<"slice", "full1", "full2">>, <<"full1", "full2">>, <<"full2">>}

LEMMA Tails ==
  /\ Tail(<<"slice">>) = << >> /\ Tail(<<"slice", "major">>) = <<"major">>
  /\ Tail(<<"major">>) = << >> /\ Tail(<<"full1", "full2">>) = <<"full2">>
  /\ Tail(<<"slice", "full1", "full2">>) = <<"full1", "full2">>
  /\ Tail(<<"full2">>) = << >>
OBVIOUS

LEMMA Heads ==
  /\ Head(<<"slice">>) = "slice" /\ Head(<<"slice", "major">>) = "slice"
  /\ Head(<<"major">>) = "major" /\ Head(<<"full1", "full2">>) = "full1"
  /\ Head(<<"slice", "full1", "full2">>) = "slice" /\ Head(<<"full2">>) = "full2"
OBVIOUS

LEMMA Distinct ==
  /\ <<"full1", "full2">> # << >> /\ <<"full2">> # << >>
  /\ \A s \in {<< >>, <<"slice">>, <<"slice", "major">>, <<"major">>,
               <<"slice", "full1", "full2">>, <<"full2">>} : s # <<"full1", "full2">>
  /\ \A s \in {<< >>, <<"slice">>, <<"slice", "major">>, <<"major">>,
               <<"slice", "full1", "full2">>, <<"full1", "full2">>} : s # <<"full2">>
OBVIOUS

(* What a step of the collector and of the program does to the calls that  *)
(* are left: it takes one off the front, or the program makes new ones.    *)
LEMMA CallsStep == IInv /\ CallsInv /\ [Next]_vars => CallsInv'
<1> SUFFICES ASSUME IInv, CallsInv, [Next]_vars PROVE CallsInv'
  OBVIOUS
<1> USE DEF CallsInv
<1>1. CASE UNCHANGED calls
  BY <1>1
<1>2. CASE calls # << >> /\ calls' = Tail(calls)
  BY <1>2, Tails
<1>3. CASE MinorCollection \/ GcMajor \/ GcFullMajor
  BY <1>3 DEF MinorCollection, GcMajor, GcFullMajor, Collect
<1>4. \/ UNCHANGED calls
      \/ calls # << >> /\ calls' = Tail(calls)
      \/ MinorCollection \/ GcMajor \/ GcFullMajor
  <2>1. CASE Program
    BY <2>1
    DEF Program, AllocBlock, AllocWeak, AllocShr, Load, Drop, WeakSub, Modify, callVars
  <2>2. CASE Collector
    BY <2>2
    DEF Collector, MarkPop, MarkChild, MarkedBlock, MarkWalk, MarkRestart, MarkDone,
        weak_phase, SweepBlock, SweepDone, DarkenRoot, StartCycle, Worked, EndPhase,
        InLoop, callVars
  <2>3. CASE UNCHANGED vars
    BY <2>3 DEF vars, callVars
  <2> QED
    BY <2>1, <2>2, <2>3 DEF Next
<1> QED
  BY <1>1, <1>2, <1>3, <1>4

(* darken in the steps of the collector: a white block becomes gray.       *)
LEMMA Darkens ==
  ASSUME TypeOK, NEW v \in Addr \cup {Nil}, Darken(v)
  PROVE  \A a \in Addr : \/ color'[a] = color[a]
                         \/ a = v /\ color[a] = "White" /\ color'[a] = "Gray"
BY DEF Darken, TypeOK, grayVars

LEMMA ArraysStep == IInv /\ ArraysInv /\ [Next]_vars => ArraysInv'
<1> SUFFICES ASSUME IInv, ArraysInv, [Next]_vars PROVE ArraysInv'
  OBVIOUS
<1> USE DEF IInv, ArraysInv
<1>0. TypeOK /\ weak_arrays \subseteq Addr
  BY DEF HeapInv
<1>1. ASSUME UNCHANGED <<tag, weak_arrays, gc_phase>>,
             \A a \in Addr : color[a] = "Black" => color'[a] = "Black"
      PROVE  ArraysInv'
  BY <1>0, <1>1
<1>2. ASSUME NEW a \in Addr, AllocBlock(a) \/ AllocWeak(a) PROVE ArraysInv'
  BY <1>0, <1>2 DEF AllocBlock, AllocWeak, AllocShr, TypeOK, cycleVars
<1>3. ASSUME NEW a \in Addr, NEW f \in Fields, NEW v \in Addr \cup {Nil},
             Modify(a, f, v) \/ WeakSub(a, f)
      PROVE  ArraysInv'
  <2>1. field[a][f] \in Addr \cup {Nil}
    BY DEF TypeOK
  <2>2. Darken(field[a][f]) \/ UNCHANGED color
    BY <1>3 DEF Modify, WeakSub
  <2>3. \A b \in Addr : color[b] = "Black" => color'[b] = "Black"
    BY <1>0, <2>1, <2>2, Darkens
  <2> QED
    BY <1>1, <1>3, <2>3 DEF Modify, WeakSub, cycleVars
<1>4. ASSUME \/ \E a \in Addr, f \in Fields : Load(a, f)
             \/ \E a \in Addr : Drop(a)
             \/ MinorCollection \/ GcMajor \/ GcFullMajor
             \/ MarkedBlock \/ MarkWalk \/ MarkRestart \/ SweepDone
      PROVE  ArraysInv'
  BY <1>1, <1>4
  DEF Load, Drop, MinorCollection, GcMajor, GcFullMajor, Collect, MarkedBlock, MarkWalk,
      MarkRestart, SweepDone, cycleVars, heapVars
<1>5. CASE MarkPop
  <2>1. gray_vals[Len(gray_vals)] \in Addr
    BY <1>0, <1>5 DEF MarkPop, TypeOK
  <2> QED
    BY <1>0, <1>5, <2>1 DEF MarkPop, InLoop, heapVars, TypeOK
<1>6. CASE MarkChild
  <2>1. cur \in Addr /\ idx \in Fields
    BY <1>0, <1>6 DEF MarkChild, TypeOK, Fields
  <2>2. field[cur][idx] \in Addr \cup {Nil}
    BY <1>0, <2>1 DEF TypeOK
  <2> QED
    BY <1>0, <1>1, <1>6, <2>2, Darkens DEF MarkChild, heapVars, cycleVars
<1>7. CASE MarkDone \/ weak_phase \/ StartCycle
  BY <1>0, <1>7 DEF MarkDone, weak_phase, StartCycle, heapVars
<1>8. CASE SweepBlock
  BY <1>0, <1>8 DEF SweepBlock, InLoop
<1>9. CASE DarkenRoot
  <2>1. PICK v \in roots : Darken(v)
    BY <1>9 DEF DarkenRoot
  <2>2. v \in Addr \cup {Nil}
    BY <1>0 DEF TypeOK
  <2> QED
    BY <1>0, <1>1, <1>9, <2>1, <2>2, Darkens DEF DarkenRoot, heapVars, cycleVars
<1>10. CASE UNCHANGED vars
  BY <1>1, <1>10 DEF vars, heapVars, cycleVars
<1>11. CASE Program
  BY <1>2, <1>3, <1>4, <1>11 DEF Program
<1>12. CASE Collector
  BY <1>4, <1>5, <1>6, <1>7, <1>8, <1>9, <1>12 DEF Collector
<1> QED
  BY <1>10, <1>11, <1>12 DEF Next

(* The two hold in every run.                                              *)
LEMMA StoreInvariance == Spec => [](CallsInv /\ ArraysInv)
<1>1. Init => CallsInv /\ ArraysInv
  BY DEF Init, CallsInv, ArraysInv
<1>2. IInv /\ CallsInv /\ ArraysInv /\ [Next]_vars => (CallsInv /\ ArraysInv)'
  BY CallsStep, ArraysStep
<1> QED
  BY <1>1, <1>2, Invariance, PTL DEF Spec

-----------------------------------------------------------------------------
(* The refinement.                                                         *)

InStore == {a \in Addr : color[a] # "Blue"}

LEMMA StartRefines == Init => Abstract!Init
<1> SUFFICES ASSUME Init PROVE Abstract!Init
  OBVIOUS
<1>1. InStore = {Global}
  BY DEF Init, InStore
<1> QED
  BY <1>1 DEF Init, InStore, Abstract!Init, Abstract!Empty

(* A step after which the same blocks are in use, with the same contents.  *)
LEMMA Stutters ==
  ASSUME UNCHANGED <<tag, field, held>>,
         \A a \in Addr : color'[a] = "Blue" <=> color[a] = "Blue"
  PROVE  UNCHANGED Abstract!vars
BY DEF Abstract!vars

(* What the store calls reachable is what the collector keeps: the blocks  *)
(* reached through traced fields, and between marking and the next cycle   *)
(* those reached through weak cells also.                                  *)
LEMMA StrongIsReach == Abstract!Strong = Reach
BY DEF Abstract!Strong, Abstract!Via, Abstract!Points, Abstract!Roots, Reach, Closed, Roots

LEMMA ReadableIsKept ==
  ASSUME IInv, gc_phase = "Phase_sweep"
  PROVE  Abstract!Readable \subseteq Kept
<1>1. Kept \in SUBSET Addr /\ Roots \subseteq Kept /\ Closed(Kept)
  BY DEF IInv, KeptInv, Kept, NonBlue
<1>2. \A w \in Kept : tag[w] = "Weak" => \A f \in Fields : field[w][f] \in Kept \cup {Nil}
  BY DEF IInv, WeakInv
<1>3. Abstract!Points(Kept, {"Scan", "Weak"})
  BY <1>1, <1>2 DEF Abstract!Points, Closed
<1> QED
  BY <1>1, <1>3 DEF Abstract!Readable, Abstract!Via, Abstract!Roots, Roots

LEMMA AllocRefines ==
  ASSUME IInv, NEW a \in Addr, AllocBlock(a) \/ AllocWeak(a)
  PROVE  Abstract!Next
<1> USE DEF IInv, TypeOK
<1>1. \A t : \A init : AllocShr(a, t, init) => InStore' = InStore \cup {a} /\ a \notin InStore
  BY DEF AllocShr, AllocColor, InStore
<1>2. CASE AllocBlock(a)
  <2>1. PICK init \in [Fields -> Roots \cup {Nil}] : AllocShr(a, "Scan", init)
    BY <1>2 DEF AllocBlock
  <2>2. Abstract!New(a, "Scan")
    BY <1>1, <2>1 DEF Abstract!New, Abstract!Roots, Roots, AllocShr, InStore
  <2> QED
    BY <2>2 DEF Abstract!Next
<1>3. CASE AllocWeak(a)
  <2>1. AllocShr(a, "Weak", [f \in Fields |-> Nil])
    BY <1>3 DEF AllocWeak
  <2>2. /\ [f \in Fields |-> Nil] \in [Fields -> Roots \cup {Nil}]
        /\ [f \in Fields |-> Nil] = Abstract!Empty
    BY DEF Abstract!Empty
  <2>3. Abstract!New(a, "Weak")
    BY <1>1, <2>1, <2>2 DEF Abstract!New, Abstract!Roots, Roots, AllocShr, InStore
  <2> QED
    BY <2>3 DEF Abstract!Next
<1> QED
  BY <1>2, <1>3

LEMMA ModifyRefines ==
  ASSUME IInv, NEW a \in Addr, NEW f \in Fields, NEW v \in Addr \cup {Nil}, Modify(a, f, v)
  PROVE  Abstract!Next
<1>1. TypeOK /\ field[a][f] \in Addr \cup {Nil}
  BY DEF IInv, TypeOK
<1>2. Darken(field[a][f]) \/ UNCHANGED color
  BY DEF Modify
<1>3. InStore' = InStore
  BY <1>1, <1>2, Darkens DEF InStore
<1>4. Abstract!Write(a, f, v)
  BY <1>3 DEF Modify, Abstract!Write, Abstract!Roots, Roots, InStore
<1> QED
  BY <1>4 DEF Abstract!Next

LEMMA ReadRefines ==
  ASSUME IInv, NEW a \in Addr, NEW f \in Fields, Load(a, f) \/ WeakSub(a, f)
  PROVE  Abstract!Next
<1>1. TypeOK /\ field[a][f] \in Addr \cup {Nil}
  BY DEF IInv, TypeOK
<1>2. Darken(field[a][f]) \/ UNCHANGED color
  BY DEF Load, WeakSub
<1>3. InStore' = InStore
  BY <1>1, <1>2, Darkens DEF InStore
<1>4. Abstract!Read(a, f)
  BY <1>3 DEF Load, WeakSub, isdead, Abstract!Read, Abstract!Roots, Roots, InStore
<1> QED
  BY <1>4 DEF Abstract!Next

(* Weak.isweak and weak_phase agree with the store on what is dead, if the *)
(* sweep is going to start from the lowest block.                          *)
LEMMA WeakPhaseRefines ==
  ASSUME IInv, ArraysInv, LowInv, weak_phase
  PROVE  Abstract!Next
<1>1. /\ TypeOK /\ gc_phase = "Phase_weak" /\ gc_sweep_hp = 1
      /\ UNCHANGED <<tag, held, color>>
      /\ field' = [a \in Addr |-> [f \in Fields |->
                    IF a \in weak_arrays /\ Dying(field[a][f]) THEN Nil ELSE field[a][f]]]
  BY DEF weak_phase, InLoop, IInv, LowInv
<1>2. field' \in [Addr -> [Fields -> Addr \cup {Nil}]]
  BY <1>1 DEF TypeOK
<1>3. ASSUME NEW a \in Addr, NEW f \in Fields, field'[a][f] # field[a][f]
      PROVE  tag[a] = "Weak" /\ field[a][f] \notin Abstract!Strong /\ field'[a][f] = Nil
  <2>1. a \in weak_arrays /\ Dying(field[a][f]) /\ field'[a][f] = Nil
    BY <1>1, <1>3 DEF TypeOK
  <2>2. field[a][f] \notin Kept
    BY <1>1, <2>1 DEF Dying, Kept, Doomed, NonBlue, Addr
  <2> QED
    BY <2>1, <2>2, StrongIsReach, ReachIsKept DEF ArraysInv
<1>4. Abstract!ClearWeak
  BY <1>1, <1>2, <1>3 DEF Abstract!ClearWeak
<1> QED
  BY <1>4 DEF Abstract!Next

LEMMA SweepRefines ==
  ASSUME IInv, SweepBlock
  PROVE  Abstract!Next \/ UNCHANGED Abstract!vars
<1>1. TypeOK /\ gc_phase = "Phase_sweep" /\ UNCHANGED held
  BY DEF IInv, SweepBlock, InLoop
<1>2. PICK h \in heap :
        /\ IsNext(h, gc_sweep_hp)
        /\ color' = [color EXCEPT ![h] = SweptColor(color[h])]
        /\ IF color[h] = "White"
             THEN /\ tag' = [tag EXCEPT ![h] = "Scan"]
                  /\ field' = [field EXCEPT ![h] = [f \in Fields |-> Nil]]
             ELSE UNCHANGED <<tag, field>>
  BY DEF SweepBlock
<1>3. h \in Addr
  BY <1>1 DEF TypeOK
<1>4. CASE color[h] = "White"
  <2>1. InStore' = InStore \ {h} /\ h \in InStore
    BY <1>1, <1>2, <1>3, <1>4 DEF InStore, SweptColor, TypeOK
  <2>2. h \notin Kept
    BY <1>1, <1>2, <1>4 DEF Kept, Doomed, IsNext
  <2>3. Abstract!Free(h)
    BY <1>1, <1>2, <1>3, <1>4, <2>1, <2>2, ReadableIsKept
    DEF Abstract!Free, Abstract!Empty, InStore
  <2> QED
    BY <1>3, <2>3 DEF Abstract!Next
<1>5. CASE color[h] # "White"
  <2>1. \A a \in Addr : color'[a] = "Blue" <=> color[a] = "Blue"
    BY <1>1, <1>2, <1>3, <1>5 DEF SweptColor, TypeOK, Colors
  <2> QED
    BY <1>1, <1>2, <1>5, <2>1, Stutters
<1> QED
  BY <1>4, <1>5

(* The rest of what the collector does cannot be seen in the store.        *)
LEMMA CollectorStutters ==
  ASSUME IInv, Collector, ~ weak_phase, ~ SweepBlock
  PROVE  UNCHANGED Abstract!vars
<1>0. TypeOK
  BY DEF IInv
<1>1. ASSUME UNCHANGED <<tag, field, held>>, NEW v \in Addr \cup {Nil}, Darken(v)
      PROVE  UNCHANGED Abstract!vars
  BY <1>0, <1>1, Darkens, Stutters
<1>2. CASE MarkPop
  <2>1. LET v == gray_vals[Len(gray_vals)]
        IN v \in Addr /\ color[v] = "Gray" /\ color' = [color EXCEPT ![v] = "Black"]
    BY <1>0, <1>2 DEF MarkPop, TypeOK, IInv, GrayInv
  <2>2. \A a \in Addr : color'[a] = "Blue" <=> color[a] = "Blue"
    BY <1>0, <2>1 DEF TypeOK
  <2> QED
    BY <1>2, <2>2, Stutters DEF MarkPop, heapVars
<1>3. CASE MarkChild
  <2>1. cur \in Addr /\ idx \in Fields
    BY <1>0, <1>3 DEF MarkChild, TypeOK, Fields
  <2>2. field[cur][idx] \in Addr \cup {Nil}
    BY <1>0, <2>1 DEF TypeOK
  <2> QED
    BY <1>1, <1>3, <2>2 DEF MarkChild, heapVars
<1>4. CASE DarkenRoot
  BY <1>0, <1>1, <1>4 DEF DarkenRoot, heapVars, TypeOK
<1>5. CASE MarkedBlock \/ MarkWalk \/ MarkRestart \/ MarkDone \/ SweepDone \/ StartCycle
  BY <1>5, Stutters
  DEF MarkedBlock, MarkWalk, MarkRestart, MarkDone, SweepDone, StartCycle, heapVars
<1> QED
  BY <1>2, <1>3, <1>4, <1>5 DEF Collector

LEMMA StepRefines ==
  ASSUME IInv, ArraysInv, LowInv, [Next]_vars
  PROVE  Abstract!Next \/ UNCHANGED Abstract!vars
<1>1. CASE Collector
  BY <1>1, WeakPhaseRefines, SweepRefines, CollectorStutters
<1>2. CASE Program
  <2>1. ASSUME NEW a \in Addr, Drop(a) PROVE Abstract!Next
    <3>1. Abstract!Drop(a)
      BY <2>1 DEF Drop, Abstract!Drop
    <3> QED
      BY <3>1 DEF Abstract!Next
  <2>2. ASSUME MinorCollection \/ GcMajor \/ GcFullMajor PROVE UNCHANGED Abstract!vars
    BY <2>2, Stutters DEF MinorCollection, GcMajor, GcFullMajor, Collect, heapVars
  <2> QED
    BY <1>2, <2>1, <2>2, AllocRefines, ReadRefines, ModifyRefines DEF Program
<1>3. CASE UNCHANGED vars
  BY <1>3, Stutters DEF vars, heapVars
<1> QED
  BY <1>1, <1>2, <1>3 DEF Next

(* The collector implements the store, if the lowest chunk belongs to the  *)
(* heap from the start: blocks appear and are written as the program asks, *)
(* a block vanishes only when nothing reaches it, a weak pointer is        *)
(* cleared only when nothing else reaches its target, and before that      *)
(* vanishes.                                                               *)
THEOREM ImplementsStoreTheorem == ASSUME LowestChunk PROVE Spec => ImplementsStore
<1>1. IInv /\ ArraysInv /\ LowInv /\ [Next]_vars => [Abstract!Next]_(Abstract!vars)
  BY StepRefines
<1> QED
  BY <1>1, StartRefines, Invariance, LowInvariance, StoreInvariance, PTL
  DEF Spec, ImplementsStore, Abstract!Spec

-----------------------------------------------------------------------------
(* gc_full_major.  Its first cycle ends with every block in use white and  *)
(* the roots gray; the program stands still, so that the second one marks  *)
(* what is in reach and no more.                                           *)

Marked(a) == color[a] \in {"Gray", "Black"}

FullInv ==
  /\ pc = "roots" => roots \subseteq Roots
  /\ calls = <<"full1", "full2">> /\ pc = "roots" =>
       \A a \in Addr : Marked(a) => a \in Reach
  /\ calls = <<"full2">> =>
       \A a \in Addr : \/ Marked(a)
                       \/ gc_phase # "Phase_mark" /\ color[a] # "Blue" /\ a < gc_sweep_hp
                       => a \in Reach

LEMMA ReachClosed ==
  ASSUME TypeOK, Roots \subseteq Addr
  PROVE  /\ Roots \subseteq Reach /\ Reach \subseteq Addr
         /\ \A a \in Reach : tag[a] = "Scan" =>
              \A f \in Fields : field[a][f] \in Reach \cup {Nil}
<1>1. Roots \subseteq Reach /\ Reach \subseteq Addr
  BY DEF Reach
<1>2. ASSUME NEW a \in Reach, tag[a] = "Scan", NEW f \in Fields, field[a][f] # Nil
      PROVE  field[a][f] \in Reach
  <2>1. field[a][f] \in Addr
    BY <1>1, <1>2 DEF TypeOK
  <2>2. \A S \in SUBSET Addr : Roots \subseteq S /\ Closed(S) => field[a][f] \in S
    BY <1>2 DEF Reach, Closed
  <2> QED
    BY <2>1, <2>2 DEF Reach
<1> QED
  BY <1>1, <1>2

(* While the program stands still, what is in reach does not change: the   *)
(* collector writes to weak arrays and to blocks that are out of reach.    *)
LEMMA ReachStays ==
  ASSUME IInv, ArraysInv, Collector
  PROVE  Reach \subseteq Reach' /\ Roots' = Roots
<1> USE DEF IInv
<1>1. ASSUME UNCHANGED <<tag, field, held>> PROVE Reach' = Reach /\ Roots' = Roots
  BY <1>1 DEF Reach, Roots, Closed
<1>2. CASE weak_phase
  <2>1. /\ UNCHANGED <<tag, held>>
        /\ \A a \in Addr, f \in Fields : a \notin weak_arrays => field'[a][f] = field[a][f]
    BY <1>2 DEF weak_phase
  <2>2. \A a \in Addr : tag[a] = "Scan" => a \notin weak_arrays
    BY DEF ArraysInv
  <2>3. \A S \in SUBSET Addr : Closed(S)' => Closed(S)
    BY <2>1, <2>2 DEF Closed
  <2> QED
    BY <2>1, <2>3 DEF Reach, Roots
<1>3. CASE SweepBlock
  <2>1. gc_phase = "Phase_sweep" /\ UNCHANGED held
    BY <1>3 DEF SweepBlock, InLoop
  <2>2. PICK h \in heap :
          /\ IsNext(h, gc_sweep_hp)
          /\ IF color[h] = "White"
               THEN /\ tag' = [tag EXCEPT ![h] = "Scan"]
                    /\ field' = [field EXCEPT ![h] = [f \in Fields |-> Nil]]
               ELSE UNCHANGED <<tag, field>>
    BY <1>3 DEF SweepBlock
  <2>3. CASE color[h] # "White"
    BY <1>1, <2>1, <2>2, <2>3
  <2>4. CASE color[h] = "White"
    <3>1. h \notin Kept /\ Kept \in SUBSET Addr /\ Roots \subseteq Kept /\ Closed(Kept)
      BY <2>1, <2>2, <2>4 DEF Kept, NonBlue, Doomed, IsNext, KeptInv
    <3>2. \A a \in Addr : a # h => tag'[a] = tag[a] /\ field'[a] = field[a]
      BY <2>2, <2>4 DEF TypeOK
    <3>3. Roots' = Roots
      BY <2>1 DEF Roots
    <3>4. ASSUME NEW S \in SUBSET Addr, Roots \subseteq S, Closed(S)'
          PROVE  Reach \subseteq S
      <4>1. Closed(S \cap Kept)
        BY <3>1, <3>2, <3>4 DEF Closed
      <4>2. S \cap Kept \in SUBSET Addr /\ Roots \subseteq S \cap Kept
        BY <3>1, <3>4
      <4>3. Reach \subseteq S \cap Kept
        BY <4>1, <4>2 DEF Reach
      <4> QED
        BY <4>3
    <3>5. Reach \subseteq Addr
      BY DEF Reach
    <3> QED
      BY <3>3, <3>4, <3>5 DEF Reach
  <2> QED
    BY <2>3, <2>4
<1>4. CASE ~ weak_phase /\ ~ SweepBlock
  <2>1. UNCHANGED <<tag, field, held>>
    BY <1>4
    DEF Collector, MarkPop, MarkChild, MarkedBlock, MarkWalk, MarkRestart, MarkDone,
        SweepDone, DarkenRoot, StartCycle, heapVars
  <2> QED
    BY <1>1, <2>1
<1> QED
  BY <1>2, <1>3, <1>4

LEMMA ProgramKeepsFull == IInv /\ FullInv /\ (Program \/ UNCHANGED vars) => FullInv'
<1> SUFFICES ASSUME IInv, FullInv, Program \/ UNCHANGED vars PROVE FullInv'
  OBVIOUS
<1>1. CASE Program
  <2>1. /\ calls = << >> /\ pc = "loop" /\ UNCHANGED pc
        /\ calls' \in {<< >>, <<"slice">>, <<"slice", "major">>, <<"slice", "full1", "full2">>}
    BY <1>1
    DEF IInv, ControlInv, Program, AllocBlock, AllocWeak, AllocShr, Load, Drop, WeakSub,
        Modify, MinorCollection, GcMajor, GcFullMajor, Collect, Running, callVars
  <2> QED
    BY <2>1, Distinct DEF FullInv
<1>2. CASE UNCHANGED vars
  BY <1>2 DEF vars, heapVars, cycleVars, callVars, FullInv, Marked, Reach, Roots, Closed
<1> QED
  BY <1>1, <1>2

(* What a block in reach or a root points to may be darkened.              *)
LEMMA DarkenKeepsFull ==
  ASSUME IInv, ArraysInv, FullInv, Collector, UNCHANGED <<calls, gc_phase, gc_sweep_hp, pc>>,
         roots' \subseteq roots, NEW v \in Addr \cup {Nil}, Darken(v),
         \/ calls = <<"full2">>
         \/ calls = <<"full1", "full2">> /\ pc = "roots"
         => v \in Reach \cup {Nil}
  PROVE  FullInv'
<1>1. Reach \subseteq Reach' /\ Roots' = Roots
  BY ReachStays
<1>2. \A a \in Addr : \/ color'[a] = color[a]
                      \/ a = v /\ color[a] = "White" /\ color'[a] = "Gray"
  BY Darkens DEF IInv
<1>3. ASSUME \/ calls = <<"full2">>
             \/ calls = <<"full1", "full2">> /\ pc = "roots",
             NEW a \in Addr, Marked(a)'
      PROVE  Marked(a) \/ a \in Reach
  BY <1>2, <1>3 DEF Marked, Nil, Addr
<1>4. \A a \in Addr : color'[a] # "Blue" => color[a] # "Blue"
  BY <1>2
<1> QED
  BY <1>1, <1>3, <1>4, Distinct DEF FullInv

(* The slice before the two cycles may end anywhere.                       *)
LEMMA SliceOver ==
  ASSUME CallsInv, calls' = calls \/ (calls' = Tail(calls) /\ Head(calls) = "slice")
  PROVE  calls' = <<"full2">> => calls = <<"full2">>
<1>1. CASE calls' = calls
  BY <1>1
<1>2. CASE calls' = Tail(calls) /\ Head(calls) = "slice"
  <2>1. calls \in {<< >>, <<"slice">>, <<"slice", "major">>, <<"slice", "full1", "full2">>}
    BY <1>2, Heads DEF CallsInv
  <2>2. CASE calls = << >>
    <3>1. Tail(<< >>) # <<"full2">>
      OBVIOUS
    <3> QED
      BY <1>2, <2>2, <3>1
  <2> QED
    BY <1>2, <2>1, <2>2, Tails, Distinct
<1> QED
  BY <1>1, <1>2

LEMMA CollectorKeepsFull ==
  ASSUME IInv, ArraysInv, CallsInv, FullInv, Collector
  PROVE  FullInv'
<1> USE DEF IInv
<1>0. /\ TypeOK /\ Reach \subseteq Reach' /\ Roots' = Roots
      /\ Roots \subseteq Addr /\ Roots \subseteq Reach /\ Reach \subseteq Addr
  <2>1. Roots \subseteq Addr
    BY DEF KeptInv, Kept, NonBlue
  <2> QED
    BY <2>1, ReachStays, ReachClosed
<1>1. CASE MarkPop
  <2> DEFINE v == gray_vals[Len(gray_vals)]
  <2>1. v \in Addr /\ color[v] = "Gray" /\ color' = [color EXCEPT ![v] = "Black"]
    BY <1>0, <1>1 DEF MarkPop, TypeOK, GrayInv
  <2>2. pc' = "scan" /\ UNCHANGED <<calls, gc_phase>> /\ gc_phase = "Phase_mark"
    BY <1>1 DEF MarkPop, InLoop
  <2>3. \A a \in Addr : Marked(a)' => Marked(a)
    BY <1>0, <2>1 DEF Marked, TypeOK
  <2> QED
    BY <1>0, <2>2, <2>3 DEF FullInv
<1>2. CASE MarkChild
  <2>1. cur \in Addr /\ idx \in Fields /\ tag[cur] = "Scan" /\ color[cur] = "Black"
    BY <1>0, <1>2 DEF MarkChild, TypeOK, Fields, ControlInv
  <2>2. field[cur][idx] \in Addr \cup {Nil}
    BY <1>0, <2>1 DEF TypeOK
  <2>3. pc = "scan" /\ Darken(field[cur][idx])
        /\ UNCHANGED <<calls, gc_phase, gc_sweep_hp, pc, roots>>
    BY <1>2 DEF MarkChild, cycleVars
  <2>4. ASSUME calls = <<"full2">> PROVE field[cur][idx] \in Reach \cup {Nil}
    <3>1. cur \in Reach
      BY <2>1, <2>4 DEF FullInv, Marked
    <3> QED
      BY <1>0, <2>1, <3>1, ReachClosed
  <2> QED
    BY <2>2, <2>3, <2>4, DarkenKeepsFull
<1>3. CASE DarkenRoot
  <2>1. PICK v \in roots : Darken(v) /\ roots' = roots \ {v}
    BY <1>3 DEF DarkenRoot
  <2>2. pc = "roots" /\ UNCHANGED <<calls, gc_phase, gc_sweep_hp, pc>>
    BY <1>3 DEF DarkenRoot, cycleVars
  <2>3. v \in Addr /\ v \in Reach
    BY <1>0, <2>1, <2>2 DEF FullInv
  <2> QED
    BY <2>1, <2>2, <2>3, DarkenKeepsFull
<1>4. CASE MarkedBlock \/ MarkWalk \/ MarkRestart
  <2>1. /\ pc # "roots" /\ pc' # "roots" /\ gc_phase = "Phase_mark"
        /\ UNCHANGED <<color, gc_phase>>
        /\ calls' = calls \/ (calls' = Tail(calls) /\ Head(calls) = "slice")
    BY <1>4
    DEF MarkedBlock, MarkWalk, MarkRestart, Worked, ControlInv, InLoop, callVars, cycleVars
  <2>2. calls' = <<"full2">> => calls = <<"full2">>
    BY <2>1, SliceOver
  <2> QED
    BY <1>0, <2>1, <2>2 DEF FullInv, Marked
<1>5. CASE MarkDone
  <2>1. /\ pc = "loop" /\ pc' = "loop" /\ UNCHANGED color
        /\ calls' = calls \/ (calls' = Tail(calls) /\ Head(calls) = "slice")
        /\ \E h \in heap : IsNext(h, 0) /\ gc_sweep_hp' = h
    BY <1>5 DEF MarkDone, EndPhase, InLoop
  <2>2. calls' = <<"full2">> => calls = <<"full2">>
    BY <2>1, SliceOver
  <2>3. \A a \in Addr : color[a] # "Blue" => ~ (a < gc_sweep_hp')
    <3>1. PICK h \in heap : IsNext(h, 0) /\ gc_sweep_hp' = h
      BY <2>1
    <3>2. \A a \in Addr : color[a] # "Blue" => a \in heap /\ a >= 0
      BY DEF HeapInv, NonBlue, Addr
    <3>3. \A a \in Addr : color[a] # "Blue" => h <= a
      BY <3>1, <3>2 DEF IsNext
    <3>4. h \in Int /\ \A a \in Addr : a \in Int
      BY <1>0 DEF TypeOK, Addr
    <3> QED
      BY <3>1, <3>3, <3>4
  <2> QED
    BY <1>0, <2>1, <2>2, <2>3 DEF FullInv, Marked
<1>6. CASE weak_phase
  <2>1. /\ pc = "loop" /\ pc' = "loop" /\ UNCHANGED <<color, gc_sweep_hp>>
        /\ gc_phase # "Phase_mark"
        /\ calls' = calls \/ (calls' = Tail(calls) /\ Head(calls) = "slice")
    BY <1>6 DEF weak_phase, EndPhase, InLoop
  <2>2. calls' = <<"full2">> => calls = <<"full2">>
    BY <2>1, SliceOver
  <2> QED
    BY <1>0, <2>1, <2>2 DEF FullInv, Marked
<1>7. CASE SweepBlock
  <2>1. /\ pc = "loop" /\ pc' = "loop" /\ gc_phase = "Phase_sweep" /\ UNCHANGED gc_phase
        /\ calls' = calls \/ (calls' = Tail(calls) /\ Head(calls) = "slice")
    BY <1>7 DEF SweepBlock, Worked, InLoop
  <2>2. calls' = <<"full2">> => calls = <<"full2">>
    BY <2>1, SliceOver
  <2>3. PICK h \in heap :
          /\ IsNext(h, gc_sweep_hp) /\ gc_sweep_hp' = h + 1
          /\ color' = [color EXCEPT ![h] = SweptColor(color[h])]
    BY <1>7 DEF SweepBlock
  <2>4. /\ h \in Addr
        /\ \A a \in Addr : color'[a] = IF a = h THEN SweptColor(color[h]) ELSE color[a]
    BY <1>0, <2>3 DEF TypeOK
  <2>5. ASSUME NEW a \in Addr, color'[a] # "Blue", a < gc_sweep_hp'
        PROVE  a < gc_sweep_hp \/ Marked(a)
    <3>1. CASE a = h
      BY <1>0, <2>4, <2>5, <3>1 DEF SweptColor, Marked, TypeOK, Colors
    <3>2. CASE a # h
      <4>0. a \in heap
        BY <2>4, <2>5, <3>2 DEF HeapInv, NonBlue
      <4>1. a \in heap /\ a \in Int /\ h \in Int /\ gc_sweep_hp \in Int
        BY <1>0, <2>4, <4>0 DEF TypeOK, Addr
      <4>2. a >= gc_sweep_hp => h <= a
        BY <2>3, <4>1 DEF IsNext
      <4> QED
        BY <2>3, <2>5, <3>2, <4>1, <4>2
    <3> QED
      BY <3>1, <3>2
  <2>6. \A a \in Addr : /\ Marked(a)' => Marked(a)
                        /\ color'[a] # "Blue" => color[a] # "Blue"
    BY <2>4 DEF SweptColor, Marked
  <2> QED
    BY <1>0, <2>1, <2>2, <2>5, <2>6 DEF FullInv
<1>8. CASE SweepDone
  <2>1. /\ pc = "loop" /\ pc' = "roots" /\ gc_phase = "Phase_sweep" /\ roots' = Roots
        /\ AtEnd(gc_sweep_hp)
        /\ UNCHANGED <<color, gc_phase, gc_sweep_hp, calls>>
    BY <1>8 DEF SweepDone, InLoop, cycleVars
  <2>2. \A a \in Addr : ~ Marked(a)
    BY <1>0, <2>1 DEF SweepInv, AtEnd, HeapInv, NonBlue, Marked
  <2> QED
    BY <1>0, <2>1, <2>2 DEF FullInv, Marked
<1>9. CASE StartCycle
  <2>1. /\ pc = "roots" /\ pc' = "loop" /\ gc_phase' = "Phase_mark"
        /\ calls # << >> /\ calls' = Tail(calls) /\ UNCHANGED color
    BY <1>9 DEF StartCycle
  <2>2. calls' = <<"full2">> => calls = <<"full1", "full2">>
    BY <2>1, Tails, Distinct DEF CallsInv
  <2> QED
    BY <1>0, <2>1, <2>2 DEF FullInv, Marked
<1> QED
  BY <1>1, <1>2, <1>3, <1>4, <1>5, <1>6, <1>7, <1>8, <1>9 DEF Collector

LEMMA FullInvariance == Spec => []FullInv
<1>1. Init => FullInv
  BY Distinct DEF Init, FullInv
<1>2. IInv /\ ArraysInv /\ CallsInv /\ FullInv /\ [Next]_vars => FullInv'
  BY ProgramKeepsFull, CollectorKeepsFull DEF Next
<1> QED
  BY <1>1, <1>2, Invariance, StoreInvariance, PTL DEF Spec

(* When gc_full_major returns, every block in use is one the program can   *)
(* reach, whatever was under way when it was called and however often the  *)
(* mark stack overflowed.                                                  *)
THEOREM FullMajorTheorem == Spec => FullMajorReclaims
<1> DEFINE R == calls = <<"full2">> /\ calls' = << >> =>
                  \A a \in Addr : color'[a] # "Blue" => a \in Reach'
<1>1. IInv /\ ArraysInv /\ FullInv /\ [Next]_vars => [R]_vars
  <2> SUFFICES ASSUME IInv, ArraysInv, FullInv, Next, calls = <<"full2">>, calls' = << >>,
                      NEW a \in Addr, color'[a] # "Blue"
               PROVE  a \in Reach'
    OBVIOUS
  <2> USE DEF IInv
  <2>1. Collector
    BY Distinct
    DEF Next, Program, AllocBlock, AllocWeak, AllocShr, Load, Drop, WeakSub, Modify,
        MinorCollection, GcMajor, GcFullMajor, Collect, Running
  <2>2. StartCycle
    <3>1. calls' = calls => FALSE
      BY Distinct
    <3>2. Head(calls) # "slice"
      BY Heads
    <3> QED
      BY <2>1, <3>1, <3>2
      DEF Collector, MarkPop, MarkChild, MarkedBlock, MarkWalk, MarkRestart, MarkDone,
          weak_phase, SweepBlock, SweepDone, DarkenRoot, Worked, EndPhase, callVars
  <2>3. pc = "roots" /\ color[a] # "Blue"
    BY <2>2 DEF StartCycle
  <2>4. a < gc_sweep_hp /\ gc_phase # "Phase_mark"
    BY <2>3 DEF RootsInv, HeapInv, NonBlue, ControlInv
  <2>5. a \in Reach
    BY <2>3, <2>4 DEF FullInv
  <2> QED
    BY <2>1, <2>5, ReachStays
<1> QED
  BY <1>1, Invariance, StoreInvariance, FullInvariance, PTL DEF Spec, FullMajorReclaims

-----------------------------------------------------------------------------
(* The parsing engine (ParserGC.tla), whose program stores in its stack    *)
(* and in its environment, and once without Modify.                        *)

ParserOK == v_stack \in Fields /\ ~ BareAfterGrowth /\ StackSize \in Nat \ {0}

Commands == {"engine", "push", "READ_TOKEN", "GROW_STACKS_1", "GROW_STACKS_2", "COMPUTE_SEMANTIC_ACTION"}

EngineInv ==
  /\ command \in Commands /\ sp \in 0 .. NFields
  /\ command \in {"push", "GROW_STACKS_1", "GROW_STACKS_2", "COMPUTE_SEMANTIC_ACTION"} => sp \in Fields
  /\ stacksize \in Nat /\ stacksize >= StackSize
  /\ arg \in held \cup {Nil}
  /\ (\A a \in Addr : tag[a] = "Scan") /\ weak_arrays = {}
  /\ V \in Addr
  /\ env \notin held /\ \A a \in Addr, f \in Fields : field[a][f] # env

EnvMarked == gc_phase = "Phase_mark" => color[env] \in {"Gray", "Black"}

(* The first stack is known to the environment alone.                      *)
Unshared ==
  /\ V \notin held /\ V \notin roots
  /\ \A a \in Addr, f \in Fields : field[a][f] = V => a = env /\ f = v_stack

(* So marking comes to it through the environment.                         *)
EnvFirst ==
  /\ color[V] = "Gray" => color[env] = "Black"
  /\ gc_phase = "Phase_mark" /\ color[V] = "Black" => color[env] = "Black"

Dark == {a \in Addr : color[a] \in {"Gray", "Black"}}

OnStack == {field[V][n] : n \in Fields}

(* Until it has done so, a block that is marked holds nothing that is only *)
(* in the environment, but what its own scan is about to darken.  (Such a  *)
(* block can be a copy of the stack that growStacks did not put in place.) *)
Copies ==
  gc_phase = "Phase_mark" /\ color[env] # "Black" =>
    \A o \in Addr, f \in Fields : color[o] = "Black" =>
      \/ field[o][f] \in {Nil} \cup Dark \cup OnStack
      \/ pc = "scan" /\ o = cur /\ f <= idx

FirstStackInv == Unshared /\ EnvFirst /\ Copies

ParserInv ==
  /\ IInv /\ EngineInv /\ EnvMarked
  /\ stacksize = StackSize => FirstStackInv

(* What a living block holds is alive.                                     *)
LEMMA FieldAlive ==
  ASSUME IInv, Running, NEW o \in Alive, tag[o] = "Scan", NEW f \in Fields
  PROVE  field[o][f] \in Alive \cup {Nil}
<1> USE DEF IInv
<1>1. o \in Kept /\ o \in Addr /\ color[o] # "Blue" /\ color[o] \in Colors
  BY DEF Alive, Kept, NonBlue, TypeOK
<1> SUFFICES ASSUME field[o][f] # Nil PROVE field[o][f] \in Alive
  OBVIOUS
<1>2. field[o][f] \in Kept
  BY <1>1 DEF KeptInv, Closed
<1>3. ASSUME gc_phase = "Phase_mark" PROVE field[o][f] \in Protected
  <2>1. MarkClosed(Protected) /\ o \in Protected
    BY <1>3, ProtectedClosed DEF Alive
  <2>2. CASE color[o] = "Black"
    BY <1>1, <1>3, <2>2 DEF MarkInv
  <2>3. CASE color[o] \in {"White", "Gray"}
    BY <2>1, <2>3 DEF MarkClosed
  <2> QED
    BY <1>1, <2>2, <2>3 DEF Colors
<1> QED
  BY <1>2, <1>3 DEF Alive

LEMMA EngineAlive ==
  ASSUME ParserOK, IInv, EngineInv, Running
  PROVE  /\ env \in Alive /\ V \in Alive /\ held \subseteq Alive /\ arg \in Alive \cup {Nil}
         /\ lval \in Fields /\ v_stack \in Fields
         /\ \A f \in Fields : /\ field[env][f] \in Alive \cup {Nil}
                              /\ field[V][f] \in Alive \cup {Nil}
         /\ Alive \subseteq NonBlue /\ Alive \subseteq Addr /\ Nil \notin Addr
         /\ V # env
<1>1. Alive \subseteq NonBlue /\ Alive \subseteq Addr /\ Nil \notin Addr
  BY DEF Alive, Kept, NonBlue, Addr, Nil
<1>2. env \in Alive /\ held \subseteq Alive
  BY RootsAlive DEF Roots, env
<1>3. arg \in Alive \cup {Nil}
  BY <1>2 DEF EngineInv
<1>4. lval \in Fields /\ v_stack \in Fields
  BY DEF ParserOK, lval, v_stack, Fields
<1>5. \A o \in Alive : tag[o] = "Scan"
  BY <1>1 DEF EngineInv
<1>6. \A f \in Fields : field[env][f] \in Alive \cup {Nil}
  BY <1>2, <1>5, FieldAlive
<1>7. V \in Alive
  BY <1>1, <1>4, <1>6 DEF EngineInv, V
<1>8. \A f \in Fields : field[V][f] \in Alive \cup {Nil}
  BY <1>5, <1>7, FieldAlive
<1>9. V # env
  BY <1>1, <1>2, <1>4 DEF EngineInv, V
<1> QED
  BY <1>1, <1>2, <1>3, <1>4, <1>6, <1>7, <1>8, <1>9

(* Modify, by the engine or by the ML code around it.                      *)
LEMMA StoreKeeps ==
  ASSUME ParserOK, IInv, EngineInv, Running, NEW a \in {env, V}, NEW f \in Fields, NEW v \in Alive \cup {Nil},
         Store(a, f, v), held' \subseteq Alive
  PROVE  IInv'
<1>1. a \in Kept /\ env \in Alive /\ Alive \subseteq Addr
  BY EngineAlive DEF Alive
<1>2. Barrier(field[a][f]) /\ field' = [field EXCEPT ![a][f] = v] /\ UNCHANGED <<heap, tag, cycleVars, callVars>>
  BY DEF Store, Barrier
<1>3. held' \subseteq Addr /\ Roots' \subseteq Alive
  BY <1>1 DEF Roots, env
<1> QED
  BY <1>1, <1>2, <1>3, StoreStep

(* The plain assignment, which is harmless while there is only the first   *)
(* stack: what it takes from the environment is not needed to protect what *)
(* marked blocks hold.                                                     *)
LEMMA BareKeeps ==
  ASSUME ParserOK, IInv, EngineInv, EnvMarked, FirstStackInv, Running,
         field' = [field EXCEPT ![env][lval] = Nil], held' = {},
         UNCHANGED <<heap, tag, color, grayVars, cycleVars, callVars>>
  PROVE  IInv'
<1> USE DEF IInv, grayVars, cycleVars, callVars
<1>0. /\ env \in Addr /\ lval \in Fields /\ v_stack \in Fields /\ lval # v_stack
      /\ env \in Kept /\ V \in Kept /\ pc = "loop"
      /\ V \in Addr /\ V # env
  BY EngineAlive DEF Alive, lval, v_stack, Running, ControlInv, FirstStackInv, Unshared
<1>1. \A o \in Addr, f \in Fields : field'[o][f] = IF o = env /\ f = lval THEN Nil ELSE field[o][f]
  BY <1>0 DEF TypeOK
<1>2. TypeOK'
  BY <1>0 DEF TypeOK, Nil
<1>3. ControlInv' /\ HeapInv' /\ SweepInv'
  BY <1>0 DEF ControlInv, HeapInv, NonBlue, SweepInv
<1>4. Roots' = {env} /\ RootsInv'
  BY <1>0 DEF Roots, RootsInv, env
<1>5. GrayInv'
  BY DEF GrayInv, GraySet
<1>6. Kept' = Kept /\ NonBlue' = NonBlue
  BY DEF Kept, NonBlue, Doomed
<1>7. KeptInv'
  BY <1>0, <1>1, <1>4, <1>6 DEF KeptInv, Closed, Kept, NonBlue
<1>8. WeakInv'
  BY <1>6 DEF WeakInv, EngineInv, Kept, NonBlue
<1>9. MarkInv'
  <2> SUFFICES ASSUME gc_phase = "Phase_mark" PROVE MarkInv'
    BY DEF MarkInv
  <2>1. env \in Protected'
    BY <1>0 DEF EnvMarked, Protected, MarkClosed
  <2>2. CASE color[env] = "Black"
    <3>1. \A S \in SUBSET Addr : MarkClosed(S)' <=> MarkClosed(S)
      <4> TAKE S \in SUBSET Addr
      <4>1. \A o \in S : color[o] \in {"White", "Gray"} => \A f \in Fields : field'[o][f] = field[o][f]
        BY <1>1, <2>2
      <4> QED
        BY <1>0, <4>1 DEF MarkClosed
    <3>2. Protected' = Protected
      BY <3>1 DEF Protected
    <3> QED
      BY <1>1, <1>4, <2>1, <3>2 DEF MarkInv
  <2>3. CASE color[env] # "Black"
    <3>1. color[env] = "Gray" /\ color[V] \in {"White", "Gray"}
      BY <1>0, <2>3 DEF EnvMarked, FirstStackInv, EnvFirst, TypeOK, Colors, Kept, NonBlue
    <3>2. field'[env][v_stack] = V
      BY <1>0, <1>1 DEF V
    <3>3. ASSUME NEW S \in SUBSET Addr, MarkClosed(S)'
          PROVE  V \in S /\ OnStack \subseteq S \cup {Nil} /\ Dark \subseteq S
      <4>1. env \in S /\ Dark \subseteq S
        BY <1>0, <3>1, <3>3 DEF MarkClosed, Dark
      <4>2. \A o \in S : color[o] \in {"White", "Gray"} => \A f \in Fields : field'[o][f] \in S \cup {Nil}
        BY <3>3 DEF MarkClosed, EngineInv
      <4>3. V \in S
        BY <1>0, <3>1, <3>2, <4>1, <4>2 DEF Addr, Nil
      <4>4. \A n \in Fields : field[V][n] \in S \cup {Nil}
        BY <1>0, <1>1, <3>1, <4>2, <4>3
      <4> QED
        BY <4>1, <4>3, <4>4 DEF OnStack
    <3>4. OnStack \subseteq Addr \cup {Nil}
      BY <1>0 DEF OnStack, TypeOK
    <3>5. OnStack \subseteq Protected' \cup {Nil} /\ Dark \subseteq Protected'
      BY <3>3, <3>4 DEF Protected, Dark
    <3>6. ASSUME NEW o \in Addr, color[o] = "Black", NEW f \in Fields
          PROVE  field'[o][f] \in Protected' \cup {Nil}
      <4>1. field[o][f] \in {Nil} \cup Dark \cup OnStack
        BY <1>0, <2>3, <3>6 DEF FirstStackInv, Copies
      <4> QED
        BY <1>1, <3>5, <4>1
    <3> QED
      BY <1>4, <2>1, <3>6 DEF MarkInv
  <2> QED
    BY <2>2, <2>3
<1> QED
  BY <1>2, <1>3, <1>4, <1>5, <1>7, <1>8, <1>9

(* What a store leaves: one block at most is darkened, the one whose       *)
(* pointer is overwritten.                                                 *)
LEMMA StoreIs ==
  ASSUME ParserOK, IInv, EngineInv, EnvMarked, Running, NEW a \in {env, V}, NEW f \in Fields, NEW v, Store(a, f, v)
  PROVE  /\ \A o \in Addr, g \in Fields : field'[o][g] = IF o = a /\ g = f THEN v ELSE field[o][g]
         /\ \A b \in Addr : color'[b] = color[b] \/ (b = field[a][f] /\ color[b] = "White" /\ color'[b] = "Gray")
         /\ gc_phase = "Phase_mark" /\ field[a][f] # Nil => color'[field[a][f]] \in {"Gray", "Black"}
         /\ UNCHANGED <<heap, tag, gc_phase, weak_arrays, calls, pc, cur, idx, roots>>
         /\ EnvMarked'
<1> USE DEF IInv
<1>1. PICK x \in Addr \cup {Nil} : x = field[a][f] /\ (x # Nil => color[x] # "Blue")
  <2>1. field[a][f] \in Alive \cup {Nil} /\ Alive \subseteq NonBlue
    BY EngineAlive
  <2> QED
    BY <2>1 DEF NonBlue
<1>2. Barrier(x) /\ UNCHANGED <<heap, tag, cycleVars, callVars>>
  BY <1>1 DEF Store, Barrier
<1>3. /\ color' \in [Addr -> Colors]
      /\ \A b \in Addr : color'[b] = color[b] \/ (b = x /\ color[b] = "White" /\ color'[b] = "Gray")
      /\ gc_phase = "Phase_mark" /\ x # Nil => color'[x] # "White"
  <2>1. CASE gc_phase = "Phase_mark"
    <3>1. Darken(x) /\ markhp' = markhp
      BY <1>2, <2>1 DEF Barrier, cycleVars
    <3> QED
      BY <3>1, DarkenStep
  <2>2. CASE gc_phase # "Phase_mark"
    BY <1>2, <2>2 DEF Barrier, TypeOK
  <2> QED
    BY <2>1, <2>2
<1>4. gc_phase = "Phase_mark" /\ x # Nil => color'[x] \in {"Gray", "Black"}
  BY <1>1, <1>3 DEF Colors
<1>5. a \in Addr /\ env \in Addr
  BY EngineAlive
<1>6. \A o \in Addr, g \in Fields : field'[o][g] = IF o = a /\ g = f THEN v ELSE field[o][g]
  BY <1>5 DEF Store, TypeOK
<1>7. EnvMarked'
  BY <1>2, <1>3, <1>5 DEF EnvMarked, cycleVars, env
<1> QED
  BY <1>1, <1>2, <1>3, <1>4, <1>6, <1>7 DEF cycleVars, callVars

(* In the first stack, or elsewhere in the environment.                    *)
LEMMA StoreInFirst ==
  ASSUME ParserOK, IInv, EngineInv, EnvMarked, FirstStackInv, Running,
         NEW a \in {env, V}, NEW f \in Fields, a = env => f # v_stack,
         NEW v \in Addr \cup {Nil}, v # V, Store(a, f, v), V \notin held'
  PROVE  V' = V /\ FirstStackInv'
<1> USE DEF FirstStackInv, Unshared
<1>0. /\ env \in Addr /\ V \in Addr /\ V # env /\ lval \in Fields /\ v_stack \in Fields /\ pc = "loop"
      /\ a \in Addr
  BY EngineAlive DEF IInv, ControlInv, Running
<1>1. PICK x : x = field[a][f]
  OBVIOUS
<1>2. /\ \A o \in Addr, g \in Fields : field'[o][g] = IF o = a /\ g = f THEN v ELSE field[o][g]
      /\ \A b \in Addr : color'[b] = color[b] \/ (b = x /\ color[b] = "White" /\ color'[b] = "Gray")
      /\ gc_phase = "Phase_mark" /\ x # Nil => color'[x] \in {"Gray", "Black"}
      /\ UNCHANGED <<gc_phase, pc, cur, idx, roots>>
  BY <1>1, StoreIs
<1>3. V' = V
  BY <1>0, <1>2 DEF V, env, v_stack
<1>4. Unshared'
  BY <1>0, <1>2, <1>3 DEF env, v_stack
<1>5. x # V /\ x \in Addr \cup {Nil}
  BY <1>0, <1>1 DEF IInv, TypeOK
<1>6. color'[V] = color[V]
  BY <1>0, <1>2, <1>5
<1>7. EnvFirst'
  BY <1>0, <1>2, <1>3, <1>6 DEF EnvFirst, env
<1>8. Copies'
  <2> SUFFICES ASSUME gc_phase = "Phase_mark", color'[env] # "Black", NEW o \in Addr, NEW g \in Fields,
                      color'[o] = "Black"
               PROVE  field'[o][g] \in {Nil} \cup Dark' \cup OnStack'
    BY <1>2 DEF Copies, env
  <2>1. color[o] = "Black" /\ color[env] # "Black"
    BY <1>0, <1>2
  <2>2. o # a
    BY <1>0, <2>1 DEF EnvFirst
  <2>3. field'[o][g] = field[o][g] /\ field[o][g] \in {Nil} \cup Dark \cup OnStack
    BY <1>0, <1>2, <2>1, <2>2 DEF Copies
  <2>4. Dark \subseteq Dark'
    BY <1>2 DEF Dark
  <2>5. OnStack \subseteq {Nil} \cup Dark' \cup OnStack'
    <3>1. ASSUME NEW n \in Fields PROVE field[V][n] \in {Nil} \cup Dark' \cup OnStack'
      <4>1. CASE V = a /\ n = f
        BY <1>1, <1>2, <1>5, <4>1 DEF Dark
      <4>2. CASE ~ (V = a /\ n = f)
        BY <1>0, <1>2, <1>3, <4>2 DEF OnStack
      <4> QED
        BY <4>1, <4>2
    <3> QED
      BY <3>1 DEF OnStack
  <2> QED
    BY <2>3, <2>4, <2>5
<1> QED
  BY <1>3, <1>4, <1>7, <1>8

(* Where nothing of the heap and of the cycle changes, the program may let *)
(* go of what it held.                                                     *)
LEMMA SameHeap ==
  ASSUME ParserOK, ParserInv, Running, UNCHANGED <<heap, tag, field, color, grayVars, cycleVars, callVars, stacksize>>,
         held' \subseteq held
  PROVE  /\ IInv' /\ EnvMarked' /\ V' = V /\ (stacksize' = StackSize => FirstStackInv')
         /\ (\A a \in Addr : tag'[a] = "Scan") /\ weak_arrays' = {} /\ V' \in Addr
         /\ env \notin held' /\ \A a \in Addr, f \in Fields : field'[a][f] # env
<1> USE DEF ParserInv, grayVars, cycleVars, callVars
<1>1. held \subseteq Alive /\ env \in Alive /\ Alive \subseteq Addr
  BY EngineAlive
<1>2. IInv'
  <2>1. Roots' \subseteq Alive
    BY <1>1 DEF Roots, env
  <2>2. held' \subseteq Addr /\ Roots' \subseteq Kept /\ (gc_phase = "Phase_mark" => Roots' \subseteq Protected)
    BY <1>1, <2>1 DEF Alive
  <2> QED
    BY <2>2, HeldStep
<1>3. V' = V /\ EnvMarked'
  BY DEF V, env, v_stack, EnvMarked
<1>4. stacksize' = StackSize => FirstStackInv'
  <2> SUFFICES ASSUME FirstStackInv PROVE FirstStackInv'
    OBVIOUS
  <2>1. Unshared' /\ EnvFirst'
    BY <1>3 DEF FirstStackInv, Unshared, EnvFirst, env, v_stack
  <2>2. Dark' = Dark /\ OnStack' = OnStack
    BY <1>3 DEF Dark, OnStack
  <2>3. Copies'
    BY <2>2 DEF FirstStackInv, Copies, env
  <2> QED
    BY <2>1, <2>3 DEF FirstStackInv
<1> QED
  BY <1>2, <1>3, <1>4 DEF EngineInv

LEMMA NotSame == ASSUME ParserOK, ParserInv PROVE 2 * stacksize \in Nat /\ 2 * stacksize >= StackSize /\ 2 * stacksize # StackSize
BY DEF ParserOK, ParserInv, EngineInv

(* Steps of the engine that touch no pointer.                              *)
LEMMA QuietStep ==
  ASSUME ParserOK, ParserInv, ReadToken \/ Shift \/ (\E m \in 0 .. NFields : Reduce(m)) \/ yyparse
  PROVE  ParserInv'
<1> USE DEF ParserInv
<1>1. /\ Running /\ UNCHANGED <<heap, tag, field, color, grayVars, cycleVars, callVars, stacksize>>
      /\ held' \subseteq held /\ arg' \in held' \cup {Nil}
  <2>1. CASE yyparse
    BY <2>1 DEF yyparse, Call
  <2>2. CASE ~ yyparse
    BY <2>2 DEF ReadToken, Shift, Reduce, To, At, vars, heapVars, EngineInv
  <2> QED
    BY <2>1, <2>2
<1>2. /\ command' \in Commands /\ sp' \in 0 .. NFields
      /\ command' \in {"push", "GROW_STACKS_1", "GROW_STACKS_2", "COMPUTE_SEMANTIC_ACTION"} => sp' \in Fields
  <2>1. CASE ReadToken
    BY <2>1 DEF ReadToken, To, Commands, EngineInv
  <2>2. CASE Shift
    BY <2>2 DEF Shift, To, Commands, EngineInv, Fields
  <2>3. ASSUME NEW m \in 0 .. NFields, Reduce(m) PROVE sp' \in Fields /\ command' \in Commands
    BY <2>3 DEF Reduce, To, Commands, EngineInv, Fields
  <2>4. CASE yyparse
    BY <2>4 DEF yyparse, Call, Commands
  <2>5. Fields \subseteq 0 .. NFields
    BY DEF Fields
  <2> QED
    BY <2>1, <2>2, <2>3, <2>4, <2>5
<1>3. /\ IInv' /\ EnvMarked' /\ V' = V /\ (stacksize' = StackSize => FirstStackInv')
      /\ (\A a \in Addr : tag'[a] = "Scan") /\ weak_arrays' = {} /\ V' \in Addr
      /\ env \notin held' /\ \A a \in Addr, f \in Fields : field'[a][f] # env
  BY <1>1, SameHeap
<1>4. EngineInv'
  BY <1>1, <1>2, <1>3 DEF EngineInv, env
<1> QED
  BY <1>3, <1>4

(* A store in the first stack, in a later one, or in the field of the      *)
(* environment for the attribute, with the value the engine is called      *)
(* with.                                                                   *)
LEMMA ValueStep ==
  ASSUME ParserOK, ParserInv, Running, NEW a \in {env, V}, NEW f \in Fields, a = env => f # v_stack,
         NEW v \in Alive \cup {Nil}, stacksize = StackSize => v # V, v # env,
         Store(a, f, v), held' \subseteq held \cup ({v} \ {Nil}), arg' \in held' \cup {Nil},
         command' = "engine", UNCHANGED <<sp, stacksize>>
  PROVE  ParserInv'
<1> USE DEF ParserInv
<1>1. /\ env \in Alive /\ V \in Alive /\ held \subseteq Alive /\ Alive \subseteq Addr /\ v_stack \in Fields /\ Nil \notin Addr
  BY EngineAlive
<1>2. IInv'
  <2>1. held' \subseteq Alive
    BY <1>1
  <2> QED
    BY <2>1, StoreKeeps
<1>3. /\ \A o \in Addr, g \in Fields : field'[o][g] = IF o = a /\ g = f THEN v ELSE field[o][g]
      /\ UNCHANGED <<tag, weak_arrays, roots>> /\ EnvMarked'
  BY StoreIs
<1>4. V' \in Addr
  BY <1>1, <1>3 DEF V, env, v_stack, EngineInv
<1>5. env \notin held' /\ \A o \in Addr, g \in Fields : field'[o][g] # env
  BY <1>3 DEF EngineInv
<1>6. EngineInv'
  BY <1>3, <1>4, <1>5 DEF EngineInv, Commands, env
<1>7. stacksize' = StackSize => FirstStackInv'
  <2> SUFFICES ASSUME stacksize = StackSize PROVE FirstStackInv'
    OBVIOUS
  <2>1. V \notin held'
    BY DEF FirstStackInv, Unshared
  <2> QED
    BY <1>1, <2>1, StoreInFirst
<1> QED
  BY <1>2, <1>3, <1>6, <1>7

LEMMA PushStep == ASSUME ParserOK, ParserInv, Push PROVE ParserInv'
<1> USE DEF ParserInv
<1>1. /\ Running /\ command = "push" /\ Store(V, sp, field[env][lval]) /\ held' = held /\ arg' = arg
      /\ command' = "engine" /\ UNCHANGED <<sp, stacksize>>
  BY DEF Push, At, To
<1>2. /\ field[env][lval] \in Alive \cup {Nil} /\ env \in Addr /\ lval \in Fields /\ lval # v_stack /\ V # env
  BY <1>1, EngineAlive DEF lval, v_stack
<1>3. sp \in Fields /\ arg \in held \cup {Nil} /\ field[env][lval] # env
  BY <1>1, <1>2 DEF EngineInv
<1>4. stacksize = StackSize => field[env][lval] # V
  BY <1>2 DEF FirstStackInv, Unshared
<1> QED
  BY <1>1, <1>2, <1>3, <1>4, ValueStep

(* The value of a semantic action.                                         *)
LEMMA ActionStep == ASSUME ParserOK, ParserInv, ActionComputed PROVE ParserInv'
<1> USE DEF ParserInv
<1>1. PICK v \in {field[V][n] : n \in Fields} \cup (held \ {arg}) \cup {Nil} :
        /\ Running /\ command = "COMPUTE_SEMANTIC_ACTION" /\ Store(V, sp, v)
        /\ held' = {v} \ {Nil} /\ arg' = v /\ command' = "engine" /\ UNCHANGED <<sp, stacksize>>
  BY DEF ActionComputed, At, Call, Fields
<1>2. /\ V \in Addr /\ V # env /\ held \subseteq Alive /\ \A n \in Fields : field[V][n] \in Alive \cup {Nil}
      /\ env \in Alive /\ Alive \subseteq Addr /\ Nil \notin Addr
  BY <1>1, EngineAlive DEF EngineInv
<1>3. sp \in Fields /\ v \in Alive \cup {Nil} /\ v # env
  BY <1>1, <1>2 DEF EngineInv
<1>4. stacksize = StackSize => v # V
  BY <1>1, <1>2 DEF FirstStackInv, Unshared
<1> QED
  BY <1>1, <1>2, <1>3, <1>4, ValueStep

(* A token, with an attribute or without one.                              *)
LEMMA TokenStep == ASSUME ParserOK, ParserInv, TokenRead PROVE ParserInv'
<1> USE DEF ParserInv
<1>1. Running /\ UNCHANGED <<sp, stacksize>>
  BY DEF TokenRead, At
<1>2. /\ env \in Alive /\ held \subseteq Alive /\ lval \in Fields /\ v_stack \in Fields /\ lval # v_stack
      /\ Alive \subseteq Addr /\ Nil \notin Addr /\ V # env
  BY <1>1, EngineAlive DEF lval, v_stack
<1>3. ASSUME NEW a \in held \ {arg}, Store(env, lval, a), Call("engine", a)
      PROVE  ParserInv'
  <2>1. a \in Alive /\ a # env /\ (stacksize = StackSize => a # V)
    BY <1>2 DEF EngineInv, FirstStackInv, Unshared
  <2>2. held' = {a} /\ arg' = a /\ command' = "engine"
    BY <1>2, <1>3 DEF Call
  <2> QED
    BY <1>1, <1>2, <1>3, <2>1, <2>2, ValueStep
<1>4. ASSUME stacksize = StackSize, field' = [field EXCEPT ![env][lval] = Nil], Call("engine", Nil),
             UNCHANGED <<heap, tag, color, grayVars, cycleVars, callVars>>
      PROVE  ParserInv'
  <2> USE DEF FirstStackInv, grayVars, cycleVars, callVars
  <2>1. held' = {} /\ arg' = Nil /\ command' = "engine"
    BY <1>4 DEF Call
  <2>2. IInv'
    BY <1>1, <1>4, <2>1, BareKeeps
  <2>3. \A o \in Addr, g \in Fields : field'[o][g] = IF o = env /\ g = lval THEN Nil ELSE field[o][g]
    BY <1>2, <1>4 DEF IInv, TypeOK
  <2>4. V' = V /\ V \in Addr /\ env \in Addr
    BY <1>2, <2>3 DEF V, env, v_stack, EngineInv
  <2>5. \A o \in Addr, g \in Fields : field'[o][g] # env
    BY <1>2, <2>3 DEF EngineInv
  <2>6. EngineInv'
    BY <1>1, <1>4, <2>1, <2>4, <2>5 DEF EngineInv, Commands, env
  <2>7. EnvMarked' /\ EnvFirst'
    BY <1>4, <2>4 DEF EnvMarked, EnvFirst, env
  <2>8. Unshared'
    BY <1>2, <1>4, <2>1, <2>3, <2>4 DEF Unshared, env, v_stack
  <2>9. Dark' = Dark /\ OnStack' = OnStack
    BY <1>2, <1>4, <2>3, <2>4 DEF Dark, OnStack
  <2>10. Copies'
    BY <1>4, <2>3, <2>9 DEF Copies, env
  <2> QED
    BY <2>2, <2>6, <2>7, <2>8, <2>10
<1> QED
  BY <1>3, <1>4 DEF TokenRead, ParserOK

(* A new block, with a value's empty fields or a copy of the stack, is     *)
(* held by the ML code that made it.                                       *)
LEMMA NewBlockStep ==
  ASSUME ParserOK, ParserInv, NEW a \in Addr, NEW init \in [Fields -> {Nil} \cup OnStack], AllocShr(a, "Scan", init),
         UNCHANGED parserVars
  PROVE  ParserInv'
<1> USE DEF ParserInv
<1>1. /\ Running /\ color[a] = "Blue" /\ color' = [color EXCEPT ![a] = AllocColor(a)]
      /\ tag' = [tag EXCEPT ![a] = "Scan"] /\ field' = [field EXCEPT ![a] = init] /\ held' = held \cup {a}
      /\ UNCHANGED <<grayVars, cycleVars, callVars>> /\ AllocColor(a) \in {"Black", "White"}
  BY DEF AllocShr, AllocColor
<1>2. /\ env \in Alive /\ V \in Alive /\ Alive \subseteq NonBlue /\ Alive \subseteq Addr
      /\ v_stack \in Fields /\ V # env /\ Nil \notin Addr
      /\ \A n \in Fields : field[V][n] \in Alive \cup {Nil} /\ field[V][n] # env
  BY <1>1, EngineAlive DEF EngineInv
<1>3. IInv'
  <2>1. init \in [Fields -> Alive \cup {Nil}]
    BY <1>2 DEF OnStack
  <2> QED
    BY <2>1, AllocStep DEF Tags
<1>4. /\ \A x \in Addr : color'[x] = IF x = a THEN AllocColor(a) ELSE color[x]
      /\ \A x \in Addr : tag'[x] = IF x = a THEN "Scan" ELSE tag[x]
      /\ \A x \in Addr : field'[x] = IF x = a THEN init ELSE field[x]
  BY <1>1 DEF IInv, TypeOK
<1>5. env # a /\ V # a /\ env \in Addr
  BY <1>1, <1>2 DEF NonBlue
<1>6. V' = V
  BY <1>4, <1>5 DEF V, env
<1>7. \A f \in Fields : init[f] # env
  BY <1>2, <1>5 DEF OnStack
<1>8. EngineInv'
  <2>1. env \notin held' /\ \A x \in Addr, f \in Fields : field'[x][f] # env
    BY <1>1, <1>4, <1>5, <1>7 DEF EngineInv
  <2>2. (\A x \in Addr : tag'[x] = "Scan") /\ weak_arrays' = {}
    BY <1>1, <1>4 DEF EngineInv, cycleVars
  <2> QED
    BY <1>1, <1>6, <2>1, <2>2 DEF EngineInv, parserVars, env
<1>9. EnvMarked'
  BY <1>1, <1>4, <1>5 DEF EnvMarked, env, cycleVars
<1>10. stacksize' = StackSize => FirstStackInv'
  <2> SUFFICES ASSUME FirstStackInv PROVE FirstStackInv'
    BY DEF parserVars
  <2>1. \A f \in Fields : init[f] # V
    BY <1>2 DEF OnStack, FirstStackInv, Unshared
  <2>2. Unshared'
    BY <1>1, <1>4, <1>5, <1>6, <2>1 DEF FirstStackInv, Unshared, env, v_stack, callVars
  <2>3. EnvFirst'
    BY <1>1, <1>2, <1>4, <1>5, <1>6 DEF FirstStackInv, EnvFirst, env, cycleVars
  <2>4. Dark \subseteq Dark' /\ OnStack' = OnStack
    BY <1>1, <1>2, <1>4, <1>5, <1>6 DEF Dark, OnStack
  <2>5. Copies'
    <3> SUFFICES ASSUME gc_phase = "Phase_mark", color[env] # "Black", NEW o \in Addr, NEW f \in Fields, color'[o] = "Black"
                 PROVE  field'[o][f] \in {Nil} \cup Dark' \cup OnStack'
      BY <1>1, <1>4, <1>5 DEF Copies, env, cycleVars, callVars
    <3>1. pc = "loop"
      BY <1>1 DEF IInv, ControlInv, Running
    <3>2. CASE o = a
      BY <1>4, <2>4, <3>2
    <3>3. CASE o # a
      <4>1. field[o][f] \in {Nil} \cup Dark \cup OnStack
        BY <1>4, <3>1, <3>3 DEF FirstStackInv, Copies
      <4> QED
        BY <1>4, <2>4, <3>3, <4>1
    <3> QED
      BY <3>2, <3>3
  <2> QED
    BY <2>2, <2>3, <2>5 DEF FirstStackInv
<1> QED
  BY <1>3, <1>8, <1>9, <1>10

LEMMA MakeStep ==
  ASSUME ParserOK, ParserInv, NEW a \in Addr, Make(a) \/ NewStack(a)
  PROVE  ParserInv'
<1>1. CASE Make(a)
  <2>1. [f \in Fields |-> Nil] \in [Fields -> {Nil} \cup OnStack]
    OBVIOUS
  <2> QED
    BY <1>1, <2>1, NewBlockStep DEF Make
<1>2. CASE NewStack(a)
  <2>1. V \in Addr
    BY DEF ParserInv, EngineInv
  <2>2. field[V] \in [Fields -> Addr \cup {Nil}]
    BY <2>1 DEF ParserInv, IInv, TypeOK
  <2>3. field[V] \in [Fields -> {Nil} \cup OnStack]
    BY <2>2 DEF OnStack
  <2> QED
    BY <1>2, <2>3, NewBlockStep DEF NewStack
<1> QED
  BY <1>1, <1>2

(* The new stack is put in place: it is not the first one any more.        *)
LEMMA GrownStep == ASSUME ParserOK, ParserInv, StacksGrown PROVE ParserInv'
<1> USE DEF ParserInv
<1>1. PICK a \in held \ {arg} :
        /\ Running /\ Grows /\ Store(env, v_stack, a) /\ stacksize' = 2 * stacksize /\ UNCHANGED <<token, sp>>
        /\ Call(IF command = "GROW_STACKS_1" THEN "push" ELSE "COMPUTE_SEMANTIC_ACTION", Nil)
  BY DEF StacksGrown
<1>2. /\ env \in Alive /\ held \subseteq Alive /\ v_stack \in Fields /\ Alive \subseteq Addr /\ V # env
  BY <1>1, EngineAlive
<1>3. held' = {} /\ arg' = Nil /\ command' \in {"push", "COMPUTE_SEMANTIC_ACTION"}
  BY <1>1 DEF Call
<1>4. /\ \A o \in Addr, g \in Fields : field'[o][g] = IF o = env /\ g = v_stack THEN a ELSE field[o][g]
      /\ UNCHANGED <<tag, weak_arrays>> /\ EnvMarked'
  BY <1>1, <1>2, StoreIs
<1>5. IInv'
  BY <1>1, <1>2, <1>3, StoreKeeps
<1>6. V' = a
  BY <1>2, <1>4 DEF V, env
<1>7. EngineInv'
  <2>1. sp' \in Fields /\ sp' \in 0 .. NFields /\ command' \in Commands
    BY <1>1, <1>3 DEF EngineInv, Grows, Commands
  <2>2. \A o \in Addr, g \in Fields : field'[o][g] # env
    BY <1>2, <1>4 DEF EngineInv
  <2>3. stacksize' \in Nat /\ stacksize' >= StackSize
    BY <1>1, NotSame
  <2> QED
    BY <1>2, <1>3, <1>4, <1>6, <2>1, <2>2, <2>3 DEF EngineInv, env
<1> QED
  BY <1>1, <1>4, <1>5, <1>7, NotSame

LEMMA MinorStep == ASSUME ParserOK, ParserInv, CollectInML PROVE ParserInv'
<1> USE DEF ParserInv
<1>1. Collect(<<"slice">>) /\ UNCHANGED parserVars /\ <<"slice">> \in Seq(Calls)
  BY DEF CollectInML, MinorCollection, Calls
<1>2. UNCHANGED <<heap, tag, field, held, color, gc_phase, weak_arrays, pc, cur, idx, roots>>
  BY <1>1 DEF Collect, heapVars, cycleVars
<1>3. IInv'
  BY <1>1, CollectStep
<1>4. V' = V /\ EngineInv' /\ EnvMarked'
  BY <1>1, <1>2 DEF V, env, v_stack, EngineInv, EnvMarked, parserVars
<1>5. FirstStackInv => FirstStackInv'
  BY <1>2, <1>4 DEF FirstStackInv, Unshared, EnvFirst, Copies, Dark, OnStack, env, v_stack
<1> QED
  BY <1>1, <1>3, <1>4, <1>5 DEF parserVars

(* The collector lets go of pointers, of blocks that it frees, but not of  *)
(* those in the environment and in the stack.                              *)
LEMMA CollectorLeaves ==
  ASSUME ParserOK, IInv, EngineInv, Collector
  PROVE  /\ held' = held /\ (\A o \in Addr : tag'[o] = "Scan") /\ weak_arrays' = {}
         /\ \A o \in Addr, f \in Fields : field'[o][f] \in {Nil, field[o][f]}
         /\ \A o \in Kept : field'[o] = field[o]
         /\ env \in Kept /\ V \in Kept /\ V' = V
         /\ roots' \subseteq roots \cup Roots
<1> USE DEF IInv
<1>1. env \in Kept /\ Kept \subseteq NonBlue /\ Kept \subseteq Addr
  BY DEF KeptInv, Roots, env, Kept, NonBlue
<1>2. V \in Kept
  <2>1. tag[env] = "Scan" /\ v_stack \in Fields
    BY <1>1 DEF EngineInv, ParserOK
  <2> QED
    BY <1>1, <2>1 DEF KeptInv, Closed, V, EngineInv, Addr, Nil
<1>3. CASE MarkPop \/ MarkChild \/ MarkedBlock \/ MarkWalk \/ MarkRestart \/ MarkDone \/ SweepDone \/ DarkenRoot \/ StartCycle
  <2>1. UNCHANGED <<heap, tag, field, held>>
    BY <1>3 DEF MarkPop, MarkChild, MarkedBlock, MarkWalk, MarkRestart, MarkDone, SweepDone, DarkenRoot, StartCycle, heapVars
  <2>2. roots' \subseteq roots \cup Roots
    BY <1>3 DEF MarkPop, MarkChild, MarkedBlock, MarkWalk, MarkRestart, MarkDone, SweepDone, DarkenRoot, StartCycle, callVars
  <2>3. weak_arrays' = {}
    <3>1. CASE MarkPop
      <4>1. gray_vals[Len(gray_vals)] \in Addr
        BY <3>1 DEF MarkPop, TypeOK
      <4> QED
        BY <3>1, <4>1 DEF MarkPop, EngineInv
    <3>2. CASE ~ MarkPop
      BY <1>3, <3>2
      DEF MarkChild, MarkedBlock, MarkWalk, MarkRestart, MarkDone, SweepDone, DarkenRoot, StartCycle, cycleVars, EngineInv
    <3> QED
      BY <3>1, <3>2
  <2> QED
    BY <1>1, <1>2, <2>1, <2>2, <2>3 DEF EngineInv, V, env
<1>4. CASE weak_phase
  <2>1. /\ field' = [a \in Addr |-> [f \in Fields |->
                       IF a \in weak_arrays /\ Dying(field[a][f]) THEN Nil ELSE field[a][f]]]
        /\ weak_arrays' = {} /\ UNCHANGED <<tag, held, roots>>
    BY <1>4 DEF weak_phase
  <2>2. \A a \in Addr : field'[a] = [f \in Fields |-> field[a][f]]
    BY <2>1 DEF EngineInv
  <2>3. \A a \in Addr : field'[a] = field[a]
    BY <2>2 DEF TypeOK
  <2> QED
    BY <1>1, <1>2, <2>1, <2>3 DEF EngineInv, V, env
<1>5. CASE SweepBlock
  <2>1. PICK h \in heap :
          /\ IsNext(h, gc_sweep_hp) /\ gc_phase = "Phase_sweep"
          /\ IF color[h] = "White"
               THEN /\ tag' = [tag EXCEPT ![h] = "Scan"]
                    /\ field' = [field EXCEPT ![h] = [f \in Fields |-> Nil]]
               ELSE UNCHANGED <<tag, field>>
          /\ UNCHANGED <<held, weak_arrays, roots>>
    BY <1>5 DEF SweepBlock, InLoop
  <2>2. color[h] = "White" => h \notin Kept
    BY <2>1 DEF Kept, Doomed, IsNext
  <2>3. h \in Addr
    BY DEF TypeOK
  <2>4. /\ \A o \in Addr : tag'[o] = "Scan"
        /\ \A o \in Addr, f \in Fields : field'[o][f] \in {Nil, field[o][f]}
    <3>1. CASE color[h] = "White"
      <4>1. tag' = [tag EXCEPT ![h] = "Scan"] /\ field' = [field EXCEPT ![h] = [f \in Fields |-> Nil]]
        BY <2>1, <3>1
      <4>2. \A o \in Addr : tag'[o] = "Scan"
        BY <4>1 DEF EngineInv, TypeOK
      <4>3. \A o \in Addr : field'[o] = IF o = h THEN [f \in Fields |-> Nil] ELSE field[o]
        BY <4>1 DEF TypeOK
      <4> QED
        BY <4>2, <4>3
    <3>2. CASE color[h] # "White"
      BY <2>1, <3>2 DEF EngineInv
    <3> QED
      BY <3>1, <3>2
  <2>5. \A o \in Kept : field'[o] = field[o]
    BY <1>1, <2>1, <2>2, <2>3 DEF TypeOK
  <2> QED
    BY <1>1, <1>2, <2>1, <2>4, <2>5 DEF EngineInv, V, env
<1> QED
  BY <1>3, <1>4, <1>5 DEF Collector

(* Colors, as long as the first stack is in place.                         *)
LEMMA CollectorMarks ==
  ASSUME ParserOK, ParserInv, Collector
  PROVE  EnvMarked' /\ (FirstStackInv => EnvFirst')
<1> USE DEF IInv, ParserInv
<1>0. /\ V' = V /\ V \in Addr /\ env \in Addr /\ V # env /\ color[V] # "Blue" /\ color[env] # "Blue"
      /\ color[V] \in Colors /\ color[env] \in Colors
  BY CollectorLeaves DEF Kept, NonBlue, EngineInv, V, TypeOK, ParserOK
<1>1. CASE MarkPop
  <2>1. PICK v \in Addr : color[v] = "Gray" /\ color' = [color EXCEPT ![v] = "Black"]
    <3>1. Len(gray_vals) \in 1 .. Len(gray_vals) /\ gray_vals[Len(gray_vals)] \in Addr
      BY <1>1 DEF MarkPop, TypeOK
    <3> QED
      BY <1>1, <3>1 DEF MarkPop, GrayInv
  <2>2. \A a \in Addr : color'[a] = IF a = v THEN "Black" ELSE color[a]
    BY <2>1 DEF TypeOK
  <2>3. gc_phase' = "Phase_mark" /\ gc_phase = "Phase_mark"
    BY <1>1 DEF MarkPop, InLoop
  <2> QED
    BY <1>0, <2>1, <2>2, <2>3 DEF EnvMarked, FirstStackInv, EnvFirst, env
<1>2. CASE MarkChild
  <2>1. /\ Darken(field[cur][idx]) /\ UNCHANGED <<gc_phase, markhp>> /\ gc_phase = "Phase_mark"
        /\ color[cur] = "Black" /\ cur \in Addr /\ idx \in Fields
    BY <1>2 DEF MarkChild, cycleVars, ControlInv, TypeOK, Fields
  <2>2. PICK x \in Addr \cup {Nil} : x = field[cur][idx]
    BY <2>1 DEF TypeOK
  <2>3. \A a \in Addr : color'[a] = color[a] \/ (a = x /\ color[a] = "White" /\ color'[a] = "Gray")
    BY <2>1, <2>2, DarkenStep
  <2>4. FirstStackInv /\ x = V => color[env] = "Black"
    BY <2>1, <2>2 DEF FirstStackInv, Unshared
  <2> QED
    BY <1>0, <2>1, <2>3, <2>4 DEF EnvMarked, FirstStackInv, EnvFirst, env
<1>3. CASE MarkedBlock \/ MarkWalk \/ MarkRestart \/ SweepDone
  <2>1. UNCHANGED <<color, gc_phase>>
    BY <1>3 DEF MarkedBlock, MarkWalk, MarkRestart, SweepDone, cycleVars
  <2> QED
    BY <1>0, <2>1 DEF EnvMarked, FirstStackInv, EnvFirst, env
<1>4. CASE MarkDone \/ weak_phase
  <2>1. UNCHANGED color /\ gc_phase' # "Phase_mark"
    BY <1>4 DEF MarkDone, weak_phase
  <2> QED
    BY <1>0, <2>1 DEF EnvMarked, FirstStackInv, EnvFirst, env
<1>5. CASE SweepBlock
  <2>1. PICK h \in heap : color' = [color EXCEPT ![h] = SweptColor(color[h])]
    BY <1>5 DEF SweepBlock
  <2>2. gc_phase' # "Phase_mark" /\ color[V] # "Gray"
    BY <1>0, <1>5 DEF SweepBlock, InLoop, SweepInv
  <2>3. color'[V] # "Gray"
    BY <1>0, <2>1, <2>2 DEF TypeOK, SweptColor
  <2> QED
    BY <1>0, <2>2, <2>3 DEF EnvMarked, FirstStackInv, EnvFirst
<1>6. CASE DarkenRoot
  <2>1. PICK v \in roots : Darken(v) /\ UNCHANGED <<gc_phase, markhp>> /\ gc_phase = "Phase_sweep"
    BY <1>6 DEF DarkenRoot, cycleVars, ControlInv
  <2>2. v \in Addr
    BY DEF TypeOK
  <2>3. \A a \in Addr : color'[a] = color[a] \/ (a = v /\ color[a] = "White" /\ color'[a] = "Gray")
    BY <2>1, <2>2, DarkenStep
  <2> QED
    BY <1>0, <2>1, <2>3 DEF EnvMarked, FirstStackInv, EnvFirst, Unshared, env
<1>7. CASE StartCycle
  <2>1. UNCHANGED color /\ pc = "roots" /\ roots = {} /\ gc_phase # "Phase_mark"
    BY <1>7 DEF StartCycle, ControlInv
  <2>2. color[env] = "Gray"
    BY <2>1 DEF RootsInv, Roots, env
  <2>3. color[V] # "Black"
    <3>1. V < gc_sweep_hp
      BY <1>0, <2>1 DEF RootsInv, HeapInv, NonBlue
    <3> QED
      BY <1>0, <2>1, <3>1 DEF SweepInv
  <2> QED
    BY <1>0, <2>1, <2>2, <2>3 DEF EnvMarked, FirstStackInv, EnvFirst, env
<1> QED
  BY <1>1, <1>2, <1>3, <1>4, <1>5, <1>6, <1>7 DEF Collector

LEMMA CollectorCopies ==
  ASSUME ParserOK, ParserInv, FirstStackInv, Collector
  PROVE  Copies'
<1> USE DEF IInv, ParserInv
<1>1. V' = V /\ V \in Addr /\ env \in Addr
  BY CollectorLeaves DEF EngineInv, Kept, NonBlue
<1> SUFFICES ASSUME gc_phase' = "Phase_mark", color'[env] # "Black", NEW o \in Addr, NEW f \in Fields, color'[o] = "Black"
             PROVE  \/ field'[o][f] \in {Nil} \cup Dark' \cup OnStack'
                    \/ pc' = "scan" /\ o = cur' /\ f <= idx'
  BY DEF Copies, env
<1>2. CASE StartCycle
  <2>1. UNCHANGED color /\ pc = "roots" /\ gc_phase # "Phase_mark"
    BY <1>2 DEF StartCycle, ControlInv
  <2>2. o < gc_sweep_hp
    BY <2>1 DEF RootsInv, HeapInv, NonBlue
  <2> QED
    BY <2>1, <2>2 DEF SweepInv
<1>3. CASE MarkPop
  <2>1. PICK v \in Addr : /\ color[v] = "Gray" /\ color' = [color EXCEPT ![v] = "Black"]
                          /\ pc' = "scan" /\ cur' = v /\ idx' = LastField(v)
                          /\ pc = "loop" /\ gc_phase = "Phase_mark" /\ UNCHANGED field
    <3>1. Len(gray_vals) \in 1 .. Len(gray_vals) /\ gray_vals[Len(gray_vals)] \in Addr
      BY <1>3 DEF MarkPop, TypeOK
    <3> QED
      BY <1>3, <3>1 DEF MarkPop, InLoop, GrayInv, heapVars
  <2>2. \A a \in Addr : color'[a] = IF a = v THEN "Black" ELSE color[a]
    BY <2>1 DEF TypeOK
  <2>3. CASE o = v
    BY <2>1, <2>3 DEF LastField, EngineInv, Fields
  <2>4. CASE o # v
    <3>1. field[o][f] \in {Nil} \cup Dark \cup OnStack
      BY <1>1, <2>1, <2>2, <2>4 DEF FirstStackInv, Copies
    <3>2. Dark \subseteq Dark' /\ OnStack' = OnStack
      BY <1>1, <2>1, <2>2 DEF Dark, OnStack
    <3> QED
      BY <2>1, <3>1, <3>2
  <2> QED
    BY <2>3, <2>4
<1>4. CASE MarkChild
  <2>1. /\ Darken(field[cur][idx]) /\ UNCHANGED <<field, pc, cur, markhp>> /\ idx' = idx - 1 /\ gc_phase = "Phase_mark"
        /\ pc = "scan" /\ color[cur] = "Black" /\ tag[cur] = "Scan" /\ cur \in Addr /\ idx \in Fields
    BY <1>4 DEF MarkChild, heapVars, cycleVars, ControlInv, TypeOK, Fields
  <2>2. PICK x \in Addr \cup {Nil} : x = field[cur][idx] /\ (x # Nil => color[x] # "Blue")
    <3>1. cur \in Kept
      BY <2>1 DEF Kept, NonBlue, Doomed
    <3>2. field[cur][idx] \in Kept \cup {Nil}
      BY <2>1, <3>1 DEF KeptInv, Closed
    <3> QED
      BY <3>2 DEF Kept, NonBlue
  <2>3. /\ \A a \in Addr : color'[a] = color[a] \/ (a = x /\ color[a] = "White" /\ color'[a] = "Gray")
        /\ color' \in [Addr -> Colors] /\ (x # Nil => color'[x] # "White")
    BY <2>1, <2>2, DarkenStep
  <2>4. x \in {Nil} \cup Dark'
    <3>1. x # Nil => x \in Addr /\ color'[x] # "Blue" /\ color'[x] \in Colors
      BY <2>2, <2>3
    <3> QED
      BY <2>3, <3>1 DEF Dark, Colors
  <2>5. Dark \subseteq Dark' /\ OnStack' = OnStack
    BY <1>1, <2>1, <2>3 DEF Dark, OnStack
  <2>6. color[o] = "Black" /\ color[env] # "Black"
    BY <1>1, <2>3
  <2>7. CASE o = cur /\ f = idx
    BY <2>1, <2>2, <2>4, <2>7
  <2>8. CASE ~ (o = cur /\ f = idx)
    <3>1. \/ field[o][f] \in {Nil} \cup Dark \cup OnStack
          \/ o = cur /\ f <= idx
      BY <2>1, <2>6 DEF FirstStackInv, Copies
    <3>2. f <= idx /\ f # idx => f <= idx - 1
      BY <2>1 DEF Fields
    <3> QED
      BY <2>1, <2>5, <2>8, <3>1, <3>2
  <2> QED
    BY <2>7, <2>8
<1>5. CASE MarkedBlock \/ MarkWalk \/ MarkRestart
  <2>1. UNCHANGED <<field, color>> /\ gc_phase = "Phase_mark" /\ (pc = "scan" => idx = 0)
    BY <1>5 DEF MarkedBlock, MarkWalk, MarkRestart, InLoop, heapVars, cycleVars
  <2>2. field[o][f] \in {Nil} \cup Dark \cup OnStack
    <3>1. ~ (pc = "scan" /\ f <= idx)
      BY <2>1 DEF Fields
    <3> QED
      BY <1>1, <2>1, <3>1 DEF FirstStackInv, Copies
  <2> QED
    BY <1>1, <2>1, <2>2 DEF Dark, OnStack
<1>6. CASE MarkDone \/ weak_phase \/ SweepBlock \/ SweepDone \/ DarkenRoot
  BY <1>6 DEF MarkDone, weak_phase, SweepBlock, SweepDone, DarkenRoot, InLoop, ControlInv, cycleVars
<1> QED
  BY <1>2, <1>3, <1>4, <1>5, <1>6 DEF Collector

LEMMA CollectorParserStep ==
  ASSUME ParserOK, ParserInv, Collector, UNCHANGED parserVars
  PROVE  ParserInv'
<1> USE DEF ParserInv
<1>1. IInv' /\ EnvMarked'
  BY CollectorStep, CollectorMarks
<1>2. /\ held' = held /\ (\A o \in Addr : tag'[o] = "Scan") /\ weak_arrays' = {}
      /\ \A o \in Addr, f \in Fields : field'[o][f] \in {Nil, field[o][f]}
      /\ V' = V /\ env \in Addr /\ Nil \notin Addr /\ roots' \subseteq roots \cup Roots
      /\ V # env /\ V \in Addr
  BY CollectorLeaves DEF Kept, NonBlue, Addr, Nil, EngineInv, V, ParserOK
<1>3. EngineInv'
  BY <1>2 DEF EngineInv, parserVars, env
<1>4. FirstStackInv => Unshared'
  BY <1>2 DEF FirstStackInv, Unshared, Roots, env, v_stack
<1> QED
  BY <1>1, <1>3, <1>4, CollectorMarks, CollectorCopies DEF FirstStackInv, parserVars

LEMMA ParserInitInv == ASSUME ParserOK, ParserInit PROVE ParserInv
<1> USE DEF ParserInit
<1>1. PICK st \in HeapInit \ {env} :
        /\ color = [a \in Addr |-> IF a \in {env, st} THEN "Black" ELSE "Blue"]
        /\ field = [a \in Addr |-> [f \in Fields |-> IF a = env /\ f = v_stack THEN st ELSE Nil]]
  OBVIOUS
<1>2. st \in Addr /\ env \in Addr /\ st # env /\ v_stack \in Fields /\ Nil \notin Addr /\ HeapInit \subseteq Addr
  BY DEF env, ParserOK, Addr, Nil
<1>3. /\ \A a \in Addr : color[a] = IF a \in {env, st} THEN "Black" ELSE "Blue"
      /\ \A a \in Addr, f \in Fields : field[a][f] = IF a = env /\ f = v_stack THEN st ELSE Nil
  BY <1>1
<1>4. V = st
  BY <1>2, <1>3 DEF V
<1>5. TypeOK
  <2>1. gray_vals \in Seq(Addr) /\ calls \in Seq(Calls) /\ gray_vals = << >>
    OBVIOUS
  <2>2. color \in [Addr -> Colors] /\ tag \in [Addr -> Tags]
    BY <1>1 DEF Colors, Tags
  <2>3. field \in [Addr -> [Fields -> Addr \cup {Nil}]]
    BY <1>1, <1>2
  <2> QED
    BY <1>2, <2>1, <2>2, <2>3 DEF TypeOK, Phases, Nil
<1>6. ControlInv /\ SweepInv /\ RootsInv
  BY DEF ControlInv, SweepInv, RootsInv
<1>7. HeapInv
  <2>1. NonBlue \subseteq HeapInit
    BY <1>1, <1>2, <1>3 DEF NonBlue, env
  <2> QED
    BY <2>1 DEF HeapInv
<1>8. GrayInv
  BY <1>2, <1>3 DEF GrayInv
<1>9. Kept = {env, st} /\ Roots = {env}
  BY <1>2, <1>3 DEF Kept, NonBlue, Doomed, Roots, env
<1>10. KeptInv
  BY <1>2, <1>3, <1>9 DEF KeptInv, Closed
<1>11. {env, st} \subseteq Protected
  BY <1>2, <1>3 DEF Protected, MarkClosed
<1>12. MarkInv
  BY <1>3, <1>9, <1>11 DEF MarkInv
<1>13. WeakInv
  BY <1>9, <1>2 DEF WeakInv
<1>14. IInv
  BY <1>5, <1>6, <1>7, <1>8, <1>10, <1>12, <1>13 DEF IInv
<1>15. EngineInv
  BY <1>2, <1>3, <1>4 DEF EngineInv, Commands, ParserOK
<1>16. EnvMarked /\ FirstStackInv
  BY <1>2, <1>3, <1>4 DEF EnvMarked, FirstStackInv, Unshared, EnvFirst, Copies
<1> QED
  BY <1>14, <1>15, <1>16 DEF ParserInv

LEMMA ParserStep == ASSUME ParserOK, ParserInv, [ParserNext]_allVars PROVE ParserInv'
<1>1. CASE UNCHANGED allVars
  <2>1. ParserInv /\ UNCHANGED <<vars, parserVars>>
    BY <1>1 DEF allVars
  <2>2. IInv'
    BY <2>1, StutterStep DEF ParserInv
  <2>3. UNCHANGED <<heap, tag, field, held, color, gc_phase, weak_arrays, calls, pc, cur, idx, roots>>
    BY <2>1 DEF vars, heapVars, cycleVars, callVars
  <2>4. V' = V /\ Dark' = Dark
    BY <2>3 DEF V, env, v_stack, Dark
  <2>5. EngineInv' /\ EnvMarked'
    BY <2>1, <2>3, <2>4 DEF ParserInv, EngineInv, EnvMarked, env, parserVars
  <2>6. FirstStackInv => FirstStackInv'
    BY <2>3, <2>4 DEF FirstStackInv, Unshared, EnvFirst, Copies, OnStack, env, v_stack
  <2> QED
    BY <2>1, <2>2, <2>5, <2>6 DEF ParserInv, parserVars
<1>2. CASE ParserNext
  BY <1>2, MakeStep, QuietStep, TokenStep, PushStep, ActionStep, GrownStep, MinorStep, CollectorParserStep DEF ParserNext
<1> QED
  BY <1>1, <1>2

LEMMA ParserMeans == ParserInv => NoDangling
BY ReachIsKept DEF ParserInv, NoDangling, Kept, NonBlue

(* Nothing that the parsing engine and its environment lead to is ever     *)
(* freed, whatever the automaton decides and however the stacks are grown, *)
(* if no token without an attribute is read once they have been.           *)
THEOREM ParserNoDanglingTheorem ==
  ASSUME ParserOK
  PROVE  ParserSpec => []NoDangling
<1>1. ParserInit => ParserInv
  BY ParserInitInv
<1>2. ParserInv /\ [ParserNext]_allVars => ParserInv'
  BY ParserStep
<1>3. ParserInv => NoDangling
  BY ParserMeans
<1> QED
  BY <1>1, <1>2, <1>3, PTL DEF ParserSpec

=============================================================================
