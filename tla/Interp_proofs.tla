--------------------------- MODULE Interp_proofs ---------------------------
(***************************************************************************)
(* The stack discipline of the interpreter: the chain of trap frames, the  *)
(* buffers and C roots that an exception restores, and pending signals.    *)
(***************************************************************************)
EXTENDS Interp, WellFoundedInduction, TLAPS

(* The bounds are natural numbers.                                         *)
BoundsOK ==
  MaxActive \in Nat \ {0} /\ MaxSlots \in Nat /\ MaxRoots \in Nat /\ MaxBreaks \in Nat

(* No signal arrives in the midst of ML code while in_blocking_section is  *)
(* set.  It is set there only after an exception has left a handler that   *)
(* ran in a blocking section.                                              *)
Undisturbed == in_blocking_section /\ breaks' # breaks => Top.kind = "C"

-----------------------------------------------------------------------------
(* The invariant.                                                          *)

IsML(d) == active[d].kind = "ML"

(* The links from trapsp on: each leads to the next trap frame below.      *)
ChainInv ==
  /\ trapsp[1] = stack
  /\ trapsp[2] = 0 \/ slot[trapsp[2]].kind = "trap"
  /\ \A n \in 1 .. trapsp[2] : slot[n].kind = "trap" =>
       /\ slot[n].link[1] = stack
       /\ slot[n].link[2] < n
       /\ slot[n].link[2] = 0 \/ slot[slot[n].link[2]].kind = "trap"
       /\ \A m \in 1 .. n - 1 : slot[m].kind = "trap" => m <= slot[n].link[2]

(* A trap frame lies in the part of the stack of its activation.           *)
OwnersInv ==
  \A n \in 1 .. trapsp[2] : slot[n].kind = "trap" =>
    /\ slot[n].owner \in 1 .. Depth
    /\ IsML(slot[n].owner)
    /\ active[slot[n].owner].initial_sp_offset < n
    /\ \A d \in 1 .. Depth : IsML(d) /\ d > slot[n].owner => n <= active[d].initial_sp_offset

(* e is the innermost interpreter of the first d activations.              *)
Innermost(e, d) ==
  /\ e \in 1 .. d /\ IsML(e)
  /\ \A k \in 1 .. d : k > e => ~ IsML(k)

(* What an interpreter has saved is what is to be restored: the buffer of  *)
(* the interpreter below, its C roots, and, in the offset where its part   *)
(* of the stack starts, the stack pointer; the slot there is the closure   *)
(* it was called with.                                                     *)
MLEntry(d) ==
  /\ active[d].initial_sp_offset <= active[d].sp[2]
  /\ IsRootsOf(active[d].initial_c_roots_head, d)
  /\ d = 1 => active[d].initial_sp_offset = 0 /\ active[d].initial_external_raise = 0
  /\ d > 1 =>
       /\ ~ IsML(d - 1)
       /\ Innermost(active[d].initial_external_raise, d - 1)
       /\ active[d].initial_sp_offset = active[active[d].initial_external_raise].sp[2] + 1
       /\ \A e \in 1 .. d - 1 : IsML(e) => active[e].sp[2] < active[d].initial_sp_offset
       /\ slot[active[d].initial_sp_offset].kind = "value"

(* A C function is called from compiled code, which has pushed its         *)
(* environment; the handler of a signal runs on a C function.              *)
CEntry(d) ==
  /\ d > 1
  /\ IF active[d].mode = "handler" THEN ~ IsML(d - 1)
     ELSE /\ IsML(d - 1) /\ active[d - 1].mode = "run"
          /\ active[d - 1].initial_sp_offset < active[d - 1].sp[2]
          /\ slot[active[d - 1].sp[2]].kind = "value"

Entry(d) == IF IsML(d) THEN MLEntry(d) ELSE CEntry(d)

TopInv ==
  active # << >> =>
    /\ Innermost(external_raise, Depth)
    /\ IF Top.kind = "C" THEN extern_sp = <<stack, active[external_raise].sp[2]>>
       ELSE Top.mode # "raise" => Top.sp[1] = stack
    /\ trapsp[2] <= InUse
    /\ \A n \in 1 .. InUse : n > trapsp[2] => slot[n].kind = "value"

InterpInv ==
  /\ TypeOK
  /\ ChainInv
  /\ active # << >> => OwnersInv
  /\ \A d \in 1 .. Depth : Entry(d)
  /\ TopInv
  /\ RootsLive
  /\ PendingSeen

-----------------------------------------------------------------------------
(* Numbers.                                                                *)

LEMMA Least ==
  ASSUME NEW T \in SUBSET Nat, T # {}
  PROVE  \E m \in T : \A n \in T : m <= n
<1> DEFINE R == {ss \in Nat \X Nat : ss[1] < ss[2]}
<1>1. IsWellFoundedOn(R, Nat)
  BY NatLessThanWellFounded DEF OpToRel
<1> HIDE DEF R
<1>2. PICK m \in T : \A n \in T : ~ (<<n, m>> \in R)
  BY <1>1, WFMin
<1>3. \A n \in T : <<n, m>> \in R <=> n < m
  BY DEF R
<1>4. \A n \in T : ~ (n < m) /\ n \in Nat /\ m \in Nat
  BY <1>2, <1>3
<1>5. \A n \in T : m <= n
  BY <1>4
<1> QED
  BY <1>5

LEMMA Greatest ==
  ASSUME NEW N \in Nat, NEW T \in SUBSET (0 .. N), T # {}
  PROVE  \E m \in T : \A n \in T : n <= m
<1> DEFINE U == {k \in Nat : \E n \in T : k = N - n}
<1>1. U \in SUBSET Nat /\ U # {}
  <2>1. PICK n \in T : TRUE
    OBVIOUS
  <2>2. N - n \in Nat
    OBVIOUS
  <2> QED
    BY <2>1, <2>2
<1>2. PICK k \in U : \A l \in U : k <= l
  BY <1>1, Least
<1>3. PICK m \in T : k = N - m
  OBVIOUS
<1>4. ASSUME NEW n \in T PROVE n <= m
  <2>1. N - n \in Nat
    OBVIOUS
  <2>2. N - n \in U
    BY <2>1
  <2>3. k <= N - n
    BY <1>2, <2>2
  <2>4. m \in Nat /\ n \in Nat
    OBVIOUS
  <2> QED
    BY <2>3, <2>4, <1>3
<1> QED
  BY <1>4

LEMMA MinOfTwo ==
  ASSUME NEW a \in Nat, NEW b \in Nat
  PROVE  Min({a, b}) \in Nat /\ Min({a, b}) <= a /\ Min({a, b}) <= b
<1>1. \E x \in {a, b} : \A y \in {a, b} : x <= y
  OBVIOUS
<1>2. Min({a, b}) \in {a, b} /\ \A y \in {a, b} : Min({a, b}) <= y
  BY <1>1 DEF Min
<1> QED
  BY <1>2

LEMMA MaxIs ==
  ASSUME NEW S \in SUBSET Nat, NEW m \in S, \A x \in S : x <= m
  PROVE  Max(S) = m
<1>1. \E x \in S : \A y \in S : x >= y
  OBVIOUS
<1>2. Max(S) \in S /\ \A y \in S : Max(S) >= y
  BY <1>1 DEF Max
<1>3. PICK x : x = Max(S)
  OBVIOUS
<1>4. x \in S /\ x >= m /\ x <= m
  BY <1>2, <1>3
<1>5. x \in Nat /\ m \in Nat
  BY <1>4
<1>6. x = m
  BY <1>4, <1>5
<1> QED
  BY <1>3, <1>6

-----------------------------------------------------------------------------
(* The invariant gives the properties.                                     *)

Frames == {n \in 1 .. trapsp[2] : slot[n].kind = "trap"}

LEMMA SlotIs ==
  ASSUME BoundsOK, TypeOK
  PROVE  /\ trapsp = <<trapsp[1], trapsp[2]>> /\ trapsp[1] \in Nat /\ trapsp[2] \in 0 .. MaxSlots
         /\ extern_sp = <<extern_sp[1], extern_sp[2]>> /\ extern_sp[1] \in Nat /\ extern_sp[2] \in 0 .. MaxSlots
         /\ \A n \in Slots : slot[n].kind = "trap" =>
              /\ slot[n].link = <<slot[n].link[1], slot[n].link[2]>>
              /\ slot[n].link[1] \in Nat /\ slot[n].link[2] \in 0 .. MaxSlots
              /\ slot[n].owner \in Depths
              /\ slot[n] \in Trap
         /\ \A n \in Slots : slot[n].kind \in {"trap", "value"}
<1>1. ASSUME NEW n \in Slots
      PROVE  slot[n] \in Value \cup Trap
  BY DEF TypeOK
<1>2. ASSUME NEW n \in Slots, slot[n].kind = "trap"
      PROVE  slot[n] \in Trap /\ slot[n].link \in Pointers /\ slot[n].owner \in Depths
  BY <1>1, <1>2 DEF Value, Trap
<1> QED
  BY <1>1, <1>2 DEF TypeOK, Pointers, Value, Trap, BoundsOK

(* The links lead to every trap frame from trapsp on, and to no other slot. *)
LEMMA FramesAre ==
  ASSUME BoundsOK, TypeOK, ChainInv
  PROVE  TrapFrames = Frames
<1>t. /\ trapsp[2] \in 0 .. MaxSlots /\ MaxSlots \in Nat
      /\ \A n \in Slots : slot[n].kind = "trap" => slot[n].link[2] \in 0 .. MaxSlots
  BY SlotIs DEF BoundsOK
<1>1. Frames \subseteq Slots
  BY <1>t DEF Frames, Slots
<1>2. ASSUME NEW n \in TrapFrames
      PROVE  n \in Frames
  <2>1. Frames \cup {0} \in SUBSET (0 .. MaxSlots)
    BY <1>1, <1>t DEF Slots
  <2>2. trapsp[2] \in Frames \cup {0}
    BY <1>t DEF ChainInv, Frames
  <2>3. ASSUME NEW m \in (Frames \cup {0}) \ {0}
        PROVE  slot[m].link[2] \in Frames \cup {0}
    <3>1. m \in 1 .. trapsp[2] /\ slot[m].kind = "trap"
      BY DEF Frames
    <3>2. slot[m].link[2] < m /\ (slot[m].link[2] = 0 \/ slot[slot[m].link[2]].kind = "trap")
      BY <3>1 DEF ChainInv
    <3>3. slot[m].link[2] \in 0 .. MaxSlots
      BY <1>t, <1>1, <3>1 DEF Frames
    <3> QED
      BY <3>1, <3>2, <3>3, <1>t DEF Frames
  <2>4. n \in Frames \cup {0} /\ n \in Slots
    BY <2>1, <2>2, <2>3 DEF TrapFrames
  <2> QED
    BY <2>4 DEF Slots
<1>3. ASSUME NEW n \in Frames
      PROVE  n \in TrapFrames
  <2>1. SUFFICES ASSUME NEW S \in SUBSET (0 .. MaxSlots), trapsp[2] \in S,
                        \A m \in S \ {0} : slot[m].kind = "trap" => slot[m].link[2] \in S
                 PROVE  Frames \subseteq S
    BY <1>1 DEF TrapFrames
  <2>2. SUFFICES ASSUME Frames \ S # {} PROVE FALSE
    OBVIOUS
  <2>3. PICK k \in Frames \ S : \A m \in Frames \ S : m <= k
    <3>1. Frames \ S \in SUBSET (0 .. MaxSlots)
      BY <1>1, <1>t DEF Slots
    <3> QED
      BY <3>1, <2>2, <1>t, Greatest
  <2> DEFINE Above == {m \in Frames : m > k}
  <2>4. trapsp[2] \in Above
    BY <2>3, <2>1, <1>t DEF Frames, ChainInv
  <2>5. PICK l \in Above : \A m \in Above : l <= m
    <3>1. Slots \subseteq Nat
      BY <1>t DEF Slots
    <3>2. Above \subseteq Nat
      BY <1>1, <3>1
    <3>3. Above # {}
      BY <2>4
    <3> HIDE DEF Above
    <3> QED
      BY <3>2, <3>3, Least
  <2>6. l \in Frames /\ l > k /\ l \in Nat /\ k \in Nat /\ l \in 1 .. trapsp[2] /\ slot[l].kind = "trap"
        /\ k \in 1 .. trapsp[2] /\ slot[k].kind = "trap"
    BY <2>5, <2>3, <1>1 DEF Frames, Slots
  <2>7. l \in S
    BY <2>6, <2>3
  <2>8. slot[l].link[2] \in S
    BY <2>1, <2>6, <2>7
  <2>9. k <= slot[l].link[2] /\ slot[l].link[2] < l /\ slot[l].link[2] \in 0 .. MaxSlots
        /\ (slot[l].link[2] = 0 \/ slot[slot[l].link[2]].kind = "trap")
    BY <2>6, <1>1, <1>t DEF ChainInv
  <2>10. slot[l].link[2] \in Frames
    BY <2>9, <2>6, <1>t DEF Frames
  <2>11. slot[l].link[2] # k
    BY <2>8, <2>3
  <2>12. slot[l].link[2] \in Above
    BY <2>9, <2>10, <2>11, <2>6
  <2> QED
    BY <2>12, <2>5, <2>9, <2>6
<1> QED
  BY <1>2, <1>3

LEMMA ActivationIs ==
  ASSUME BoundsOK, TypeOK
  PROVE  /\ Depth \in Nat /\ Depth \in 0 .. MaxActive /\ (active # << >> <=> Depth > 0)
         /\ active # << >> => Top = active[Depth]
         /\ \A d \in 1 .. Depth :
              /\ active[d].kind \in {"C", "ML"}
              /\ active[d] \in C \cup interprete
              /\ IsML(d) => active[d] \in interprete
              /\ active[d].kind = "C" => active[d] \in C
<1>1. active \in Seq(C \cup interprete) /\ Depth \in Nat
  BY DEF TypeOK, Depth
<1>2. active # << >> <=> Depth > 0
  BY <1>1 DEF Depth
<1>3. ASSUME NEW d \in 1 .. Depth
      PROVE  /\ active[d].kind \in {"C", "ML"}
             /\ active[d] \in C \cup interprete
             /\ IsML(d) => active[d] \in interprete
             /\ active[d].kind = "C" => active[d] \in C
  <2>1. active[d] \in C \cup interprete
    BY <1>1 DEF Depth
  <2> QED
    BY <2>1 DEF C, interprete, IsML
<1> QED
  BY <1>1, <1>2, <1>3 DEF TypeOK, Depth, Top, Last, BoundsOK

LEMMA InterpreteIs ==
  ASSUME BoundsOK, NEW a \in interprete
  PROVE  /\ a.kind = "ML"
         /\ a.mode \in {"run", "raise", "process_signal", "none_pending", "one_pending"}
         /\ a.sp = <<a.sp[1], a.sp[2]>> /\ a.sp[1] \in Nat /\ a.sp[2] \in 0 .. MaxSlots /\ a.sp[2] \in Nat
         /\ a.sp \in Pointers
         /\ a.initial_sp_offset \in 0 .. MaxSlots /\ a.initial_sp_offset \in Nat
         /\ a.initial_external_raise \in Depths
         /\ a.initial_c_roots_head \in Seq(CRoots)
  BY DEF interprete, Pointers, BoundsOK

LEMMA CIs ==
  ASSUME BoundsOK, NEW a \in C
  PROVE  /\ a.kind = "C"
         /\ a.mode \in {"run", "entering", "blocking", "handler"}
         /\ a.roots \in 0 .. MaxRoots /\ a.roots \in Nat
  BY DEF C, BoundsOK

LEMMA TopIs ==
  ASSUME BoundsOK, InterpInv, active # << >>
  PROVE  /\ external_raise \in 1 .. Depth /\ IsML(external_raise)
         /\ \A d \in 1 .. Depth : IsML(d) => d <= external_raise
         /\ active[external_raise] \in interprete
         /\ InUse \in 0 .. MaxSlots /\ trapsp[2] \in 0 .. InUse
         /\ Top.kind = "ML" => external_raise = Depth
         /\ Top.kind = "C" => Top \in C /\ InUse = active[external_raise].sp[2] /\ extern_sp[2] = InUse
         /\ Top.kind \in {"C", "ML"}
<1>1. TypeOK /\ TopInv
  BY DEF InterpInv
<1>2. external_raise \in 1 .. Depth /\ IsML(external_raise) /\ \A k \in 1 .. Depth : k > external_raise => ~ IsML(k)
  BY <1>1 DEF TopInv, Innermost
<1>3. active[external_raise] \in interprete /\ Depth \in Nat /\ Depth > 0 /\ Top = active[Depth] /\ Depth \in 1 .. Depth
  BY <1>1, <1>2, ActivationIs
<1>4. Top.kind \in {"C", "ML"} /\ (Top.kind = "C" => Top \in C) /\ (Top.kind = "ML" => Top \in interprete)
  BY <1>1, <1>3, ActivationIs DEF IsML
<1>5. Top.kind = "ML" => external_raise = Depth
  BY <1>2, <1>3 DEF IsML
<1>6. \A d \in 1 .. Depth : IsML(d) => d <= external_raise
  BY <1>2, <1>3
<1>7. Top.kind = "C" => InUse = active[external_raise].sp[2] /\ extern_sp[2] = InUse
  BY <1>1 DEF TopInv, InUse
<1>8. InUse \in 0 .. MaxSlots
  <2>1. CASE Top.kind = "C"
    BY <2>1, <1>7, <1>3, InterpreteIs
  <2>2. CASE Top.kind = "ML" /\ Top.mode = "raise"
    BY <2>2, SlotIs, <1>1 DEF InUse
  <2>3. CASE Top.kind = "ML" /\ Top.mode # "raise"
    BY <2>3, <1>4, InterpreteIs DEF InUse
  <2> QED
    BY <2>1, <2>2, <2>3, <1>4
<1>9. trapsp[2] \in 0 .. InUse
  BY <1>1, <1>8, SlotIs DEF TopInv, BoundsOK
<1> QED
  BY <1>2, <1>3, <1>4, <1>5, <1>6, <1>7, <1>8, <1>9

LEMMA BelowIs ==
  ASSUME BoundsOK, InterpInv, NEW d \in 1 .. Depth, IsML(d), d < Depth
  PROVE  /\ active[d].mode = "run" /\ active[d].initial_sp_offset < active[d].sp[2]
         /\ slot[active[d].sp[2]].kind = "value" /\ ~ IsML(d + 1)
<1>1. Depth \in Nat /\ d + 1 \in 1 .. Depth
  BY ActivationIs DEF InterpInv
<1>2. (d + 1) - 1 = d /\ d + 1 > 1
  OBVIOUS
<1>3. Entry(d + 1)
  BY <1>1 DEF InterpInv
<1>4. ~ IsML(d + 1)
  BY <1>2, <1>3 DEF Entry, MLEntry
<1> QED
  BY <1>2, <1>3, <1>4 DEF Entry, CEntry

(* The invariant implies the properties.                                   *)
LEMMA InvImplies ==
  ASSUME BoundsOK, InterpInv
  PROVE  StackDiscipline /\ RaiseTarget /\ PendingSeen
<1>1. TypeOK /\ ChainInv /\ TopInv /\ (active # << >> => OwnersInv) /\ PendingSeen
  BY DEF InterpInv
<1>2. TrapFrames = Frames
  BY <1>1, FramesAre
<1>3. NoStaleStack
  <2>1. trapsp[1] = stack /\ \A n \in TrapFrames : slot[n].link[1] = stack
    BY <1>1, <1>2 DEF ChainInv, Frames
  <2>2. active # << >> /\ Top.kind = "C" => extern_sp[1] = stack
    BY <1>1 DEF TopInv
  <2>3. active # << >> /\ Top.kind # "C" => (Top.mode # "raise" => Top.sp[1] = stack)
    BY <1>1 DEF TopInv
  <2> QED
    BY <2>1, <2>2, <2>3 DEF NoStaleStack
<1>4. CASE active = << >>
  <2>1. TrapChain /\ SpIsExtern /\ BufferLive
    BY <1>4 DEF TrapChain, SpIsExtern, BufferLive
  <2>2. RootsLive
    BY DEF InterpInv
  <2> QED
    BY <2>1, <2>2, <1>1, <1>3 DEF StackDiscipline, RaiseTarget
<1>5. CASE active # << >>
  <2>1. /\ external_raise \in 1 .. Depth /\ IsML(external_raise)
        /\ \A d \in 1 .. Depth : IsML(d) => d <= external_raise
        /\ InUse \in 0 .. MaxSlots /\ trapsp[2] \in 0 .. InUse /\ MaxSlots \in Nat /\ Depth \in Nat
    BY <1>1, <1>5, TopIs, ActivationIs DEF BoundsOK
  <2>2. TrapChain
    <3>1. Frames = {n \in 1 .. InUse : slot[n].kind = "trap"}
      BY <1>1, <1>5, <2>1 DEF TopInv, Frames
    <3>2. ASSUME NEW n \in Frames
          PROVE  /\ n <= trapsp[2] /\ slot[n].link[2] < n
                 /\ slot[n].owner \in Activations
                 /\ active[slot[n].owner].initial_sp_offset < n
                 /\ \A d \in Activations : d > slot[n].owner => n <= active[d].initial_sp_offset
      BY <1>1, <1>5, <2>1 DEF Frames, ChainInv, OwnersInv, Activations, IsML
    <3> QED
      BY <1>2, <3>1, <3>2 DEF TrapChain
  <2>3. BufferLive
    BY <2>1 DEF BufferLive, Activations, IsML
  <2>4. SpIsExtern
    <3>1. Activations \in SUBSET Nat /\ external_raise \in Activations /\ \A d \in Activations : d <= external_raise
      BY <2>1 DEF Activations, IsML
    <3>2. Max(Activations) = external_raise
      BY <3>1, MaxIs
    <3>3. Top.kind = "C" => extern_sp[2] = active[external_raise].sp[2]
      BY <1>1, <1>5 DEF TopInv
    <3> QED
      BY <3>2, <3>3 DEF SpIsExtern
  <2>5. RootsLive
    BY DEF InterpInv
  <2> QED
    BY <2>2, <2>3, <2>4, <2>5, <1>1, <1>3 DEF StackDiscipline, RaiseTarget
<1> QED
  BY <1>4, <1>5

-----------------------------------------------------------------------------
(* What a step leaves alone.                                               *)

LEMMA RootsKept ==
  ASSUME NEW r, NEW d \in Nat, IsRootsOf(r, d),
         \A i \in 1 .. d : /\ active'[i].kind = active[i].kind
                           /\ active[i].kind = "C" => active'[i].roots = active[i].roots
  PROVE  IsRootsOf(r, d)'
<1>1. RootsOf(d)' = RootsOf(d)
  <2>1. ASSUME NEW q \in (1 .. d) \X (1 .. MaxRoots)
        PROVE  /\ q[1] \in 1 .. d
               /\ active'[q[1]].kind = "C" /\ q[2] <= active'[q[1]].roots
                  <=> active[q[1]].kind = "C" /\ q[2] <= active[q[1]].roots
    OBVIOUS
  <2> QED
    BY <2>1 DEF RootsOf
<1> QED
  BY <1>1 DEF IsRootsOf, Later, Range

(* An activation that has no roots, above the others.                      *)
LEMMA RootsNext ==
  ASSUME NEW d \in Nat, d > 0, active[d].kind # "C" \/ active[d].roots = 0
  PROVE  RootsOf(d) = RootsOf(d - 1)
<1>1. ASSUME NEW q \in (1 .. d) \X (1 .. MaxRoots), q \in RootsOf(d)
      PROVE  q[1] \in 1 .. d - 1
  BY <1>1 DEF RootsOf
<1> QED
  BY <1>1 DEF RootsOf

LEMMA RootsNextPrime ==
  ASSUME NEW d \in Nat, d > 0, active'[d].kind # "C" \/ active'[d].roots = 0
  PROVE  RootsOf(d)' = RootsOf(d - 1)'
<1>1. ASSUME NEW q \in (1 .. d) \X (1 .. MaxRoots), q \in RootsOf(d)'
      PROVE  q[1] \in 1 .. d - 1
  BY <1>1 DEF RootsOf
<1> QED
  BY <1>1 DEF RootsOf

LEMMA EntriesKept ==
  ASSUME BoundsOK, TypeOK, NEW n \in Nat, n <= Depth,
         \A i \in 1 .. n : active'[i] = active[i],
         \A i \in 1 .. n : Entry(i),
         \A i \in 1 .. n : IsML(i) =>
           /\ slot'[active[i].initial_sp_offset].kind = slot[active[i].initial_sp_offset].kind \/ i = 1
           /\ slot'[active[i].sp[2]].kind = slot[active[i].sp[2]].kind \/ i = n
  PROVE  \A i \in 1 .. n : Entry(i)'
<1> SUFFICES ASSUME NEW i \in 1 .. n
             PROVE  Entry(i)'
  OBVIOUS
<1>1. i \in Nat /\ Depth \in Nat /\ \A k \in 1 .. i : k \in 1 .. n
  BY ActivationIs
<1>2. active'[i] = active[i] /\ Entry(i) /\ IsML(i)' = IsML(i)
  BY DEF IsML
<1>3. \A k \in 1 .. i : active'[k] = active[k] /\ IsML(k)' = IsML(k)
  BY <1>1 DEF IsML
<1>4. CASE IsML(i)
  <2>1. MLEntry(i)
    BY <1>2, <1>4 DEF Entry
  <2>2. IsRootsOf(active[i].initial_c_roots_head, i)'
    <3>1. PICK r : r = active[i].initial_c_roots_head
      OBVIOUS
    <3>2. IsRootsOf(r, i)
      BY <2>1, <3>1 DEF MLEntry
    <3>3. IsRootsOf(r, i)'
      BY <3>2, <1>1, <1>3, RootsKept
    <3>4. active'[i].initial_c_roots_head = r
      BY <1>2, <3>1
    <3> QED
      BY <3>3, <3>4 DEF IsRootsOf
  <2>3. i > 1 => /\ (~ IsML(i - 1))'
                 /\ Innermost(active[i].initial_external_raise, i - 1)'
                 /\ active'[i].initial_sp_offset = active'[active'[i].initial_external_raise].sp[2] + 1
                 /\ \A e \in 1 .. i - 1 : IsML(e)' => active'[e].sp[2] < active'[i].initial_sp_offset
                 /\ slot'[active'[i].initial_sp_offset].kind = "value"
    <3> SUFFICES ASSUME i > 1
                 PROVE  /\ (~ IsML(i - 1))'
                        /\ Innermost(active[i].initial_external_raise, i - 1)'
                        /\ active'[i].initial_sp_offset = active'[active'[i].initial_external_raise].sp[2] + 1
                        /\ \A e \in 1 .. i - 1 : IsML(e)' => active'[e].sp[2] < active'[i].initial_sp_offset
                        /\ slot'[active'[i].initial_sp_offset].kind = "value"
      OBVIOUS
    <3>1. i - 1 \in 1 .. i /\ \A k \in 1 .. i - 1 : k \in 1 .. i
      BY <1>1
    <3>2. (~ IsML(i - 1))'
      BY <2>1, <3>1, <1>3 DEF MLEntry
    <3>3. Innermost(active[i].initial_external_raise, i - 1)
      BY <2>1 DEF MLEntry
    <3>4. active[i].initial_external_raise \in 1 .. i
      BY <3>1, <3>3 DEF Innermost
    <3>5. Innermost(active[i].initial_external_raise, i - 1)'
      BY <3>1, <3>3, <3>4, <1>2, <1>3 DEF Innermost
    <3>6. active'[i].initial_sp_offset = active'[active'[i].initial_external_raise].sp[2] + 1
      BY <2>1, <3>4, <1>2, <1>3 DEF MLEntry
    <3>7. \A e \in 1 .. i - 1 : IsML(e)' => active'[e].sp[2] < active'[i].initial_sp_offset
      BY <2>1, <3>1, <1>2, <1>3 DEF MLEntry
    <3>8. slot'[active'[i].initial_sp_offset].kind = "value"
      BY <2>1, <1>2, <1>4, <1>1 DEF MLEntry
    <3> QED
      BY <3>2, <3>5, <3>6, <3>7, <3>8
  <2>4. MLEntry(i)'
    BY <2>1, <2>2, <2>3, <1>2 DEF MLEntry
  <2> QED
    BY <2>4, <1>2, <1>4 DEF Entry
<1>5. CASE ~ IsML(i)
  <2>1. CEntry(i)
    BY <1>2, <1>5 DEF Entry
  <2>2. i > 1 /\ i - 1 \in 1 .. i /\ i - 1 \in 1 .. n /\ i - 1 # n
    BY <2>1, <1>1 DEF CEntry
  <2>3. CEntry(i)'
    BY <2>1, <2>2, <1>2, <1>3 DEF CEntry
  <2> QED
    BY <2>3, <1>2, <1>5 DEF Entry
<1> QED
  BY <1>4, <1>5

LEMMA ChainKept ==
  ASSUME BoundsOK, TypeOK, ChainInv, trapsp' = trapsp, stack' = stack,
         \A m \in 1 .. trapsp[2] : slot'[m] = slot[m]
  PROVE  ChainInv'
<1>1. trapsp[2] \in 0 .. MaxSlots /\ MaxSlots \in Nat
      /\ \A n \in Slots : slot[n].kind = "trap" => slot[n].link[2] \in 0 .. MaxSlots
  BY SlotIs DEF BoundsOK
<1>2. trapsp[2] \in 1 .. trapsp[2] \/ trapsp[2] = 0
  BY <1>1
<1>3. ASSUME NEW n \in 1 .. trapsp[2], slot'[n].kind = "trap"
      PROVE  /\ slot'[n].link[1] = stack
             /\ slot'[n].link[2] < n
             /\ slot'[n].link[2] = 0 \/ slot'[slot'[n].link[2]].kind = "trap"
             /\ \A m \in 1 .. n - 1 : slot'[m].kind = "trap" => m <= slot'[n].link[2]
  <2>1. slot'[n] = slot[n] /\ \A m \in 1 .. n - 1 : slot'[m] = slot[m]
    BY <1>1
  <2>2. /\ slot[n].link[1] = stack /\ slot[n].link[2] < n
        /\ slot[n].link[2] = 0 \/ slot[slot[n].link[2]].kind = "trap"
        /\ \A m \in 1 .. n - 1 : slot[m].kind = "trap" => m <= slot[n].link[2]
        /\ slot[n].link[2] \in 0 .. MaxSlots
    BY <1>1, <1>3, <2>1 DEF ChainInv, Slots
  <2>3. slot[n].link[2] = 0 \/ slot[n].link[2] \in 1 .. n - 1
    BY <2>2
  <2> QED
    BY <2>1, <2>2, <2>3
<1> QED
  BY <1>2, <1>3 DEF ChainInv

(* The activations that are left, or that appear above, as far as they     *)
(* have to do with trap frames.                                            *)
LEMMA OwnersKept ==
  ASSUME BoundsOK, TypeOK, active # << >> => OwnersInv, active # << >>, NEW t \in Nat, t = trapsp'[2],
         t <= trapsp[2], Depth' \in Nat,
         \A m \in 1 .. t : /\ slot'[m].kind = slot[m].kind
                           /\ slot[m].kind = "trap" => slot'[m].owner = slot[m].owner,
         \A d \in 1 .. Depth : IsML(d) =>
           \/ t <= active[d].initial_sp_offset
           \/ d \in 1 .. Depth' /\ IsML(d)' /\ active'[d].initial_sp_offset = active[d].initial_sp_offset,
         \A d \in 1 .. Depth' : IsML(d)' =>
           \/ active'[d].initial_sp_offset \in Nat /\ t <= active'[d].initial_sp_offset
           \/ d \in 1 .. Depth /\ IsML(d) /\ active'[d].initial_sp_offset = active[d].initial_sp_offset
  PROVE  OwnersInv'
<1>1. trapsp[2] \in 0 .. MaxSlots /\ MaxSlots \in Nat /\ Depth \in Nat
  BY SlotIs, ActivationIs DEF BoundsOK
<1> SUFFICES ASSUME NEW n \in 1 .. t, slot'[n].kind = "trap"
             PROVE  /\ slot'[n].owner \in 1 .. Depth'
                    /\ IsML(slot[n].owner)'
                    /\ active'[slot'[n].owner].initial_sp_offset < n
                    /\ \A d \in 1 .. Depth' : IsML(d)' /\ d > slot'[n].owner => n <= active'[d].initial_sp_offset
  BY DEF OwnersInv, IsML
<1>2. n \in 1 .. trapsp[2] /\ slot[n].kind = "trap" /\ slot'[n].owner = slot[n].owner /\ n <= t /\ n \in Nat
  BY <1>1
<1>3. PICK o : o = slot[n].owner
  OBVIOUS
<1>4. /\ o \in 1 .. Depth /\ IsML(o) /\ active[o].initial_sp_offset < n
      /\ \A d \in 1 .. Depth : IsML(d) /\ d > o => n <= active[d].initial_sp_offset
  BY <1>2, <1>3 DEF OwnersInv
<1>5. active[o] \in interprete
  BY <1>4, ActivationIs
<1>6. active[o].initial_sp_offset \in Nat
  BY <1>5, InterpreteIs
<1>7. ~ (t <= active[o].initial_sp_offset)
  BY <1>2, <1>4, <1>6
<1>8. o \in 1 .. Depth' /\ IsML(o)' /\ active'[o].initial_sp_offset = active[o].initial_sp_offset
  BY <1>4, <1>7
<1>9. ASSUME NEW d \in 1 .. Depth', IsML(d)', d > o
      PROVE  n <= active'[d].initial_sp_offset
  <2>1. CASE active'[d].initial_sp_offset \in Nat /\ t <= active'[d].initial_sp_offset
    BY <2>1, <1>2
  <2>2. CASE d \in 1 .. Depth /\ IsML(d) /\ active'[d].initial_sp_offset = active[d].initial_sp_offset
    BY <2>2, <1>4, <1>9
  <2> QED
    BY <2>1, <2>2, <1>9
<1> QED
  BY <1>2, <1>3, <1>4, <1>8, <1>9

-----------------------------------------------------------------------------
(* The stack of activations after a step.                                  *)

LEMMA Bounded ==
  ASSUME BoundsOK, InterpInv, active # << >>, ~ (Top.kind = "ML" /\ Top.mode = "raise")
  PROVE  \A i \in 1 .. Depth : IsML(i) =>
           /\ active[i].initial_sp_offset \in 0 .. InUse
           /\ active[i].sp[2] \in 0 .. InUse
           /\ i > 1 => active[i].initial_sp_offset \in 1 .. InUse
           /\ i < Depth => active[i].sp[2] \in 1 .. InUse
<1>1. /\ external_raise \in 1 .. Depth /\ IsML(external_raise)
      /\ \A d \in 1 .. Depth : IsML(d) => d <= external_raise
      /\ InUse \in 0 .. MaxSlots /\ MaxSlots \in Nat /\ Depth \in Nat
      /\ \A d \in 1 .. Depth : IsML(d) => active[d] \in interprete
  BY TopIs, ActivationIs DEF InterpInv, BoundsOK
<1>2. active[external_raise].sp[2] = InUse
  BY TopIs, ActivationIs DEF InUse, InterpInv
<1>3. Entry(external_raise) /\ MLEntry(external_raise)
  BY <1>1 DEF InterpInv, Entry
<1> SUFFICES ASSUME NEW i \in 1 .. Depth, IsML(i)
             PROVE  /\ active[i].initial_sp_offset \in 0 .. InUse
                    /\ active[i].sp[2] \in 0 .. InUse
                    /\ i > 1 => active[i].initial_sp_offset \in 1 .. InUse
                    /\ i < Depth => active[i].sp[2] \in 1 .. InUse
  OBVIOUS
<1>4. MLEntry(i)
  BY DEF InterpInv, Entry
<1>5. active[i].sp[2] \in Nat /\ active[i].initial_sp_offset \in Nat /\ active[external_raise].initial_sp_offset \in Nat
  BY <1>1, InterpreteIs
<1>6. active[i].initial_sp_offset <= active[i].sp[2]
  BY <1>4 DEF MLEntry
<1>7. active[i].sp[2] <= InUse
  <2>1. CASE i = external_raise
    BY <2>1, <1>2, <1>1
  <2>2. CASE i # external_raise
    <3>1. i <= external_raise /\ external_raise > 1 /\ i \in 1 .. external_raise - 1
      BY <1>1, <2>2
    <3>2. /\ active[external_raise].initial_sp_offset <= active[external_raise].sp[2]
          /\ active[i].sp[2] < active[external_raise].initial_sp_offset
      BY <3>1, <1>3 DEF MLEntry
    <3> QED
      BY <3>2, <1>2, <1>5, <1>1
  <2> QED
    BY <2>1, <2>2
<1>8. i > 1 => active[i].initial_sp_offset > 0
  <2> SUFFICES ASSUME i > 1 PROVE active[i].initial_sp_offset > 0
    OBVIOUS
  <2>1. PICK e : e = active[i].initial_external_raise
    OBVIOUS
  <2>2. Innermost(e, i - 1) /\ active[i].initial_sp_offset = active[e].sp[2] + 1
    BY <1>4, <2>1 DEF MLEntry
  <2>3. e \in 1 .. Depth /\ IsML(e)
    BY <2>2, <1>1 DEF Innermost
  <2>4. active[e].sp[2] \in Nat
    BY <2>3, <1>1, InterpreteIs
  <2> QED
    BY <2>2, <2>4
<1>9. i < Depth => active[i].sp[2] > 0
  <2>1. i < Depth => active[i].initial_sp_offset < active[i].sp[2]
    BY BelowIs
  <2> QED
    BY <2>1, <1>5
<1> QED
  BY <1>5, <1>6, <1>7, <1>8, <1>9, <1>1

LEMMA ReplacedIs ==
  ASSUME BoundsOK, TypeOK, active # << >>, NEW a \in C \cup interprete, TopBecomes(a)
  PROVE  /\ active' \in Seq(C \cup interprete) /\ Len(active') <= MaxActive /\ active' # << >>
         /\ Depth' = Depth /\ Top' = a /\ active'[Depth] = a
         /\ \A i \in 1 .. Depth - 1 : active'[i] = active[i]
<1>1. active \in Seq(C \cup interprete) /\ Len(active) <= MaxActive /\ Len(active) > 0 /\ Len(active) \in Nat
  BY DEF TypeOK
<1>2. active' = [active EXCEPT ![Len(active)] = a]
  BY DEF TopBecomes, Depth
<1>3. active' \in Seq(C \cup interprete) /\ Len(active') = Len(active) /\ active'[Len(active)] = a
      /\ \A i \in 1 .. Len(active) - 1 : active'[i] = active[i]
  BY <1>1, <1>2
<1> QED
  BY <1>1, <1>3 DEF Depth, Top, Last

LEMMA PushedIs ==
  ASSUME BoundsOK, TypeOK, NEW p \in Pointers, NEW v \in Value \cup Trap, PushSlot(p, v)
  PROVE  /\ slot' \in [Slots -> Value \cup Trap]
         /\ p[2] \in 0 .. MaxSlots - 1 /\ p[2] + 1 \in Slots
         /\ slot'[p[2] + 1] = v
         /\ \A m \in Slots : m # p[2] + 1 => slot'[m] = slot[m]
         /\ \A m \in 1 .. p[2] : slot'[m] = slot[m]
<1>1. p[2] \in 0 .. MaxSlots /\ p[2] < MaxSlots /\ MaxSlots \in Nat
  BY DEF Pointers, PushSlot, BoundsOK
<1>2. slot' = [slot EXCEPT ![p[2] + 1] = v] /\ slot \in [Slots -> Value \cup Trap]
  BY DEF PushSlot, TypeOK
<1>3. p[2] + 1 \in Slots /\ \A m \in 1 .. p[2] : m \in Slots /\ m # p[2] + 1
  BY <1>1 DEF Slots
<1> QED
  BY <1>1, <1>2, <1>3

LEMMA ValueIs == aValue \in Value /\ aValue.kind = "value"
  BY DEF aValue, Value

LEMMA PointerMoves ==
  ASSUME BoundsOK, NEW p \in Pointers
  PROVE  /\ p[2] < MaxSlots => /\ Down(p, 1) \in Pointers /\ Down(p, 1)[1] = p[1] /\ Down(p, 1)[2] = p[2] + 1
         /\ p[2] > 0 => /\ Up(p, 1) \in Pointers /\ Up(p, 1)[1] = p[1] /\ Up(p, 1)[2] = p[2] - 1
  BY DEF Pointers, Down, Up, BoundsOK

(* What an interpreter has saved when it was entered.                      *)
SameBase(a, b) ==
  /\ a.initial_sp_offset = b.initial_sp_offset
  /\ a.initial_external_raise = b.initial_external_raise
  /\ a.initial_c_roots_head = b.initial_c_roots_head

At(a, p)     == [a EXCEPT !.sp = p]
InMode(a, m) == [a EXCEPT !.mode = m]

LEMMA SpBecomes ==
  ASSUME NEW a \in interprete, NEW p \in Pointers
  PROVE  At(a, p) \in interprete /\ At(a, p).sp = p /\ At(a, p).mode = a.mode /\ SameBase(At(a, p), a)
  BY DEF interprete, SameBase, At

LEMMA ModeBecomes ==
  ASSUME NEW a \in interprete, NEW m \in {"run", "raise", "process_signal", "none_pending", "one_pending"}
  PROVE  InMode(a, m) \in interprete /\ InMode(a, m).sp = a.sp /\ InMode(a, m).mode = m /\ SameBase(InMode(a, m), a)
  BY DEF interprete, SameBase, InMode

(* The innermost interpreter goes on, at another place of its part of the  *)
(* stack.                                                                  *)
LEMMA MLTop ==
  ASSUME BoundsOK, InterpInv, active # << >>, Top.kind = "ML",
         NEW a \in interprete, TopBecomes(a), SameBase(a, Top), a.initial_sp_offset <= a.sp[2],
         external_raise' = external_raise, c_roots_head' = c_roots_head,
         \/ \A m \in Slots : slot'[m].kind = slot[m].kind
         \/ Top.mode # "raise" /\ \A m \in 1 .. InUse : slot'[m].kind = slot[m].kind
  PROVE  /\ active' \in Seq(C \cup interprete) /\ Len(active') <= MaxActive
         /\ Depth' = Depth /\ Top' = a /\ active' # << >>
         /\ \A i \in 1 .. Depth : IsML(i)' = IsML(i) /\ (IsML(i) => active'[i].initial_sp_offset = active[i].initial_sp_offset)
         /\ \A i \in 1 .. Depth : Entry(i)'
         /\ Innermost(external_raise, Depth)'
         /\ RootsLive'
<1>1. /\ TypeOK /\ Depth \in Nat /\ Depth > 0 /\ Top = active[Depth] /\ Depth \in 1 .. Depth /\ Depth - 1 \in Nat
      /\ \A d \in 1 .. Depth : IsML(d) => active[d] \in interprete
  BY ActivationIs DEF InterpInv
<1>2. /\ active' \in Seq(C \cup interprete) /\ Len(active') <= MaxActive /\ active' # << >>
      /\ Depth' = Depth /\ Top' = a /\ active'[Depth] = a
      /\ \A i \in 1 .. Depth - 1 : active'[i] = active[i]
  BY <1>1, ReplacedIs
<1>3. a.kind = "ML" /\ IsML(Depth) /\ IsML(Depth)'
  BY <1>1, <1>2, InterpreteIs DEF IsML
<1>4. ASSUME NEW i \in 1 .. Depth
      PROVE  IsML(i)' = IsML(i) /\ (IsML(i) => active'[i].initial_sp_offset = active[i].initial_sp_offset)
  <2>1. CASE i = Depth
    BY <2>1, <1>1, <1>2, <1>3 DEF SameBase
  <2>2. CASE i # Depth
    BY <2>2, <1>1, <1>2 DEF IsML
  <2> QED
    BY <2>1, <2>2
<1>5. \A i \in 1 .. Depth : /\ active'[i].kind = active[i].kind
                            /\ active[i].kind = "C" => active'[i].roots = active[i].roots
  BY <1>1, <1>2, <1>3 DEF IsML
<1>6. ASSUME NEW i \in 1 .. Depth, IsML(i)
      PROVE  /\ slot'[active[i].initial_sp_offset].kind = slot[active[i].initial_sp_offset].kind \/ i = 1
             /\ slot'[active[i].sp[2]].kind = slot[active[i].sp[2]].kind \/ i = Depth
  <2>1. CASE Top.mode # "raise" /\ \A m \in 1 .. InUse : slot'[m].kind = slot[m].kind
    <3>1. /\ i > 1 => active[i].initial_sp_offset \in 1 .. InUse
          /\ i < Depth => active[i].sp[2] \in 1 .. InUse
      BY <2>1, <1>6, Bounded
    <3> QED
      BY <2>1, <3>1, <1>1
  <2>2. CASE \A m \in Slots : slot'[m].kind = slot[m].kind
    <3>1. active[i] \in interprete
      BY <1>1, <1>6
    <3>2. active[i].initial_sp_offset \in 0 .. MaxSlots /\ active[i].sp[2] \in 0 .. MaxSlots
      BY <3>1, InterpreteIs
    <3>3. i > 1 => active[i].initial_sp_offset > 0
      <4> SUFFICES ASSUME i > 1 PROVE active[i].initial_sp_offset > 0
        OBVIOUS
      <4>1. PICK e : e = active[i].initial_external_raise
        OBVIOUS
      <4>2. Innermost(e, i - 1) /\ active[i].initial_sp_offset = active[e].sp[2] + 1
        BY <1>6, <4>1 DEF MLEntry, Entry, InterpInv
      <4>3. e \in 1 .. Depth /\ IsML(e)
        BY <4>2, <1>1 DEF Innermost
      <4>4. active[e].sp[2] \in Nat
        BY <4>3, <1>1, InterpreteIs
      <4> QED
        BY <4>2, <4>4
    <3>4. i < Depth => active[i].sp[2] > 0
      <4>1. i < Depth => active[i].initial_sp_offset < active[i].sp[2]
        BY <1>6, BelowIs
      <4> QED
        BY <4>1, <3>2
    <3> QED
      BY <2>2, <3>2, <3>3, <3>4, <1>1 DEF Slots
  <2> QED
    BY <2>1, <2>2
<1>7. \A i \in 1 .. Depth - 1 : Entry(i)'
  <2>1. \A i \in 1 .. Depth - 1 : i \in 1 .. Depth /\ i # Depth /\ Entry(i)
    BY <1>1 DEF InterpInv
  <2>2. \A i \in 1 .. Depth - 1 : IsML(i) =>
          /\ slot'[active[i].initial_sp_offset].kind = slot[active[i].initial_sp_offset].kind \/ i = 1
          /\ slot'[active[i].sp[2]].kind = slot[active[i].sp[2]].kind \/ i = Depth - 1
    BY <2>1, <1>6
  <2>3. PICK n : n = Depth - 1
    OBVIOUS
  <2>4. n \in Nat /\ n <= Depth
    BY <2>3, <1>1
  <2>5. \A i \in 1 .. n : Entry(i)'
    BY <1>1, <1>2, <2>1, <2>2, <2>3, <2>4, EntriesKept
  <2> QED
    BY <2>3, <2>5
<1>8. MLEntry(Depth)
  BY <1>1, <1>3 DEF InterpInv, Entry
<1>9. IsRootsOf(Top.initial_c_roots_head, Depth)'
  <2>1. PICK r : r = Top.initial_c_roots_head
    OBVIOUS
  <2>2. IsRootsOf(r, Depth)
    BY <1>8, <1>1, <2>1 DEF MLEntry
  <2>3. PICK n : n = Depth
    OBVIOUS
  <2>4. IsRootsOf(r, n)'
    BY <2>2, <2>3, <1>1, <1>5, RootsKept
  <2>5. Top'.initial_c_roots_head = r
    BY <1>2, <2>1 DEF SameBase
  <2> QED
    BY <2>3, <2>4, <2>5, <1>2 DEF IsRootsOf
<1>10. Depth > 1 => /\ (~ IsML(Depth - 1))'
                    /\ Innermost(a.initial_external_raise, Depth - 1)'
                    /\ a.initial_sp_offset = active'[a.initial_external_raise].sp[2] + 1
                    /\ \A e \in 1 .. Depth - 1 : IsML(e)' => active'[e].sp[2] < a.initial_sp_offset
                    /\ slot'[a.initial_sp_offset].kind = "value"
  <2> SUFFICES ASSUME Depth > 1
               PROVE  /\ (~ IsML(Depth - 1))'
                      /\ Innermost(a.initial_external_raise, Depth - 1)'
                      /\ a.initial_sp_offset = active'[a.initial_external_raise].sp[2] + 1
                      /\ \A e \in 1 .. Depth - 1 : IsML(e)' => active'[e].sp[2] < a.initial_sp_offset
                      /\ slot'[a.initial_sp_offset].kind = "value"
    OBVIOUS
  <2>1. PICK e : e = a.initial_external_raise
    OBVIOUS
  <2>2. /\ ~ IsML(Depth - 1) /\ Innermost(e, Depth - 1)
        /\ a.initial_sp_offset = active[e].sp[2] + 1
        /\ \A k \in 1 .. Depth - 1 : IsML(k) => active[k].sp[2] < a.initial_sp_offset
        /\ slot[a.initial_sp_offset].kind = "value"
    BY <1>8, <1>1, <2>1 DEF MLEntry, SameBase
  <2>3. Depth - 1 \in 1 .. Depth /\ \A k \in 1 .. Depth - 1 : k \in 1 .. Depth
    BY <1>1
  <2>4. e \in 1 .. Depth - 1
    BY <2>2 DEF Innermost
  <2>5. Innermost(e, Depth - 1)'
    BY <2>2, <2>3, <2>4, <1>2, <1>4 DEF Innermost
  <2>6. slot'[a.initial_sp_offset].kind = "value"
    <3>1. a.initial_sp_offset = active[Depth].initial_sp_offset
      BY <1>1 DEF SameBase
    <3>2. slot'[active[Depth].initial_sp_offset].kind = slot[active[Depth].initial_sp_offset].kind \/ Depth = 1
      BY <1>1, <1>3, <1>6
    <3> QED
      BY <2>2, <3>1, <3>2, <1>1
  <2> QED
    BY <2>1, <2>2, <2>3, <2>4, <2>5, <2>6, <1>2, <1>4 DEF Innermost
<1>11. MLEntry(Depth)'
  BY <1>1, <1>2, <1>8, <1>9, <1>10 DEF MLEntry, SameBase
<1>12. \A i \in 1 .. Depth : Entry(i)'
  <2>1. Entry(Depth)'
    BY <1>2, <1>3, <1>11 DEF Entry
  <2>2. \A i \in 1 .. Depth : i \in 1 .. Depth - 1 \/ i = Depth
    BY <1>1
  <2> QED
    BY <1>2, <1>7, <2>1, <2>2
<1>13. Innermost(external_raise, Depth)'
  BY <1>2, <1>4 DEF InterpInv, TopInv, Innermost
<1>14. RootsLive'
  <2>1. PICK r : r = c_roots_head
    OBVIOUS
  <2>2. PICK n : n = Depth
    OBVIOUS
  <2>3. IsRootsOf(r, n)
    BY <2>1, <2>2 DEF InterpInv, RootsLive
  <2>4. IsRootsOf(r, n)'
    BY <2>2, <2>3, <1>1, <1>5, RootsKept
  <2> QED
    BY <2>1, <2>2, <2>4, <1>2 DEF RootsLive, IsRootsOf
<1> QED
  BY <1>2, <1>4, <1>12, <1>13, <1>14

-----------------------------------------------------------------------------
(* Steps of the interpreter.                                               *)

SignalsOK ==
  /\ in_blocking_section \in BOOLEAN /\ signal_is_pending \in BOOLEAN
  /\ something_to_do \in BOOLEAN /\ force_minor_flag \in BOOLEAN
  /\ breaks \in 0 .. MaxBreaks /\ interrupts \in 0 .. MaxBreaks + 1

LEMMA MLIs ==
  ASSUME BoundsOK, InterpInv, NEW m, ML(m)
  PROVE  /\ active # << >> /\ Top.kind = "ML" /\ Top.mode = m /\ Top \in interprete
         /\ Top = active[Depth] /\ Depth \in 1 .. Depth /\ external_raise = Depth /\ Depth \in Nat /\ Depth > 0
         /\ Top.initial_sp_offset <= Top.sp[2]
         /\ m # "raise" => InUse = Top.sp[2] /\ Top.sp[1] = stack
         /\ m = "raise" => InUse = trapsp[2]
         /\ TypeOK /\ ChainInv /\ OwnersInv /\ TopInv /\ SignalsOK /\ PendingSeen
         /\ trapsp[2] \in 0 .. InUse
         /\ \A n \in 1 .. InUse : n > trapsp[2] => slot[n].kind = "value"
<1>1. active # << >> /\ Top.kind = "ML" /\ Top.mode = m
  BY DEF ML, Runs
<1>2. TypeOK /\ ChainInv /\ OwnersInv /\ TopInv /\ SignalsOK /\ PendingSeen
  BY <1>1 DEF InterpInv, TypeOK, SignalsOK
<1>3. external_raise = Depth /\ trapsp[2] \in 0 .. InUse
  BY <1>1, TopIs
<1>4. Depth \in Nat /\ Depth > 0 /\ Top = active[Depth] /\ Depth \in 1 .. Depth
  BY <1>1, <1>2, ActivationIs
<1>5. IsML(Depth) /\ Top \in interprete
  BY <1>1, <1>2, <1>4, ActivationIs DEF IsML
<1>6. Top.initial_sp_offset <= Top.sp[2]
  BY <1>4, <1>5 DEF InterpInv, Entry, MLEntry
<1>7. m # "raise" => InUse = Top.sp[2] /\ Top.sp[1] = stack
  BY <1>1, <1>2 DEF InUse, TopInv
<1>8. m = "raise" => InUse = trapsp[2]
  BY <1>1 DEF InUse
<1>9. \A n \in 1 .. InUse : n > trapsp[2] => slot[n].kind = "value"
  BY <1>1, <1>2 DEF TopInv
<1> QED
  BY <1>1, <1>2, <1>3, <1>4, <1>5, <1>6, <1>7, <1>8, <1>9

(* What is left to show when the innermost interpreter has gone on.        *)
LEMMA MLStep ==
  ASSUME BoundsOK, InterpInv, active # << >>, Top.kind = "ML",
         NEW a \in interprete, TopBecomes(a), SameBase(a, Top), a.initial_sp_offset <= a.sp[2],
         external_raise' = external_raise, c_roots_head' = c_roots_head,
         \/ \A m \in Slots : slot'[m].kind = slot[m].kind
         \/ Top.mode # "raise" /\ \A m \in 1 .. InUse : slot'[m].kind = slot[m].kind,
         slot' \in [Slots -> Value \cup Trap], stack' \in Nat, extern_sp' \in Pointers, trapsp' \in Pointers,
         SignalsOK', PendingSeen',
         ChainInv', OwnersInv',
         a.mode # "raise" => a.sp[1] = stack',
         NEW u \in Nat, u = IF a.mode = "raise" THEN trapsp'[2] ELSE a.sp[2],
         trapsp'[2] <= u,
         \A n \in 1 .. u : n > trapsp'[2] => slot'[n].kind = "value"
  PROVE  InterpInv'
<1>1. /\ active' \in Seq(C \cup interprete) /\ Len(active') <= MaxActive
      /\ Depth' = Depth /\ Top' = a /\ active' # << >>
      /\ \A i \in 1 .. Depth : Entry(i)'
      /\ Innermost(external_raise, Depth)'
      /\ RootsLive'
  BY MLTop
<1>2. TypeOK
  BY DEF InterpInv
<1>3. TypeOK'
  BY <1>1, <1>2 DEF TypeOK, SignalsOK
<1>4. TopInv'
  <2>1. Top'.kind = "ML"
    BY <1>1, InterpreteIs
  <2>2. InUse' = u
    BY <1>1, <2>1 DEF InUse
  <2> QED
    BY <1>1, <2>1, <2>2 DEF TopInv
<1>5. \A d \in 1 .. Depth' : Entry(d)'
  BY <1>1
<1> QED
  BY <1>1, <1>3, <1>4, <1>5 DEF InterpInv

(* The trap frames stay with their activations.                            *)
LEMMA MLOwners ==
  ASSUME BoundsOK, InterpInv, active # << >>, Top.kind = "ML",
         NEW a \in interprete, TopBecomes(a), SameBase(a, Top),
         NEW t \in Nat, t = trapsp'[2], t <= trapsp[2],
         \A m \in 1 .. t : /\ slot'[m].kind = slot[m].kind
                           /\ slot[m].kind = "trap" => slot'[m].owner = slot[m].owner
  PROVE  OwnersInv'
<1>1. TypeOK /\ OwnersInv
  BY DEF InterpInv
<1>2. /\ Depth' = Depth /\ active'[Depth] = a /\ Depth \in Nat /\ Depth > 0
      /\ \A i \in 1 .. Depth - 1 : active'[i] = active[i]
      /\ Top = active[Depth]
  BY <1>1, ReplacedIs, ActivationIs
<1>3. ASSUME NEW i \in 1 .. Depth
      PROVE  IsML(i)' = IsML(i) /\ (IsML(i) => active'[i].initial_sp_offset = active[i].initial_sp_offset)
  <2>1. CASE i = Depth
    BY <2>1, <1>2, InterpreteIs DEF SameBase, IsML
  <2>2. CASE i # Depth
    BY <2>2, <1>2 DEF IsML
  <2> QED
    BY <2>1, <2>2
<1>4. \A d \in 1 .. Depth : IsML(d) =>
        \/ t <= active[d].initial_sp_offset
        \/ d \in 1 .. Depth' /\ IsML(d)' /\ active'[d].initial_sp_offset = active[d].initial_sp_offset
  BY <1>2, <1>3
<1>5. \A d \in 1 .. Depth' : IsML(d)' =>
        \/ active'[d].initial_sp_offset \in Nat /\ t <= active'[d].initial_sp_offset
        \/ d \in 1 .. Depth /\ IsML(d) /\ active'[d].initial_sp_offset = active[d].initial_sp_offset
  BY <1>2, <1>3
<1> QED
  BY <1>1, <1>2, <1>4, <1>5, OwnersKept

LEMMA Unpending ==
  ASSUME PendingSeen, UNCHANGED <<signal_is_pending, something_to_do>>, ML("run")
  PROVE  PendingSeen'
<1>1. ~ ML("process_signal") /\ ~ ML("one_pending") /\ ~ ML("none_pending") /\ active # << >>
  BY DEF ML, Runs
<1> QED
  BY <1>1 DEF PendingSeen

(* Steps that leave the trap frames as they are.                           *)
LEMMA MLGoes ==
  ASSUME BoundsOK, InterpInv, NEW m, ML(m), m # "raise",
         NEW a \in interprete, TopBecomes(a), SameBase(a, Top), Top.initial_sp_offset <= a.sp[2],
         stack' = stack, trapsp' = trapsp, external_raise' = external_raise, c_roots_head' = c_roots_head,
         extern_sp' \in Pointers, slot' \in [Slots -> Value \cup Trap],
         SignalsOK', PendingSeen',
         \A k \in 1 .. Top.sp[2] : slot'[k] = slot[k],
         a.mode # "raise" =>
           a.sp[1] = stack /\ trapsp[2] <= a.sp[2] /\ \A n \in 1 .. a.sp[2] : n > trapsp[2] => slot'[n].kind = "value"
  PROVE  InterpInv'
<1>1. /\ active # << >> /\ Top.kind = "ML" /\ Top.mode = m /\ InUse = Top.sp[2]
      /\ TypeOK /\ ChainInv /\ OwnersInv
      /\ trapsp[2] \in 0 .. InUse
  BY MLIs
<1>2. a.initial_sp_offset <= a.sp[2]
  BY DEF SameBase
<1>3. \A k \in 1 .. trapsp[2] : slot'[k] = slot[k]
  <2>1. Top \in interprete
    BY MLIs
  <2>2. Top.sp[2] \in Nat
    BY <2>1, InterpreteIs
  <2> QED
    BY <1>1, <2>2
<1>4. ChainInv'
  BY <1>1, <1>3, ChainKept
<1>5. PICK t \in Nat : t = trapsp'[2] /\ t <= trapsp[2]
  BY <1>1
<1>6. OwnersInv'
  BY <1>1, <1>3, <1>5, MLOwners
<1>7. PICK u \in Nat : u = IF a.mode = "raise" THEN trapsp'[2] ELSE a.sp[2]
  BY <1>1, InterpreteIs
<1>8. \A n \in 1 .. u : n > trapsp'[2] => slot'[n].kind = "value"
  BY <1>7, <1>5
<1>9. trapsp'[2] <= u /\ (a.mode # "raise" => a.sp[1] = stack')
  BY <1>5, <1>7
<1>10. stack' \in Nat /\ trapsp' \in Pointers
  BY <1>1 DEF TypeOK
<1>11. \A k \in 1 .. InUse : slot'[k].kind = slot[k].kind
  BY <1>1
<1> QED
  BY <1>1, <1>2, <1>4, <1>6, <1>7, <1>8, <1>9, <1>10, <1>11, MLStep

LEMMA PUSHStep ==
  ASSUME BoundsOK, InterpInv, PUSH
  PROVE  InterpInv'
<1>1. /\ ML("run") /\ PushSlot(Top.sp, aValue) /\ TopBecomes([Top EXCEPT !.sp = Down(@, 1)])
      /\ UNCHANGED <<stack, extern_sp, trapsp, external_raise, c_roots_head, signalVars, countVars>>
  BY DEF PUSH
<1>2. /\ Top.mode = "run" /\ Top \in interprete
      /\ Top.initial_sp_offset <= Top.sp[2] /\ InUse = Top.sp[2] /\ Top.sp[1] = stack
      /\ TypeOK /\ SignalsOK /\ PendingSeen
      /\ trapsp[2] \in 0 .. InUse
      /\ \A n \in 1 .. InUse : n > trapsp[2] => slot[n].kind = "value"
  BY <1>1, MLIs
<1>3. PICK p \in Pointers : p = Top.sp /\ p[2] \in Nat /\ Top.initial_sp_offset \in Nat
  BY <1>2, InterpreteIs
<1>4. /\ slot' \in [Slots -> Value \cup Trap] /\ p[2] < MaxSlots
      /\ slot'[p[2] + 1] = aValue /\ \A m \in 1 .. p[2] : slot'[m] = slot[m]
  BY <1>1, <1>2, <1>3, PushedIs, ValueIs DEF BoundsOK
<1>5. PICK q \in Pointers : q = Down(p, 1) /\ q[1] = p[1] /\ q[2] = p[2] + 1
  BY <1>3, <1>4, PointerMoves
<1>6. PICK a \in interprete : a = At(Top, q) /\ a.sp = q /\ a.mode = "run" /\ SameBase(a, Top)
  BY <1>2, SpBecomes
<1>7. TopBecomes(a)
  BY <1>1, <1>3, <1>5, <1>6 DEF At
<1>8. SignalsOK' /\ PendingSeen'
  BY <1>1, <1>2, Unpending DEF signalVars, countVars, SignalsOK
<1>9. /\ Top.initial_sp_offset <= a.sp[2] /\ a.sp[1] = stack /\ trapsp[2] <= a.sp[2]
      /\ \A n \in 1 .. a.sp[2] : n > trapsp[2] => slot'[n].kind = "value"
  BY <1>2, <1>3, <1>4, <1>5, <1>6, ValueIs
<1>10. extern_sp' \in Pointers
  BY <1>1, <1>2 DEF TypeOK
<1> QED
  BY <1>1, <1>3, <1>4, <1>6, <1>7, <1>8, <1>9, <1>10, MLGoes

LEMMA POPStep ==
  ASSUME BoundsOK, InterpInv, POP
  PROVE  InterpInv'
<1>1. /\ ML("run") /\ Own(Top) /\ ~ IsTrap(Top.sp) /\ TopBecomes([Top EXCEPT !.sp = Up(@, 1)])
      /\ UNCHANGED <<stackVars, external_raise, c_roots_head, signalVars, countVars>>
  BY DEF POP
<1>2. /\ Top.mode = "run" /\ Top \in interprete
      /\ InUse = Top.sp[2] /\ Top.sp[1] = stack
      /\ TypeOK /\ ChainInv /\ SignalsOK /\ PendingSeen
      /\ trapsp[2] \in 0 .. InUse
      /\ \A n \in 1 .. InUse : n > trapsp[2] => slot[n].kind = "value"
  BY <1>1, MLIs
<1>3. PICK p \in Pointers : p = Top.sp /\ p[2] \in Nat /\ Top.initial_sp_offset \in Nat /\ p[2] > Top.initial_sp_offset
  BY <1>1, <1>2, InterpreteIs DEF Own
<1>4. PICK q \in Pointers : q = Up(p, 1) /\ q[1] = p[1] /\ q[2] = p[2] - 1
  BY <1>3, PointerMoves
<1>5. PICK a \in interprete : a = At(Top, q) /\ a.sp = q /\ a.mode = "run" /\ SameBase(a, Top)
  BY <1>2, SpBecomes
<1>6. TopBecomes(a)
  BY <1>1, <1>3, <1>4, <1>5 DEF At
<1>7. SignalsOK' /\ PendingSeen'
  BY <1>1, <1>2, Unpending DEF signalVars, countVars, SignalsOK
<1>8. /\ slot' = slot /\ slot' \in [Slots -> Value \cup Trap] /\ stack' = stack /\ trapsp' = trapsp
      /\ extern_sp' \in Pointers
  BY <1>1, <1>2 DEF stackVars, TypeOK
<1>9. trapsp[2] # p[2]
  BY <1>1, <1>2, <1>3 DEF ChainInv, IsTrap
<1>10. /\ Top.initial_sp_offset <= a.sp[2] /\ a.sp[1] = stack /\ trapsp[2] <= a.sp[2]
       /\ \A n \in 1 .. a.sp[2] : n > trapsp[2] => slot'[n].kind = "value"
  BY <1>2, <1>3, <1>4, <1>5, <1>8, <1>9
<1> QED
  BY <1>1, <1>5, <1>6, <1>7, <1>8, <1>10, MLGoes

LEMMA process_signalStep ==
  ASSUME BoundsOK, InterpInv, process_signal
  PROVE  InterpInv'
<1>1. /\ ML("run") /\ something_to_do' = FALSE /\ force_minor_flag' = FALSE
      /\ extern_sp' = IF force_minor_flag THEN Down(Top.sp, 1) ELSE extern_sp
      /\ extern_sp'[2] <= MaxSlots
      /\ TopBecomes(InMode(Top, "process_signal"))
      /\ UNCHANGED <<slot, stack, trapsp, external_raise, c_roots_head, in_blocking_section, signal_is_pending, countVars>>
  BY DEF process_signal, Polled, InMode
<1>2. /\ Top.mode = "run" /\ Top \in interprete /\ active # << >>
      /\ Top.initial_sp_offset <= Top.sp[2] /\ InUse = Top.sp[2] /\ Top.sp[1] = stack
      /\ TypeOK /\ SignalsOK
      /\ trapsp[2] \in 0 .. InUse
      /\ \A n \in 1 .. InUse : n > trapsp[2] => slot[n].kind = "value"
  BY <1>1, MLIs
<1>3. PICK a \in interprete : a = InMode(Top, "process_signal") /\ a.sp = Top.sp /\ a.mode = "process_signal" /\ SameBase(a, Top)
  BY <1>2, ModeBecomes
<1>4. extern_sp' \in Pointers
  <2>1. Top.sp \in Pointers
    BY <1>2, InterpreteIs
  <2>2. CASE force_minor_flag
    BY <1>1, <2>1, <2>2 DEF Down, Pointers, BoundsOK
  <2>3. CASE ~ force_minor_flag
    BY <1>1, <1>2, <2>3 DEF TypeOK
  <2> QED
    BY <2>2, <2>3
<1>5. SignalsOK'
  BY <1>1, <1>2 DEF SignalsOK, countVars
<1>6. PendingSeen'
  <2>1. Top' = a /\ active' # << >>
    BY <1>1, <1>2, <1>3, ReplacedIs
  <2>2. ML("process_signal")'
    BY <2>1, <1>3, InterpreteIs DEF ML, Runs
  <2> QED
    BY <2>2 DEF PendingSeen
<1>7. slot' \in [Slots -> Value \cup Trap]
  BY <1>1, <1>2 DEF TypeOK
<1> QED
  BY <1>1, <1>2, <1>3, <1>4, <1>5, <1>6, <1>7, MLGoes

LEMMA ReadPendingStep ==
  ASSUME BoundsOK, InterpInv, ReadPending
  PROVE  InterpInv'
<1>1. /\ ML("process_signal")
      /\ TopBecomes(InMode(Top, IF signal_is_pending THEN "one_pending" ELSE "none_pending"))
      /\ UNCHANGED <<stackVars, external_raise, c_roots_head, signalVars, countVars>>
  BY DEF ReadPending, InMode
<1>2. /\ Top.mode = "process_signal" /\ Top \in interprete /\ active # << >>
      /\ Top.initial_sp_offset <= Top.sp[2] /\ InUse = Top.sp[2] /\ Top.sp[1] = stack
      /\ TypeOK /\ SignalsOK
      /\ trapsp[2] \in 0 .. InUse
      /\ \A n \in 1 .. InUse : n > trapsp[2] => slot[n].kind = "value"
  BY <1>1, MLIs
<1>3. PICK m \in {"one_pending", "none_pending"} : m = IF signal_is_pending THEN "one_pending" ELSE "none_pending"
  OBVIOUS
<1>4. PICK a \in interprete : a = InMode(Top, m) /\ a.sp = Top.sp /\ a.mode = m /\ SameBase(a, Top)
  BY <1>2, ModeBecomes
<1>5. TopBecomes(a)
  BY <1>1, <1>3, <1>4
<1>6. SignalsOK'
  BY <1>1, <1>2 DEF SignalsOK, signalVars, countVars
<1>7. PendingSeen'
  <2>1. Top' = a /\ active' # << >>
    BY <1>2, <1>5, ReplacedIs
  <2>2. (ML("one_pending") \/ ML("none_pending"))'
    BY <2>1, <1>4, InterpreteIs DEF ML, Runs
  <2> QED
    BY <2>2 DEF PendingSeen
<1>8. /\ slot' = slot /\ slot' \in [Slots -> Value \cup Trap] /\ stack' = stack /\ trapsp' = trapsp
      /\ extern_sp' \in Pointers
  BY <1>1, <1>2 DEF TypeOK, stackVars
<1> QED
  BY <1>1, <1>2, <1>4, <1>5, <1>6, <1>7, <1>8, MLGoes

LEMMA ResetPendingStep ==
  ASSUME BoundsOK, InterpInv, ResetPending
  PROVE  InterpInv'
<1>1. /\ ML("one_pending") \/ ML("none_pending")
      /\ signal_is_pending' = FALSE
      /\ UNCHANGED <<stack, extern_sp, trapsp, external_raise, c_roots_head, in_blocking_section,
                      something_to_do, force_minor_flag, breaks>>
  BY DEF ResetPending
<1>2. PICK m : ML(m) /\ m \in {"one_pending", "none_pending"}
  BY <1>1
<1>3. /\ Top.mode = m /\ Top \in interprete /\ active # << >>
      /\ Top.initial_sp_offset <= Top.sp[2] /\ InUse = Top.sp[2] /\ Top.sp[1] = stack
      /\ TypeOK /\ SignalsOK
      /\ trapsp[2] \in 0 .. InUse
      /\ \A n \in 1 .. InUse : n > trapsp[2] => slot[n].kind = "value"
  BY <1>2, MLIs
<1>4. PendingSeen' /\ extern_sp' \in Pointers
  BY <1>1, <1>3 DEF PendingSeen, TypeOK
<1>5. CASE ML("one_pending")
  <2>1. /\ PushSlot(Top.sp, aValue) /\ TopBecomes([Top EXCEPT !.mode = "raise", !.sp = Down(@, 1)]) /\ Interrupted
    BY <1>5 DEF ResetPending
  <2>2. PICK p \in Pointers : p = Top.sp /\ p[2] \in Nat /\ Top.initial_sp_offset \in Nat
    BY <1>3, InterpreteIs
  <2>3. /\ slot' \in [Slots -> Value \cup Trap] /\ p[2] < MaxSlots /\ \A k \in 1 .. p[2] : slot'[k] = slot[k]
    BY <2>1, <1>3, <2>2, PushedIs, ValueIs DEF BoundsOK
  <2>4. PICK q \in Pointers : q = Down(p, 1) /\ q[1] = p[1] /\ q[2] = p[2] + 1
    BY <2>2, <2>3, PointerMoves
  <2>5. PICK b \in interprete : b = InMode(Top, "raise") /\ b.sp = Top.sp /\ b.mode = "raise" /\ SameBase(b, Top)
    BY <1>3, ModeBecomes
  <2>6. PICK a \in interprete : a = At(b, q) /\ a.sp = q /\ a.mode = "raise" /\ SameBase(a, b)
    BY <2>5, SpBecomes
  <2>7. SameBase(a, Top)
    BY <2>5, <2>6 DEF SameBase
  <2>8. TopBecomes(a)
    BY <2>1, <2>2, <2>4, <2>5, <2>6 DEF At, InMode
  <2>9. SignalsOK'
    <3>1. interrupts + 1 \in Nat /\ MaxBreaks + 1 \in Nat
      BY <1>3 DEF SignalsOK, BoundsOK
    <3>2. PICK i, k : i = interrupts + 1 /\ k = MaxBreaks + 1
      OBVIOUS
    <3>3. interrupts' \in 0 .. MaxBreaks + 1
      BY <2>1, <3>1, <3>2, MinOfTwo DEF Interrupted
    <3> QED
      BY <3>3, <1>1, <1>3 DEF SignalsOK
  <2>10. Top.initial_sp_offset <= a.sp[2]
    BY <1>3, <2>2, <2>4, <2>6
  <2> QED
    BY <1>1, <1>2, <1>3, <1>4, <2>2, <2>3, <2>6, <2>7, <2>8, <2>9, <2>10, MLGoes
<1>6. CASE ~ ML("one_pending")
  <2>1. TopBecomes(InMode(Top, "run")) /\ UNCHANGED <<slot, interrupts>>
    BY <1>6 DEF ResetPending, InMode
  <2>2. PICK a \in interprete : a = InMode(Top, "run") /\ a.sp = Top.sp /\ a.mode = "run" /\ SameBase(a, Top)
    BY <1>3, ModeBecomes
  <2>3. SignalsOK' /\ slot' \in [Slots -> Value \cup Trap]
    BY <1>1, <1>3, <2>1 DEF SignalsOK, TypeOK
  <2> QED
    BY <1>1, <1>2, <1>3, <1>4, <2>1, <2>2, <2>3, MLGoes
<1> QED
  BY <1>5, <1>6

-----------------------------------------------------------------------------
(* Trap frames are pushed, popped, and moved.                              *)

LEMMA PUSHTRAPStep ==
  ASSUME BoundsOK, InterpInv, PUSHTRAP
  PROVE  InterpInv'
<1> DEFINE v == [kind |-> "trap", link |-> trapsp, owner |-> Depth]
<1>1. /\ ML("run") /\ PushSlot(Top.sp, v) /\ trapsp' = Down(Top.sp, 1) /\ TopBecomes([Top EXCEPT !.sp = Down(@, 1)])
      /\ UNCHANGED <<stack, extern_sp, external_raise, c_roots_head, signalVars, countVars>>
  BY DEF PUSHTRAP
<1>2. /\ Top.mode = "run" /\ Top \in interprete /\ active # << >> /\ Top.kind = "ML"
      /\ Top.initial_sp_offset <= Top.sp[2] /\ InUse = Top.sp[2] /\ Top.sp[1] = stack
      /\ TypeOK /\ ChainInv /\ OwnersInv /\ SignalsOK /\ PendingSeen
      /\ trapsp[2] \in 0 .. InUse /\ Depth \in 1 .. Depth /\ Depth \in Nat /\ Top = active[Depth]
      /\ \A n \in 1 .. InUse : n > trapsp[2] => slot[n].kind = "value"
  BY <1>1, MLIs
<1>3. PICK p \in Pointers : p = Top.sp /\ p[1] = stack /\ p[2] \in 0 .. MaxSlots /\ p[2] \in Nat /\ Top.initial_sp_offset \in Nat
  BY <1>2, InterpreteIs
<1>4. v \in Trap /\ v.kind = "trap" /\ v.link = trapsp /\ v.owner = Depth
  <2>1. trapsp \in Pointers /\ Depth \in Depths
    BY <1>2, ActivationIs DEF TypeOK, Depths
  <2> QED
    BY <2>1 DEF Trap
<1> HIDE DEF v
<1>5. /\ slot' \in [Slots -> Value \cup Trap] /\ p[2] < MaxSlots
      /\ slot'[p[2] + 1] = v /\ \A m \in 1 .. p[2] : slot'[m] = slot[m]
  BY <1>1, <1>2, <1>3, <1>4, PushedIs DEF BoundsOK
<1>6. PICK q \in Pointers : q = Down(p, 1) /\ q[1] = p[1] /\ q[2] = p[2] + 1
  BY <1>3, <1>5, PointerMoves
<1>7. PICK a \in interprete : a = At(Top, q) /\ a.sp = q /\ a.mode = "run" /\ SameBase(a, Top)
  BY <1>2, SpBecomes
<1>8. TopBecomes(a)
  BY <1>1, <1>3, <1>6, <1>7 DEF At
<1>9. SignalsOK' /\ PendingSeen'
  BY <1>1, <1>2, Unpending DEF signalVars, countVars, SignalsOK
<1>10. /\ trapsp' = q /\ trapsp'[1] = stack /\ trapsp'[2] = p[2] + 1 /\ stack' = stack
       /\ trapsp[2] \in 0 .. p[2] /\ trapsp[1] = stack
       /\ \A n \in 1 .. p[2] : n > trapsp[2] => slot[n].kind = "value"
  BY <1>1, <1>2, <1>3, <1>6 DEF ChainInv
<1>11. ChainInv'
  <2>1. ASSUME NEW n \in 1 .. p[2] + 1, slot'[n].kind = "trap"
        PROVE  /\ slot'[n].link[1] = stack
               /\ slot'[n].link[2] < n
               /\ slot'[n].link[2] = 0 \/ slot'[slot'[n].link[2]].kind = "trap"
               /\ \A m \in 1 .. n - 1 : slot'[m].kind = "trap" => m <= slot'[n].link[2]
    <3>1. CASE n = p[2] + 1
      <4>1. slot'[n] = v /\ slot'[n].link = trapsp
        BY <3>1, <1>4, <1>5
      <4>2. trapsp[2] = 0 \/ (slot[trapsp[2]].kind = "trap" /\ trapsp[2] \in 1 .. p[2])
        BY <1>2, <1>10 DEF ChainInv
      <4>3. \A m \in 1 .. n - 1 : m \in 1 .. p[2]
        BY <3>1, <1>3
      <4> QED
        BY <4>1, <4>2, <4>3, <3>1, <1>3, <1>5, <1>10
    <3>2. CASE n \in 1 .. p[2]
      <4>1. slot'[n] = slot[n] /\ slot[n].kind = "trap" /\ n \in Slots
        BY <2>1, <3>2, <1>3, <1>5 DEF Slots, BoundsOK
      <4>2. n \in 1 .. trapsp[2] /\ n # 0
        BY <4>1, <3>2, <1>3, <1>10, ValueIs
      <4>3. /\ slot[n].link[1] = stack /\ slot[n].link[2] < n
            /\ slot[n].link[2] = 0 \/ slot[slot[n].link[2]].kind = "trap"
            /\ \A m \in 1 .. n - 1 : slot[m].kind = "trap" => m <= slot[n].link[2]
        BY <1>2, <4>1, <4>2 DEF ChainInv
      <4>4. slot[n].link[2] \in 0 .. MaxSlots
        BY <4>1, <1>2, SlotIs
      <4>5. slot[n].link[2] = 0 \/ slot[n].link[2] \in 1 .. p[2]
        BY <4>3, <4>4, <3>2, <1>3 DEF BoundsOK
      <4>6. \A m \in 1 .. n - 1 : m \in 1 .. p[2]
        BY <3>2, <1>3
      <4> QED
        BY <4>1, <4>3, <4>5, <4>6, <1>5
    <3> QED
      BY <3>1, <3>2, <1>3
  <2>2. slot'[trapsp'[2]].kind = "trap"
    BY <1>4, <1>5, <1>10
  <2> QED
    BY <2>1, <2>2, <1>10 DEF ChainInv
<1>12. /\ Depth' = Depth /\ active'[Depth] = a
       /\ \A i \in 1 .. Depth - 1 : active'[i] = active[i]
  BY <1>2, <1>8, ReplacedIs
<1>13. \A i \in 1 .. Depth : IsML(i)' = IsML(i) /\ (IsML(i) => active'[i].initial_sp_offset = active[i].initial_sp_offset)
  <2>1. a.kind = "ML" /\ a.initial_sp_offset = Top.initial_sp_offset
    BY <1>7, InterpreteIs DEF SameBase
  <2>2. ASSUME NEW i \in 1 .. Depth
        PROVE  IsML(i)' = IsML(i) /\ (IsML(i) => active'[i].initial_sp_offset = active[i].initial_sp_offset)
    <3>1. CASE i = Depth
      BY <2>1, <3>1, <1>2, <1>12 DEF IsML
    <3>2. CASE i # Depth
      BY <3>2, <1>2, <1>12 DEF IsML
    <3> QED
      BY <3>1, <3>2
  <2> QED
    BY <2>2
<1>14. OwnersInv'
  <2> SUFFICES ASSUME NEW n \in 1 .. p[2] + 1, slot'[n].kind = "trap", NEW o, o = slot'[n].owner
               PROVE  /\ o \in 1 .. Depth
                      /\ IsML(o)'
                      /\ active'[o].initial_sp_offset < n
                      /\ \A d \in 1 .. Depth : IsML(d)' /\ d > o => n <= active'[d].initial_sp_offset
    BY <1>10, <1>12 DEF OwnersInv, IsML
  <2>1. CASE n = p[2] + 1
    <3>1. o = Depth
      BY <2>1, <1>4, <1>5
    <3>2. IsML(Depth) /\ active[Depth].initial_sp_offset < n
      BY <2>1, <1>2, <1>3 DEF IsML
    <3> QED
      BY <3>1, <3>2, <1>2, <1>12, <1>13
  <2>2. CASE n \in 1 .. p[2]
    <3>1. slot'[n] = slot[n] /\ n \in 1 .. trapsp[2]
      BY <2>2, <1>3, <1>5, <1>10, ValueIs
    <3>2. o = slot[n].owner
      BY <3>1
    <3>3. /\ o \in 1 .. Depth /\ IsML(o) /\ active[o].initial_sp_offset < n
          /\ \A d \in 1 .. Depth : IsML(d) /\ d > o => n <= active[d].initial_sp_offset
      BY <3>1, <3>2, <1>2 DEF OwnersInv
    <3> QED
      BY <3>1, <3>3, <1>12, <1>13
  <2> QED
    BY <2>1, <2>2, <1>3
<1>15. PICK u \in Nat : u = p[2] + 1
  BY <1>3
<1>16. /\ u = IF a.mode = "raise" THEN trapsp'[2] ELSE a.sp[2]
       /\ a.sp[1] = stack' /\ trapsp'[2] <= u
       /\ \A n \in 1 .. u : n > trapsp'[2] => slot'[n].kind = "value"
  BY <1>3, <1>6, <1>7, <1>10, <1>15
<1>17. a.initial_sp_offset <= a.sp[2] /\ stack' \in Nat /\ extern_sp' \in Pointers /\ trapsp' \in Pointers
  BY SMTT(30), <1>1, <1>2, <1>3, <1>6, <1>7, <1>10 DEF SameBase, TypeOK
<1>18. \A m \in 1 .. InUse : slot'[m].kind = slot[m].kind
  BY <1>2, <1>3, <1>5
<1> QED
  BY <1>1, <1>2, <1>5, <1>7, <1>8, <1>9, <1>11, <1>14, <1>15, <1>16, <1>17, <1>18, MLStep

(* The innermost trap frame is left: the chain starts at the next.         *)
LEMMA ChainPopped ==
  ASSUME BoundsOK, TypeOK, ChainInv, trapsp[2] > 0, trapsp' = slot[trapsp[2]].link, slot' = slot, stack' = stack
  PROVE  /\ ChainInv' /\ trapsp' \in Pointers /\ trapsp'[2] \in Nat /\ trapsp'[2] < trapsp[2]
         /\ \A n \in 1 .. trapsp[2] - 1 : n > trapsp'[2] => slot[n].kind = "value"
<1>1. PICK t : t = trapsp[2] /\ t \in Slots /\ t \in 1 .. t /\ t \in Nat /\ slot[t].kind = "trap"
  BY SlotIs DEF ChainInv, Slots, BoundsOK
<1>2. /\ slot[t].link[1] = stack /\ slot[t].link[2] < t
      /\ slot[t].link[2] = 0 \/ slot[slot[t].link[2]].kind = "trap"
      /\ \A m \in 1 .. t - 1 : slot[m].kind = "trap" => m <= slot[t].link[2]
  BY <1>1 DEF ChainInv
<1>3. slot[t].link \in Pointers /\ slot[t].link[2] \in 0 .. MaxSlots /\ slot[t] \in Trap
  BY <1>1, SlotIs DEF Trap
<1>4. trapsp' = slot[t].link /\ trapsp'[2] \in Nat /\ trapsp'[2] < t
  BY <1>1, <1>2, <1>3 DEF BoundsOK
<1>5. \A n \in 1 .. trapsp'[2] : n \in 1 .. trapsp[2]
  BY <1>1, <1>4
<1>6. ChainInv'
  BY <1>1, <1>2, <1>4, <1>5 DEF ChainInv
<1>7. \A n \in 1 .. t - 1 : n \in Slots /\ (n > trapsp'[2] => slot[n].kind # "trap")
  BY <1>1, <1>2, <1>4 DEF Slots, BoundsOK
<1>8. \A n \in Slots : slot[n].kind \in {"trap", "value"}
  BY SlotIs
<1> QED
  BY <1>1, <1>3, <1>4, <1>6, <1>7, <1>8

LEMMA POPTRAPStep ==
  ASSUME BoundsOK, InterpInv, POPTRAP
  PROVE  InterpInv'
<1>1. /\ ML("run") /\ Own(Top) /\ IsTrap(Top.sp) /\ trapsp' = slot[Top.sp[2]].link /\ TopBecomes([Top EXCEPT !.sp = Up(@, 1)])
      /\ UNCHANGED <<slot, stack, extern_sp, external_raise, c_roots_head, signalVars, countVars>>
  BY DEF POPTRAP, Unlinked
<1>2. /\ Top.mode = "run" /\ Top \in interprete /\ active # << >> /\ Top.kind = "ML"
      /\ InUse = Top.sp[2] /\ Top.sp[1] = stack
      /\ TypeOK /\ ChainInv /\ SignalsOK /\ PendingSeen
      /\ trapsp[2] \in 0 .. InUse
      /\ \A n \in 1 .. InUse : n > trapsp[2] => slot[n].kind = "value"
  BY <1>1, MLIs
<1>3. PICK p \in Pointers : p = Top.sp /\ p[2] \in 0 .. MaxSlots /\ p[2] \in Nat /\ Top.initial_sp_offset \in Nat
                            /\ p[2] > Top.initial_sp_offset
  BY <1>1, <1>2, InterpreteIs DEF Own
<1>4. trapsp[2] = p[2] /\ trapsp[2] > 0
  BY <1>1, <1>2, <1>3 DEF IsTrap
<1>5. PICK q \in Pointers : q = Up(p, 1) /\ q[1] = p[1] /\ q[2] = p[2] - 1
  BY <1>3, PointerMoves
<1>6. PICK a \in interprete : a = At(Top, q) /\ a.sp = q /\ a.mode = "run" /\ SameBase(a, Top)
  BY <1>2, SpBecomes
<1>7. TopBecomes(a)
  BY <1>1, <1>3, <1>5, <1>6 DEF At
<1>8. SignalsOK' /\ PendingSeen'
  BY <1>1, <1>2, Unpending DEF signalVars, countVars, SignalsOK
<1>9. /\ ChainInv' /\ trapsp' \in Pointers /\ trapsp'[2] \in Nat /\ trapsp'[2] < trapsp[2]
      /\ \A n \in 1 .. trapsp[2] - 1 : n > trapsp'[2] => slot[n].kind = "value"
  BY <1>1, <1>2, <1>3, <1>4, ChainPopped
<1>10. OwnersInv'
  <2>1. PICK t \in Nat : t = trapsp'[2] /\ t <= trapsp[2]
    BY <1>2, <1>9
  <2> QED
    BY <1>1, <1>2, <1>6, <1>7, <2>1, MLOwners
<1>11. PICK u \in Nat : u = p[2] - 1
  BY <1>3
<1>12. /\ u = IF a.mode = "raise" THEN trapsp'[2] ELSE a.sp[2]
       /\ a.sp[1] = stack' /\ trapsp'[2] <= u
       /\ \A n \in 1 .. u : n > trapsp'[2] => slot'[n].kind = "value"
  BY <1>1, <1>2, <1>3, <1>4, <1>5, <1>6, <1>9, <1>11
<1>13. a.initial_sp_offset <= a.sp[2] /\ stack' \in Nat /\ extern_sp' \in Pointers /\ slot' \in [Slots -> Value \cup Trap]
  BY <1>1, <1>2, <1>3, <1>5, <1>6 DEF SameBase, TypeOK
<1> QED
  BY <1>1, <1>2, <1>6, <1>7, <1>8, <1>9, <1>10, <1>11, <1>12, <1>13, MLStep

(* An exception goes to a handler of the activation itself.                *)
LEMMA RAISEOwnStep ==
  ASSUME BoundsOK, InterpInv, RAISE, trapsp[2] > Top.initial_sp_offset
  PROVE  InterpInv'
<1>1. /\ ML("run") \/ ML("raise")
      /\ UNCHANGED <<slot, stack, extern_sp, signalVars, countVars>>
  BY DEF RAISE
<1>2. PICK m : ML(m) /\ m \in {"run", "raise"}
  BY <1>1
<1>3. /\ Top \in interprete /\ active # << >> /\ Top.kind = "ML" /\ Top.mode = m
      /\ TypeOK /\ ChainInv /\ SignalsOK /\ PendingSeen
      /\ trapsp[2] \in 0 .. InUse
  BY <1>2, MLIs
<1>4. Top.initial_sp_offset \in Nat /\ trapsp \in Pointers /\ trapsp[2] \in Nat /\ trapsp[1] = stack
  BY <1>3, InterpreteIs DEF TypeOK, ChainInv
<1>5. /\ trapsp' = slot[trapsp[2]].link
      /\ TopBecomes([Top EXCEPT !.mode = "run", !.sp = Up(trapsp, 1)])
      /\ UNCHANGED <<external_raise, c_roots_head>>
  <2>1. ~ (trapsp[2] <= Top.initial_sp_offset)
    BY <1>4
  <2> QED
    BY <2>1 DEF RAISE
<1>6. PICK q \in Pointers : q = Up(trapsp, 1) /\ q[1] = stack /\ q[2] = trapsp[2] - 1
  BY <1>4, PointerMoves
<1>7. PICK b \in interprete : b = InMode(Top, "run") /\ b.mode = "run" /\ SameBase(b, Top)
  BY <1>3, ModeBecomes
<1>8. PICK a \in interprete : a = At(b, q) /\ a.sp = q /\ a.mode = "run" /\ SameBase(a, b)
  BY <1>7, SpBecomes
<1>9. SameBase(a, Top) /\ TopBecomes(a)
  BY <1>5, <1>6, <1>7, <1>8 DEF SameBase, At, InMode
<1>10. SignalsOK' /\ PendingSeen'
  <2>1. UNCHANGED <<signal_is_pending, something_to_do>> /\ SignalsOK'
    BY <1>1, <1>3 DEF SignalsOK, signalVars, countVars
  <2>2. signal_is_pending => something_to_do
    BY <1>2, <1>3 DEF PendingSeen, ML, Runs
  <2> QED
    BY <2>1, <2>2 DEF PendingSeen
<1>11. /\ ChainInv' /\ trapsp' \in Pointers /\ trapsp'[2] \in Nat /\ trapsp'[2] < trapsp[2]
       /\ \A n \in 1 .. trapsp[2] - 1 : n > trapsp'[2] => slot[n].kind = "value"
  <2>1. trapsp[2] > 0
    BY <1>4
  <2> QED
    BY <2>1, <1>1, <1>3, <1>5, ChainPopped
<1>12. OwnersInv'
  <2>1. PICK t \in Nat : t = trapsp'[2] /\ t <= trapsp[2]
    BY <1>4, <1>11
  <2> QED
    BY <1>1, <1>3, <1>8, <1>9, <2>1, MLOwners
<1>13. PICK u \in Nat : u = trapsp[2] - 1
  BY <1>4
<1>14. /\ u = IF a.mode = "raise" THEN trapsp'[2] ELSE a.sp[2]
       /\ a.sp[1] = stack' /\ trapsp'[2] <= u
       /\ \A n \in 1 .. u : n > trapsp'[2] => slot'[n].kind = "value"
  BY <1>1, <1>4, <1>6, <1>8, <1>11, <1>13
<1>15. a.initial_sp_offset <= a.sp[2] /\ stack' \in Nat /\ extern_sp' \in Pointers /\ slot' \in [Slots -> Value \cup Trap]
  BY <1>1, <1>3, <1>4, <1>6, <1>7, <1>8 DEF SameBase, TypeOK
<1> QED
  BY <1>1, <1>3, <1>5, <1>8, <1>9, <1>10, <1>11, <1>12, <1>13, <1>14, <1>15, MLStep

LEMMA realloc_stackStep ==
  ASSUME BoundsOK, InterpInv, realloc_stack
  PROVE  InterpInv'
<1>1. /\ ML("run") /\ stack' = stack + 1 /\ slot' = MovedLinks(TrapFrames) /\ trapsp' = Shift(trapsp)
      /\ extern_sp' = Shift(Top.sp) /\ TopBecomes([Top EXCEPT !.sp = Shift(@)])
      /\ UNCHANGED <<external_raise, c_roots_head, signalVars, countVars>>
  BY DEF realloc_stack
<1>2. /\ Top.mode = "run" /\ Top \in interprete /\ active # << >> /\ Top.kind = "ML"
      /\ Top.initial_sp_offset <= Top.sp[2] /\ InUse = Top.sp[2] /\ Top.sp[1] = stack
      /\ TypeOK /\ ChainInv /\ SignalsOK /\ PendingSeen
      /\ trapsp[2] \in 0 .. InUse
      /\ \A n \in 1 .. InUse : n > trapsp[2] => slot[n].kind = "value"
  BY <1>1, MLIs
<1>3. \A p \in Pointers : Shift(p) \in Pointers /\ Shift(p)[1] = stack + 1 /\ Shift(p)[2] = p[2]
  BY SMTT(30), <1>2 DEF TypeOK, Pointers, Shift, BoundsOK
<1>4. PICK p \in Pointers : p = Top.sp /\ p[2] \in 0 .. MaxSlots /\ p[2] \in Nat
  BY <1>2, InterpreteIs
<1>5. PICK q \in Pointers : q = Shift(p) /\ q[1] = stack + 1 /\ q[2] = p[2]
  BY <1>3
<1>6. PICK a \in interprete : a = At(Top, q) /\ a.sp = q /\ a.mode = "run" /\ SameBase(a, Top)
  BY <1>2, SpBecomes
<1>7. TopBecomes(a)
  BY <1>1, <1>4, <1>5, <1>6 DEF At
<1>8. SignalsOK' /\ PendingSeen'
  BY <1>1, <1>2, Unpending DEF signalVars, countVars, SignalsOK
<1>9. trapsp \in Pointers /\ trapsp' \in Pointers /\ trapsp'[1] = stack' /\ trapsp'[2] = trapsp[2] /\ trapsp[2] \in 0 .. MaxSlots
      /\ trapsp[2] \in Nat
  BY SMTT(30), <1>1, <1>2, <1>3, SlotIs DEF TypeOK, BoundsOK
<1>10. TrapFrames = Frames
  BY <1>2, FramesAre
<1>11. /\ slot' \in [Slots -> Value \cup Trap]
       /\ \A n \in Slots : slot'[n].kind = slot[n].kind
       /\ \A n \in Frames : slot'[n].link[1] = stack' /\ slot'[n].link[2] = slot[n].link[2] /\ slot'[n].owner = slot[n].owner
  <2>1. ASSUME NEW n \in Slots, n \in Frames
        PROVE  /\ [slot[n] EXCEPT !.link = Shift(@)] \in Trap
               /\ [slot[n] EXCEPT !.link = Shift(@)].kind = slot[n].kind
               /\ [slot[n] EXCEPT !.link = Shift(@)].link = Shift(slot[n].link)
               /\ [slot[n] EXCEPT !.link = Shift(@)].owner = slot[n].owner
               /\ slot[n].link \in Pointers
    <3>1. slot[n] \in Trap
      BY <2>1, <1>2, SlotIs DEF Frames
    <3>2. PICK l \in Pointers : l = slot[n].link /\ Shift(l) \in Pointers
      BY <3>1, <1>3 DEF Trap
    <3> QED
      BY <3>1, <3>2 DEF Trap
  <2>2. slot' = [n \in Slots |-> IF n \in Frames THEN [slot[n] EXCEPT !.link = Shift(@)] ELSE slot[n]]
    BY <1>1, <1>10 DEF MovedLinks
  <2>3. \A n \in Slots : slot[n] \in Value \cup Trap
    BY <1>2 DEF TypeOK
  <2>4. Frames \subseteq Slots
    BY <1>9 DEF Frames, Slots, BoundsOK
  <2>5. ASSUME NEW n \in Slots
        PROVE  slot'[n] \in Value \cup Trap /\ slot'[n].kind = slot[n].kind
    BY <2>1, <2>2, <2>3
  <2>6. ASSUME NEW n \in Frames
        PROVE  slot'[n].link[1] = stack' /\ slot'[n].link[2] = slot[n].link[2] /\ slot'[n].owner = slot[n].owner
    <3>1. n \in Slots /\ slot'[n] = [slot[n] EXCEPT !.link = Shift(@)]
      BY <2>2, <2>4
    <3>2. slot'[n].link = Shift(slot[n].link) /\ slot'[n].owner = slot[n].owner /\ slot[n].link \in Pointers
      BY <2>1, <3>1
    <3>3. PICK l \in Pointers : l = slot[n].link
      BY <3>2
    <3> QED
      BY <3>2, <3>3, <1>1, <1>3
  <2> QED
    BY <2>2, <2>5, <2>6
<1>12. \A n \in 1 .. trapsp[2] : n \in Slots /\ (slot[n].kind = "trap" => n \in Frames)
  BY <1>9 DEF Frames, Slots, BoundsOK
<1>13. ChainInv'
  <2>1. ASSUME NEW n \in 1 .. trapsp[2], slot'[n].kind = "trap"
        PROVE  /\ slot'[n].link[1] = stack'
               /\ slot'[n].link[2] < n
               /\ slot'[n].link[2] = 0 \/ slot'[slot'[n].link[2]].kind = "trap"
               /\ \A k \in 1 .. n - 1 : slot'[k].kind = "trap" => k <= slot'[n].link[2]
    <3>1. n \in Frames /\ slot[n].kind = "trap" /\ n \in Slots
      BY <2>1, <1>11, <1>12
    <3>2. /\ slot[n].link[2] < n
          /\ slot[n].link[2] = 0 \/ slot[slot[n].link[2]].kind = "trap"
          /\ \A k \in 1 .. n - 1 : slot[k].kind = "trap" => k <= slot[n].link[2]
          /\ slot[n].link[2] \in 0 .. MaxSlots
      BY <1>2, <3>1, SlotIs DEF ChainInv
    <3>3. \A k \in 1 .. n - 1 : k \in Slots
      BY <3>1 DEF Slots, BoundsOK
    <3>4. slot[n].link[2] = 0 \/ slot[n].link[2] \in Slots
      BY <3>2 DEF Slots, BoundsOK
    <3> QED
      BY <3>1, <3>2, <3>3, <3>4, <1>11
  <2>2. trapsp[2] = 0 \/ (trapsp[2] \in Slots /\ slot'[trapsp[2]].kind = "trap")
    BY <1>2, <1>9, <1>11, <1>12 DEF ChainInv, Slots, BoundsOK
  <2> QED
    BY <2>1, <2>2, <1>9 DEF ChainInv
<1>14. OwnersInv'
  <2>1. PICK t \in Nat : t = trapsp'[2] /\ t = trapsp[2]
    BY <1>9
  <2>2. \A m \in 1 .. t : slot'[m].kind = slot[m].kind /\ (slot[m].kind = "trap" => slot'[m].owner = slot[m].owner)
    BY <2>1, <1>11, <1>12
  <2> QED
    BY <1>2, <1>6, <1>7, <2>1, <2>2, MLOwners
<1>15. PICK u \in Nat : u = p[2]
  BY <1>4
<1>16. /\ u = IF a.mode = "raise" THEN trapsp'[2] ELSE a.sp[2]
       /\ a.sp[1] = stack' /\ trapsp'[2] <= u
       /\ \A n \in 1 .. u : n > trapsp'[2] => slot'[n].kind = "value"
  <2>1. \A n \in 1 .. u : n \in Slots
    BY <1>4, <1>15 DEF Slots, BoundsOK
  <2> QED
    BY <2>1, <1>1, <1>2, <1>4, <1>5, <1>6, <1>9, <1>11, <1>15
<1>17. a.initial_sp_offset <= a.sp[2] /\ stack' \in Nat /\ extern_sp' \in Pointers
  BY <1>1, <1>2, <1>4, <1>5, <1>6 DEF SameBase, TypeOK
<1> QED
  BY <1>1, <1>2, <1>6, <1>7, <1>8, <1>9, <1>11, <1>13, <1>14, <1>15, <1>16, <1>17, MLStep

-----------------------------------------------------------------------------
(* C functions.                                                            *)

LEMMA CTop ==
  ASSUME BoundsOK, InterpInv, active # << >>, Top.kind = "C"
  PROVE  /\ TypeOK /\ ChainInv /\ OwnersInv /\ TopInv /\ SignalsOK /\ RootsLive
         /\ Depth \in Nat /\ Depth > 1 /\ Depth \in 1 .. Depth /\ Depth <= MaxActive
         /\ Top = active[Depth] /\ Top \in C /\ ~ IsML(Depth) /\ CEntry(Depth)
         /\ external_raise \in 1 .. Depth - 1 /\ IsML(external_raise) /\ Innermost(external_raise, Depth)
         /\ \A k \in 1 .. Depth : IsML(k) => k <= external_raise
         /\ active[external_raise] \in interprete /\ active[external_raise].mode = "run"
         /\ active[external_raise].initial_sp_offset < active[external_raise].sp[2]
         /\ extern_sp \in Pointers /\ extern_sp[1] = stack /\ extern_sp[2] = active[external_raise].sp[2]
         /\ InUse = extern_sp[2] /\ extern_sp[2] \in 1 .. MaxSlots
         /\ slot[extern_sp[2]].kind = "value"
         /\ trapsp[2] \in 0 .. extern_sp[2] - 1
         /\ \A n \in 1 .. extern_sp[2] : n > trapsp[2] => slot[n].kind = "value"
         /\ signal_is_pending => something_to_do
<1>1. TypeOK /\ ChainInv /\ OwnersInv /\ TopInv /\ SignalsOK /\ RootsLive /\ PendingSeen
  BY DEF InterpInv, TypeOK, SignalsOK
<1>2. /\ Depth \in Nat /\ Depth > 0 /\ Depth \in 1 .. Depth /\ Depth <= MaxActive
      /\ Top = active[Depth] /\ Top \in C
  BY <1>1, ActivationIs, TopIs DEF BoundsOK
<1>3. ~ IsML(Depth)
  BY <1>2 DEF IsML
<1>4. CEntry(Depth) /\ Depth > 1
  BY <1>2, <1>3 DEF InterpInv, Entry, CEntry
<1>5. /\ external_raise \in 1 .. Depth /\ IsML(external_raise) /\ active[external_raise] \in interprete
      /\ \A k \in 1 .. Depth : IsML(k) => k <= external_raise
      /\ InUse = extern_sp[2] /\ InUse \in 0 .. MaxSlots /\ trapsp[2] \in 0 .. InUse
  BY <1>1, TopIs
<1>6. Innermost(external_raise, Depth) /\ extern_sp = <<stack, active[external_raise].sp[2]>>
  BY <1>1 DEF TopInv
<1>7. external_raise \in 1 .. Depth - 1 /\ external_raise < Depth
  BY <1>2, <1>3, <1>5
<1>8. /\ active[external_raise].mode = "run"
      /\ active[external_raise].initial_sp_offset < active[external_raise].sp[2]
      /\ slot[active[external_raise].sp[2]].kind = "value"
  BY <1>5, <1>7, BelowIs
<1>9. active[external_raise].initial_sp_offset \in Nat
  BY <1>5, InterpreteIs
<1>10. extern_sp[2] \in 1 .. MaxSlots /\ extern_sp \in Pointers
  BY SMTT(30), <1>1, <1>5, <1>6, <1>8, <1>9 DEF BoundsOK, TypeOK
<1>11. trapsp[2] # extern_sp[2]
  BY <1>1, <1>6, <1>8, <1>10 DEF ChainInv
<1>12. \A n \in 1 .. extern_sp[2] : n > trapsp[2] => slot[n].kind = "value"
  BY <1>1, <1>5 DEF TopInv
<1>13. signal_is_pending => something_to_do
  BY <1>1 DEF PendingSeen, ML, Runs
<1>14. trapsp[2] \in 0 .. extern_sp[2] - 1
  BY <1>5, <1>10, <1>11 DEF BoundsOK
<1> QED
  BY <1>1, <1>2, <1>3, <1>4, <1>5, <1>6, <1>7, <1>8, <1>10, <1>12, <1>13, <1>14

LEMMA InCIs ==
  ASSUME NEW m, InC(m)
  PROVE  active # << >> /\ Top.kind = "C" /\ Top.mode = m
  BY DEF InC, Runs

(* The signals when the step does not touch them.                          *)
LEMMA NotPending ==
  ASSUME signal_is_pending => something_to_do, UNCHANGED <<signal_is_pending, something_to_do>>
  PROVE  PendingSeen'
  BY DEF PendingSeen

(* A C function goes on, perhaps with another activation above it.         *)
LEMMA CKeeps ==
  ASSUME BoundsOK, InterpInv, active # << >>, Top.kind = "C", slot' = slot,
         NEW a \in C, (a.mode = "handler") <=> (Top.mode = "handler"),
         NEW d, d = Depth, active'[d] = a, \A i \in 1 .. d - 1 : active'[i] = active[i]
  PROVE  /\ \A i \in 1 .. d : IsML(i)' = IsML(i) /\ (IsML(i) => active'[i] = active[i])
         /\ \A i \in 1 .. d : Entry(i)'
<1>1. /\ TypeOK /\ d \in Nat /\ d > 1 /\ d \in 1 .. d /\ Top = active[d] /\ ~ IsML(d) /\ CEntry(d)
  BY CTop
<1>2. ~ IsML(d)'
  BY CIs DEF IsML
<1>3. ASSUME NEW i \in 1 .. d
      PROVE  IsML(i)' = IsML(i) /\ (IsML(i) => active'[i] = active[i])
  <2>1. CASE i = d
    BY <2>1, <1>1, <1>2 DEF IsML
  <2>2. CASE i # d
    BY <2>2, <1>1 DEF IsML
  <2> QED
    BY <2>1, <2>2
<1>4. PICK n \in Nat : n = d - 1 /\ n <= Depth /\ n \in 1 .. d
  BY <1>1
<1>5. \A i \in 1 .. n : active'[i] = active[i] /\ Entry(i)
  BY <1>1, <1>4 DEF InterpInv
<1>6. \A i \in 1 .. n : Entry(i)'
  BY <1>1, <1>4, <1>5, EntriesKept
<1>7. CEntry(d)'
  <2>1. active'[n] = active[n] /\ IsML(n)' = IsML(n)
    BY <1>1, <1>3, <1>4, <1>5
  <2>2. IF active[d].mode = "handler" THEN ~ IsML(n)
        ELSE /\ IsML(n) /\ active[n].mode = "run"
             /\ active[n].initial_sp_offset < active[n].sp[2]
             /\ slot[active[n].sp[2]].kind = "value"
    BY <1>1, <1>4 DEF CEntry
  <2> QED
    BY <2>1, <2>2, <1>1, <1>4 DEF CEntry
<1>8. Entry(d)'
  BY <1>2, <1>7 DEF Entry
<1>9. \A i \in 1 .. d : i \in 1 .. n \/ i = d
  BY <1>1, <1>4
<1> QED
  BY <1>3, <1>6, <1>8, <1>9

(* A C function goes on, and nothing is called.                            *)
LEMMA CGoes ==
  ASSUME BoundsOK, InterpInv, active # << >>, Top.kind = "C",
         NEW a \in C, (a.mode = "handler") <=> (Top.mode = "handler"), TopBecomes(a),
         UNCHANGED <<stackVars, external_raise>>,
         c_roots_head' \in Seq(CRoots), RootsLive', SignalsOK', PendingSeen'
  PROVE  InterpInv'
<1>1. /\ TypeOK /\ ChainInv /\ OwnersInv /\ TopInv
      /\ Top = active[Depth] /\ Innermost(external_raise, Depth) /\ external_raise \in 1 .. Depth - 1
      /\ IsML(external_raise) /\ Depth \in Nat
      /\ extern_sp[1] = stack /\ extern_sp[2] = active[external_raise].sp[2] /\ extern_sp \in Pointers
      /\ trapsp[2] \in 0 .. extern_sp[2] - 1 /\ extern_sp[2] \in 1 .. MaxSlots
      /\ \A n \in 1 .. extern_sp[2] : n > trapsp[2] => slot[n].kind = "value"
  BY CTop
<1>2. PICK d : d = Depth
  OBVIOUS
<1>3. /\ active' \in Seq(C \cup interprete) /\ Len(active') <= MaxActive /\ active' # << >>
      /\ Depth' = d /\ Top' = a /\ active'[d] = a
      /\ \A i \in 1 .. d - 1 : active'[i] = active[i]
  BY <1>1, <1>2, ReplacedIs
<1>4. slot' = slot /\ stack' = stack /\ trapsp' = trapsp /\ extern_sp' = extern_sp /\ external_raise' = external_raise
  BY DEF stackVars
<1>5. /\ \A i \in 1 .. d : IsML(i)' = IsML(i) /\ (IsML(i) => active'[i] = active[i])
      /\ \A i \in 1 .. d : Entry(i)'
  BY <1>2, <1>3, <1>4, CKeeps
<1>6. ChainInv'
  BY <1>1, <1>4, ChainKept
<1>7. OwnersInv'
  <2>1. PICK t \in Nat : t = trapsp'[2] /\ t <= trapsp[2]
    BY <1>1, <1>4
  <2> QED
    BY <2>1, <1>1, <1>2, <1>3, <1>4, <1>5, OwnersKept
<1>8. TypeOK'
  BY <1>1, <1>3, <1>4 DEF TypeOK, SignalsOK
<1>9. TopInv'
  <2>1. PICK e : e = external_raise
    OBVIOUS
  <2>2. Innermost(e, d)'
    BY <1>1, <1>2, <1>5, <2>1 DEF Innermost
  <2>3. Top'.kind = "C" /\ InUse' = extern_sp[2]
    BY <1>3, <1>4, CIs DEF InUse
  <2>4. active'[e] = active[e]
    BY <1>1, <1>2, <1>5, <2>1
  <2>5. extern_sp' = <<stack', active'[e].sp[2]>>
    BY <1>1, <1>4, <2>1, <2>4 DEF Pointers
  <2>6. trapsp[2] <= extern_sp[2]
    BY <1>1 DEF BoundsOK
  <2>7. Innermost(external_raise, Depth)'
    BY <2>1, <2>2, <1>3, <1>4 DEF Innermost
  <2> QED
    BY <2>1, <2>3, <2>5, <2>6, <2>7, <1>1, <1>4 DEF TopInv
<1>10. \A i \in 1 .. Depth' : Entry(i)'
  BY <1>3, <1>5
<1> QED
  BY <1>6, <1>7, <1>8, <1>9, <1>10 DEF InterpInv

(* The roots are as before, or there is one more or one fewer.             *)
LEMMA RootsStay ==
  ASSUME BoundsOK, InterpInv, active # << >>, Top.kind = "C",
         NEW a \in C, a.roots = Top.roots, TopBecomes(a), c_roots_head' = c_roots_head
  PROVE  c_roots_head' \in Seq(CRoots) /\ RootsLive'
<1>1. TypeOK /\ RootsLive /\ Top = active[Depth] /\ Depth \in Nat /\ Top \in C
  BY CTop
<1>2. PICK d : d = Depth
  OBVIOUS
<1>3. Depth' = d /\ active'[d] = a /\ \A i \in 1 .. d - 1 : active'[i] = active[i]
  BY <1>1, <1>2, CTop, ReplacedIs
<1>4. \A i \in 1 .. d : /\ active'[i].kind = active[i].kind
                        /\ active[i].kind = "C" => active'[i].roots = active[i].roots
  BY <1>1, <1>2, <1>3, CIs
<1>5. PICK r : r = c_roots_head
  OBVIOUS
<1>6. IsRootsOf(r, d)
  BY <1>1, <1>2, <1>5 DEF RootsLive
<1>7. IsRootsOf(r, d)'
  BY <1>1, <1>2, <1>4, <1>6, RootsKept
<1> QED
  BY <1>1, <1>3, <1>5, <1>7 DEF RootsLive, IsRootsOf, TypeOK

CMode(a, m)  == [a EXCEPT !.mode = m]
CRooted(a, n) == [a EXCEPT !.roots = n]

LEMMA CBecomes ==
  ASSUME BoundsOK, NEW a \in C
  PROVE  /\ \A m \in {"run", "entering", "blocking", "handler"} :
              CMode(a, m) \in C /\ CMode(a, m).mode = m /\ CMode(a, m).roots = a.roots
         /\ \A n \in 0 .. MaxRoots :
              CRooted(a, n) \in C /\ CRooted(a, n).mode = a.mode /\ CRooted(a, n).roots = n
  BY DEF C, CMode, CRooted

LEMMA enter_blocking_sectionStep ==
  ASSUME BoundsOK, InterpInv, enter_blocking_section
  PROVE  InterpInv'
<1>1. /\ active # << >> /\ Top.kind = "C" /\ Top.mode = "run" /\ in_blocking_section' = TRUE
      /\ TopBecomes(CMode(Top, "entering"))
      /\ UNCHANGED <<stackVars, external_raise, c_roots_head, signal_is_pending, something_to_do, force_minor_flag, countVars>>
  BY InCIs DEF enter_blocking_section, CMode
<1>2. Top \in C /\ SignalsOK /\ (signal_is_pending => something_to_do)
  BY <1>1, CTop
<1>3. PICK a \in C : a = CMode(Top, "entering") /\ a.mode = "entering" /\ a.roots = Top.roots
  BY <1>2, CBecomes
<1>4. SignalsOK' /\ PendingSeen'
  BY <1>1, <1>2, NotPending DEF SignalsOK, countVars
<1>5. c_roots_head' \in Seq(CRoots) /\ RootsLive'
  BY <1>1, <1>3, RootsStay
<1> QED
  BY <1>1, <1>3, <1>4, <1>5, CGoes

LEMMA leave_blocking_sectionStep ==
  ASSUME BoundsOK, InterpInv, leave_blocking_section
  PROVE  InterpInv'
<1>1. /\ active # << >> /\ Top.kind = "C" /\ Top.mode = "blocking" /\ in_blocking_section' = FALSE
      /\ TopBecomes(CMode(Top, "run"))
      /\ UNCHANGED <<stackVars, external_raise, c_roots_head, signal_is_pending, something_to_do, force_minor_flag, countVars>>
  BY InCIs DEF leave_blocking_section, CMode
<1>2. Top \in C /\ SignalsOK /\ (signal_is_pending => something_to_do)
  BY <1>1, CTop
<1>3. PICK a \in C : a = CMode(Top, "run") /\ a.mode = "run" /\ a.roots = Top.roots
  BY <1>2, CBecomes
<1>4. SignalsOK' /\ PendingSeen'
  BY <1>1, <1>2, NotPending DEF SignalsOK, countVars
<1>5. c_roots_head' \in Seq(CRoots) /\ RootsLive'
  BY <1>1, <1>3, RootsStay
<1> QED
  BY <1>1, <1>3, <1>4, <1>5, CGoes

(* The latest root of the function that runs.                              *)
LEMMA Push_rootsStep ==
  ASSUME BoundsOK, InterpInv, Push_roots
  PROVE  InterpInv'
<1>1. /\ active # << >> /\ Top.kind = "C" /\ Top.mode = "run" /\ Top.roots < MaxRoots
      /\ c_roots_head' = <<<<Depth, Top.roots + 1>>>> \o c_roots_head
      /\ TopBecomes(CRooted(Top, Top.roots + 1))
      /\ UNCHANGED <<stackVars, external_raise, signalVars, countVars>>
  BY InCIs DEF Push_roots, CRooted
<1>2. /\ Top \in C /\ SignalsOK /\ (signal_is_pending => something_to_do) /\ TypeOK /\ RootsLive
      /\ Depth \in Nat /\ Depth \in 1 .. Depth /\ Depth <= MaxActive /\ Top = active[Depth]
  BY <1>1, CTop
<1>3. PICK d, k : d = Depth /\ k = Top.roots + 1 /\ k \in 1 .. MaxRoots /\ k \in 0 .. MaxRoots /\ d \in Nat /\ d \in 1 .. d
  BY <1>1, <1>2, CIs DEF BoundsOK
<1>4. PICK a \in C : a = CRooted(Top, k) /\ a.mode = Top.mode /\ a.roots = k
  BY <1>2, <1>3, CBecomes
<1>5. TopBecomes(a)
  BY <1>1, <1>3, <1>4
<1>6. SignalsOK' /\ PendingSeen'
  BY <1>1, <1>2, NotPending DEF SignalsOK, countVars, signalVars
<1>7. Depth' = d /\ active'[d] = a /\ \A i \in 1 .. d - 1 : active'[i] = active[i]
  BY <1>1, <1>2, <1>3, <1>5, ReplacedIs
<1>8. PICK r \in Seq(CRoots) : r = c_roots_head
  BY <1>2 DEF TypeOK
<1>9. Range(r) = RootsOf(d) /\ \A i, j \in DOMAIN r : i < j => Later(r[i], r[j])
  BY <1>2, <1>3, <1>8 DEF RootsLive, IsRootsOf
<1>10. PICK s : s = <<<<d, k>>>> \o r
  OBVIOUS
<1>11. <<d, k>> \in CRoots
  BY <1>2, <1>3 DEF CRoots, Depths, BoundsOK
<1>12. /\ c_roots_head' = s /\ s \in Seq(CRoots) /\ Len(s) = Len(r) + 1 /\ s[1] = <<d, k>>
       /\ \A i \in 1 .. Len(r) : s[i + 1] = r[i]
       /\ \A i \in 2 .. Len(s) : s[i] = r[i - 1] /\ i - 1 \in 1 .. Len(r)
  BY <1>1, <1>3, <1>8, <1>10, <1>11
<1>13. RootsOf(d)' = RootsOf(d) \cup {<<d, k>>}
  <2>1. ASSUME NEW q \in (1 .. d) \X (1 .. MaxRoots)
        PROVE  q \in RootsOf(d)' <=> q \in RootsOf(d) \/ q = <<d, k>>
    <3>1. q = <<q[1], q[2]>> /\ q[1] \in 1 .. d /\ q[2] \in 1 .. MaxRoots /\ q[1] \in Nat /\ q[2] \in Nat
      BY <1>3 DEF BoundsOK
    <3>2. CASE q[1] = d
      <4>1. q \in RootsOf(d)' <=> q[2] <= k
        BY <3>2, <1>4, <1>7, CIs DEF RootsOf
      <4>2. q \in RootsOf(d) <=> q[2] <= k - 1
        BY SMTT(30), <3>2, <1>1, <1>2, <1>3, CIs DEF RootsOf
      <4>3. q = <<d, k>> <=> q[2] = k
        BY <3>1, <3>2
      <4>4. q[2] <= k <=> q[2] <= k - 1 \/ q[2] = k
        BY <3>1, <1>3 DEF BoundsOK
      <4> QED
        BY <4>1, <4>2, <4>3, <4>4
    <3>3. CASE q[1] # d
      <4>1. q[1] \in 1 .. d - 1 /\ q # <<d, k>>
        BY <3>1, <3>3, <1>3
      <4> QED
        BY <4>1, <1>7 DEF RootsOf
    <3> QED
      BY <3>2, <3>3
  <2>2. <<d, k>> \in (1 .. d) \X (1 .. MaxRoots)
    BY <1>3
  <2>3. RootsOf(d)' \subseteq (1 .. d) \X (1 .. MaxRoots) /\ RootsOf(d) \subseteq (1 .. d) \X (1 .. MaxRoots)
    BY DEF RootsOf
  <2> QED
    BY <2>1, <2>2, <2>3
<1>14. Range(s) = Range(r) \cup {<<d, k>>}
  <2>1. DOMAIN s = 1 .. Len(s) /\ DOMAIN r = 1 .. Len(r) /\ Len(r) \in Nat
    BY <1>8, <1>12
  <2>2. ASSUME NEW i \in 1 .. Len(s) PROVE s[i] \in Range(r) \cup {<<d, k>>}
    <3>1. CASE i = 1
      BY <3>1, <1>12
    <3>2. CASE i # 1
      <4>1. s[i] = r[i - 1] /\ i - 1 \in DOMAIN r
        BY <2>1, <3>2, <1>12
      <4> QED
        BY <4>1 DEF Range
    <3> QED
      BY <3>1, <3>2
  <2>3. \A i \in 1 .. Len(r) : r[i] \in Range(s)
    <3>1. ASSUME NEW i \in 1 .. Len(r) PROVE r[i] \in Range(s)
      <4>1. i + 1 \in DOMAIN s /\ s[i + 1] = r[i]
        BY <2>1, <1>12
      <4> QED
        BY <4>1 DEF Range
    <3> QED
      BY <3>1
  <2>4. <<d, k>> \in Range(s)
    <3>1. 1 \in DOMAIN s
      BY <2>1, <1>12
    <3> QED
      BY <3>1, <1>12 DEF Range
  <2> QED
    BY <2>1, <2>2, <2>3, <2>4 DEF Range
<1>15. \A i, j \in DOMAIN s : i < j => Later(s[i], s[j])
  <2> SUFFICES ASSUME NEW i \in DOMAIN s, NEW j \in DOMAIN s, i < j
               PROVE  Later(s[i], s[j])
    OBVIOUS
  <2>1. DOMAIN s = 1 .. Len(s) /\ DOMAIN r = 1 .. Len(r) /\ Len(r) \in Nat /\ Len(s) \in Nat
    BY <1>8, <1>12
  <2>2. j - 1 \in DOMAIN r /\ s[j] = r[j - 1] /\ j \in 2 .. Len(s)
    BY <2>1, <1>12
  <2>3. CASE i = 1
    <3>1. r[j - 1] \in RootsOf(d)
      BY <2>2, <1>9 DEF Range
    <3>2. PICK q : q = r[j - 1]
      OBVIOUS
    <3>3. q \in (1 .. d) \X (1 .. MaxRoots) /\ q[2] <= active[q[1]].roots
      BY <3>1, <3>2 DEF RootsOf
    <3>4. q[1] \in 1 .. d /\ (q[1] = d => q[2] <= k - 1) /\ q[2] \in Nat
      BY <3>3, <1>2, <1>3, CIs DEF BoundsOK
    <3>5. s[i][1] = d /\ s[i][2] = k
      BY <2>3, <1>12
    <3> QED
      BY <3>2, <3>4, <3>5, <2>2, <1>3 DEF Later
  <2>4. CASE i # 1
    <3>1. i \in 2 .. Len(s) /\ i - 1 < j - 1
      BY <2>1, <2>2, <2>4
    <3>2. i - 1 \in DOMAIN r /\ s[i] = r[i - 1]
      BY <3>1, <2>1, <1>12
    <3> QED
      BY <3>1, <3>2, <2>2, <1>9
  <2> QED
    BY <2>3, <2>4
<1>16. RootsLive'
  <2>1. IsRootsOf(s, d)'
    BY <1>9, <1>13, <1>14, <1>15 DEF IsRootsOf, Later
  <2> QED
    BY <2>1, <1>7, <1>12 DEF RootsLive, IsRootsOf
<1> QED
  BY <1>1, <1>4, <1>5, <1>6, <1>12, <1>16, CGoes

LEMMA Pop_rootsStep ==
  ASSUME BoundsOK, InterpInv, Pop_roots
  PROVE  InterpInv'
<1>1. /\ active # << >> /\ Top.kind = "C" /\ Top.mode = "run" /\ Top.roots > 0
      /\ c_roots_head' = Tail(c_roots_head)
      /\ TopBecomes(CRooted(Top, Top.roots - 1))
      /\ UNCHANGED <<stackVars, external_raise, signalVars, countVars>>
  BY InCIs DEF Pop_roots, CRooted
<1>2. /\ Top \in C /\ SignalsOK /\ (signal_is_pending => something_to_do) /\ TypeOK /\ RootsLive
      /\ Depth \in Nat /\ Depth \in 1 .. Depth /\ Depth <= MaxActive /\ Top = active[Depth]
  BY <1>1, CTop
<1>3. PICK d, k, l : d = Depth /\ k = Top.roots /\ l = Top.roots - 1 /\ l = k - 1 /\ k \in 1 .. MaxRoots /\ l \in 0 .. MaxRoots
                     /\ d \in Nat /\ d \in 1 .. d
  BY <1>1, <1>2, CIs DEF BoundsOK
<1>4. PICK a \in C : a = CRooted(Top, l) /\ a.mode = Top.mode /\ a.roots = l
  <2>1. Top \in C /\ l \in 0 .. MaxRoots
    BY <1>2, <1>3
  <2>2. CRooted(Top, l) \in C /\ CRooted(Top, l).mode = Top.mode /\ CRooted(Top, l).roots = l
    BY ONLY BoundsOK, <2>1, CBecomes
  <2> QED
    BY <2>2
<1>5. TopBecomes(a)
  BY <1>1, <1>3, <1>4
<1>6. SignalsOK' /\ PendingSeen'
  BY <1>1, <1>2, NotPending DEF SignalsOK, countVars, signalVars
<1>7. Depth' = d /\ active'[d] = a /\ \A i \in 1 .. d - 1 : active'[i] = active[i]
  BY <1>1, <1>2, <1>3, <1>5, ReplacedIs
<1>8. PICK r \in Seq(CRoots) : r = c_roots_head
  BY <1>2 DEF TypeOK
<1>9. Range(r) = RootsOf(d) /\ \A i, j \in DOMAIN r : i < j => Later(r[i], r[j])
  BY <1>2, <1>3, <1>8 DEF RootsLive, IsRootsOf
<1>10. DOMAIN r = 1 .. Len(r) /\ Len(r) \in Nat
  BY <1>8
<1>11. ASSUME NEW q, q \in RootsOf(d)
       PROVE  q[1] \in 1 .. d /\ q[2] \in Nat /\ (q[1] = d => q[2] <= k)
  <2>1. q \in (1 .. d) \X (1 .. MaxRoots) /\ q[2] <= active[q[1]].roots
    BY <1>11 DEF RootsOf
  <2> QED
    BY <2>1, <1>2, <1>3 DEF BoundsOK
<1>12. r # << >> /\ 1 \in DOMAIN r /\ r[1] = <<d, k>>
  <2>1. <<d, k>> \in RootsOf(d)
    <3>1. <<d, k>> \in (1 .. d) \X (1 .. MaxRoots)
      BY <1>3
    <3> QED
      BY <3>1, <1>1, <1>2, <1>3, CIs DEF RootsOf, BoundsOK
  <2>2. PICK i \in DOMAIN r : r[i] = <<d, k>>
    BY <2>1, <1>9 DEF Range
  <2>3. 1 \in DOMAIN r /\ Len(r) > 0
    BY <1>10
  <2>4. CASE i # 1
    <3>1. Later(r[1], r[i])
      BY <2>2, <2>3, <2>4, <1>9, <1>10
    <3>2. r[1] \in RootsOf(d)
      BY <2>3, <1>9 DEF Range
    <3>3. PICK q : q = r[1]
      OBVIOUS
    <3>4. q[1] \in 1 .. d /\ q[2] \in Nat /\ (q[1] = d => q[2] <= k)
      BY <3>2, <3>3, <1>11
    <3>5. q[1] > d \/ (q[1] = d /\ q[2] > k)
      BY <3>1, <3>3, <2>2 DEF Later
    <3> QED
      BY <3>4, <3>5, <1>3
  <2> QED
    BY <2>2, <2>3, <2>4, <1>8
<1>13. PICK s : s = Tail(r)
  OBVIOUS
<1>14. /\ c_roots_head' = s /\ s \in Seq(CRoots) /\ Len(s) = Len(r) - 1 /\ DOMAIN s = 1 .. Len(r) - 1
       /\ \A i \in 1 .. Len(r) - 1 : s[i] = r[i + 1] /\ i + 1 \in DOMAIN r
  BY <1>1, <1>8, <1>10, <1>12, <1>13
<1>15. RootsOf(d)' = RootsOf(d) \ {<<d, k>>}
  <2>1. ASSUME NEW q \in (1 .. d) \X (1 .. MaxRoots)
        PROVE  q \in RootsOf(d)' <=> q \in RootsOf(d) /\ q # <<d, k>>
    <3>1. q = <<q[1], q[2]>> /\ q[1] \in 1 .. d /\ q[2] \in 1 .. MaxRoots /\ q[1] \in Nat /\ q[2] \in Nat
      BY <1>3 DEF BoundsOK
    <3>2. CASE q[1] = d
      <4>1. q \in RootsOf(d)' <=> q[2] <= k - 1
        BY <3>2, <1>3, <1>4, <1>7, CIs DEF RootsOf
      <4>2. q \in RootsOf(d) <=> q[2] <= k
        BY <3>2, <1>1, <1>2, <1>3, CIs DEF RootsOf
      <4>3. q = <<d, k>> <=> q[2] = k
        BY <3>1, <3>2
      <4>4. q[2] <= k - 1 <=> q[2] <= k /\ q[2] # k
        BY <3>1, <1>3 DEF BoundsOK
      <4> QED
        BY <4>1, <4>2, <4>3, <4>4
    <3>3. CASE q[1] # d
      <4>1. q[1] \in 1 .. d - 1 /\ q # <<d, k>>
        BY <3>1, <3>3, <1>3
      <4> QED
        BY <4>1, <1>7 DEF RootsOf
    <3> QED
      BY <3>2, <3>3
  <2>2. RootsOf(d)' \subseteq (1 .. d) \X (1 .. MaxRoots) /\ RootsOf(d) \subseteq (1 .. d) \X (1 .. MaxRoots)
    BY DEF RootsOf
  <2> QED
    BY <2>1, <2>2
<1>16. Range(s) = Range(r) \ {<<d, k>>}
  <2>1. ASSUME NEW i \in DOMAIN s PROVE s[i] \in Range(r) /\ s[i] # <<d, k>>
    <3>1. s[i] = r[i + 1] /\ i + 1 \in DOMAIN r /\ 1 < i + 1
      BY <1>10, <1>14
    <3>2. PICK j : j = i + 1
      OBVIOUS
    <3>3. Later(<<d, k>>, r[j])
      BY <3>1, <3>2, <1>9, <1>12
    <3>4. r[j] # <<d, k>>
      BY <3>3, <1>3 DEF Later, BoundsOK
    <3> QED
      BY <3>1, <3>2, <3>4 DEF Range
  <2>2. ASSUME NEW i \in DOMAIN r, r[i] # <<d, k>> PROVE r[i] \in Range(s)
    <3>1. i # 1 /\ i - 1 \in DOMAIN s /\ (i - 1) + 1 = i
      BY <2>2, <1>10, <1>12, <1>14
    <3>2. s[i - 1] = r[i]
      BY <3>1, <1>14
    <3> QED
      BY <3>1, <3>2 DEF Range
  <2> QED
    BY <2>1, <2>2 DEF Range
<1>17. \A i, j \in DOMAIN s : i < j => Later(s[i], s[j])
  <2> SUFFICES ASSUME NEW i \in DOMAIN s, NEW j \in DOMAIN s, i < j
               PROVE  Later(s[i], s[j])
    OBVIOUS
  <2>1. PICK x, y : x = i + 1 /\ y = j + 1
    OBVIOUS
  <2>2. x \in DOMAIN r /\ y \in DOMAIN r /\ x < y /\ s[i] = r[x] /\ s[j] = r[y]
    BY <2>1, <1>10, <1>14
  <2> QED
    BY <2>2, <1>9
<1>18. RootsLive'
  <2>1. IsRootsOf(s, d)'
    BY <1>9, <1>15, <1>16, <1>17 DEF IsRootsOf, Later
  <2> QED
    BY <2>1, <1>7, <1>14 DEF RootsLive, IsRootsOf
<1> QED
  BY <1>1, <1>4, <1>5, <1>6, <1>14, <1>18, CGoes

(* Steps that leave the C stack and the ML stack alone.                    *)
LEMMA StacksSame ==
  ASSUME InterpInv, UNCHANGED <<active, stackVars, external_raise, c_roots_head>>, SignalsOK', PendingSeen'
  PROVE  InterpInv'
<1>1. /\ active' = active /\ slot' = slot /\ stack' = stack /\ trapsp' = trapsp /\ extern_sp' = extern_sp
      /\ external_raise' = external_raise /\ c_roots_head' = c_roots_head
  BY DEF stackVars
<1>2. TypeOK'
  BY <1>1 DEF InterpInv, TypeOK, SignalsOK
<1>3. ChainInv'
  BY <1>1 DEF InterpInv, ChainInv
<1>4. active' # << >> => OwnersInv'
  BY <1>1 DEF InterpInv, OwnersInv, IsML, Depth
<1>5. \A d \in 1 .. Depth' : Entry(d)'
  BY <1>1 DEF InterpInv, Entry, MLEntry, CEntry, IsML, Innermost, IsRootsOf, RootsOf, Later, Depth
<1>6. TopInv'
  BY <1>1 DEF InterpInv, TopInv, Innermost, IsML, Depth, Top, Last, InUse
<1>7. RootsLive'
  BY <1>1 DEF InterpInv, RootsLive, IsRootsOf, RootsOf, Later, Depth
<1> QED
  BY <1>2, <1>3, <1>4, <1>5, <1>6, <1>7 DEF InterpInv

LEMMA force_minor_gcStep ==
  ASSUME InterpInv, force_minor_gc
  PROVE  InterpInv'
<1>1. /\ UNCHANGED <<active, stackVars, external_raise, c_roots_head>>
      /\ SignalsOK'
  BY DEF force_minor_gc, InterpInv, TypeOK, SignalsOK, countVars
<1>2. PendingSeen'
  BY DEF force_minor_gc, PendingSeen
<1> QED
  BY <1>1, <1>2, StacksSame

LEMMA StutterStep ==
  ASSUME InterpInv, UNCHANGED vars
  PROVE  InterpInv'
<1>1. /\ UNCHANGED <<active, stackVars, external_raise, c_roots_head>>
      /\ SignalsOK'
  BY DEF vars, InterpInv, TypeOK, SignalsOK, countVars, signalVars
<1>2. PendingSeen'
  BY DEF vars, InterpInv, PendingSeen, signalVars, ML, Runs, Top, Last
<1> QED
  BY <1>1, <1>2, StacksSame

-----------------------------------------------------------------------------
(* Another activation.                                                     *)

LEMMA CalledIs ==
  ASSUME BoundsOK, TypeOK, active # << >>, NEW d, d = Depth, d < MaxActive,
         NEW a \in C \cup interprete, NEW c \in C \cup interprete,
         active' = Append([active EXCEPT ![d] = a], c)
  PROVE  /\ active' \in Seq(C \cup interprete) /\ Len(active') <= MaxActive /\ active' # << >>
         /\ Depth' = d + 1 /\ Top' = c /\ active'[d] = a /\ active'[d + 1] = c
         /\ \A i \in 1 .. d - 1 : active'[i] = active[i]
<1>1. PICK s : s = [active EXCEPT ![d] = a]
  OBVIOUS
<1>2. active \in Seq(C \cup interprete) /\ d = Len(active) /\ d \in Nat /\ d > 0 /\ d + 1 \in Nat /\ MaxActive \in Nat
  BY DEF TypeOK, Depth, BoundsOK
<1>3. s \in Seq(C \cup interprete) /\ Len(s) = d /\ s[d] = a /\ \A i \in 1 .. d - 1 : s[i] = active[i]
  BY <1>1, <1>2
<1>4. active' = Append(s, c)
  BY <1>1
<1>5. /\ active' \in Seq(C \cup interprete) /\ Len(active') = d + 1 /\ active'[d + 1] = c
      /\ \A i \in 1 .. d : active'[i] = s[i]
  BY <1>2, <1>3, <1>4
<1>6. active'[d] = a /\ \A i \in 1 .. d - 1 : active'[i] = active[i]
  BY <1>2, <1>3, <1>5
<1>7. Depth' = d + 1 /\ Top' = c /\ active' # << >>
  BY <1>2, <1>5 DEF Depth, Top, Last
<1> QED
  BY <1>2, <1>5, <1>6, <1>7

LEMMA EnteredIs ==
  ASSUME BoundsOK, TypeOK, active # << >>, NEW d, d = Depth, NEW c \in C \cup interprete, Enters(c)
  PROVE  /\ active' \in Seq(C \cup interprete) /\ Len(active') <= MaxActive /\ active' # << >> /\ d < MaxActive
         /\ Depth' = d + 1 /\ Top' = c /\ active'[d] = active[d] /\ active'[d + 1] = c
         /\ \A i \in 1 .. d - 1 : active'[i] = active[i]
         /\ active' = Append([active EXCEPT ![d] = Top], c)
<1>1. active' = Append(active, c) /\ d < MaxActive
  BY DEF Enters
<1>2. active \in Seq(C \cup interprete) /\ d = Len(active) /\ d \in Nat /\ d > 0 /\ Top = active[d]
  BY DEF TypeOK, Depth, Top, Last
<1>3. [active EXCEPT ![d] = Top] = active /\ Top \in C \cup interprete
  BY <1>2
<1>4. active' = Append([active EXCEPT ![d] = Top], c)
  BY <1>1, <1>3
<1> QED
  BY <1>1, <1>2, <1>3, <1>4, CalledIs

LEMMA HandlerIs ==
  ASSUME BoundsOK
  PROVE  /\ Handler \in C /\ Handler \in C \cup interprete
         /\ Handler.kind = "C" /\ Handler.mode = "handler" /\ Handler.roots = 0
  BY DEF Handler, C, BoundsOK

(* The system calls the handler of a signal on top of a C function.        *)
LEMMA HandlerEntered ==
  ASSUME BoundsOK, InterpInv, active # << >>, Top.kind = "C",
         NEW a \in C, (a.mode = "handler") <=> (Top.mode = "handler"), a.roots = Top.roots,
         NEW d, d = Depth, d < MaxActive,
         active' = Append([active EXCEPT ![d] = a], Handler),
         UNCHANGED <<stackVars, external_raise, c_roots_head>>, SignalsOK', PendingSeen'
  PROVE  InterpInv'
<1>1. /\ TypeOK /\ ChainInv /\ OwnersInv /\ TopInv /\ RootsLive
      /\ Top = active[d] /\ ~ IsML(d) /\ Innermost(external_raise, d) /\ external_raise \in 1 .. d - 1
      /\ IsML(external_raise) /\ d \in Nat /\ d > 1 /\ d \in 1 .. d
      /\ extern_sp[1] = stack /\ extern_sp[2] = active[external_raise].sp[2] /\ extern_sp \in Pointers
      /\ trapsp[2] \in 0 .. extern_sp[2] - 1 /\ extern_sp[2] \in 1 .. MaxSlots
      /\ \A n \in 1 .. extern_sp[2] : n > trapsp[2] => slot[n].kind = "value"
  BY CTop
<1>2. Handler \in C /\ Handler.kind = "C" /\ Handler.mode = "handler" /\ Handler.roots = 0
      /\ Handler \in C \cup interprete /\ a \in C \cup interprete
  BY HandlerIs
<1>3. /\ active' \in Seq(C \cup interprete) /\ Len(active') <= MaxActive /\ active' # << >>
      /\ Depth' = d + 1 /\ Top' = Handler /\ active'[d] = a /\ active'[d + 1] = Handler
      /\ \A i \in 1 .. d - 1 : active'[i] = active[i]
  BY ONLY SMTT(30), <1>1, <1>2, BoundsOK, active # << >>, d = Depth, d < MaxActive,
     active' = Append([active EXCEPT ![d] = a], Handler), CalledIs
<1>4. slot' = slot /\ stack' = stack /\ trapsp' = trapsp /\ extern_sp' = extern_sp /\ external_raise' = external_raise
      /\ c_roots_head' = c_roots_head
  BY DEF stackVars
<1>5. /\ \A i \in 1 .. d : IsML(i)' = IsML(i) /\ (IsML(i) => active'[i] = active[i])
      /\ \A i \in 1 .. d : Entry(i)'
  BY <1>3, <1>4, CKeeps
<1>6. PICK e \in Nat : e = d + 1 /\ e - 1 = d /\ e > 1 /\ Depth' = e /\ \A i \in 1 .. e : i \in 1 .. d \/ i = e
  BY <1>1, <1>3
<1>7. active'[e] = Handler
  BY <1>3, <1>6
<1>8. ~ IsML(e)'
  BY <1>2, <1>7 DEF IsML
<1>9. Entry(e)'
  <2>1. ~ IsML(d)'
    BY <1>1, <1>5
  <2>2. CEntry(e)'
    BY <2>1, <1>2, <1>6, <1>7 DEF CEntry
  <2> QED
    BY <2>2, <1>8 DEF Entry
<1>10. \A i \in 1 .. Depth' : Entry(i)'
  BY <1>5, <1>6, <1>9
<1>11. ChainInv'
  BY <1>1, <1>4, ChainKept
<1>12. OwnersInv'
  <2>1. PICK t \in Nat : t = trapsp'[2] /\ t <= trapsp[2]
    BY <1>1, <1>4
  <2>2. \A i \in 1 .. Depth' : IsML(i)' => i \in 1 .. d
    BY <1>6, <1>8
  <2>3. \A i \in 1 .. d : i \in 1 .. Depth'
    BY <1>1, <1>3
  <2> QED
    BY <2>1, <2>2, <2>3, <1>1, <1>3, <1>4, <1>5, <1>6, OwnersKept
<1>13. TypeOK'
  BY <1>1, <1>3, <1>4 DEF TypeOK, SignalsOK
<1>14. TopInv'
  <2>1. PICK x : x = external_raise
    OBVIOUS
  <2>2. Innermost(x, e)'
    <3>1. x \in 1 .. d /\ IsML(x) /\ \A k \in 1 .. d : k > x => ~ IsML(k)
      BY <1>1, <2>1 DEF Innermost
    <3>2. x \in 1 .. e /\ IsML(x)' /\ \A k \in 1 .. d : k > x => ~ IsML(k)'
      BY <3>1, <1>5, <1>6
    <3> QED
      BY <3>2, <1>6, <1>8 DEF Innermost
  <2>3. Top'.kind = "C" /\ InUse' = extern_sp[2]
    BY <1>2, <1>3, <1>4 DEF InUse
  <2>4. active'[x] = active[x]
    BY <1>1, <1>3, <2>1
  <2>5. extern_sp' = <<stack', active'[x].sp[2]>>
    <3>1. extern_sp = <<stack, active[external_raise].sp[2]>>
      BY <1>1 DEF TopInv
    <3> QED
      BY <3>1, <1>4, <2>1, <2>4
  <2>6. trapsp[2] <= extern_sp[2]
    BY <1>1 DEF BoundsOK
  <2>7. Innermost(external_raise, Depth)'
    BY <2>1, <2>2, <1>4, <1>6 DEF Innermost
  <2> QED
    BY <2>1, <2>3, <2>5, <2>6, <2>7, <1>1, <1>4 DEF TopInv
<1>15. RootsLive'
  <2>1. PICK r : r = c_roots_head
    OBVIOUS
  <2>2. IsRootsOf(r, d)
    BY <1>1, <2>1 DEF RootsLive
  <2>3. \A i \in 1 .. d : /\ active'[i].kind = active[i].kind
                          /\ active[i].kind = "C" => active'[i].roots = active[i].roots
    BY <1>1, <1>3, CIs
  <2>4. IsRootsOf(r, d)'
    BY <2>2, <2>3, <1>1, RootsKept
  <2>5. RootsOf(e)' = RootsOf(e - 1)'
    <3>1. active'[e].kind # "C" \/ active'[e].roots = 0
      BY <1>2, <1>7
    <3>2. e > 0
      BY <1>6
    <3> QED
      BY ONLY e \in Nat, <3>1, <3>2, RootsNextPrime
  <2>6. IsRootsOf(r, e)'
    BY <2>4, <2>5, <1>6 DEF IsRootsOf
  <2> QED
    BY <2>1, <2>6, <1>4, <1>6 DEF RootsLive, IsRootsOf
<1> QED
  BY <1>10, <1>11, <1>12, <1>13, <1>14, <1>15 DEF InterpInv

LEMMA EnteredStep ==
  ASSUME BoundsOK, InterpInv, Entered
  PROVE  InterpInv'
<1>1. /\ active # << >> /\ Top.kind = "C" /\ Top.mode = "entering"
      /\ UNCHANGED <<stackVars, external_raise, c_roots_head, signalVars, countVars>>
  BY InCIs DEF Entered
<1>2. Top \in C /\ SignalsOK /\ (signal_is_pending => something_to_do)
  BY <1>1, CTop
<1>3. PICK a \in C : a = CMode(Top, "blocking") /\ a.mode = "blocking" /\ a.roots = Top.roots
  BY <1>2, CBecomes
<1>4. SignalsOK' /\ PendingSeen'
  BY <1>1, <1>2, NotPending DEF SignalsOK, countVars, signalVars
<1>5. CASE signal_is_pending
  <2>1. PICK d : d = Depth
    OBVIOUS
  <2>2. Depth < MaxActive /\ active' = Append([active EXCEPT ![Depth].mode = "blocking"], Handler)
    BY <1>5 DEF Entered
  <2>3. [active EXCEPT ![Depth].mode = "blocking"] = [active EXCEPT ![d] = a]
    <3>1. Top = active[d]
      BY <2>1 DEF Top, Last, Depth
    <3>2. a = [active[d] EXCEPT !.mode = "blocking"]
      BY <3>1, <1>3 DEF CMode
    <3> QED
      BY <3>2, <2>1
  <2> QED
    BY <2>1, <2>2, <2>3, <1>1, <1>3, <1>4, HandlerEntered
<1>6. CASE ~ signal_is_pending
  <2>1. TopBecomes(a)
    BY <1>3, <1>6 DEF Entered, CMode
  <2>2. c_roots_head' \in Seq(CRoots) /\ RootsLive'
    BY <1>1, <1>3, <2>1, RootsStay
  <2> QED
    BY <2>1, <2>2, <1>1, <1>3, <1>4, CGoes
<1> QED
  BY <1>5, <1>6

LEMMA intr_handlerStep ==
  ASSUME BoundsOK, InterpInv, intr_handler, Undisturbed
  PROVE  InterpInv'
<1>1. /\ breaks < MaxBreaks /\ active # << >> /\ breaks' = breaks + 1
      /\ UNCHANGED <<stackVars, external_raise, c_roots_head, interrupts>>
  BY DEF intr_handler
<1>2. SignalsOK /\ breaks' \in 0 .. MaxBreaks /\ breaks' # breaks
  BY <1>1 DEF InterpInv, TypeOK, SignalsOK, BoundsOK
<1>3. CASE in_blocking_section
  <2>1. Enters(Handler) /\ UNCHANGED signalVars
    BY <1>3 DEF intr_handler
  <2>2. Top.kind = "C"
    BY <1>2, <1>3 DEF Undisturbed
  <2>3. TypeOK /\ Top \in C /\ (signal_is_pending => something_to_do)
    BY <1>1, <2>2, CTop
  <2>4. PICK d : d = Depth
    OBVIOUS
  <2>5. d < MaxActive /\ active' = Append([active EXCEPT ![d] = Top], Handler)
    BY <1>1, <2>1, <2>3, <2>4, EnteredIs, HandlerIs
  <2>6. SignalsOK' /\ PendingSeen'
    BY <1>1, <1>2, <2>1, <2>3, NotPending DEF SignalsOK, signalVars
  <2>7. PICK a \in C : a = Top
    BY <2>3
  <2> QED
    BY <2>2, <2>4, <2>5, <2>6, <2>7, <1>1, HandlerEntered
<1>4. CASE ~ in_blocking_section
  <2>1. Postpone
    BY <1>4 DEF intr_handler
  <2>2. SignalsOK'
    BY <1>1, <1>2, <2>1 DEF Postpone, SignalsOK
  <2>3. PendingSeen'
    BY <2>1 DEF Postpone, PendingSeen
  <2>4. UNCHANGED active
    BY <2>1 DEF Postpone
  <2> QED
    BY <1>1, <2>2, <2>3, <2>4, StacksSame
<1> QED
  BY <1>3, <1>4

(* A C function, or the handler of a signal, calls back.                   *)
LEMMA callbackStep ==
  ASSUME BoundsOK, InterpInv, active # << >>, Top.kind = "C", NEW m \in {"run", "raise"}, callback(m),
         SignalsOK', PendingSeen'
  PROVE  InterpInv'
<1> DEFINE aa == [kind |-> "ML", mode |-> m, sp |-> Down(extern_sp, 1), initial_sp_offset |-> Down(extern_sp, 1)[2],
                 initial_external_raise |-> external_raise, initial_c_roots_head |-> c_roots_head]
<1>1. /\ PushSlot(extern_sp, aValue) /\ extern_sp' = Down(extern_sp, 1) /\ Enters(aa) /\ external_raise' = Depth + 1
      /\ stack' = stack /\ trapsp' = trapsp /\ c_roots_head' = c_roots_head
  BY DEF callback
<1>2. PICK d, x, r, z : d = Depth /\ x = external_raise /\ r = c_roots_head /\ z = extern_sp[2]
  OBVIOUS
<1>3. /\ TypeOK /\ ChainInv /\ OwnersInv /\ TopInv /\ RootsLive
      /\ Top = active[d] /\ ~ IsML(d) /\ Innermost(x, d) /\ x \in 1 .. d - 1
      /\ IsML(x) /\ d \in Nat /\ d > 1 /\ d \in 1 .. d /\ d <= MaxActive
      /\ extern_sp[1] = stack /\ z = active[x].sp[2] /\ extern_sp \in Pointers /\ z \in Nat
      /\ trapsp[2] \in 0 .. z - 1 /\ z \in 1 .. MaxSlots /\ InUse = z
      /\ \A n \in 1 .. z : n > trapsp[2] => slot[n].kind = "value"
  BY <1>2, CTop DEF BoundsOK
<1>4. /\ slot' \in [Slots -> Value \cup Trap] /\ z < MaxSlots /\ z + 1 \in Slots
      /\ slot'[z + 1] = aValue /\ \A k \in 1 .. z : slot'[k] = slot[k]
  <2>1. aValue \in Value \cup Trap
    BY ValueIs
  <2>2. /\ slot' \in [Slots -> Value \cup Trap]
        /\ extern_sp[2] \in 0 .. MaxSlots - 1 /\ extern_sp[2] + 1 \in Slots
        /\ slot'[extern_sp[2] + 1] = aValue
        /\ \A k \in 1 .. extern_sp[2] : slot'[k] = slot[k]
    BY <1>1, <1>3, <2>1, PushedIs
  <2>3. z < MaxSlots
    BY <1>2, <2>2 DEF BoundsOK
  <2> QED
    BY <1>2, <2>2, <2>3
<1>5. PICK q \in Pointers : q = Down(extern_sp, 1) /\ q[1] = stack /\ q[2] = z + 1 /\ q[2] \in 0 .. MaxSlots
                            /\ q[2] \in Nat
  <2>1. extern_sp[2] < MaxSlots
    BY <1>2, <1>4
  <2>2. Down(extern_sp, 1) \in Pointers /\ Down(extern_sp, 1)[1] = stack /\ Down(extern_sp, 1)[2] = z + 1
    BY <1>2, <1>3, <2>1, PointerMoves
  <2>3. z + 1 \in 0 .. MaxSlots /\ z + 1 \in Nat
    BY <1>3, <1>4 DEF BoundsOK, Slots
  <2> QED
    BY <2>2, <2>3
<1>6. /\ aa \in interprete /\ aa.kind = "ML" /\ aa.mode = m /\ aa.sp = q /\ aa.initial_sp_offset = q[2]
      /\ aa.initial_external_raise = x /\ aa.initial_c_roots_head = c_roots_head
  <2>1. x \in Depths /\ c_roots_head \in Seq(CRoots)
    BY <1>2, <1>3 DEF TypeOK
  <2> QED
    BY <2>1, <1>2, <1>5 DEF interprete
<1>7. PICK a \in interprete : a = aa
  BY <1>6
<1>8. /\ a.kind = "ML" /\ a.mode = m /\ a.sp = q /\ a.initial_sp_offset = q[2]
      /\ a.initial_external_raise = x /\ a.initial_c_roots_head = r /\ Enters(a)
  BY <1>1, <1>2, <1>6, <1>7
<1> HIDE DEF aa
<1>9. /\ active' \in Seq(C \cup interprete) /\ Len(active') <= MaxActive /\ active' # << >> /\ d < MaxActive
      /\ Depth' = d + 1 /\ Top' = a /\ active'[d] = active[d] /\ active'[d + 1] = a
      /\ \A i \in 1 .. d - 1 : active'[i] = active[i]
  <2>1. a \in C \cup interprete
    OBVIOUS
  <2> QED
    BY <2>1, <1>2, <1>3, <1>8, EnteredIs
<1>10. \A i \in 1 .. d : active'[i] = active[i] /\ IsML(i)' = IsML(i)
  BY <1>3, <1>9 DEF IsML
<1>11. ~ (Top.kind = "ML" /\ Top.mode = "raise")
  OBVIOUS
<1>12. \A i \in 1 .. d : IsML(i) =>
         /\ active[i].initial_sp_offset \in 0 .. z
         /\ active[i].sp[2] \in 0 .. z
         /\ i > 1 => active[i].initial_sp_offset \in 1 .. z
         /\ i < d => active[i].sp[2] \in 1 .. z
  BY <1>2, <1>3, <1>11, Bounded
<1>13. \A i \in 1 .. d : Entry(i)'
  <2>1. \A i \in 1 .. d : Entry(i)
    BY <1>2 DEF InterpInv
  <2>2. \A i \in 1 .. d : IsML(i) =>
          /\ slot'[active[i].initial_sp_offset].kind = slot[active[i].initial_sp_offset].kind \/ i = 1
          /\ slot'[active[i].sp[2]].kind = slot[active[i].sp[2]].kind \/ i = d
    <3>1. ASSUME NEW i \in 1 .. d, IsML(i)
          PROVE  /\ slot'[active[i].initial_sp_offset] = slot[active[i].initial_sp_offset] \/ i = 1
                 /\ slot'[active[i].sp[2]] = slot[active[i].sp[2]] \/ i = d
      <4>1. i > 1 \/ i = 1
        BY <1>3
      <4>2. i < d \/ i = d
        BY <1>3
      <4> QED
        BY <4>1, <4>2, <3>1, <1>4, <1>12
    <3> QED
      BY <3>1
  <2> QED
    BY <2>1, <2>2, <1>2, <1>3, <1>10, EntriesKept
<1>14. PICK e \in Nat : e = d + 1 /\ e - 1 = d /\ e > 1 /\ Depth' = e /\ e <= MaxActive /\ e \in 1 .. e
                        /\ \A i \in 1 .. e : i \in 1 .. d \/ i = e
  BY <1>3, <1>9 DEF BoundsOK
<1>15. active'[e] = a /\ IsML(e)' /\ external_raise' = e /\ extern_sp' = q
  BY <1>1, <1>2, <1>5, <1>8, <1>9, <1>14 DEF IsML
<1>16. IsRootsOf(r, e)' /\ c_roots_head' = r
  <2>2. IsRootsOf(r, d)
    BY <1>2, <1>3 DEF RootsLive
  <2>3. IsRootsOf(r, d)'
    BY <2>2, <1>3, <1>10, RootsKept
  <2>4. active'[e].kind # "C" \/ active'[e].roots = 0
    BY <1>8, <1>15
  <2>5. e > 0
    BY <1>14
  <2>6. RootsOf(e)' = RootsOf(e - 1)'
    BY ONLY e \in Nat, <2>4, <2>5, RootsNextPrime
  <2>7. IsRootsOf(r, e)'
    BY <2>3, <2>6, <1>14 DEF IsRootsOf
  <2> QED
    BY <2>7, <1>1, <1>2
<1>17. Entry(e)'
  <2>1. Innermost(x, d)' /\ ~ IsML(d)'
    BY <1>3, <1>10 DEF Innermost
  <2>2. \A k \in 1 .. d : IsML(k)' => active'[k].sp[2] < q[2]
    <3>1. ASSUME NEW k \in 1 .. d, IsML(k)'
          PROVE  active'[k].sp[2] < q[2]
      <4>1. active'[k] = active[k] /\ active[k].sp[2] \in 0 .. z
        BY <3>1, <1>10, <1>12
      <4> QED
        BY SMTT(30), <4>1, <1>3, <1>5
    <3> QED
      BY <3>1
  <2>3. a.initial_sp_offset = active'[x].sp[2] + 1
    BY <1>3, <1>5, <1>8, <1>10
  <2>4. slot'[a.initial_sp_offset].kind = "value"
    BY <1>4, <1>5, <1>8, ValueIs
  <2>5. IsRootsOf(a.initial_c_roots_head, e)'
    BY <1>8, <1>16
  <2>6. a.initial_sp_offset <= a.sp[2]
    BY <1>5, <1>8
  <2>7. MLEntry(e)'
    BY <2>1, <2>2, <2>3, <2>4, <2>5, <2>6, <1>8, <1>14, <1>15 DEF MLEntry
  <2> QED
    BY <2>7, <1>15 DEF Entry
<1>18. \A i \in 1 .. Depth' : Entry(i)'
  BY <1>13, <1>14, <1>17
<1>19. ChainInv'
  <2>1. \A k \in 1 .. trapsp[2] : slot'[k] = slot[k]
    BY SMTT(30), <1>3, <1>4
  <2> QED
    BY <2>1, <1>1, <1>3, ChainKept
<1>20. OwnersInv'
  <2>1. PICK t \in Nat : t = trapsp'[2] /\ t <= trapsp[2] /\ t < q[2] /\ \A k \in 1 .. t : k \in 1 .. z
    <3>1. trapsp'[2] = trapsp[2] /\ trapsp[2] \in 0 .. z - 1 /\ z \in Nat /\ q[2] = z + 1
      BY <1>1, <1>3, <1>5
    <3> QED
      BY <3>1
  <2>2. \A k \in 1 .. t : slot'[k] = slot[k]
    BY <2>1, <1>4
  <2>3. \A i \in 1 .. d : i \in 1 .. Depth'
    BY <1>3, <1>9
  <2>4. \A i \in 1 .. Depth' : IsML(i)' =>
          \/ active'[i].initial_sp_offset \in Nat /\ t <= active'[i].initial_sp_offset
          \/ i \in 1 .. d /\ IsML(i) /\ active'[i].initial_sp_offset = active[i].initial_sp_offset
    <3>1. t <= q[2]
      BY <2>1, <1>5
    <3> QED
      BY <3>1, <1>5, <1>8, <1>10, <1>14, <1>15
  <2>5. Depth' \in Nat
    BY <1>14
  <2> QED
    BY <2>1, <2>2, <2>3, <2>4, <2>5, <1>2, <1>3, <1>10, OwnersKept
<1>21. TypeOK'
  <2>1. external_raise' \in Depths
    BY <1>14, <1>15 DEF Depths
  <2> QED
    BY <2>1, <1>1, <1>3, <1>4, <1>5, <1>9, <1>15 DEF TypeOK, SignalsOK
<1>22. TopInv'
  <2>1. \A k \in 1 .. e : ~ (k > e)
    BY <1>14
  <2>2. Innermost(e, e)'
    BY <2>1, <1>14, <1>15 DEF Innermost
  <2>3. Innermost(external_raise, Depth)'
    BY <2>2, <1>14, <1>15 DEF Innermost
  <2>4. PICK u \in Nat : u = IF m = "raise" THEN trapsp[2] ELSE q[2]
    BY <1>3, <1>5
  <2>5. InUse' = u
    BY <2>4, <1>1, <1>8, <1>9 DEF InUse
  <2>6. trapsp'[2] <= u /\ \A n \in 1 .. u : n > trapsp'[2] => slot'[n].kind = "value"
    <3>1. CASE m = "raise"
      BY <3>1, <2>4, <1>1, <1>3
    <3>2. CASE m # "raise"
      <4>1. u = z + 1 /\ trapsp'[2] <= u
        <5>1. trapsp'[2] = trapsp[2] /\ trapsp[2] \in 0 .. z - 1 /\ z \in Nat /\ q[2] = z + 1
          BY <1>1, <1>3, <1>5
        <5> QED
          BY <5>1, <3>2, <2>4
      <4>2. ASSUME NEW n \in 1 .. u, n > trapsp'[2]
            PROVE  slot'[n].kind = "value"
        <5>1. n = z + 1 \/ n \in 1 .. z
          BY SMTT(30), <4>1, <1>3
        <5> QED
          BY <5>1, <4>2, <1>1, <1>3, <1>4, ValueIs
      <4> QED
        BY <4>1, <4>2
    <3> QED
      BY <3>1, <3>2
  <2> QED
    BY <2>3, <2>5, <2>6, <1>1, <1>5, <1>8, <1>9 DEF TopInv
<1>23. RootsLive'
  BY <1>14, <1>16 DEF RootsLive, IsRootsOf
<1> QED
  BY <1>18, <1>19, <1>20, <1>21, <1>22, <1>23 DEF InterpInv

LEMMA InterruptedIs ==
  ASSUME BoundsOK, SignalsOK, Interrupted
  PROVE  interrupts' \in 0 .. MaxBreaks + 1
<1>1. PICK i, k : i = interrupts + 1 /\ k = MaxBreaks + 1 /\ i \in Nat /\ k \in Nat
  BY DEF SignalsOK, BoundsOK
<1> QED
  BY <1>1, MinOfTwo DEF Interrupted

LEMMA CallbackStep ==
  ASSUME BoundsOK, InterpInv, Callback
  PROVE  InterpInv'
<1>1. active # << >> /\ Top.kind = "C" /\ callback("run") /\ UNCHANGED <<signalVars, countVars>>
  BY InCIs DEF Callback, callback
<1>2. SignalsOK /\ (signal_is_pending => something_to_do)
  BY <1>1, CTop
<1>3. SignalsOK' /\ PendingSeen'
  BY <1>1, <1>2, NotPending DEF SignalsOK, signalVars, countVars
<1> QED
  BY <1>1, <1>3, callbackStep

LEMMA RunHandlerStep ==
  ASSUME BoundsOK, InterpInv, RunHandler
  PROVE  InterpInv'
<1>1. active # << >> /\ Top.kind = "C" /\ callback("raise") /\ UNCHANGED <<signalVars, breaks>> /\ Interrupted
  BY InCIs DEF RunHandler, callback
<1>2. SignalsOK /\ (signal_is_pending => something_to_do)
  BY <1>1, CTop
<1>3. SignalsOK' /\ PendingSeen'
  BY <1>1, <1>2, NotPending, InterruptedIs DEF SignalsOK, signalVars
<1> QED
  BY <1>1, <1>3, callbackStep

-----------------------------------------------------------------------------
(* Activations are left.                                                   *)

(* An interpreter goes on, whatever becomes of the activations above it.   *)
LEMMA EntryGoes ==
  ASSUME BoundsOK, InterpInv, NEW d \in 1 .. Depth, IsML(d),
         NEW a \in interprete, SameBase(a, active[d]), a.initial_sp_offset <= a.sp[2],
         active'[d] = a, \A i \in 1 .. d - 1 : active'[i] = active[i],
         \A i \in 1 .. d : IsML(i) =>
           /\ slot'[active[i].initial_sp_offset].kind = slot[active[i].initial_sp_offset].kind \/ i = 1
           /\ slot'[active[i].sp[2]].kind = slot[active[i].sp[2]].kind \/ i = d
  PROVE  /\ \A i \in 1 .. d : IsML(i)' = IsML(i) /\ (IsML(i) => active'[i].initial_sp_offset = active[i].initial_sp_offset)
         /\ \A i \in 1 .. d : /\ active'[i].kind = active[i].kind
                              /\ active[i].kind = "C" => active'[i].roots = active[i].roots
         /\ \A i \in 1 .. d : Entry(i)'
         /\ IsRootsOf(active[d].initial_c_roots_head, d)
<1>1. TypeOK /\ Depth \in Nat /\ d \in Nat /\ d - 1 \in Nat /\ d \in 1 .. d /\ d - 1 <= Depth
  BY ActivationIs DEF InterpInv
<1>2. a.kind = "ML" /\ IsML(d)' /\ active[d].kind = "ML"
  BY InterpreteIs DEF IsML
<1>3. ASSUME NEW i \in 1 .. d
      PROVE  /\ IsML(i)' = IsML(i) /\ (IsML(i) => active'[i].initial_sp_offset = active[i].initial_sp_offset)
             /\ active'[i].kind = active[i].kind
             /\ active[i].kind = "C" => active'[i].roots = active[i].roots
  <2>1. CASE i = d
    BY <2>1, <1>2 DEF SameBase, IsML
  <2>2. CASE i # d
    BY <2>2, <1>1 DEF IsML
  <2> QED
    BY <2>1, <2>2
<1>4. PICK n \in Nat : n = d - 1 /\ n <= Depth
  BY <1>1
<1>5. \A i \in 1 .. n : Entry(i)'
  <2>1. \A i \in 1 .. n : active'[i] = active[i] /\ Entry(i) /\ i \in 1 .. d /\ i # d
    BY <1>1, <1>4 DEF InterpInv
  <2>2. \A i \in 1 .. n : IsML(i) =>
          /\ slot'[active[i].initial_sp_offset].kind = slot[active[i].initial_sp_offset].kind \/ i = 1
          /\ slot'[active[i].sp[2]].kind = slot[active[i].sp[2]].kind \/ i = n
    BY <2>1
  <2> QED
    BY <2>1, <2>2, <1>1, <1>4, EntriesKept
<1>6. MLEntry(d)
  BY DEF InterpInv, Entry
<1>7. IsRootsOf(active[d].initial_c_roots_head, d)
  BY <1>6 DEF MLEntry
<1>8. IsRootsOf(a.initial_c_roots_head, d)'
  <2>1. PICK r : r = active[d].initial_c_roots_head
    OBVIOUS
  <2>2. IsRootsOf(r, d)'
    BY <2>1, <1>1, <1>3, <1>7, RootsKept
  <2> QED
    BY <2>1, <2>2 DEF SameBase
<1>9. d > 1 => /\ (~ IsML(d - 1))'
               /\ Innermost(a.initial_external_raise, d - 1)'
               /\ a.initial_sp_offset = active'[a.initial_external_raise].sp[2] + 1
               /\ \A e \in 1 .. d - 1 : IsML(e)' => active'[e].sp[2] < a.initial_sp_offset
               /\ slot'[a.initial_sp_offset].kind = "value"
  <2> SUFFICES ASSUME d > 1
               PROVE  /\ (~ IsML(d - 1))'
                      /\ Innermost(a.initial_external_raise, d - 1)'
                      /\ a.initial_sp_offset = active'[a.initial_external_raise].sp[2] + 1
                      /\ \A e \in 1 .. d - 1 : IsML(e)' => active'[e].sp[2] < a.initial_sp_offset
                      /\ slot'[a.initial_sp_offset].kind = "value"
    OBVIOUS
  <2>1. PICK e : e = a.initial_external_raise
    OBVIOUS
  <2>2. /\ ~ IsML(d - 1) /\ Innermost(e, d - 1)
        /\ a.initial_sp_offset = active[e].sp[2] + 1
        /\ \A k \in 1 .. d - 1 : IsML(k) => active[k].sp[2] < a.initial_sp_offset
        /\ slot[a.initial_sp_offset].kind = "value"
    BY <1>6, <2>1 DEF MLEntry, SameBase
  <2>3. d - 1 \in 1 .. d /\ \A k \in 1 .. d - 1 : k \in 1 .. d
    BY <1>1
  <2>4. e \in 1 .. d - 1
    BY <2>2 DEF Innermost
  <2>5. Innermost(e, d - 1)'
    BY <2>2, <2>3, <2>4, <1>3 DEF Innermost
  <2>6. slot'[a.initial_sp_offset].kind = "value"
    <3>1. a.initial_sp_offset = active[d].initial_sp_offset
      BY DEF SameBase
    <3>2. slot'[active[d].initial_sp_offset].kind = slot[active[d].initial_sp_offset].kind \/ d = 1
      BY <1>1
    <3> QED
      BY <2>2, <3>1, <3>2
  <2>7. (~ IsML(d - 1))'
    BY <2>2, <2>3, <1>3
  <2>8. \A k \in 1 .. d - 1 : IsML(k)' => active'[k].sp[2] < a.initial_sp_offset
    BY <2>2, <2>3, <1>3
  <2>9. a.initial_sp_offset = active'[e].sp[2] + 1
    BY <2>2, <2>4
  <2> QED
    BY <2>1, <2>5, <2>6, <2>7, <2>8, <2>9
<1>10. d = 1 => a.initial_sp_offset = 0 /\ a.initial_external_raise = 0
  BY <1>6 DEF MLEntry, SameBase
<1>11. MLEntry(d)'
  BY <1>8, <1>9, <1>10 DEF MLEntry
<1>12. Entry(d)'
  BY <1>2, <1>11 DEF Entry
<1>13. \A i \in 1 .. d : i \in 1 .. n \/ i = d
  BY <1>1, <1>4
<1> QED
  BY <1>3, <1>5, <1>7, <1>12, <1>13

(* What remains: the roots of the activations up to d.                     *)
LEMMA RootsLeft ==
  ASSUME NEW d \in Nat, NEW r, IsRootsOf(r, d), Depth' = d, c_roots_head' = r,
         \A i \in 1 .. d : /\ active'[i].kind = active[i].kind
                           /\ active[i].kind = "C" => active'[i].roots = active[i].roots
  PROVE  RootsLive'
<1>1. IsRootsOf(r, d)'
  BY RootsKept
<1> QED
  BY <1>1 DEF RootsLive, IsRootsOf

(* An exception leaves activations: setjmp in interprete, the d-th.        *)
LEMMA Longjumps ==
  ASSUME BoundsOK, InterpInv, active # << >>, NEW d \in 1 .. Depth, IsML(d), Longjmp(d, SavedRoots(d)),
         UNCHANGED <<slot, stack, trapsp>>, extern_sp' \in Pointers, external_raise' = d,
         SignalsOK', PendingSeen',
         \A e \in 1 .. Depth : IsML(e) /\ e > d => trapsp[2] <= active[e].initial_sp_offset
  PROVE  InterpInv'
<1>1. TypeOK /\ ChainInv /\ OwnersInv /\ Depth \in Nat /\ Depth > 0 /\ d \in Nat /\ d > 0 /\ d <= Depth
  BY ActivationIs DEF InterpInv
<1>2. active[d] \in interprete
  BY <1>1, ActivationIs
<1>3. PICK a \in interprete : a = InMode(active[d], "raise") /\ a.sp = active[d].sp /\ a.mode = "raise" /\ SameBase(a, active[d])
  BY <1>2, ModeBecomes
<1>4. /\ active' \in Seq(C \cup interprete) /\ Len(active') = d /\ active'[d] = a
      /\ \A i \in 1 .. d - 1 : active'[i] = active[i]
  <2>1. PICK s : s = SubSeq(active, 1, d)
    OBVIOUS
  <2>2. active \in Seq(C \cup interprete) /\ Len(active) = Depth
    BY <1>1 DEF TypeOK, Depth
  <2>3. s \in Seq(C \cup interprete) /\ Len(s) = d /\ \A i \in 1 .. d : s[i] = active[i]
    BY <2>1, <2>2, <1>1
  <2>4. active' = [s EXCEPT ![d] = a]
    <3>1. active' = [s EXCEPT ![d].mode = "raise"]
      <4>1. d # 0
        BY <1>1
      <4>2. active' = [SubSeq(active, 1, d) EXCEPT ![d].mode = "raise"]
        BY <4>1, Zenon DEF Longjmp
      <4> QED
        BY <4>2, <2>1, Zenon
    <3>2. s[d] = active[d]
      BY <2>3, <1>1
    <3>3. a = [s[d] EXCEPT !.mode = "raise"]
      BY <3>2, <1>3 DEF InMode
    <3> QED
      BY <3>1, <3>3
  <2> QED
    BY <2>3, <2>4, <1>1
<1>5. Depth' = d /\ Top' = a /\ active' # << >> /\ Len(active') <= MaxActive
  BY <1>1, <1>4 DEF Depth, Top, Last, TypeOK, BoundsOK
<1>6. a.initial_sp_offset <= a.sp[2]
  BY <1>3 DEF InterpInv, Entry, MLEntry, SameBase
<1>7. /\ \A i \in 1 .. d : IsML(i)' = IsML(i) /\ (IsML(i) => active'[i].initial_sp_offset = active[i].initial_sp_offset)
      /\ \A i \in 1 .. d : /\ active'[i].kind = active[i].kind
                           /\ active[i].kind = "C" => active'[i].roots = active[i].roots
      /\ \A i \in 1 .. d : Entry(i)'
      /\ IsRootsOf(active[d].initial_c_roots_head, d)
  <2>1. slot' = slot
    OBVIOUS
  <2> QED
    BY <2>1, <1>3, <1>4, <1>6, EntryGoes
<1>8. c_roots_head' = active[d].initial_c_roots_head /\ c_roots_head' \in Seq(CRoots)
  BY <1>1, <1>2, InterpreteIs DEF Longjmp, SavedRoots
<1>9. RootsLive'
  <2>1. PICK r : r = active[d].initial_c_roots_head
    OBVIOUS
  <2> QED
    BY <2>1, <1>1, <1>5, <1>7, <1>8, RootsLeft
<1>10. ChainInv'
  BY <1>1, ChainKept
<1>11. OwnersInv'
  <2>1. PICK t \in Nat : t = trapsp'[2] /\ t <= trapsp[2] /\ t = trapsp[2]
    BY <1>1, SlotIs DEF BoundsOK
  <2>2. \A e \in 1 .. Depth : IsML(e) =>
          \/ t <= active[e].initial_sp_offset
          \/ e \in 1 .. d /\ IsML(e)' /\ active'[e].initial_sp_offset = active[e].initial_sp_offset
    <3>1. ASSUME NEW e \in 1 .. Depth, IsML(e)
          PROVE  \/ t <= active[e].initial_sp_offset
                 \/ e \in 1 .. d /\ IsML(e)' /\ active'[e].initial_sp_offset = active[e].initial_sp_offset
      <4>1. e > d \/ e \in 1 .. d
        BY <1>1
      <4> QED
        BY <4>1, <3>1, <2>1, <1>7
    <3> QED
      BY <3>1
  <2>3. \A e \in 1 .. d : e \in 1 .. Depth
    BY <1>1
  <2> QED
    BY <2>1, <2>2, <2>3, <1>1, <1>5, <1>7, OwnersKept
<1>12. TypeOK'
  <2>1. d \in Depths
    BY <1>1 DEF Depths, TypeOK, Depth, BoundsOK
  <2> QED
    BY <2>1, <1>1, <1>4, <1>5, <1>8 DEF TypeOK, SignalsOK
<1>13. TopInv'
  <2>1. \A k \in 1 .. d : ~ (k > d)
    BY <1>1
  <2>2. Innermost(d, d)'
    BY <2>1, <1>1, <1>7 DEF Innermost
  <2>3. Innermost(external_raise, Depth)'
    BY <2>2, <1>5 DEF Innermost
  <2>4. InUse' = trapsp[2] /\ Top'.kind = "ML" /\ Top'.mode = "raise"
    BY <1>3, <1>5, InterpreteIs DEF InUse
  <2>5. trapsp[2] \in Nat
    BY <1>1, SlotIs DEF BoundsOK
  <2> QED
    BY <2>3, <2>4, <2>5 DEF TopInv
<1> QED
  BY <1>5, <1>7, <1>9, <1>10, <1>11, <1>12, <1>13 DEF InterpInv

(* The program ends with an exception that nothing handles.                *)
LEMMA Ends ==
  ASSUME BoundsOK, InterpInv, Longjmp(0, SavedRoots(0)),
         UNCHANGED <<slot, stack, trapsp>>, extern_sp' \in Pointers, external_raise' = 0, SignalsOK'
  PROVE  InterpInv'
<1>1. TypeOK /\ ChainInv
  BY DEF InterpInv
<1>2. active' = << >> /\ c_roots_head' = << >>
  BY DEF Longjmp, SavedRoots
<1>3. Depth' = 0
  BY <1>2 DEF Depth
<1>4. ChainInv'
  BY <1>1, ChainKept
<1>5. TypeOK'
  BY <1>1, <1>2 DEF TypeOK, SignalsOK, BoundsOK, Depths
<1>6. RootsLive'
  <2>1. RootsOf(0)' = {}
    BY DEF RootsOf
  <2>2. IsRootsOf(<< >>, 0)'
    BY <2>1 DEF IsRootsOf, Range
  <2> QED
    BY <2>2, <1>2, <1>3 DEF RootsLive, IsRootsOf
<1>7. PendingSeen' /\ TopInv'
  BY <1>2 DEF PendingSeen, TopInv
<1> QED
  BY <1>2, <1>3, <1>4, <1>5, <1>6, <1>7 DEF InterpInv

(* An exception leaves the activation, or goes to a handler of its own.    *)
LEMMA RAISEStep ==
  ASSUME BoundsOK, InterpInv, RAISE
  PROVE  InterpInv'
<1>1. /\ ML("run") \/ ML("raise")
      /\ UNCHANGED <<slot, stack, extern_sp, signalVars, countVars>>
  BY DEF RAISE
<1>2. PICK m : ML(m) /\ m \in {"run", "raise"}
  BY <1>1
<1>3. /\ Top \in interprete /\ active # << >> /\ Top.kind = "ML" /\ Top.mode = m /\ Top = active[Depth]
      /\ TypeOK /\ ChainInv /\ SignalsOK /\ PendingSeen /\ Depth \in 1 .. Depth /\ Depth \in Nat
      /\ trapsp[2] \in 0 .. InUse
  BY <1>2, MLIs
<1>4. Top.initial_sp_offset \in Nat /\ trapsp \in Pointers /\ trapsp[2] \in Nat
  BY SMTT(30), <1>3, InterpreteIs, SlotIs DEF TypeOK, BoundsOK
<1>5. CASE trapsp[2] > Top.initial_sp_offset
  BY <1>5, RAISEOwnStep
<1>6. CASE trapsp[2] <= Top.initial_sp_offset
  <2>1. PICK d : d = Top.initial_external_raise
    OBVIOUS
  <2>2. external_raise' = d /\ Longjmp(d, SavedRoots(d)) /\ UNCHANGED trapsp
    BY <1>6, <2>1 DEF RAISE, OuterBuffer
  <2>3. SignalsOK' /\ PendingSeen'
    <3>1. UNCHANGED <<signal_is_pending, something_to_do>> /\ SignalsOK'
      BY <1>1, <1>3 DEF SignalsOK, signalVars, countVars
    <3>2. signal_is_pending => something_to_do
      BY <1>2, <1>3 DEF PendingSeen, ML, Runs
    <3> QED
      BY <3>1, <3>2, NotPending
  <2>4. extern_sp' \in Pointers /\ UNCHANGED <<slot, stack, trapsp>>
    BY <1>1, <1>3, <2>2 DEF TypeOK
  <2>5. MLEntry(Depth)
    BY <1>3 DEF InterpInv, Entry, IsML
  <2>6. CASE Depth = 1
    <3>1. d = 0
      BY <2>1, <2>5, <2>6, <1>3 DEF MLEntry
    <3> QED
      BY <3>1, <2>2, <2>3, <2>4, Ends
  <2>7. CASE Depth # 1
    <3>1. Innermost(d, Depth - 1) /\ Depth > 1
      BY <2>1, <2>5, <2>7, <1>3 DEF MLEntry
    <3>2. /\ d \in 1 .. Depth - 1 /\ d \in 1 .. Depth /\ IsML(d)
          /\ \A k \in 1 .. Depth - 1 : k > d => ~ IsML(k)
      BY <3>1, <1>3 DEF Innermost
    <3>3. \A e \in 1 .. Depth : IsML(e) /\ e > d => trapsp[2] <= active[e].initial_sp_offset
      <4>1. \A e \in 1 .. Depth : e \in 1 .. Depth - 1 \/ e = Depth
        BY <1>3
      <4> QED
        BY <4>1, <3>2, <1>3, <1>6
    <3> QED
      BY <3>2, <3>3, <2>2, <2>3, <2>4, <1>3, Longjumps
  <2> QED
    BY <2>6, <2>7
<1> QED
  BY <1>4, <1>5, <1>6

(* mlraise, from compiled code and from a C function.                      *)
LEMMA mlraises ==
  ASSUME BoundsOK, InterpInv, active # << >>, mlraise, extern_sp' \in Pointers, signal_is_pending => something_to_do
  PROVE  InterpInv'
<1>1. PICK d : d = external_raise
  OBVIOUS
<1>2. /\ in_blocking_section' = FALSE /\ Longjmp(d, SavedRoots(d))
      /\ UNCHANGED <<slot, stack, trapsp, external_raise, signal_is_pending, something_to_do, force_minor_flag, countVars>>
  BY <1>1 DEF mlraise
<1>3. /\ d \in 1 .. Depth /\ IsML(d) /\ Depth \in Nat
      /\ \A k \in 1 .. Depth : IsML(k) => k <= d
  BY <1>1, TopIs, ActivationIs DEF InterpInv
<1>4. SignalsOK' /\ PendingSeen'
  <2>1. SignalsOK
    BY DEF InterpInv, TypeOK, SignalsOK
  <2> QED
    BY <2>1, <1>2, NotPending DEF SignalsOK, countVars
<1>5. \A e \in 1 .. Depth : ~ (IsML(e) /\ e > d)
  BY <1>3
<1> QED
  BY <1>1, <1>2, <1>3, <1>4, <1>5, Longjumps

LEMMA StackOverflowStep ==
  ASSUME BoundsOK, InterpInv, StackOverflow
  PROVE  InterpInv'
<1>1. ML("run") /\ extern_sp' = Top.sp /\ mlraise
  BY DEF StackOverflow
<1>2. active # << >> /\ Top \in interprete /\ Top.mode = "run" /\ PendingSeen
  BY <1>1, MLIs
<1>3. extern_sp' \in Pointers
  BY <1>1, <1>2, InterpreteIs
<1>4. signal_is_pending => something_to_do
  BY <1>2 DEF PendingSeen, ML, Runs
<1> QED
  BY <1>1, <1>2, <1>3, <1>4, mlraises

LEMMA FailStep ==
  ASSUME BoundsOK, InterpInv, Fail
  PROVE  InterpInv'
<1>1. active # << >> /\ Top.kind = "C" /\ mlraise /\ extern_sp' = extern_sp
  BY InCIs DEF Fail
<1>2. extern_sp \in Pointers /\ (signal_is_pending => something_to_do)
  BY <1>1, CTop
<1> QED
  BY <1>1, <1>2, mlraises

LEMMA FrontIs ==
  ASSUME NEW T, NEW s \in Seq(T), s # << >>
  PROVE  Front(s) \in Seq(T) /\ Len(Front(s)) = Len(s) - 1 /\ \A i \in 1 .. Len(s) - 1 : Front(s)[i] = s[i]
<1>1. PICK n \in Nat : n = Len(s) - 1 /\ n <= Len(s)
  <2>1. Len(s) \in Nat /\ Len(s) # 0
    OBVIOUS
  <2>2. Len(s) - 1 \in Nat /\ Len(s) - 1 <= Len(s)
    BY <2>1
  <2> QED
    BY <2>2
<1>2. Front(s) = SubSeq(s, 1, n)
  BY <1>1 DEF Front
<1>3. PICK f : f = SubSeq(s, 1, n)
  OBVIOUS
<1>4. f \in Seq(T) /\ Len(f) = n /\ \A i \in 1 .. n : f[i] = s[i]
  BY <1>1, <1>3
<1> QED
  BY <1>1, <1>2, <1>3, <1>4

(* A C function returns to the compiled code that called it.               *)
LEMMA ReturnStep ==
  ASSUME BoundsOK, InterpInv, Return
  PROVE  InterpInv'
<1>1. /\ active # << >> /\ Top.kind = "C" /\ Top.mode = "run" /\ Top.roots = 0
      /\ active' = [Front(active) EXCEPT ![Depth - 1] = [@ EXCEPT !.sp = Up(extern_sp, 1)]]
      /\ UNCHANGED <<stackVars, external_raise, c_roots_head, signalVars, countVars>>
  BY InCIs DEF Return, Restored
<1>2. PICK d, x, z : d = Depth - 1 /\ x = Depth /\ z = extern_sp[2]
  OBVIOUS
<1>3. /\ TypeOK /\ ChainInv /\ OwnersInv /\ TopInv /\ RootsLive /\ SignalsOK
      /\ Top = active[x] /\ ~ IsML(x) /\ CEntry(x) /\ external_raise \in 1 .. d
      /\ \A k \in 1 .. x : IsML(k) => k <= external_raise
      /\ d \in Nat /\ d > 0 /\ x = d + 1 /\ x > 0 /\ d \in 1 .. x
      /\ extern_sp[1] = stack /\ z = active[external_raise].sp[2] /\ extern_sp \in Pointers /\ z \in Nat /\ z > 0
      /\ trapsp[2] \in 0 .. z - 1
      /\ \A n \in 1 .. z : n > trapsp[2] => slot[n].kind = "value"
      /\ signal_is_pending => something_to_do
  BY SMTT(30), <1>1, <1>2, CTop DEF BoundsOK
<1>4. /\ IsML(d) /\ active[d].mode = "run" /\ active[d].initial_sp_offset < active[d].sp[2]
  BY <1>1, <1>2, <1>3 DEF CEntry
<1>5. external_raise = d /\ d \in 1 .. d
  BY <1>3, <1>4
<1>6. active[d] \in interprete
  BY <1>2, <1>3, <1>4, ActivationIs
<1>7. PICK q \in Pointers : q = Up(extern_sp, 1) /\ q[1] = stack /\ q[2] = z - 1 /\ q[2] \in Nat
  <2>1. extern_sp[2] > 0
    BY <1>2, <1>3
  <2>2. Up(extern_sp, 1) \in Pointers /\ Up(extern_sp, 1)[1] = stack /\ Up(extern_sp, 1)[2] = z - 1
    BY <1>2, <1>3, <2>1, PointerMoves
  <2>3. z - 1 \in Nat
    BY <1>3
  <2> QED
    BY <2>2, <2>3
<1>8. PICK a \in interprete : a = At(active[d], q) /\ a.sp = q /\ a.mode = "run" /\ SameBase(a, active[d])
  BY <1>4, <1>6, <1>7, SpBecomes
<1>9. /\ active' \in Seq(C \cup interprete) /\ Len(active') = d /\ active'[d] = a
      /\ \A i \in 1 .. d - 1 : active'[i] = active[i]
  <2>1. PICK s : s = Front(active)
    OBVIOUS
  <2>2. active \in Seq(C \cup interprete) /\ Len(active) = d + 1 /\ active # << >>
    BY <1>1, <1>2, <1>3 DEF TypeOK, Depth
  <2>3. s \in Seq(C \cup interprete) /\ Len(s) = d /\ \A i \in 1 .. d : s[i] = active[i]
    <3>1. PICK T : T = C \cup interprete
      OBVIOUS
    <3>2. active \in Seq(T)
      BY <2>2, <3>1
    <3>3. s \in Seq(T) /\ Len(s) = Len(active) - 1 /\ \A i \in 1 .. Len(active) - 1 : s[i] = active[i]
      BY <2>1, <2>2, <3>2, FrontIs
    <3> QED
      BY <3>1, <3>3, <2>2, <1>3
  <2>4. active' = [s EXCEPT ![d] = a]
    <3>1. active' = [s EXCEPT ![d] = [@ EXCEPT !.sp = q]]
      BY <1>1, <1>2, <1>7, <2>1, Zenon
    <3>2. s[d] = active[d]
      BY <2>3, <1>3
    <3>3. a = [s[d] EXCEPT !.sp = q]
      BY <3>2, <1>8 DEF At
    <3> QED
      BY <3>1, <3>3
  <2> QED
    BY <2>3, <2>4, <1>3
<1>10. Depth' = d /\ Top' = a /\ active' # << >> /\ Len(active') <= MaxActive
  BY <1>2, <1>3, <1>9 DEF Depth, Top, Last, TypeOK, BoundsOK
<1>11. /\ slot' = slot /\ stack' = stack /\ trapsp' = trapsp /\ extern_sp' = extern_sp /\ external_raise' = d
       /\ c_roots_head' = c_roots_head /\ SignalsOK' /\ PendingSeen'
  BY <1>1, <1>3, <1>5, NotPending DEF stackVars, signalVars, countVars, SignalsOK
<1>12. a.initial_sp_offset <= a.sp[2]
  <2>1. active[d].initial_sp_offset \in Nat /\ active[d].initial_sp_offset < z
    BY <1>3, <1>4, <1>5, <1>6, InterpreteIs
  <2> QED
    BY <2>1, <1>3, <1>7, <1>8 DEF SameBase
<1>13. /\ \A i \in 1 .. d : IsML(i)' = IsML(i) /\ (IsML(i) => active'[i].initial_sp_offset = active[i].initial_sp_offset)
       /\ \A i \in 1 .. d : /\ active'[i].kind = active[i].kind
                            /\ active[i].kind = "C" => active'[i].roots = active[i].roots
       /\ \A i \in 1 .. d : Entry(i)'
  BY <1>2, <1>3, <1>4, <1>8, <1>9, <1>11, <1>12, EntryGoes
<1>14. RootsLive'
  <2>1. PICK r : r = c_roots_head
    OBVIOUS
  <2>2. RootsOf(x) = RootsOf(x - 1) /\ x - 1 = d
    BY <1>1, <1>3, RootsNext
  <2>3. IsRootsOf(r, d)
    BY <1>2, <1>3, <2>1, <2>2 DEF RootsLive, IsRootsOf
  <2> QED
    BY <2>1, <2>3, <1>3, <1>10, <1>11, <1>13, RootsLeft
<1>15. ChainInv'
  BY <1>3, <1>11, ChainKept
<1>16. OwnersInv'
  <2>1. PICK t \in Nat : t = trapsp'[2] /\ t <= trapsp[2] /\ t = trapsp[2]
    BY <1>3, <1>11
  <2>2. \A e \in 1 .. x : IsML(e) => e \in 1 .. d
    BY <1>3, <1>5
  <2>3. \A e \in 1 .. d : e \in 1 .. x
    BY <1>3
  <2> QED
    BY <2>1, <2>2, <2>3, <1>1, <1>2, <1>3, <1>10, <1>11, <1>13, OwnersKept
<1>17. TypeOK'
  <2>1. d \in Depths
    BY <1>2, <1>3 DEF Depths, TypeOK, Depth, BoundsOK
  <2> QED
    BY <2>1, <1>3, <1>9, <1>10, <1>11 DEF TypeOK, SignalsOK
<1>18. TopInv'
  <2>1. \A k \in 1 .. d : ~ (k > d)
    BY <1>3
  <2>2. Innermost(d, d)'
    BY <2>1, <1>4, <1>5, <1>13 DEF Innermost
  <2>3. Innermost(external_raise, Depth)'
    BY <2>2, <1>10, <1>11 DEF Innermost
  <2>4. InUse' = q[2] /\ Top'.kind = "ML" /\ Top'.sp[1] = stack
    BY <1>7, <1>8, <1>10, InterpreteIs DEF InUse
  <2>5. trapsp[2] <= q[2] /\ \A n \in 1 .. q[2] : n > trapsp[2] => slot[n].kind = "value"
    BY <1>3, <1>7
  <2> QED
    BY <2>3, <2>4, <2>5, <1>11 DEF TopInv
<1> QED
  BY <1>10, <1>11, <1>13, <1>14, <1>15, <1>16, <1>17, <1>18 DEF InterpInv

(* The code that a C function called back ends.                            *)
LEMMA STOPStep ==
  ASSUME BoundsOK, InterpInv, STOP
  PROVE  InterpInv'
<1>1. /\ ML("run") /\ Depth > 1 /\ Top.sp[2] = Top.initial_sp_offset
      /\ extern_sp' = Up(Top.sp, 1) /\ external_raise' = Top.initial_external_raise /\ active' = Front(active)
      /\ UNCHANGED <<slot, stack, trapsp, c_roots_head, signalVars, countVars>>
  BY DEF STOP
<1>2. PICK d, x, e, p : d = Depth - 1 /\ x = Depth /\ e = Top.initial_external_raise /\ p = Top.sp
  OBVIOUS
<1>3. /\ active # << >> /\ Top \in interprete /\ Top.kind = "ML" /\ Top.mode = "run" /\ Top = active[x]
      /\ TypeOK /\ ChainInv /\ OwnersInv /\ SignalsOK /\ PendingSeen /\ x \in 1 .. x /\ x \in Nat
      /\ InUse = p[2] /\ p[1] = stack /\ trapsp[2] \in 0 .. p[2] /\ external_raise = x
      /\ \A n \in 1 .. p[2] : n > trapsp[2] => slot[n].kind = "value"
  BY <1>1, <1>2, MLIs
<1>4. d \in Nat /\ d > 0 /\ x = d + 1 /\ x > 0 /\ d \in 1 .. x /\ d \in 1 .. d /\ d <= Depth
  BY <1>1, <1>2, <1>3
<1>5. IsML(x) /\ MLEntry(x)
  BY <1>2, <1>3 DEF InterpInv, Entry, IsML
<1>6. /\ ~ IsML(d) /\ Innermost(e, d)
      /\ p[2] = active[e].sp[2] + 1
      /\ slot[p[2]].kind = "value"
  BY <1>1, <1>2, <1>3, <1>4, <1>5 DEF MLEntry
<1>7. e \in 1 .. d /\ e \in 1 .. x /\ IsML(e) /\ active[e] \in interprete
  BY <1>2, <1>3, <1>4, <1>6, ActivationIs DEF Innermost
<1>8. active[e].sp[2] \in Nat /\ p \in Pointers /\ p[2] > 0 /\ p[2] \in Nat
  BY SMTT(30), <1>2, <1>3, <1>6, <1>7, InterpreteIs
<1>9. PICK q \in Pointers : q = Up(p, 1) /\ q[1] = stack /\ q[2] = active[e].sp[2] /\ q[2] = p[2] - 1 /\ q = <<q[1], q[2]>>
  <2>1. Up(p, 1) \in Pointers /\ Up(p, 1)[1] = stack /\ Up(p, 1)[2] = p[2] - 1
    BY <1>3, <1>8, PointerMoves
  <2>2. p[2] - 1 = active[e].sp[2]
    BY <1>6, <1>8
  <2>3. Up(p, 1) = <<Up(p, 1)[1], Up(p, 1)[2]>>
    BY <2>1 DEF Up
  <2> QED
    BY <2>1, <2>2, <2>3
<1>10. /\ active' \in Seq(C \cup interprete) /\ Len(active') = d /\ \A i \in 1 .. d : active'[i] = active[i]
  <2>1. PICK T : T = C \cup interprete
    OBVIOUS
  <2>2. active \in Seq(T) /\ active # << >> /\ Len(active) = d + 1
    BY <1>2, <1>3, <1>4, <2>1 DEF TypeOK, Depth
  <2>3. active' \in Seq(T) /\ Len(active') = Len(active) - 1 /\ \A i \in 1 .. Len(active) - 1 : active'[i] = active[i]
    BY <1>1, <2>2, FrontIs
  <2> QED
    BY <2>1, <2>2, <2>3, <1>4
<1>11. Depth' = d /\ Top' = active[d] /\ active' # << >> /\ Len(active') <= MaxActive
  BY <1>2, <1>3, <1>4, <1>10 DEF Depth, Top, Last, TypeOK, BoundsOK
<1>12. /\ slot' = slot /\ stack' = stack /\ trapsp' = trapsp /\ extern_sp' = q /\ external_raise' = e
       /\ c_roots_head' = c_roots_head /\ SignalsOK'
  BY <1>1, <1>2, <1>3, <1>9 DEF signalVars, countVars, SignalsOK
<1>13. PendingSeen'
  <2>1. UNCHANGED <<signal_is_pending, something_to_do>>
    BY <1>1 DEF signalVars
  <2> QED
    BY <2>1, <1>1, <1>3, Unpending
<1>14. \A i \in 1 .. d : active'[i] = active[i] /\ IsML(i)' = IsML(i) /\ i \in 1 .. x
  BY <1>4, <1>10 DEF IsML
<1>15. \A i \in 1 .. d : Entry(i)'
  <2>1. \A i \in 1 .. d : Entry(i)
    BY <1>2, <1>14 DEF InterpInv
  <2> QED
    BY <2>1, <1>3, <1>4, <1>12, <1>14, EntriesKept
<1>16. RootsLive'
  <2>1. PICK r : r = c_roots_head
    OBVIOUS
  <2>2. active[x].kind # "C" \/ active[x].roots = 0
    BY <1>3
  <2>3. RootsOf(x) = RootsOf(x - 1) /\ x - 1 = d
    BY <2>2, <1>3, <1>4, RootsNext
  <2>4. IsRootsOf(r, d)
    BY <1>2, <2>1, <2>3 DEF RootsLive, IsRootsOf, InterpInv
  <2> QED
    BY <2>1, <2>4, <1>4, <1>11, <1>12, <1>14, RootsLeft
<1>17. ChainInv'
  BY <1>3, <1>12, ChainKept
<1>18. trapsp[2] <= p[2] - 1 /\ trapsp[2] \in Nat
  BY <1>3, <1>6, <1>8 DEF ChainInv
<1>19. OwnersInv'
  <2>1. PICK t \in Nat : t = trapsp'[2] /\ t <= trapsp[2] /\ t = trapsp[2] /\ t <= p[2]
    BY <1>3, <1>12, <1>18
  <2>2. \A k \in 1 .. x : IsML(k) =>
          \/ t <= active[k].initial_sp_offset
          \/ k \in 1 .. d /\ IsML(k)' /\ active'[k].initial_sp_offset = active[k].initial_sp_offset
    <3>1. ASSUME NEW k \in 1 .. x, IsML(k)
          PROVE  \/ t <= active[k].initial_sp_offset
                 \/ k \in 1 .. d /\ IsML(k)' /\ active'[k].initial_sp_offset = active[k].initial_sp_offset
      <4>1. k = x \/ k \in 1 .. d
        BY <1>4
      <4>2. t <= active[x].initial_sp_offset
        BY <2>1, <1>1, <1>2, <1>3
      <4> QED
        BY <4>1, <4>2, <3>1, <1>14
    <3> QED
      BY <3>1
  <2> QED
    BY <2>1, <2>2, <1>2, <1>3, <1>4, <1>11, <1>12, <1>14, OwnersKept
<1>20. TypeOK'
  <2>1. e \in Depths
    BY <1>2, <1>3, <1>7 DEF Depths, TypeOK, Depth, BoundsOK
  <2> QED
    BY <2>1, <1>3, <1>10, <1>11, <1>12 DEF TypeOK, SignalsOK
<1>21. TopInv'
  <2>1. Innermost(e, d)'
    BY <1>6, <1>7, <1>14 DEF Innermost
  <2>2. Innermost(external_raise, Depth)'
    BY <2>1, <1>11, <1>12 DEF Innermost
  <2>3. active[d].kind = "C" /\ active'[e] = active[e]
    BY <1>2, <1>3, <1>4, <1>6, <1>7, <1>14, ActivationIs DEF IsML
  <2>4. InUse' = q[2] /\ Top'.kind = "C"
    BY <2>3, <1>11, <1>12 DEF InUse
  <2>5. trapsp[2] <= q[2] /\ \A n \in 1 .. q[2] : n > trapsp[2] => slot[n].kind = "value"
    BY <1>3, <1>8, <1>9, <1>18
  <2>6. extern_sp' = <<stack', active'[e].sp[2]>>
    BY <2>3, <1>9, <1>12
  <2> QED
    BY <2>2, <2>4, <2>5, <2>6, <1>12 DEF TopInv
<1> QED
  BY <1>11, <1>13, <1>15, <1>16, <1>17, <1>19, <1>20, <1>21 DEF InterpInv

(* Compiled code calls a C function.                                       *)
LEMMA C_CALLStep ==
  ASSUME BoundsOK, InterpInv, C_CALL
  PROVE  InterpInv'
<1>1. /\ ML("run") /\ Depth < MaxActive /\ PushSlot(Top.sp, aValue) /\ extern_sp' = Down(Top.sp, 1)
      /\ active' = Append([active EXCEPT ![Depth].sp = Down(@, 1)], [kind |-> "C", mode |-> "run", roots |-> 0])
      /\ UNCHANGED <<stack, trapsp, external_raise, c_roots_head, signalVars, countVars>>
  BY DEF C_CALL, Setup
<1>2. PICK d, p, c : d = Depth /\ p = Top.sp /\ c = [kind |-> "C", mode |-> "run", roots |-> 0]
  OBVIOUS
<1>3. /\ active # << >> /\ Top \in interprete /\ Top.kind = "ML" /\ Top.mode = "run" /\ Top = active[d]
      /\ TypeOK /\ ChainInv /\ OwnersInv /\ SignalsOK /\ PendingSeen /\ d \in 1 .. d /\ d \in Nat /\ d > 0
      /\ InUse = p[2] /\ p[1] = stack /\ trapsp[2] \in 0 .. p[2] /\ external_raise = d
      /\ Top.initial_sp_offset <= p[2]
      /\ \A n \in 1 .. p[2] : n > trapsp[2] => slot[n].kind = "value"
  BY <1>1, <1>2, MLIs
<1>4. p \in Pointers /\ p[2] \in Nat /\ Top.initial_sp_offset \in Nat /\ IsML(d)
  BY <1>2, <1>3, InterpreteIs DEF IsML
<1>5. /\ slot' \in [Slots -> Value \cup Trap] /\ p[2] < MaxSlots /\ p[2] + 1 \in Slots
      /\ slot'[p[2] + 1] = aValue /\ \A k \in 1 .. p[2] : slot'[k] = slot[k]
  <2>1. aValue \in Value \cup Trap
    BY ValueIs
  <2>2. PushSlot(p, aValue)
    BY <1>1, <1>2
  <2>3. /\ slot' \in [Slots -> Value \cup Trap] /\ p[2] \in 0 .. MaxSlots - 1 /\ p[2] + 1 \in Slots
        /\ slot'[p[2] + 1] = aValue /\ \A k \in 1 .. p[2] : slot'[k] = slot[k]
    BY <1>3, <1>4, <2>1, <2>2, PushedIs
  <2> QED
    BY <2>3 DEF BoundsOK
<1>6. PICK q \in Pointers : q = Down(p, 1) /\ q[1] = stack /\ q[2] = p[2] + 1 /\ q[2] \in Nat /\ q = <<q[1], q[2]>>
  <2>1. Down(p, 1) \in Pointers /\ Down(p, 1)[1] = stack /\ Down(p, 1)[2] = p[2] + 1
    BY <1>3, <1>4, <1>5, PointerMoves
  <2>2. Down(p, 1) = <<Down(p, 1)[1], Down(p, 1)[2]>> /\ p[2] + 1 \in Nat
    BY <1>4 DEF Down
  <2> QED
    BY <2>1, <2>2
<1>7. PICK a \in interprete : a = At(Top, q) /\ a.sp = q /\ a.mode = "run" /\ SameBase(a, Top)
  BY <1>3, SpBecomes
<1>8. c \in C /\ c.kind = "C" /\ c.mode = "run" /\ c.roots = 0
  BY <1>2 DEF C, BoundsOK
<1>9. /\ active' \in Seq(C \cup interprete) /\ Len(active') <= MaxActive /\ active' # << >>
      /\ Depth' = d + 1 /\ Top' = c /\ active'[d] = a /\ active'[d + 1] = c
      /\ \A i \in 1 .. d - 1 : active'[i] = active[i]
  <2>1. [active EXCEPT ![Depth].sp = Down(@, 1)] = [active EXCEPT ![d] = a]
    <3>1. a = [active[d] EXCEPT !.sp = Down(active[d].sp, 1)]
      BY <1>2, <1>3, <1>6, <1>7 DEF At
    <3> QED
      BY <3>1, <1>2
  <2>2. active' = Append([active EXCEPT ![d] = a], c) /\ d < MaxActive
    BY <1>1, <1>2, <2>1, Zenon
  <2>3. a \in C \cup interprete /\ c \in C \cup interprete
    BY <1>8
  <2> QED
    BY ONLY SMTT(30), <1>2, <1>3, <2>2, <2>3, BoundsOK, CalledIs
<1>10. /\ stack' = stack /\ trapsp' = trapsp /\ extern_sp' = q /\ external_raise' = d
       /\ c_roots_head' = c_roots_head /\ SignalsOK'
  BY <1>1, <1>2, <1>3, <1>6 DEF signalVars, countVars, SignalsOK
<1>11. PendingSeen'
  <2>1. UNCHANGED <<signal_is_pending, something_to_do>>
    BY <1>1 DEF signalVars
  <2> QED
    BY <2>1, <1>1, <1>3, Unpending
<1>12. a.initial_sp_offset <= a.sp[2] /\ a.initial_sp_offset < a.sp[2]
  BY <1>3, <1>4, <1>6, <1>7 DEF SameBase
<1>13. /\ \A i \in 1 .. d : IsML(i)' = IsML(i) /\ (IsML(i) => active'[i].initial_sp_offset = active[i].initial_sp_offset)
       /\ \A i \in 1 .. d : /\ active'[i].kind = active[i].kind
                            /\ active[i].kind = "C" => active'[i].roots = active[i].roots
       /\ \A i \in 1 .. d : Entry(i)'
  <2>1. \A i \in 1 .. d : IsML(i) =>
          /\ slot'[active[i].initial_sp_offset].kind = slot[active[i].initial_sp_offset].kind \/ i = 1
          /\ slot'[active[i].sp[2]].kind = slot[active[i].sp[2]].kind \/ i = d
    <3>1. ASSUME NEW i \in 1 .. d, IsML(i)
          PROVE  /\ slot'[active[i].initial_sp_offset] = slot[active[i].initial_sp_offset] \/ i = 1
                 /\ slot'[active[i].sp[2]] = slot[active[i].sp[2]] \/ i = d
      <4>1. ~ (Top.kind = "ML" /\ Top.mode = "raise")
        BY <1>3
      <4>2. /\ i > 1 => active[i].initial_sp_offset \in 1 .. p[2]
            /\ i < d => active[i].sp[2] \in 1 .. p[2]
        BY <4>1, <3>1, <1>2, <1>3, Bounded
      <4>3. (i > 1 \/ i = 1) /\ (i < d \/ i = d)
        BY <1>3
      <4> QED
        BY <4>2, <4>3, <1>5
    <3> QED
      BY <3>1
  <2>2. d \in 1 .. Depth /\ SameBase(a, active[d])
    BY <1>2, <1>3, <1>7
  <2> QED
    BY <2>1, <2>2, <1>4, <1>9, <1>12, EntryGoes
<1>14. PICK e \in Nat : e = d + 1 /\ e - 1 = d /\ e > 1 /\ e > 0 /\ Depth' = e /\ \A i \in 1 .. e : i \in 1 .. d \/ i = e
  BY <1>3, <1>9
<1>15. active'[e] = c /\ ~ IsML(e)' /\ IsML(d)'
  BY <1>3, <1>4, <1>8, <1>9, <1>13, <1>14 DEF IsML
<1>16. Entry(e)'
  <2>1. slot'[q[2]].kind = "value"
    BY <1>5, <1>6, ValueIs
  <2>2. CEntry(e)'
    BY <2>1, <1>7, <1>8, <1>9, <1>12, <1>14, <1>15 DEF CEntry
  <2> QED
    BY <2>2, <1>15 DEF Entry
<1>17. \A i \in 1 .. Depth' : Entry(i)'
  BY <1>13, <1>14, <1>16
<1>18. ChainInv'
  <2>1. \A k \in 1 .. trapsp[2] : slot'[k] = slot[k]
    BY <1>3, <1>4, <1>5
  <2> QED
    BY <2>1, <1>3, <1>10, ChainKept
<1>19. OwnersInv'
  <2>1. PICK t \in Nat : t = trapsp'[2] /\ t <= trapsp[2] /\ \A k \in 1 .. t : k \in 1 .. p[2]
    BY <1>3, <1>4, <1>10
  <2>2. \A i \in 1 .. Depth' : IsML(i)' => i \in 1 .. d
    BY <1>14, <1>15
  <2>3. \A i \in 1 .. d : i \in 1 .. Depth'
    BY <1>3, <1>9
  <2>4. \A k \in 1 .. t : slot'[k] = slot[k]
    BY <2>1, <1>5
  <2>5. Depth' \in Nat
    BY <1>14
  <2> QED
    BY <2>1, <2>2, <2>3, <2>4, <2>5, <1>2, <1>3, <1>13, OwnersKept
<1>20. TypeOK'
  <2>1. external_raise' \in Depths
    BY <1>2, <1>3, <1>10 DEF Depths, TypeOK, Depth, BoundsOK
  <2> QED
    BY <2>1, <1>3, <1>5, <1>9, <1>10 DEF TypeOK, SignalsOK
<1>21. TopInv'
  <2>1. Innermost(d, e)'
    BY <1>3, <1>14, <1>15 DEF Innermost
  <2>2. Innermost(external_raise, Depth)'
    BY <2>1, <1>10, <1>14 DEF Innermost
  <2>3. InUse' = q[2] /\ Top'.kind = "C"
    BY <1>8, <1>9, <1>10 DEF InUse
  <2>4. trapsp[2] <= q[2]
    BY <1>3, <1>4, <1>6
  <2>5. ASSUME NEW n \in 1 .. q[2], n > trapsp[2]
        PROVE  slot'[n].kind = "value"
    <3>1. n = p[2] + 1 \/ n \in 1 .. p[2]
      BY <1>4, <1>6
    <3> QED
      BY <3>1, <2>5, <1>3, <1>5, ValueIs
  <2>6. extern_sp' = <<stack', active'[d].sp[2]>>
    BY <1>6, <1>7, <1>9, <1>10
  <2> QED
    BY <2>2, <2>3, <2>4, <2>5, <2>6, <1>10 DEF TopInv
<1>22. RootsLive'
  <2>1. PICK r : r = c_roots_head
    OBVIOUS
  <2>2. IsRootsOf(r, d)
    BY <1>2, <2>1 DEF InterpInv, RootsLive
  <2>3. IsRootsOf(r, d)'
    BY <2>2, <1>3, <1>13, RootsKept
  <2>4. active'[e].kind # "C" \/ active'[e].roots = 0
    BY <1>8, <1>15
  <2>5. e > 0
    BY <1>14
  <2>6. RootsOf(e)' = RootsOf(e - 1)'
    BY ONLY e \in Nat, <2>4, <2>5, RootsNextPrime
  <2>7. IsRootsOf(r, e)'
    BY <2>3, <2>6, <1>14 DEF IsRootsOf
  <2> QED
    BY <2>1, <2>7, <1>10, <1>14 DEF RootsLive, IsRootsOf
<1> QED
  BY <1>11, <1>17, <1>18, <1>19, <1>20, <1>21, <1>22 DEF InterpInv

-----------------------------------------------------------------------------
(* The invariant holds.                                                    *)

LEMMA InitHolds ==
  ASSUME BoundsOK, Init
  PROVE  InterpInv
<1> DEFINE aa == [kind |-> "ML", mode |-> "run", sp |-> <<0, 0>>, initial_sp_offset |-> 0,
                  initial_external_raise |-> 0, initial_c_roots_head |-> << >>]
<1>1. PICK a : a = aa
  OBVIOUS
<1>2. <<0, 0>> \in Pointers /\ 0 \in Depths /\ 1 \in Depths
  BY DEF Pointers, Depths, BoundsOK
<1>3. /\ a \in interprete /\ a.kind = "ML" /\ a.mode = "run" /\ a.sp[1] = 0 /\ a.sp[2] = 0 /\ a.initial_sp_offset = 0
      /\ a.initial_external_raise = 0 /\ a.initial_c_roots_head = << >>
  BY <1>1, <1>2 DEF interprete, BoundsOK
<1>4. /\ active = <<a>> /\ slot = [n \in Slots |-> aValue]
      /\ stack = 0 /\ extern_sp = <<0, 0>> /\ trapsp = <<0, 0>> /\ external_raise = 1 /\ c_roots_head = << >>
      /\ in_blocking_section = FALSE /\ signal_is_pending = FALSE /\ something_to_do = FALSE /\ force_minor_flag = FALSE
      /\ breaks = 0 /\ interrupts = 0
  BY <1>1 DEF Init
<1> HIDE DEF aa
<1>5. active \in Seq(C \cup interprete) /\ Depth = 1 /\ active[1] = a /\ Top = a /\ active # << >>
  BY <1>3, <1>4 DEF Depth, Top, Last
<1>6. TypeOK
  <2>1. slot \in [Slots -> Value \cup Trap]
    BY <1>4, ValueIs
  <2>2. breaks \in 0 .. MaxBreaks /\ interrupts \in 0 .. MaxBreaks + 1 /\ Len(active) <= MaxActive
    BY <1>4, <1>5 DEF BoundsOK, Depth
  <2>3. << >> \in Seq(CRoots) /\ 0 \in Nat
    OBVIOUS
  <2>4. extern_sp \in Pointers /\ trapsp \in Pointers /\ external_raise \in Depths /\ c_roots_head \in Seq(CRoots) /\ stack \in Nat
    BY <2>3, <1>2, <1>4
  <2>5. /\ in_blocking_section \in BOOLEAN /\ signal_is_pending \in BOOLEAN
        /\ something_to_do \in BOOLEAN /\ force_minor_flag \in BOOLEAN
    BY <1>4
  <2> QED
    BY <2>1, <2>2, <2>4, <2>5, <1>5 DEF TypeOK
<1>7. ChainInv /\ OwnersInv
  BY <1>4 DEF ChainInv, OwnersInv
<1>8. IsRootsOf(<< >>, 1) /\ RootsLive
  <2>1. RootsOf(1) = {}
    BY <1>3, <1>5 DEF RootsOf
  <2>2. IsRootsOf(<< >>, 1)
    BY <2>1 DEF IsRootsOf, Range
  <2> QED
    BY <2>2, <1>4, <1>5 DEF RootsLive
<1>9. \A d \in 1 .. Depth : Entry(d)
  <2>1. MLEntry(1)
    BY <1>3, <1>5, <1>8 DEF MLEntry
  <2>2. IsML(1)
    BY <1>3, <1>5 DEF IsML
  <2> QED
    BY <2>1, <2>2, <1>5 DEF Entry
<1>10. TopInv
  <2>1. Innermost(external_raise, Depth)
    BY <1>3, <1>4, <1>5 DEF Innermost, IsML
  <2>2. InUse = 0
    BY <1>3, <1>5 DEF InUse
  <2> QED
    BY <2>1, <2>2, <1>3, <1>4, <1>5 DEF TopInv
<1>11. PendingSeen
  BY <1>4 DEF PendingSeen
<1> QED
  BY <1>6, <1>7, <1>8, <1>9, <1>10, <1>11 DEF InterpInv

LEMMA NextPreserves ==
  ASSUME BoundsOK, InterpInv, Next, Undisturbed
  PROVE  InterpInv'
<1>1. CASE Instruction
  BY <1>1, PUSHStep, POPStep, PUSHTRAPStep, POPTRAPStep, RAISEStep, C_CALLStep, STOPStep, realloc_stackStep,
     StackOverflowStep, process_signalStep, ReadPendingStep, ResetPendingStep DEF Instruction
<1>2. CASE CFunction
  BY <1>2, Push_rootsStep, Pop_rootsStep, CallbackStep, ReturnStep, FailStep, force_minor_gcStep,
     enter_blocking_sectionStep, EnteredStep, leave_blocking_sectionStep DEF CFunction
<1>3. CASE Signal
  BY <1>3, intr_handlerStep, RunHandlerStep DEF Signal
<1> QED
  BY <1>1, <1>2, <1>3 DEF Next

LEMMA InterpPreserved ==
  ASSUME BoundsOK, InterpInv, [Next]_vars, [Undisturbed]_vars
  PROVE  InterpInv'
<1>1. CASE UNCHANGED vars
  BY <1>1, StutterStep
<1>2. CASE Next /\ Undisturbed
  BY <1>2, NextPreserves
<1> QED
  BY <1>1, <1>2

(* While the C functions, the callbacks and the signals come in any order  *)
(* and number, the stacks keep their discipline, provided no signal        *)
(* arrives in ML code that an exception has taken out of a blocking        *)
(* section.                                                                *)
THEOREM InterpTheorem ==
  ASSUME BoundsOK
  PROVE  Spec /\ [][Undisturbed]_vars => [](StackDiscipline /\ RaiseTarget /\ PendingSeen)
<1>1. Init => InterpInv
  BY InitHolds
<1>2. InterpInv /\ [Next]_vars /\ [Undisturbed]_vars => InterpInv'
  BY InterpPreserved
<1>3. InterpInv => StackDiscipline /\ RaiseTarget /\ PendingSeen
  BY InvImplies
<1> QED
  BY <1>1, <1>2, <1>3, PTL DEF Spec

-----------------------------------------------------------------------------
(* One signal.                                                             *)

(* Before the signal arrives none is pending, and a blocking section is    *)
(* the one of the C function that runs.                                    *)
QuietInv ==
  breaks = 0 => ~ signal_is_pending /\ (in_blocking_section => InC("entering") \/ InC("blocking"))

LEMMA QuietPreserved ==
  ASSUME BoundsOK, InterpInv, QuietInv, Next
  PROVE  QuietInv'
<1> SUFFICES ASSUME breaks' = 0
             PROVE  ~ signal_is_pending' /\ (in_blocking_section' => (InC("entering") \/ InC("blocking"))')
  BY DEF QuietInv
<1>1. breaks \in Nat
  BY DEF InterpInv, TypeOK, BoundsOK
<1>2. breaks = 0 /\ ~ intr_handler
  <2>1. ~ intr_handler
    BY <1>1 DEF intr_handler
  <2>2. breaks' = breaks
    BY <2>1 DEF Next, Instruction, CFunction, Signal, PUSH, POP, PUSHTRAP, POPTRAP, RAISE, C_CALL, STOP, realloc_stack,
       StackOverflow, mlraise, process_signal, ReadPending, ResetPending, Push_roots, Pop_roots, Callback, Return, Fail,
       force_minor_gc, enter_blocking_section, Entered, leave_blocking_section, RunHandler, countVars
  <2> QED
    BY <2>1, <2>2
<1>3. ~ signal_is_pending /\ (in_blocking_section => InC("entering") \/ InC("blocking"))
  BY <1>2 DEF QuietInv
<1>4. ASSUME ML("run") \/ ML("raise") \/ ML("process_signal") \/ ML("one_pending") \/ ML("none_pending") \/ InC("run")
             \/ InC("handler")
      PROVE  ~ in_blocking_section
  BY <1>3, <1>4 DEF ML, InC, Runs
<1>5. CASE Instruction
  <2>1. (in_blocking_section' => in_blocking_section) /\ (signal_is_pending' => signal_is_pending)
    BY <1>5 DEF Instruction, PUSH, POP, PUSHTRAP, POPTRAP, RAISE, C_CALL, STOP, realloc_stack,
       StackOverflow, mlraise, process_signal, ReadPending, ResetPending, signalVars
  <2>2. ~ in_blocking_section
    BY <1>4, <1>5 DEF Instruction, PUSH, POP, PUSHTRAP, POPTRAP, RAISE, C_CALL, STOP, realloc_stack,
       StackOverflow, process_signal, ReadPending, ResetPending
  <2> QED
    BY <2>1, <2>2, <1>3
<1>6. CASE Signal
  <2>1. RunHandler
    BY <1>2, <1>6 DEF Signal
  <2> QED
    <3>1. InC("handler") /\ UNCHANGED signalVars
      BY <2>1 DEF RunHandler, callback
    <3>2. ~ in_blocking_section
      BY <3>1, <1>4
    <3>3. signal_is_pending' = signal_is_pending /\ in_blocking_section' = in_blocking_section
      BY <3>1 DEF signalVars
    <3>4. ~ signal_is_pending' /\ ~ in_blocking_section'
      BY <3>2, <3>3, <1>3
    <3> QED
      BY <3>4
<1>7. CASE Push_roots \/ Pop_roots \/ Callback \/ Return \/ Fail \/ force_minor_gc \/ leave_blocking_section
  <2>1. signal_is_pending' = signal_is_pending
    BY <1>7 DEF Push_roots, Pop_roots, Callback, callback, Return, Fail, mlraise, force_minor_gc, leave_blocking_section, signalVars
  <2>2. ~ in_blocking_section'
    BY <1>4, <1>7 DEF Push_roots, Pop_roots, Callback, callback, Return, Fail, mlraise, force_minor_gc, leave_blocking_section,
       signalVars
  <2> QED
    BY <2>1, <2>2, <1>3
<1>8. CASE enter_blocking_section
  <2>1. active # << >> /\ Top.kind = "C" /\ TopBecomes(CMode(Top, "entering")) /\ signal_is_pending' = signal_is_pending
    BY <1>8, InCIs DEF enter_blocking_section, CMode
  <2>2. TypeOK /\ Top \in C
    BY <2>1, CTop
  <2>3. PICK a \in C : a = CMode(Top, "entering") /\ a.mode = "entering"
    BY <2>2, CBecomes
  <2>4. active' # << >> /\ Top' = a
    BY <2>1, <2>2, <2>3, ReplacedIs
  <2> QED
    BY <2>1, <2>3, <2>4, <1>3, CIs DEF InC, Runs
<1>9. CASE Entered
  <2>1. /\ active # << >> /\ Top.kind = "C" /\ TopBecomes(CMode(Top, "blocking")) /\ signal_is_pending' = signal_is_pending
    BY <1>3, <1>9, InCIs DEF Entered, CMode, signalVars
  <2>2. TypeOK /\ Top \in C
    BY <2>1, CTop
  <2>3. PICK a \in C : a = CMode(Top, "blocking") /\ a.mode = "blocking"
    BY <2>2, CBecomes
  <2>4. active' # << >> /\ Top' = a
    BY <2>1, <2>2, <2>3, ReplacedIs
  <2> QED
    BY <2>1, <2>3, <2>4, <1>3, CIs DEF InC, Runs
<1> QED
  BY <1>5, <1>6, <1>7, <1>8, <1>9 DEF Next, CFunction

LEMMA OneUndisturbed ==
  ASSUME BoundsOK, MaxBreaks <= 1, InterpInv, QuietInv, Next
  PROVE  Undisturbed
<1> SUFFICES ASSUME in_blocking_section, breaks' # breaks
             PROVE  Top.kind = "C"
  BY DEF Undisturbed
<1>1. intr_handler
  BY DEF Next, Instruction, CFunction, Signal, PUSH, POP, PUSHTRAP, POPTRAP, RAISE, C_CALL, STOP, realloc_stack,
     StackOverflow, mlraise, process_signal, ReadPending, ResetPending, Push_roots, Pop_roots, Callback, Return, Fail,
     force_minor_gc, enter_blocking_section, Entered, leave_blocking_section, RunHandler, countVars
<1>2. breaks \in Nat /\ breaks < MaxBreaks
  BY <1>1 DEF intr_handler, InterpInv, TypeOK, BoundsOK
<1>3. breaks = 0
  BY <1>2 DEF BoundsOK
<1> QED
  BY <1>3 DEF QuietInv, InC, Runs

LEMMA OnePreserved ==
  ASSUME BoundsOK, MaxBreaks <= 1, InterpInv, QuietInv, [Next]_vars
  PROVE  InterpInv' /\ QuietInv'
<1>1. CASE UNCHANGED vars
  <2>1. InterpInv'
    BY <1>1, StutterStep
  <2>2. QuietInv'
    BY <1>1 DEF QuietInv, vars, signalVars, countVars, InC, Runs, Top, Last
  <2> QED
    BY <2>1, <2>2
<1>2. CASE Next
  BY <1>2, OneUndisturbed, NextPreserves, QuietPreserved
<1> QED
  BY <1>1, <1>2

(* With no more than one signal nothing else has to be supposed.           *)
THEOREM OneSignalTheorem ==
  ASSUME BoundsOK, MaxBreaks <= 1
  PROVE  Spec => [](StackDiscipline /\ RaiseTarget /\ PendingSeen)
<1>1. Init => InterpInv /\ QuietInv
  BY InitHolds DEF Init, QuietInv
<1>2. InterpInv /\ QuietInv /\ [Next]_vars => InterpInv' /\ QuietInv'
  BY OnePreserved
<1>3. InterpInv => StackDiscipline /\ RaiseTarget /\ PendingSeen
  BY InvImplies
<1> QED
  BY <1>1, <1>2, <1>3, PTL DEF Spec
=============================================================================
