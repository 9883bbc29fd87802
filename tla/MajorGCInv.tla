---------------------------- MODULE MajorGCInv -----------------------------
(***************************************************************************)
(* The inductive invariant of MajorGC.tla from which MajorGC_proofs.tla    *)
(* derives that the collector never frees a block in reach.                *)
(***************************************************************************)
EXTENDS MajorGC

GraySet == {gray_vals[i] : i \in 1 .. Len(gray_vals)}

NonBlue == {a \in Addr : color[a] # "Blue"}

(* The blocks the sweep under way is going to free, and the others in use. *)
Doomed(a) ==
  /\ gc_phase # "Phase_mark"
  /\ color[a] = "White"
  /\ a >= gc_sweep_hp

Kept == {a \in NonBlue : ~ Doomed(a)}

(* A set of blocks that holds what is marked and the fields the scan has   *)
(* yet to darken, and is closed under the fields of unscanned blocks.      *)
MarkClosed(S) ==
  /\ \A a \in Addr : color[a] \in {"Gray", "Black"} => a \in S
  /\ pc = "scan" => \A j \in 1 .. idx : field[cur][j] \in S \cup {Nil}
  /\ \A o \in S : color[o] \in {"White", "Gray"} /\ tag[o] = "Scan" =>
        \A f \in Fields : field[o][f] \in S \cup {Nil}

(* What this cycle's marking is bound to mark if the program stands still. *)
Protected == {a \in Addr : \A S \in SUBSET Addr : MarkClosed(S) => a \in S}

(* Where the running call may be.                                          *)
ControlInv ==
  /\ calls = << >> => pc = "loop"
  /\ pc = "scan" => /\ gc_phase = "Phase_mark"
                    /\ color[cur] = "Black"
                    /\ idx > 0 => tag[cur] = "Scan"
  /\ pc = "roots" => gc_phase = "Phase_sweep"
  /\ gc_phase # "Phase_mark" => markhp = Nil

HeapInv ==
  /\ NonBlue \subseteq heap
  /\ weak_arrays \subseteq Addr

(* A gray block is on the mark stack, or a walk that will find it is under *)
(* way or to come.                                                         *)
GrayInv ==
  /\ \A i \in 1 .. Len(gray_vals) : color[gray_vals[i]] = "Gray"
  /\ \A i, j \in 1 .. Len(gray_vals) : gray_vals[i] = gray_vals[j] => i = j
  /\ \A a \in Addr : color[a] = "Gray" =>
       a \in GraySet \/ ~ heap_is_pure \/ (markhp # Nil /\ a >= markhp)

(* Between marking and the next cycle: no gray block, and behind the sweep *)
(* nothing black.                                                          *)
SweepInv ==
  gc_phase # "Phase_mark" =>
    /\ pc # "roots" => /\ gray_vals = << >> /\ heap_is_pure
                       /\ \A a \in Addr : color[a] # "Gray"
    /\ \A a \in Addr : a < gc_sweep_hp => color[a] # "Black"

RootsInv ==
  pc = "roots" =>
    /\ \A a \in heap : a < gc_sweep_hp
    /\ \A a \in Roots \ roots : color[a] = "Gray"

(* What is kept is closed: it holds the roots and all that can be reached. *)
KeptInv == Roots \subseteq Kept /\ Closed(Kept)

(* The deletion barrier's invariant: what the program can reach from a     *)
(* root or a black block is protected.                                     *)
MarkInv ==
  gc_phase = "Phase_mark" =>
    /\ Roots \subseteq Protected
    /\ \A o \in Addr : color[o] = "Black" =>
         \/ tag[o] = "Weak" /\ o \in weak_arrays
         \/ \A f \in Fields : field[o][f] \in Protected \cup {Nil}

(* A weak cell the program may read points to a block in use.              *)
WeakInv ==
  \A w \in Kept : tag[w] = "Weak" => \A f \in Fields :
    field[w][f] = Nil \/
      IF gc_phase = "Phase_weak" /\ w \in weak_arrays
        THEN field[w][f] \in NonBlue
        ELSE field[w][f] \in Kept

IInv ==
  /\ TypeOK
  /\ ControlInv
  /\ HeapInv
  /\ GrayInv
  /\ SweepInv
  /\ RootsInv
  /\ KeptInv
  /\ MarkInv
  /\ WeakInv

=============================================================================
