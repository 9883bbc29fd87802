------------------------------- MODULE Store -------------------------------
(***************************************************************************)
(* What the garbage-collected store promises the program: blocks appear,   *)
(* are read and written, and one that cannot be reached any more may       *)
(* vanish at any moment.  A weak pointer does not keep its target; it may  *)
(* be cleared once nothing else reaches the target, and is cleared before  *)
(* the target vanishes.  MajorGC.tla implements this specification.        *)
(***************************************************************************)
CONSTANTS Addr, Fields, Global, Nil

VARIABLES
  alloc,   \* the blocks in use
  tag, field,
  held     \* the pointers the program holds outside the store

vars == <<alloc, tag, field, held>>

Roots == held \cup {Global}

Points(S, tags) ==
  \A a \in S : tag[a] \in tags => \A f \in Fields : field[a][f] \in S \cup {Nil}

(* The blocks reachable from the roots through blocks with these tags.     *)
Via(tags) == {a \in Addr : \A S \in SUBSET Addr :
                (Roots \subseteq S /\ Points(S, tags)) => a \in S}

Strong   == Via({"Scan"})
Readable == Via({"Scan", "Weak"})

Empty == [f \in Fields |-> Nil]

Init ==
  /\ alloc = {Global}
  /\ tag = [a \in Addr |-> "Scan"]
  /\ field = [a \in Addr |-> Empty]
  /\ held = {}

New(a, t) ==
  /\ a \notin alloc
  /\ alloc' = alloc \cup {a}
  /\ tag' = [tag EXCEPT ![a] = t]
  /\ \E init \in [Fields -> Roots \cup {Nil}] :
       /\ t = "Weak" => init = Empty
       /\ field' = [field EXCEPT ![a] = init]
  /\ held' = held \cup {a}

(* Reading a field, also that of a weak array.                             *)
Read(a, f) ==
  /\ a \in Roots /\ field[a][f] # Nil
  /\ held' = held \cup {field[a][f]}
  /\ UNCHANGED <<alloc, tag, field>>

Write(a, f, v) ==
  /\ a \in Roots /\ v \in Roots \cup {Nil}
  /\ field' = [field EXCEPT ![a][f] = v]
  /\ UNCHANGED <<alloc, tag, held>>

Drop(a) ==
  /\ a \in held
  /\ held' = held \ {a}
  /\ UNCHANGED <<alloc, tag, field>>

ClearWeak ==
  /\ field' \in [Addr -> [Fields -> Addr \cup {Nil}]]
  /\ \A a \in Addr, f \in Fields :
       \/ field'[a][f] = field[a][f]
       \/ /\ tag[a] = "Weak"
          /\ field[a][f] \notin Strong
          /\ field'[a][f] = Nil
  /\ UNCHANGED <<alloc, tag, held>>

Free(a) ==
  /\ a \in alloc \ Readable
  /\ alloc' = alloc \ {a}
  /\ tag' = [tag EXCEPT ![a] = "Scan"]
  /\ field' = [field EXCEPT ![a] = Empty]
  /\ UNCHANGED held

Next ==
  \/ ClearWeak
  \/ \E a \in Addr : New(a, "Scan") \/ New(a, "Weak") \/ Drop(a) \/ Free(a)
  \/ \E a \in Addr, f \in Fields : Read(a, f)
  \/ \E a \in Addr, f \in Fields, v \in Addr \cup {Nil} : Write(a, f, v)

Spec == Init /\ [][Next]_vars

=============================================================================
