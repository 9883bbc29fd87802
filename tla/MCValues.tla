----------------------------- MODULE MCValues ------------------------------
EXTENDS Values, Integers, Sequences
AllMachines == [long : BOOLEAN, big : BOOLEAN]
Addresses == <<3, 7, 5, 11>>
Small == {IntVal(1), Ptr(1), Ptr(2), Ptr(3)}
Strings == {[tag |-> "string", fields |-> SubSeq(<<11, 12, 13, 14, 15, 16, 17, 18, 19>>, 1, n)] : n \in {0, 3, 4, 9}}
Float == [tag |-> "double", fields |-> <<21, 22, 23, 24, 25, 26, 27, 28>>]
LeafObjs == Strings \cup {Float, [tag |-> "closure", fields |-> <<IntVal(0)>>], [tag |-> "weak", fields |-> <<Ptr(1)>>],
          Block(<<IntVal(0), IntVal(-1), Atom(3)>>), Block(<<IntVal(2), IntVal(-3), IntVal(8), IntVal(63)>>), Block(<<IntVal(-64), IntVal(-65), Ptr(2)>>), Block(<<IntVal(64)>>),
          Block(<<Ptr(3), IntVal(-9), IntVal(200)>>), Block([i \in 1 .. 17 |-> Ptr(1)])}
Refs == {Ptr(1), Ptr(2), Ptr(3)}
Graph3 == {<<Block(<<a, b>>), Block(<<c>>), Block(<<d, e>>)>> : a, b, c, d, e \in Refs}
          \cup {<<Block(<<a, b>>), x, Block(<<c>>)>> : a, b, c \in Refs, x \in LeafObjs}
ToAtom == <<Block(<<Ptr(2), Ptr(3)>>), Block([i \in 1 .. 16 |-> Ptr(1)]), Block(<<Ptr(1)>>)>>
Huge == <<Block([i \in 1 .. 255 |-> IntVal(1)])>>
AllGraphs == {<<h, Ptr(1)>> : h \in Graph3 \cup {ToAtom, Huge}}
  \cup {<< << >>, v>> : v \in {IntVal(n) : n \in {0, 1, -1, 63, 64, -65, 200}} \cup {Atom(2)}}
OneMachine == {[long |-> TRUE, big |-> FALSE]}
AllReaders == [long : BOOLEAN, big : {FALSE}]
=============================================================================
