------------------------------ MODULE MCPrinter ------------------------------
(* Instances of Printer for TLC, with a depth of three: two objects of every *)
(* kind, which may hold each other and themselves, and be the class of the   *)
(* other.  'instructions occur where the depth is not reached.               *)
EXTENDS PrintedText, TLC

CONSTANTS n1, n2, n3, sym, symInstructions, int, str

Leaf(kind) == Node(kind, ArraySymbol, << >>, << >>)

Leaves ==
    sym :> Leaf("symbol") @@ symInstructions :> Leaf("symbol") @@ ArraySymbol :> Leaf("symbol")
        @@ int :> Leaf("immediate") @@ str :> Leaf("string")

Slots == {n1, n2, sym, int} \X {n1, n2, sym, str}

Objects ==
    {Node("array", class, << >>, slots) : class \in {ArraySymbol, sym}, slots \in Slots}
        \cup {Node("frame", ArraySymbol, <<sym, symInstructions>>, slots) : slots \in Slots}
        \cup {Node("binary", sym, << >>, << >>), Node("array", sym, << >>, << >>)}

(* Objects with classes that are no symbols. *)
ClassedObjects ==
    {Node("array", class, << >>, slots) :
            class \in {n1, n2, int}, slots \in {<<n1, sym>>, <<n2, sym>>, <<sym, n2>>}}
        \cup {Node("binary", class, << >>, << >>) : class \in {n1, n2, int, str}}

Instructions == Node("instructions", symInstructions, << >>, << >>)

Graph(o1, o2, o3) == [root |-> n1, of |-> n1 :> o1 @@ n2 :> o2 @@ n3 :> o3 @@ Leaves]

(* A class was there before the object was made. *)
ClassesAreOlder(o1, o2) ==
    o1.class # n1 /\ o2.class # n2 /\ ~(o1.class = n2 /\ o2.class = n1)

(* An outer array with 'instructions, and an object that does not reach it. *)
Outer == Node("array", sym, << >>, <<n3, n2, n3, sym>>)

Inner == {o \in Objects : o.slots # << >> => o.slots[1] # n1 /\ o.slots[2] # n1}

Pairs == (Objects \cup ClassedObjects) \X (Objects \cup ClassedObjects)

MCGraphs ==
    {Graph(pair[1], pair[2], Instructions) :
            pair \in {p \in Pairs : ClassesAreOlder(p[1], p[2])}}
        \cup {Graph(Outer, o2, Instructions) : o2 \in Inner}
=============================================================================
