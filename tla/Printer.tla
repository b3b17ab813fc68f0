------------------------------- MODULE Printer -------------------------------
(***************************************************************************)
(* Printing a Ref: Ref::Print, the Print methods of Object, Array and      *)
(* Frame, and the PrintState they share (src/src/io/print.cpp).  Graphs of *)
(* objects may have cycles; current_depth_ is all that ends the recursion. *)
(* The activations are on the stack "calls", "pending" is the Ref that     *)
(* Print was just called with.  The text is a sequence of items; layout is *)
(* left out.  Tags are symbols; a class may be anything that exists before *)
(* the object does (Graphs).                                               *)
(***************************************************************************)
EXTENDS Naturals, Sequences, FiniteSets

CONSTANTS
    Graphs,         \* [root, of], of[node] the object
    ArraySymbol,    \* the class of a plain array, which is not printed
    None,           \* Print is not being called
    PrintDepth,     \* print_depth_, 8
    StackLimit      \* bound: activations there is memory for

Containers == {"array", "frame"}
Binaries   == {"binary", "instructions"}
Kinds      == Containers \cup Binaries \cup {"immediate", "string", "symbol"}

BinariesOf(g) == {ref \in DOMAIN g.of : g.of[ref].kind \in Binaries}

(* A class was there before the object was made, and never changes: of some  *)
(* binaries the oldest has another class.                                    *)
ClassesCameFirst(g) ==
    \A some \in SUBSET BinariesOf(g) : some # {} => \E ref \in some : g.of[ref].class \notin some

IsGraph(g) ==
    LET refs == DOMAIN g.of
    IN  /\ g.root \in refs
        /\ None \notin refs
        /\ IsFiniteSet(BinariesOf(g))
        /\ \A ref \in refs : LET node == g.of[ref]
                            IN  /\ node.kind \in Kinds
                                /\ node.class \in refs
                                /\ node.tags \in Seq(refs) /\ node.slots \in Seq(refs)
                                /\ node.kind = "frame" => Len(node.tags) = Len(node.slots)
        /\ ClassesCameFirst(g)

ASSUME DepthAssumption == PrintDepth \in Nat \ {0} /\ StackLimit \in Nat

ASSUME GraphAssumption == \A g \in Graphs : IsGraph(g)

VARIABLES
    graph,
    calls,          \* what is being printed, the innermost last
    pending,
    current_depth,
    sym_next,       \* a symbol prints without its quote
    out,            \* what was printed
    status          \* "running", "overflow", or "null class"

vars == <<graph, calls, pending, current_depth, sym_next, out, status>>

Node(kind, class, tags, slots) ==
    [kind |-> kind, class |-> class, tags |-> tags, slots |-> slots]

Part(ref, name) == [ref |-> ref, name |-> name]
Named(ref)      == Part(ref, TRUE)
Plain(ref)      == Part(ref, FALSE)

Item(what, ref) == [what |-> what, ref |-> ref]

KindOf(ref) == graph.of[ref].kind

(* What Print is called with for the parts of an object, in order.          *)
PartsOf(object) ==
    CASE object.kind \in Binaries -> <<Named(object.class)>>
      [] object.kind = "array" ->
            (IF object.class = ArraySymbol THEN << >> ELSE <<Named(object.class)>>)
                \o [i \in DOMAIN object.slots |-> Plain(object.slots[i])]
      [] object.kind = "frame" ->
            [i \in 1 .. 2 * Len(object.slots) |->
                IF i % 2 = 1 THEN Named(object.tags[(i + 1) \div 2])
                             ELSE Plain(object.slots[i \div 2])]

Init ==
    /\ graph \in Graphs
    /\ calls = << >>
    /\ pending = graph.root
    /\ current_depth = 0
    /\ sym_next = FALSE
    /\ out = << >>
    /\ status = "running"

-----------------------------------------------------------------------------
(* Faulty: frames are not checked. *)
MoreDepthArraysOnly == current_depth < PrintDepth \/ KindOf(pending) = "frame"

MoreDepth == current_depth < PrintDepth

IncrDepth(depth) == IF depth < PrintDepth THEN depth + 1 ELSE depth

(* Faulty: the depth is never given back. *)
DecrDepthNot(depth) == depth

DecrDepth(depth) == IF depth > 0 THEN depth - 1 ELSE depth

(* GetObject() of the class of a binary is no null pointer.  (Compared with  *)
(* the symbol 'instructions, an object that is no symbol is different.)      *)
ClassIsObject(ref) == KindOf(ref) \in Binaries => KindOf(graph.of[ref].class) # "immediate"

Called(kinds) == status = "running" /\ pending # None /\ KindOf(pending) \in kinds

Write(item) == out' = Append(out, item)

Enter ==
    IF Len(calls) < StackLimit
    THEN calls' = Append(calls, [ref |-> pending, next |-> 1]) /\ UNCHANGED status
    ELSE status' = "overflow" /\ UNCHANGED calls

(* Immediates, strings and symbols. *)
PrintLeaf ==
    /\ Called({"immediate", "string", "symbol"})
    /\ Write(Item(IF KindOf(pending) = "symbol" /\ ~sym_next THEN "quoted" ELSE "plain", pending))
    /\ pending' = None
    /\ UNCHANGED <<graph, calls, current_depth, sym_next, status>>

PrintAddress ==
    /\ Called(Containers)
    /\ ~MoreDepth
    /\ Write(Item("address", pending))
    /\ pending' = None
    /\ UNCHANGED <<graph, calls, current_depth, sym_next, status>>

PrintContainer ==
    /\ Called(Containers)
    /\ MoreDepth
    /\ Enter
    /\ Write(Item("open", pending))
    /\ current_depth' = IncrDepth(current_depth)
    /\ pending' = None
    /\ UNCHANGED <<graph, sym_next>>

(* A binary is printed at any depth.                                        *)
PrintBinary ==
    /\ Called(Binaries)
    /\ Enter
    /\ Write(Item("open", pending))
    /\ pending' = None
    /\ UNCHANGED <<graph, current_depth, sym_next>>

Top   == calls[Len(calls)]
Parts == PartsOf(graph.of[Top.ref])

Returned == status = "running" /\ pending = None /\ calls # << >>

(* Faulty: the flag stays set. *)
AfterNameStill == sym_next

(* expect_symbol(false) follows the printing of a class or a tag.           *)
AfterName == IF Top.next > 1 /\ Parts[Top.next - 1].name THEN FALSE ELSE sym_next

PrintPart ==
    /\ Returned
    /\ Top.next <= Len(Parts)
    /\ pending' = Parts[Top.next].ref
    /\ sym_next' = (Parts[Top.next].name \/ AfterName)
    /\ calls' = [calls EXCEPT ![Len(calls)].next = @ + 1]
    /\ UNCHANGED <<graph, current_depth, out, status>>

(* The bytes of 'instructions are printed one level deeper than the rest.   *)
DepthAfter(kind) ==
    CASE kind \in Containers     -> DecrDepth(current_depth)
      [] kind = "instructions"   -> DecrDepth(IncrDepth(current_depth))
      [] OTHER                   -> current_depth

(* A class that is no object is printed, and then taken for one.            *)
CompareNullClass ==
    /\ Returned
    /\ Top.next > Len(Parts)
    /\ ~ClassIsObject(Top.ref)
    /\ sym_next' = AfterName
    /\ status' = "null class"
    /\ UNCHANGED <<graph, calls, pending, current_depth, out>>

Close ==
    /\ Returned
    /\ Top.next > Len(Parts)
    /\ ClassIsObject(Top.ref)
    /\ Write(Item("close", Top.ref))
    /\ current_depth' = DepthAfter(KindOf(Top.ref))
    /\ sym_next' = AfterName
    /\ calls' = SubSeq(calls, 1, Len(calls) - 1)
    /\ UNCHANGED <<graph, pending, status>>

Next == PrintLeaf \/ PrintAddress \/ PrintContainer \/ PrintBinary \/ PrintPart
            \/ CompareNullClass \/ Close

(* One thread, which runs until Print returns. *)
Spec == Init /\ [][Next]_vars /\ WF_vars(Next)

-----------------------------------------------------------------------------
(* Every variable has its type; the depth bounds the recursion.  A binary    *)
(* does not count, but between two arrays or frames each occurs once.        *)
Deepest(g) == PrintDepth + (PrintDepth + 1) * Cardinality(BinariesOf(g))

TypeOK ==
    /\ Len(calls) <= Deepest(graph)
    /\ \A k \in DOMAIN calls : calls[k].ref \in DOMAIN graph.of /\ calls[k].next \in Nat \ {0}
    /\ pending \in DOMAIN graph.of \cup {None}
    /\ current_depth \in 0 .. PrintDepth
    /\ sym_next \in BOOLEAN
    /\ \A k \in DOMAIN out : out[k].what \in {"open", "close", "address", "plain", "quoted"}
    /\ status \in {"running", "overflow", "null class"}

(* Print returns, whatever cycles there are, through slots and through       *)
(* classes; only a binary with a class that is no object stops it.           *)
Printed == status = "running" /\ pending = None /\ calls = << >>

PrintingEnds ==
    <>(\/ Printed
       \/ status = "null class" /\ \E ref \in BinariesOf(graph) : ~ClassIsObject(ref))

(* current_depth_ is the number of arrays and frames that are open: no path  *)
(* through the Print methods forgets to go back, or goes back too far.       *)
OpenCount == Cardinality({k \in DOMAIN calls : KindOf(calls[k].ref) \in Containers})

DepthIsNesting == status # "overflow" => current_depth = OpenCount
=============================================================================
