-------------------------- MODULE MCPartConversion --------------------------
(* Instances of PartConversion for TLC: parts of a root at offset 4, two      *)
(* objects of every kind at 8 and 12, which may refer to each other, to      *)
(* themselves and to offsets where nothing is, the symbols foo and bar at 16 *)
(* and 20, and a map with both at 24.  "Word" is 2^16: the class of symbols  *)
(* has 16 of its bits, and there are negative integers and magic pointers.   *)
EXTENDS PartConversion, SequencesExt, TLC

CONSTANTS p1, p2, p3, p4, s1, s2, s3, s4, symString, foo, bar

MCNameOf == (s1 :> foo) @@ (s2 :> foo) @@ (s3 :> bar) @@ (s4 :> bar) @@ (symString :> bar)

(* What the references of these parts become.                               *)
MCImmediates == {-3, 2, 5, 9, 25, 50, 20487}

MCPointers == {9, 13, 17}

(* The last three: nil, -1 and a magic pointer, 0x4013.                    *)
MCReferences == MCPointers \cup {29, 2, 65532, 16403}

MCFrameClasses == {25, 13, 29, 24}

MCContents == {<< >>} \cup {<<r>> : r \in MCReferences} \cup (MCReferences \X MCPointers)

MCObjects ==
    {Loaded(3, class, refs, foo) : class \in MCFrameClasses, refs \in MCContents}
        \cup {Loaded(1, class, refs, foo) : class \in MCPointers \cup {8}, refs \in MCContents}
        \cup {Loaded(0, class, << >>, foo) : class \in {9, 13, 17, 21, 2}}

MCFewContents == {<< >>, <<9>>, <<17, 9>>, <<21, 13>>, <<17, 17, 29>>, <<2, 17>>, <<21, 17>>}

MCFewObjects ==
    {Loaded(3, class, refs, foo) : class \in {25, 9}, refs \in MCFewContents}
        \cup {Loaded(1, class, refs, foo) : class \in {17, 9, 8}, refs \in MCFewContents}
        \cup {Loaded(0, 21, << >>, foo), Loaded(2, 9, << >>, foo),
              Loaded(0, SymbolClass, << >>, bar), Loaded(1, 4, <<2, 17, 17>>, foo),
              Loaded(1, 17, <<17, 21, 2, 2, 2>>, foo)}

Others ==
    (16 :> Loaded(0, SymbolClass, << >>, foo)) @@ (20 :> Loaded(0, SymbolClass, << >>, bar))
        @@ (24 :> Loaded(1, 4, <<2, 17, 21>>, foo))

MCPart(root, object1, object2) ==
    (4 :> root) @@ (8 :> object1) @@ (12 :> object2) @@ Others

MCRoot(refs) == Loaded(1, 2, refs, foo)

MCParts ==
    {MCPart(MCRoot(<<9>>), object1, object2) : object1 \in MCObjects, object2 \in MCFewObjects}
        \cup {MCPart(root, Loaded(1, 17, <<13, 13>>, foo), object2) :
                 root \in {MCRoot(<<8>>), MCRoot(<<29>>), MCRoot(<<5>>), MCRoot(<<17>>),
                           MCRoot(<< >>), Loaded(0, 2, << >>, foo)},
                 object2 \in MCFewObjects}
=============================================================================
