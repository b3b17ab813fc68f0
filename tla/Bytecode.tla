------------------------------ MODULE Bytecode ------------------------------
(***************************************************************************)
(* The instructions that transcode_from_ns makes and the decompiler reads  *)
(* (src/include/dyn/lang/decompile.h), and the texts it prints for them.   *)
(***************************************************************************)
EXTENDS Integers, Sequences, FiniteSets

Instruction(bc, arg, references) == [bc |-> bc, arg |-> arg, references |-> references]

NilConst  == 2      \* push_const nil
TrueConst == 26     \* push_const true

(* Bytecodes that print as a leaf, as an infix operator of a precedence, as *)
(* a call, and those whose handler only returns -2.                         *)
Leaves == {"PushConst", "Push", "PushSelf", "FindVar"}

Precedence ==
    [Equals |-> 9, NotEquals |-> 9, GreaterOrEqual |-> 9, GreaterThan |-> 9,
     LessOrEqual |-> 9, LessThan |-> 9,
     Add |-> 6, Subtract |-> 6, Multiply |-> 5, Divide |-> 5]

Infix   == DOMAIN Precedence
Calls   == {"Call", "Invoke"}
Sends   == {"Send", "SendIfDefined"}
Resends == {"Resend", "ResendIfDefined"}

Unsupported ==
    {"Dup", "SetLexScope", "IterNext", "IterDone", "PopHandlers", "GetVar", "MakeFrame",
     "MakeArray", "FillArray", "GetPath", "GetPathCheck", "SetPath", "SetPathVal",
     "SetVar", "IncrVar", "BranchLoop", "ARef", "SetARef", "Not", "Div", "BitAnd",
     "BitOr", "BitNot", "NewIter", "Length", "Clone", "SetClass", "AddArraySlot",
     "Stringer", "HasPath", "ClassOf", "NewHandler", "Unknown"}

(* What a node prints: the construct, the pc it stands at and what it is    *)
(* made of.  Two instructions never print the same thing.  "shows" has the   *)
(* places where an instruction appears in the text: which instruction, and   *)
(* the way down to it through the parts.                                     *)
Place(at, way) == [at |-> at, way |-> way]

Within(k, part) == {Place(p.at, <<k, p.way>>) : p \in part.shows}

Text(what, at, parts) ==
    [what  |-> what, at |-> at, parts |-> parts,
     shows |-> (IF what \in {"block", "brackets"} THEN {} ELSE {Place(at, << >>)})
                   \cup UNION {Within(k, parts[k]) : k \in DOMAIN parts}]

(* transcode_from_ns counts the references of these to their targets.        *)
Branches == {"Branch", "BranchIfTrue", "BranchIfFalse", "BranchLoop"}

Targets(code, i) ==
    {j \in DOMAIN code : code[j].bc \in Branches /\ code[j].arg = i}

(* Indices from 0, and the labels counted.                                  *)
Linked(code) ==
    [i \in 0 .. Len(code) - 1 |->
        [code[i + 1] EXCEPT !.references = Cardinality(Targets(code, i))]]

Bytecodes ==
    {"EndOfFile", "Pop", "Return", "FindAndSetVar"} \cup Leaves \cup Infix \cup Calls
    \cup Sends \cup Resends \cup Branches \cup Unsupported

(* A vector that transcode_from_ns returns: EndOfFile comes last, and only   *)
(* there.                                                                    *)
IsProgram(p) ==
    \E n \in DOMAIN p :
        /\ n \in Nat
        /\ DOMAIN p = 0 .. n
        /\ \A i \in 0 .. n :
              /\ p[i].bc \in Bytecodes
              /\ p[i].arg \in Int
              /\ p[i].references \in Nat
              /\ p[i].bc = "EndOfFile" <=> i = n
=============================================================================
