------------------------------ MODULE Repacking ------------------------------
(***************************************************************************)
(* What main_01 (src/src/dynec.cpp) does with a package: it is loaded,     *)
(* written as an assembler file, assembled, and loaded again to be         *)
(* compared.  Its user may edit the assembler file in between; and other   *)
(* files may be compared with a package as well.                           *)
(***************************************************************************)
EXTENDS PackageWriter, PackageComparison, BuiltPackages

CONSTANTS
    Packages,       \* the descriptions of the packages that are loaded
    Contenders(_),  \* the files that each of them is compared with
    NoEdit

(* Files are bytes. *)
ASSUME FilesAssumption ==
    \A d \in Packages : FileOf(d) \in Seq(Byte) /\ Contenders(d) \subseteq Seq(Byte)

VARIABLES
    built,          \* the description of the file
    source,         \* the bytes of the file
    original,       \* my_pkg, as soon as another package is loaded
    asm,            \* the assembler file
    edit,           \* the object that was made longer by hand
    result,         \* what compareContents returned
    stage

main == <<built, source, original, asm, edit, result, stage>>

vars == <<file, pos, pkg, phase, index, status, built, source, original, asm, edit, result, stage>>

Init ==
    /\ built \in Packages
    /\ source = FileOf(built)
    /\ Begin(source)
    /\ original = NoPackage
    /\ asm = << >>
    /\ edit = NoEdit
    /\ result = 1
    /\ stage = "first"

LoadFirst == stage = "first" /\ Load /\ UNCHANGED main

LoadSecond == stage = "second" /\ Load /\ UNCHANGED main

-----------------------------------------------------------------------------
WriteAsm ==
    /\ stage = "first" /\ status = "loaded"
    /\ IF WriteIsUndefined(pkg)
       THEN stage' = "undefined" /\ UNCHANGED <<original, asm>>
       ELSE /\ asm' = AssemblerFile(pkg, file)
            /\ original' = pkg
            /\ stage' = "written"
    /\ UNCHANGED <<file, pos, pkg, phase, index, status, built, source, edit, result>>

(* A byte is added to a binary, or a slot with nil to an array.              *)
Addition(o) == IF Kind(o) = "binary" THEN Verbatim(<<7>>) ELSE Verbatim(Word(2))

(* The item behind the object: its local label.                              *)
IsEndOf(items, label, j) ==
    /\ items[j] = LocalLabel
    /\ \E i \in 1 .. j - 1 : /\ items[i] = Define(label)
                             /\ \A h \in i .. j - 1 : items[h] # LocalLabel

EditAsm ==
    /\ stage = "written" /\ edit = NoEdit
    /\ \E i \in DOMAIN pkg.parts : \E k \in DOMAIN pkg.parts[i].objects :
          LET o == pkg.parts[i].objects[k]
          IN  /\ Kind(o) \in {"binary", "array"}
              /\ edit' = <<i, k>>
              /\ \E j \in DOMAIN asm : IsEndOf(asm, o.label, j) /\ asm' = InsertAt(asm, j, Addition(o))
    /\ UNCHANGED <<file, pos, pkg, phase, index, status, built, source, original, result, stage>>

-----------------------------------------------------------------------------
(* Another Package loads. *)
LoadOther(bytes) ==
    /\ file' = bytes /\ pos' = 0 /\ pkg' = NoPackage
    /\ phase' = "header" /\ index' = 1 /\ status' = "loading"
    /\ stage' = "second"

(* asmToObj, objToBin *)
Assemble ==
    /\ stage = "written"
    /\ IF Assembles(asm) THEN LoadOther(Assembled(asm))
       ELSE stage' = "not assembled" /\ UNCHANGED <<file, pos, pkg, phase, index, status>>
    /\ UNCHANGED <<built, source, original, asm, edit, result>>

CompareWithFile ==
    /\ stage = "first" /\ status = "loaded"
    /\ \E other \in Contenders(built) : LoadOther(other)
    /\ original' = pkg
    /\ UNCHANGED <<built, source, asm, edit, result>>

CompareContents ==
    /\ stage = "second" /\ status \in {"loaded", "refused"}
    /\ result' = IF status = "refused" THEN -1 ELSE Compare(original, pkg)
    /\ stage' = "compared"
    /\ UNCHANGED <<file, pos, pkg, phase, index, status, built, source, original, asm, edit>>

Next ==
    \/ LoadFirst \/ WriteAsm \/ EditAsm \/ Assemble \/ CompareWithFile \/ LoadSecond
    \/ CompareContents

Spec == Init /\ [][Next]_vars

-----------------------------------------------------------------------------
Done == {"loaded", "refused", "undefined", "endless"}

(* Every variable has its type.                                             *)
TypeOK ==
    /\ pos \in 0 .. Len(file)
    /\ phase \in {"header", "entry", "info", "relocation", "set", "part", "object"}
    /\ status \in {"loading"} \cup Done
    /\ EntrySize * Len(pkg.parts) <= pos /\ index \in 1 .. Len(file) + 1
    /\ \A i \in DOMAIN pkg.parts : pkg.parts[i].align \in {4, 8}
    /\ result \in -1 .. 1
    /\ stage \in {"first", "written", "not assembled", "undefined", "second", "compared"}

AllObjects(package) ==
    UNION {{package.parts[i].objects[k] : k \in DOMAIN package.parts[i].objects} : i \in DOMAIN package.parts}

(* asmRef cuts no label, and labels can be numbered. *)
ShortNames(d) ==
    \A i \in DOMAIN d.parts : \A k \in DOMAIN d.parts[i].objects :
        LET o == d.parts[i].objects[k]
        IN  Kind(o) = "symbol" => Len(LabelText(o.data)) + 2 <= RefRoom /\ Len(LabelText(o.data)) < StemRoom

Namesakes(d) ==
    \E i \in DOMAIN d.parts :
        Cardinality({k \in DOMAIN d.parts[i].objects : Kind(d.parts[i].objects[k]) = "symbol"}) > LastNumber

(* The parts begin, and the last one ends, where the relocation data and the  *)
(* parts before say that they end.                                            *)
Begins(package, end, i) == IF i \in DOMAIN package.parts THEN package.parts[i].start ELSE end

Exact(package, end) ==
    /\ HasRelocation(package) =>
          Begins(package, end, 1) = package.relocation.start + RelocationSize(package)
    /\ \A i \in DOMAIN package.parts :
          Begins(package, end, i + 1) = package.parts[i].start + SizeOf(package.parts[i])

Damaged(d) == d.fault \in {"signature", "truncated", "short"}

(* Whatever padding, texts, infos and relocation data come before an object,  *)
(* and whatever the parts before it are, the loader finds each object where   *)
(* the builder of the package put it, with what it put there, and no more; it *)
(* accepts all packages, but no file that lost its end: true as long as the   *)
(* sizes in the file are small enough for an int.                             *)
LoadedAsBuilt ==
    stage = "first" /\ built.fault # "negative" =>
       /\ status = "loaded" => /\ ~Damaged(built) /\ SamePackage(pkg, built)
                               /\ Exact(pkg, pos) \/ built.fault = "longer"
       /\ status \in {"refused", "undefined"} => Damaged(built) \/ ~ShortNames(built)
       /\ status = "endless" => Namesakes(built)

(* No two objects of a part have the same label, however their names collide  *)
(* when they are written as labels, cut and numbered.                         *)
LabelsAreUnique ==
    \A i \in DOMAIN pkg.parts :
        LET objects  == pkg.parts[i].objects
            labelled == {n \in DOMAIN objects : objects[n].label # NoLabel}
        IN  Cardinality({objects[k].label : k \in labelled}) = Cardinality(labelled)

(* What writeAsm counts is never more than what load has read, so that no     *)
(* extra data is lost; and it is what load has read, so that nothing of the   *)
(* package is taken for extra data, when every object ends where its part     *)
(* says that it ends.                                                         *)
BytesCounted ==
    status = "loaded" => Written(pkg) <= pos /\ (Exact(pkg, pos) => Written(pkg) = pos)

-----------------------------------------------------------------------------
PlainName(name) == AscizText(name) = name

(* Nothing that the writer is known to change. *)
Regular(d) ==
    /\ d.fault \in {"none", "unpadded"} /\ ShortNames(d)
    /\ \A i \in DOMAIN d.parts :
          /\ d.parts[i].nos \/ Len(d.parts[i].data) % 4 = 0
          /\ \A k \in DOMAIN d.parts[i].objects :
                LET o == d.parts[i].objects[k] IN Kind(o) = "symbol" => PlainName(o.data)

FillerBytes(package) ==
    UNION {(o.offset + o.size + 9) .. (o.offset + o.size + 8 + o.padding) : o \in AllObjects(package)}

Reassembled == stage = "second" /\ phase = "header" /\ asm # << >>

OnlyNOS(d) == \A i \in DOMAIN d.parts : d.parts[i].nos

(* An assembler file that nobody edits becomes the file that was read, its    *)
(* extra data included, byte by byte except for the fillers; which is the     *)
(* same for compareContents, if all parts of the package are interpreted.     *)
RepackedAlike ==
    /\ Reassembled /\ edit = NoEdit /\ Regular(built) =>
          /\ Len(file) = Len(source)
          /\ \A p \in DOMAIN file : file[p] # source[p] => p \in FillerBytes(original)
    /\ stage = "not assembled" => ~Regular(built)
    /\ stage = "compared" /\ asm # << >> /\ edit = NoEdit /\ Regular(built) /\ OnlyNOS(built) => result = 0

(* The graph of a package, wherever its objects are.                         *)
RefShape(part, ref) ==
    IF ref % 4 = 1 /\ ObjectAt(part, ref) # {} THEN -(CHOOSE k \in ObjectAt(part, ref) : TRUE) ELSE ref

ObjectShape(part, o) ==
    [type |-> o.type, class |-> RefShape(part, o.class), data |-> o.data,
     refs |-> [i \in DOMAIN o.refs |-> RefShape(part, o.refs[i])]]

Shape(package) ==
    [i \in DOMAIN package.parts |->
        LET part == package.parts[i]
        IN  [data |-> part.data,
             objects |-> [k \in DOMAIN part.objects |-> ObjectShape(part, part.objects[k])]]]

Longer(shape) ==
    IF shape.type = 0 THEN [shape EXCEPT !.data = Append(@, 7)] ELSE [shape EXCEPT !.refs = Append(@, 2)]

EditedShape == [Shape(original) EXCEPT ![edit[1]].objects[edit[2]] = Longer(@)]

SameAfterEdit ==
    edit # NoEdit /\ stage = "second" /\ status # "loading" =>
        status = "loaded" /\ Shape(pkg) = EditedShape

AlignedByLabels(d) ==
    \A i \in DOMAIN d.parts : d.parts[i].nos => d.parts[i].align = 4

(* When a binary or an array is made longer in the assembler file, every      *)
(* reference still leads to the object it led to, every other object is as    *)
(* it was, and the package can be loaded: true of parts for NewtonOS 2.x.     *)
EditKeepsStructure == Regular(built) /\ AlignedByLabels(built) => SameAfterEdit

(* The parts begin at the same places and are aligned alike: compareContents  *)
(* looks at neither.                                                          *)
PlacedAlike(package, other) ==
    \A i \in DOMAIN package.parts : Agree(package.parts[i], other.parts[i], {"start", "align"})

(* Packages with parts placed alike are the same for compareContents only if  *)
(* they have the same graphs.                                                 *)
CompareSeesParts ==
    stage = "compared" /\ result = 0 /\ PlacedAlike(original, pkg) => Shape(original) = Shape(pkg)
=============================================================================
