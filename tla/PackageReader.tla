---------------------------- MODULE PackageReader ----------------------------
(***************************************************************************)
(* Package::load (src/src/io/package.cpp) and what it calls: the entries   *)
(* of the parts (part_entry.cpp), the relocation data                      *)
(* (relocation_data.cpp) and the objects in the parts (part_data.cpp).     *)
(* "phase" and "index" say what is read next and for which part, "pos" is  *)
(* where.  The fields of the headers are kept as the bytes they are.       *)
(***************************************************************************)
EXTENDS PackageBytes, AsmLabels

VARIABLES
    file,       \* pkg_bytes_
    pos,        \* it_
    pkg,        \* the package read so far
    phase, index,
    status      \* "loading", "loaded", or how load() failed

reader == <<file, pos, pkg, phase, index, status>>

(* "package0", "package1" *)
Signatures == {<<112, 97, 99, 107, 97, 103, 101, digit>> : digit \in {48, 49}}

HeaderFields ==
    [signature |-> <<0, 8>>, type |-> <<8, 4>>, flags |-> <<12, 4>>, version |-> <<16, 4>>,
     copyright_start |-> <<20, 2>>, copyright_length |-> <<22, 2>>,
     name_start |-> <<24, 2>>, name_length |-> <<26, 2>>, size |-> <<28, 4>>, date |-> <<32, 4>>,
     reserved2 |-> <<36, 4>>, reserved3 |-> <<40, 4>>, directory_size |-> <<44, 4>>,
     num_parts |-> <<48, 4>>]

HeaderSize == 52

EntryFields ==
    [offset |-> <<0, 4>>, size |-> <<4, 4>>, size2 |-> <<8, 4>>, type |-> <<12, 4>>,
     reserved |-> <<16, 4>>, flags |-> <<20, 4>>, info_offset |-> <<24, 2>>,
     info_length |-> <<26, 2>>, compressor |-> <<28, 4>>]

EntrySize == 32

NoFields == [signature |-> << >>]

NoRelocation == [head |-> << >>, start |-> 0, sets |-> << >>, padding |-> << >>]

NoPackage ==
    [header |-> NoFields, copyright |-> << >>, name |-> << >>, info |-> << >>,
     relocation |-> NoRelocation, parts |-> << >>]

(* Faulty: the alignment is known for parts of NewtonOS 2.x only. *)
NewPartUnset(entry) ==
    [entry |-> entry, info |-> << >>, start |-> 0, align |-> 0, data |-> << >>, objects |-> << >>]

NewPart(entry) ==
    [entry |-> entry, info |-> << >>, start |-> 0, align |-> 8, data |-> << >>, objects |-> << >>]

HasRelocation(package) == (Number(package.header.flags) \div (4 * Base ^ 3)) % 2 = 1

(* How often a loop runs that counts up to a word with an int.               *)
Rounds(number) == IF AsInt(number) > 0 THEN AsInt(number) ELSE 0

NumParts(package) == Rounds(Number(package.header.num_parts))

SizeOf(part) == AsInt(Number(part.entry.size))

(* flags_ & 3; the other kinds of parts are not interpreted.                *)
IsNOS(part) == Number(part.entry.flags) % 4 = 1

Begin(bytes) ==
    /\ file = bytes /\ pos = 0 /\ pkg = NoPackage
    /\ phase = "header" /\ index = 1 /\ status = "loading"

-----------------------------------------------------------------------------
Current == pkg.parts[index]
Objects == Current.objects

Loading(p) == status = "loading" /\ phase = p

Has(length) == length >= 0 /\ pos + length <= Len(file)

Go(p, i) == phase' = p /\ index' = i /\ UNCHANGED <<file, status>>

Stop(how) == status' = how /\ UNCHANGED <<file, pos, pkg, phase, index>>

(* The copyright and the name: their lengths count the NUL.                 *)
TextBytes(field) ==
    LET length == Number(pkg.header[field]) IN IF length = 0 THEN 0 ELSE IF length < 4 THEN 2 ELSE 2 * (length \div 2)

TextAt(at, length) ==
    [i \in 1 .. (IF length = 0 THEN 0 ELSE length \div 2 - 1) |-> Number(Slice(file, at + 2 * i - 2, 2))]

(* The head of the object at the position.                                  *)
Peek ==
    LET header == Number(Slice(file, pos, 4))
    IN  [type |-> header % 4, flags |-> (header % Base) - (header % 4), total |-> header \div Base,
         class |-> Number(Slice(file, pos + 8, 4))]

Beyond == Len(file) + 1

(* How many bytes load() of an object reads.  Sizes are unsigned: what is   *)
(* too small for the kind of object is a very large number.                 *)
ObjectLength ==
    LET total == Peek.total
    IN  CASE ~Has(12) -> Beyond
          [] Has(12) /\ Kind(Peek) = "binary"   -> IF total < 12 THEN Beyond ELSE total
          [] Has(12) /\ Kind(Peek) = "symbol"   -> IF total < 17 THEN Beyond ELSE total
          [] Has(12) /\ Kind(Peek) \in Slotted ->
                CASE total < 8 -> Beyond
                  [] total \in 8 .. 11 -> 12
                  [] total >= 12 -> 8 + 4 * ((total - 8) \div 4)

(* Faulty: padding is counted from the start of the file.                   *)
PaddingInFile(length) == AlignedTo(pos + length, Current.align) - (pos + length)

(* loadPadding: counted from the start of the part, wherever the part ends. *)
Padding(length) ==
    LET at == pos + length - Current.start IN AlignedTo(at, Current.align) - at

SetLength == 4 + Number(Slice(file, pos + 2, 2))

SetPadding == AlignedTo(pos + SetLength, 4) - (pos + SetLength)

RelocationPadding ==
    AsInt(pkg.relocation.start + Number(Slice(pkg.relocation.head, 4, 4)) - pos)

RelocationSets == Rounds(Number(Slice(pkg.relocation.head, 12, 4)))

-----------------------------------------------------------------------------
(* The directory. *)
(* The size is checked as soon as it is read. *)
NotAPackage ==
    \/ file = << >>
    \/ Has(8) /\ Slice(file, 0, 8) \notin Signatures
    \/ Has(32) /\ Number(Slice(file, 28, 4)) > Len(file)

Refuse == Loading("header") /\ NotAPackage /\ Stop("refused")

LoadHeader ==
    /\ Loading("header") /\ ~NotAPackage /\ Has(HeaderSize)
    /\ pkg' = [pkg EXCEPT !.header = Fields(file, 0, HeaderFields)]
    /\ pos' = HeaderSize
    /\ Go("entry", 1)

LoadEntry ==
    /\ Loading("entry") /\ index <= NumParts(pkg) /\ Has(EntrySize)
    /\ pkg' = [pkg EXCEPT !.parts = Append(@, NewPart(Fields(file, pos, EntryFields)))]
    /\ pos' = pos + EntrySize
    /\ Go("entry", index + 1)

(* Where the header says that they are makes no difference.                 *)
LoadTexts ==
    /\ Loading("entry") /\ index > NumParts(pkg)
    /\ Has(TextBytes("copyright_length") + TextBytes("name_length"))
    /\ pkg' = [pkg EXCEPT
                 !.copyright = TextAt(pos, Number(pkg.header.copyright_length)),
                 !.name = TextAt(pos + TextBytes("copyright_length"), Number(pkg.header.name_length))]
    /\ pos' = pos + TextBytes("copyright_length") + TextBytes("name_length")
    /\ Go("info", 1)

InfoLength == Number(Current.entry.info_length)

LoadInfo ==
    /\ Loading("info") /\ index <= NumParts(pkg) /\ Has(InfoLength)
    /\ pkg' = [pkg EXCEPT !.parts[index].info = Slice(file, pos, InfoLength)]
    /\ pos' = pos + InfoLength
    /\ Go("info", index + 1)

PackageInfoLength == Number(pkg.header.directory_size) - pos

LoadPackageInfo ==
    /\ Loading("info") /\ index > NumParts(pkg) /\ Has(PackageInfoLength)
    /\ pkg' = [pkg EXCEPT !.info = Slice(file, pos, PackageInfoLength)]
    /\ pos' = pos + PackageInfoLength
    /\ Go(IF HasRelocation(pkg) THEN "relocation" ELSE "part", 1)

-----------------------------------------------------------------------------
(* The relocation data. *)
LoadRelocationHead ==
    /\ Loading("relocation") /\ Has(20)
    /\ pkg' = [pkg EXCEPT !.relocation = [@ EXCEPT !.head = Slice(file, pos, 20), !.start = pos]]
    /\ pos' = pos + 20
    /\ Go("set", 1)

LoadRelocationSet ==
    /\ Loading("set") /\ index <= RelocationSets
    /\ Has(4) /\ Has(SetLength + SetPadding)
    /\ pkg' = [pkg EXCEPT !.relocation.sets = Append(@, Slice(file, pos, SetLength + SetPadding))]
    /\ pos' = pos + SetLength + SetPadding
    /\ Go("set", index + 1)

(* An error here is not an error of Package::load.                          *)
LoadRelocationPadding ==
    /\ Loading("set") /\ index > RelocationSets
    /\ \/ RelocationPadding <= 0 /\ UNCHANGED <<pos, pkg>>
       \/ /\ RelocationPadding > 0 /\ Has(RelocationPadding)
          /\ pkg' = [pkg EXCEPT !.relocation.padding = Slice(file, pos, RelocationPadding)]
          /\ pos' = pos + RelocationPadding
    /\ Go("part", 1)

-----------------------------------------------------------------------------
(* The parts, one behind the other; their offsets make no difference.       *)
EndReached(part) == pos >= part.start + SizeOf(part)

(* The end of the part is no int. *)
EndOverflows == 2 * (pos + SizeOf(Current)) >= WordValues

LosePartEnd ==
    /\ Loading("part") /\ index <= NumParts(pkg) /\ IsNOS(Current) /\ EndOverflows
    /\ Stop("undefined")

BeginPart ==
    /\ Loading("part") /\ index <= NumParts(pkg) /\ IsNOS(Current) /\ ~EndOverflows /\ Has(8)
    /\ LET align == IF Number(Slice(file, pos + 4, 4)) % 2 = 1 THEN 4 ELSE 8
       IN  pkg' = [pkg EXCEPT !.parts[index].start = pos, !.parts[index].align = align]
    /\ UNCHANGED pos
    /\ Go("object", index)

LoadGenericPart ==
    /\ Loading("part") /\ index <= NumParts(pkg) /\ ~IsNOS(Current) /\ Has(SizeOf(Current))
    /\ pkg' = [pkg EXCEPT !.parts[index].start = pos,
                          !.parts[index].data = Slice(file, pos, SizeOf(Current))]
    /\ pos' = pos + SizeOf(Current)
    /\ Go("part", index + 1)

HeadOf(head) ==
    [offset |-> pos, type |-> head.type, flags |-> head.flags, size |-> head.total - 8,
     ref_cnt |-> Number(Slice(file, pos + 4, 4)), class |-> head.class, hash |-> << >>, data |-> << >>,
     refs |-> << >>, padding |-> Padding(ObjectLength), label |-> NoLabel]

LoadedSymbol(head) ==
    [HeadOf(head) EXCEPT !.hash = Slice(file, pos + 12, 4), !.data = Slice(file, pos + 16, head.total - 17)]

LoadedBinary(head) == [HeadOf(head) EXCEPT !.data = Slice(file, pos + 12, head.total - 12)]

LoadedSlotted(head) ==
    [HeadOf(head) EXCEPT
       !.refs = [i \in 1 .. (ObjectLength - 12) \div 4 |-> Number(Slice(file, pos + 8 + 4 * i, 4))]]

LoadedObject ==
    CASE Kind(Peek) = "symbol"   -> LoadedSymbol(Peek)
      [] Kind(Peek) = "binary"   -> LoadedBinary(Peek)
      [] Kind(Peek) \in Slotted -> LoadedSlotted(Peek)

LoadObject ==
    /\ Loading("object") /\ ~EndReached(Current) /\ Has(ObjectLength)
    /\ Has(ObjectLength + Padding(ObjectLength))
    /\ pkg' = [pkg EXCEPT !.parts[index].objects = Append(@, LoadedObject)]
    /\ pos' = pos + ObjectLength + Padding(ObjectLength)
    /\ Go("object", index)

(* The objects get their labels when all are there, in their order.         *)
Unlabelled == {k \in DOMAIN Objects : Objects[k].label = NoLabel}

MakeAsmLabel ==
    /\ Loading("object") /\ EndReached(Current) /\ Unlabelled # {}
    /\ LET k     == CHOOSE k \in Unlabelled : \A j \in Unlabelled : k <= j
           label == IF Kind(Objects[k]) = "symbol" THEN SymbolLabel(index, Objects[k].data, Objects)
                    ELSE ObjectLabel(index, Objects[k].offset)
       IN  IF label.kind \in {"undefined", "endless"} THEN Stop(label.kind)
           ELSE /\ pkg' = [pkg EXCEPT !.parts[index].objects[k].label = label]
                /\ UNCHANGED <<file, pos, phase, index, status>>

EndPart ==
    /\ Loading("object") /\ EndReached(Current) /\ Unlabelled = {}
    /\ Go("part", index + 1)
    /\ UNCHANGED <<pos, pkg>>

Succeed ==
    /\ Loading("part") /\ index > NumParts(pkg)
    /\ Stop("loaded")

-----------------------------------------------------------------------------
(* What the next step reads. *)
NextLength ==
    CASE phase = "header" -> IF NotAPackage THEN 0 ELSE HeaderSize
      [] phase = "entry" /\ index <= NumParts(pkg) -> EntrySize
      [] phase = "entry" /\ index > NumParts(pkg) -> TextBytes("copyright_length") + TextBytes("name_length")
      [] phase = "info" /\ index <= NumParts(pkg) -> InfoLength
      [] phase = "info" /\ index > NumParts(pkg) -> PackageInfoLength
      [] phase = "relocation" -> 20
      [] phase = "set" /\ index <= RelocationSets -> IF Has(4) THEN SetLength + SetPadding ELSE 4
      [] phase = "set" /\ index > RelocationSets ->
            IF RelocationPadding > 0 THEN RelocationPadding ELSE 0
      [] phase = "part" /\ index <= NumParts(pkg) -> IF IsNOS(Current) THEN 8 ELSE SizeOf(Current)
      [] phase = "part" /\ index > NumParts(pkg) -> 0
      [] phase = "object" ->
            IF EndReached(Current) THEN 0
            ELSE IF ~Has(ObjectLength) THEN ObjectLength ELSE ObjectLength + Padding(ObjectLength)

(* Nothing stops the iterator at the end of the bytes.                      *)
ReadPastEnd ==
    /\ status = "loading" /\ ~Has(NextLength)
    /\ Stop("undefined")

Load ==
    \/ Refuse \/ LoadHeader \/ LoadEntry \/ LoadTexts \/ LoadInfo \/ LoadPackageInfo
    \/ LoadRelocationHead \/ LoadRelocationSet \/ LoadRelocationPadding
    \/ LosePartEnd \/ BeginPart \/ LoadGenericPart \/ LoadObject \/ MakeAsmLabel \/ EndPart
    \/ Succeed \/ ReadPastEnd
=============================================================================
