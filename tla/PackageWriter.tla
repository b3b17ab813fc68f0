---------------------------- MODULE PackageWriter ----------------------------
(***************************************************************************)
(* Package::writeAsm (src/src/io/package.cpp) and what it calls: the       *)
(* package as items for the assembler, and the count of the bytes that     *)
(* they should become, with which the rest of the file is found.           *)
(***************************************************************************)
EXTENDS PackageReader, GnuAssembler

CONSTANTS
    InstructionsNames, RealNames    \* how "instructions" and "real" can be spelled

(* The filler 0xbf, and 0xff behind the directory. *)
Fill    == 191 % Base
EndFill == 255 % Base

Mark(name, i) == Label(name, i, << >>)

Part(i)      == Mark("part", i)
PartEnd(i)   == Mark("part_end", i)
InfoStart(i) == Mark("info_start", i)
InfoEnd(i)   == Mark("info_end", i)

-----------------------------------------------------------------------------
HeaderAsm(package) ==
    LET Field(f)  == Verbatim(package.header[f])
        data      == Mark("pkg_data", 0)
        Text(from, to) == <<Distance(data, from, 2), Distance(from, to, 2)>>
    IN  <<Define(Mark("package_start", 0)), Field("signature"), Field("type"), Field("flags"), Field("version")>>
          \o Text(Mark("pkg_copyright_start", 0), Mark("pkg_copyright_end", 0))
          \o Text(Mark("pkg_name_start", 0), Mark("pkg_name_end", 0))
          \o <<Distance(Mark("package_start", 0), Mark("package_end", 0), 4),
               Field("date"), Field("reserved2"), Field("reserved3"),
               Address(Mark("directory_size", 0), 0, 4), Field("num_parts")>>

(* The offset is the one that was read. *)
EntryAsm(i, entry) ==
    <<Verbatim(entry.offset), Distance(Part(i), PartEnd(i), 4), Distance(Part(i), PartEnd(i), 4),
      Verbatim(entry.type), Verbatim(entry.reserved), Verbatim(entry.flags),
      Address(InfoStart(i), 0, 2), Distance(InfoStart(i), InfoEnd(i), 2), Verbatim(entry.compressor)>>

(* write_utf16 *)
TextAsm(text) == Verbatim(FlattenSeq([i \in DOMAIN text |-> Short(text[i])]) \o Short(0))

HasText(package, field) == Number(package.header[field]) # 0

TextsAsm(package) ==
    LET Written(field, text) == IF HasText(package, field) THEN <<TextAsm(text)>> ELSE << >>
    IN  <<Define(Mark("pkg_data", 0)), Define(Mark("pkg_copyright_start", 0))>>
          \o Written("copyright_length", package.copyright)
          \o <<Define(Mark("pkg_copyright_end", 0)), Define(Mark("pkg_name_start", 0))>>
          \o Written("name_length", package.name)
          \o <<Define(Mark("pkg_name_end", 0))>>

InfoAsm(i, info) == <<Define(InfoStart(i)), Verbatim(info), Define(InfoEnd(i))>>

PackageInfoAsm(package) ==
    <<Verbatim(package.info), Balign(4, EndFill), Define(Mark("directory_size", 0))>>

(* The relocation data is written as numbers. *)
RelocationAsm(package) ==
    IF HasRelocation(package)
    THEN <<Verbatim(package.relocation.head), Verbatim(FlattenSeq(package.relocation.sets)),
           Verbatim(package.relocation.padding)>>
    ELSE << >>

-----------------------------------------------------------------------------
ObjectAt(part, ref) == {k \in DOMAIN part.objects : part.objects[k].offset = Place(ref)}

(* Integers, magic pointers, characters and the other immediates have        *)
(* macros that give the number which they were.                              *)
AsmRef(part, ref) ==
    IF ref % 4 = 1 /\ ObjectAt(part, ref) # {}
    THEN LET k == CHOOSE k \in ObjectAt(part, ref) : TRUE
         IN  Address(LabelInRef(part.objects[k].label), 1, 4)
    ELSE Verbatim(Word(ref))

(* Faulty: the size is the one that was read. *)
HeadAsNumber(o) == Verbatim(Word((o.size + 8) * Base + o.flags + o.type))

HeadAsm(o) == ToLocal(o.flags + o.type)

SymbolAsm(o) == <<Verbatim(Word(o.class)), Verbatim(o.hash), Asciz(o.data)>>

(* The macros for instructions give the bytes that they were.                *)
BinaryAsm(part, o) == <<AsmRef(part, o.class), Verbatim(o.data)>>

SlottedAsm(part, o) == <<AsmRef(part, o.class)>> \o [i \in DOMAIN o.refs |-> AsmRef(part, o.refs[i])]

ObjectAsm(part, o) ==
    <<Define(o.label), HeadAsm(o), Verbatim(Word(o.ref_cnt))>>
       \o CASE Kind(o) = "symbol" -> SymbolAsm(o)
            [] Kind(o) = "binary" -> BinaryAsm(part, o)
            [] Kind(o) \in Slotted -> SlottedAsm(part, o)

(* Faulty: as if all parts were for NewtonOS 2.x. *)
FillAsmByFour(part, o) == Balign(4, Fill)

(* Parts of NewtonOS 1.x are filled up as they were read.                    *)
FillAsm(part, o) ==
    IF part.align = 4 THEN Balign(4, Fill) ELSE Verbatim([k \in 1 .. o.padding |-> Fill])

NOSPartAsm(part) ==
    FlattenSeq([k \in DOMAIN part.objects |->
       ObjectAsm(part, part.objects[k]) \o <<LocalLabel, FillAsm(part, part.objects[k])>>])

GenericPartAsm(part) == <<Verbatim(part.data)>>

PartAsm(i, part) ==
    <<Define(Part(i))>>
       \o (IF IsNOS(part) THEN NOSPartAsm(part) ELSE GenericPartAsm(part))
       \o <<Balign(4, 0), Define(PartEnd(i))>>

-----------------------------------------------------------------------------
Added(numbers) ==
    LET sum[n \in 0 .. Len(numbers)] == IF n = 0 THEN 0 ELSE sum[n - 1] + numbers[n]
    IN  sum[Len(numbers)]

(* Everything but the relocation data. *)
WrittenWithoutRelocation(package) ==
    HeaderSize + EntrySize * Len(package.parts)
      + (IF HasText(package, "copyright_length") THEN 2 * (Len(package.copyright) + 1) ELSE 0)
      + (IF HasText(package, "name_length") THEN 2 * (Len(package.name) + 1) ELSE 0)
      + Added([i \in DOMAIN package.parts |-> Len(package.parts[i].info)]) + Len(package.info)
      + Added([i \in DOMAIN package.parts |-> SizeOf(package.parts[i])])

RelocationSize(package) == AsInt(Number(Slice(package.relocation.head, 4, 4)))

(* What writeAsm returns. *)
Written(package) ==
    WrittenWithoutRelocation(package) + (IF HasRelocation(package) THEN RelocationSize(package) ELSE 0)

(* What the file has behind the package is added. *)
RestAsm(package, bytes) ==
    IF Written(package) < Len(bytes)
    THEN <<Verbatim(SubSeq(bytes, Written(package) + 1, Len(bytes)))>>
    ELSE << >>

AssemblerFile(package, bytes) ==
    LET parts == package.parts
    IN  HeaderAsm(package)
          \o FlattenSeq([i \in DOMAIN parts |-> EntryAsm(i, parts[i].entry)])
          \o TextsAsm(package)
          \o FlattenSeq([i \in DOMAIN parts |-> InfoAsm(i, parts[i].info)])
          \o PackageInfoAsm(package)
          \o RelocationAsm(package)
          \o FlattenSeq([i \in DOMAIN parts |-> PartAsm(i, parts[i])])
          \o <<Define(Mark("package_end", 0))>>
          \o RestAsm(package, bytes)

-----------------------------------------------------------------------------
(* PartDataNOS::getSymbol *)
HasClass(part, o, names) ==
    \E k \in DOMAIN part.objects :
        /\ o.class % 4 = 1 /\ part.objects[k].offset = Place(o.class)
        /\ Kind(part.objects[k]) = "symbol" /\ part.objects[k].data \in names

(* An instruction whose lowest bits are 7 takes the next two bytes.          *)
Missing(code) ==
    FoldLeft(LAMBDA pending, byte : IF pending > 0 THEN pending - 1 ELSE IF byte % 8 = 7 THEN 2 ELSE 0,
             0, code)

(* Bytes behind the end of an object are read.                               *)
ReadsPastData(part, o) ==
    /\ Kind(o) = "binary"
    /\ \/ HasClass(part, o, InstructionsNames) /\ Missing(o.data) > 0
       \/ HasClass(part, o, RealNames) /\ ~HasClass(part, o, InstructionsNames) /\ Len(o.data) < 8

(* And so are bytes before the file, when sizes that are negative as an int  *)
(* make the count negative; only then can it have overflowed.                *)
WriteIsUndefined(package) ==
    \/ Written(package) < 0
    \/ \E i \in DOMAIN package.parts : \E k \in DOMAIN package.parts[i].objects :
           ReadsPastData(package.parts[i], package.parts[i].objects[k])
=============================================================================
