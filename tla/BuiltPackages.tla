---------------------------- MODULE BuiltPackages ----------------------------
(***************************************************************************)
(* Package files as other tools build them: a description of a package, in *)
(* which a reference to the k-th object of the part is -k and all other    *)
(* references are the numbers that they are in the file, and the bytes     *)
(* that it becomes.  The layout is the one that the comments of            *)
(* Package::load and PartEntry::load (src/src/io/package.cpp,              *)
(* part_entry.cpp) describe.                                               *)
(***************************************************************************)
EXTENDS PackageReader

CONSTANT Filler     \* what the builder fills up with

Zeros(n)   == [i \in 1 .. n |-> 0]
Fillers(n) == [i \in 1 .. n |-> Filler]

Summed(numbers) == FoldLeft(+, 0, numbers)

TextIn(text) == IF text = << >> THEN << >> ELSE FlattenSeq([i \in DOMAIN text |-> Short(text[i])]) \o Short(0)

BuiltLength(o) ==
    CASE Kind(o) = "symbol" -> 17 + Len(o.data)
      [] Kind(o) = "binary" -> 12 + Len(o.data)
      [] Kind(o) \in Slotted -> 12 + 4 * Len(o.refs)

(* The offsets of the objects of a part, and of its end. *)
Places(part, start) ==
    FoldLeft(LAMBDA places, o :
                Append(places, start + AlignedTo(places[Len(places)] + BuiltLength(o) - start, part.align)),
             <<start>>, part.objects)

Resolved(ref, places) == IF ref < 0 THEN places[-ref] + 1 ELSE ref

(* The first object of a part says how the part is aligned. *)
BuiltObject(part, k, places) ==
    LET o    == part.objects[k]
        head == Word(BuiltLength(o) * Base + 64 + o.type)
                  \o Word(IF part.align = 4 THEN 1 ELSE 0)
                  \o Word(Resolved(o.class, places))
        rest == CASE Kind(o) = "symbol" -> Word(Len(o.data)) \o o.data \o <<0>>
                  [] Kind(o) = "binary" -> o.data
                  [] Kind(o) \in Slotted -> FlattenSeq([i \in DOMAIN o.refs |-> Word(Resolved(o.refs[i], places))])
    IN  head \o rest \o Fillers(places[k + 1] - places[k] - BuiltLength(o))

PartLength(part) ==
    IF part.nos THEN LET places == Places(part, 0) IN places[Len(places)] ELSE Len(part.data)

BuiltPart(part, start) ==
    IF part.nos
    THEN LET places == Places(part, start)
         IN  FlattenSeq([k \in DOMAIN part.objects |-> BuiltObject(part, k, places)])
    ELSE part.data

-----------------------------------------------------------------------------
Infos(d) == FlattenSeq([i \in DOMAIN d.parts |-> d.parts[i].info])

InfosAt(d) == HeaderSize + EntrySize * Len(d.parts) + Len(TextIn(d.copyright)) + Len(TextIn(d.name))

DirectorySize(d) == AlignedTo(InfosAt(d) + Len(Infos(d)) + Len(d.info), 4)

(* One set for each list of words to relocate. *)
RelocationSetBytes(offsets) ==
    Short(1) \o Short(Len(offsets)) \o offsets \o Zeros(AlignedTo(Len(offsets), 4) - Len(offsets))

Relocation(d) ==
    LET sets == FlattenSeq([i \in DOMAIN d.relocation |-> RelocationSetBytes(d.relocation[i])])
    IN  IF d.relocation = << >> THEN << >>
        ELSE Word(0) \o Word(20 + Len(sets) + CASE d.fault = "none" -> 4 [] d.fault = "unpadded" -> 0 [] OTHER -> -4)
               \o Word(1024) \o Word(Len(d.relocation)) \o Word(0)
               \o sets \o Zeros(IF d.fault = "none" THEN 4 ELSE 0)

PartsAt(d) == DirectorySize(d) + Len(Relocation(d))

PartStart(d, i) == PartsAt(d) + Summed([j \in 1 .. i - 1 |-> PartLength(d.parts[j])])

PackageLength(d) == PartStart(d, Len(d.parts) + 1)

BuiltEntry(d, i) ==
    LET part == d.parts[i]
        at   == InfosAt(d) + Summed([j \in 1 .. i - 1 |-> Len(d.parts[j].info)])
        size == PartLength(part) + (IF d.fault = "negative" THEN WordValues \div 2 ELSE 0)
    IN  Word(PartStart(d, i) - PartsAt(d)) \o Word(size) \o Word(size)
          \o <<102, 111, 114, 109>> \o Word(0) \o Word(IF part.nos THEN 1 ELSE 2)
          \o Short(at) \o Short(Len(part.info)) \o Zeros(4)

(* Files are copied badly, too: "truncated" ones lack their end, the size    *)
(* of "short" ones agrees with what is left.  The relocation data of others  *)
(* is "unpadded", or "longer" than it says; and the parts of "negative" ones *)
(* say that they are larger than an int.                                     *)
FileOf(d) ==
    LET copyright == Len(TextIn(d.copyright))
        claimed   == IF d.fault = "short" THEN PackageLength(d) - 4 ELSE PackageLength(d)
        kept      == IF d.fault \in {"short", "truncated"} THEN PackageLength(d) - 4
                     ELSE PackageLength(d) + Len(d.extra)
        bytes ==
          <<112, 97, 99, 107, 97, 103, 101, IF d.fault = "signature" THEN 50 ELSE 48>>
            \o <<120, 120, 120, 120>>
            \o Word(IF d.relocation = << >> THEN 0 ELSE 4 * Base ^ 3) \o Word(3)
            \o Short(0) \o Short(copyright) \o Short(copyright) \o Short(Len(TextIn(d.name)))
            \o Word(claimed) \o Word(5) \o Word(6) \o Word(0)
            \o Word(DirectorySize(d)) \o Word(Len(d.parts))
            \o FlattenSeq([i \in DOMAIN d.parts |-> BuiltEntry(d, i)])
            \o TextIn(d.copyright) \o TextIn(d.name) \o Infos(d) \o d.info
            \o Fillers(DirectorySize(d) - InfosAt(d) - Len(Infos(d)) - Len(d.info))
            \o Relocation(d)
            \o FlattenSeq([i \in DOMAIN d.parts |-> BuiltPart(d.parts[i], PartStart(d, i))])
            \o d.extra
    IN  SubSeq(bytes, 1, kept)

-----------------------------------------------------------------------------
(* What a loaded package should be.  The last padding belongs to the part.   *)
SameObjects(part, built) ==
    LET places == Places(built, part.start)
    IN  /\ Len(part.objects) = Len(built.objects)
        /\ \A k \in DOMAIN built.objects :
              LET o == part.objects[k] b == built.objects[k]
              IN  /\ o.offset = places[k]
                  /\ o.type = b.type /\ o.data = b.data
                  /\ o.class = Resolved(b.class, places)
                  /\ o.refs = [i \in DOMAIN b.refs |-> Resolved(b.refs[i], places)]

SamePackage(package, d) ==
    /\ package.copyright = d.copyright /\ package.name = d.name
    /\ SubSeq(package.info, 1, Len(d.info)) = d.info
    /\ Len(package.parts) = Len(d.parts)
    /\ \A i \in DOMAIN d.parts :
          LET part == package.parts[i] built == d.parts[i]
          IN  /\ part.info = built.info /\ part.start = PartStart(d, i)
              /\ IF built.nos THEN SameObjects(part, built) ELSE part.data = built.data
=============================================================================
