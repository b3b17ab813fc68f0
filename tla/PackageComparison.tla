-------------------------- MODULE PackageComparison --------------------------
(***************************************************************************)
(* Package::compare (src/src/io/package.cpp) and what it calls.  0 is      *)
(* returned for packages that are the same, -1 for others.                 *)
(***************************************************************************)
EXTENDS PackageReader

Result(same) == IF same THEN 0 ELSE -1

Agree(a, b, fields) == \A f \in fields : a[f] = b[f]

(* Filler bytes and reference counts are not compared. *)
SameBase(o, other) == Agree(o, other, {"type", "size", "flags", "class"})

CompareObjects(o, other) == Result(SameBase(o, other) /\ Agree(o, other, {"hash", "data", "refs"}))

(* The data of parts that are not interpreted is never the same.             *)
CompareData(part, other) ==
    Result(/\ IsNOS(part)
           /\ Len(part.objects) = Len(other.objects)
           /\ \A k \in DOMAIN part.objects : CompareObjects(part.objects[k], other.objects[k]) = 0)

CompareParts(part, other) ==
    IF ~Agree(part.entry, other.entry, {"size", "type", "flags"}) \/ part.info # other.info
    THEN -1
    ELSE CompareData(part, other)

(* Faulty: the loop does not stop at the first part that differs.            *)
LastResult(before, results) == IF results = << >> THEN before ELSE results[Len(results)]

(* The result of a part replaces the one before.                             *)
FirstDifference(before, results) ==
    IF results = << >> THEN before
    ELSE Result(\A i \in DOMAIN results : results[i] = 0)

Compare(package, other) ==
    IF package.header.num_parts # other.header.num_parts THEN -1
    ELSE FirstDifference(
            Result(/\ Agree(package.header, other.header,
                            {"signature", "type", "flags", "version", "size", "date"})
                   /\ Agree(package, other, {"copyright", "name"})),
            [i \in DOMAIN package.parts |-> CompareParts(package.parts[i], other.parts[i])])
=============================================================================
