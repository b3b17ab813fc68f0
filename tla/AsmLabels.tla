------------------------------ MODULE AsmLabels ------------------------------
(***************************************************************************)
(* The labels of the objects of a part in the assembler file               *)
(* (src/src/io/package/part_data.cpp).  Symbols have labels made from      *)
(* their names, as sequences of ASCII codes; the number of the part in a   *)
(* label tells the parts apart.                                            *)
(***************************************************************************)
EXTENDS PartObjects, FiniteSets, SequencesExt

CONSTANTS
    StemRoom,       \* a name of this length or longer gets no number, 121 - 6
    RefRoom,        \* what asmRef writes of a name, 66 - 6
    LastNumber      \* the last number that fits behind a name, 9999

Label(kind, index, text) == [kind |-> kind, index |-> index, text |-> text]

NoLabel == Label("none", 0, << >>)

Upper      == 65 .. 90
Digit      == 48 .. 57
LabelChars == Upper \cup Digit \cup 97 .. 122 \cup {95}

HexDigit(n) == IF n < 10 THEN 48 + n ELSE 55 + n

(* What a label cannot hold is written as two digits. *)
LabelText(name) ==
    FlattenSeq([i \in DOMAIN name |-> IF name[i] \in LabelChars THEN <<name[i]>>
                                      ELSE <<HexDigit(name[i] \div 16), HexDigit(name[i] % 16)>>])

Decimal(n) ==
    LET width == CHOOSE w \in 1 .. 5 : n < 10 ^ w /\ (w > 1 => n >= 10 ^ (w - 1))
    IN  [i \in 1 .. width |-> 48 + ((n \div 10 ^ (width - i)) % 10)]

Numbered(text, n) == text \o <<95>> \o Decimal(n)

ObjectLabel(index, offset) == Label("obj", index, <<offset>>)

(* Faulty: two names may have the same label. *)
UnlistedLabels(objects) == {}

(* label_list_: the labels of the part's symbols so far. *)
TakenLabels(objects) == {objects[k].label.text : k \in {j \in DOMAIN objects : objects[j].label.kind = "sym"}}

(* The numbers that addLabel would accept; later ones are cut to those      *)
(* before.                                                                  *)
FreeNumbers(text, objects) ==
    LET taken == TakenLabels(objects)
    IN  {n \in 2 .. LastNumber : n <= Cardinality(taken) + 2 /\ Numbered(text, n) \notin taken}

(* makeAsmLabel.  The copy of a long label is not terminated.               *)
SymbolLabel(index, name, objects) ==
    LET text == LabelText(name)
        free == FreeNumbers(text, objects)
    IN  IF text \notin TakenLabels(objects) THEN Label("sym", index, text)
        ELSE IF Len(text) >= StemRoom THEN Label("undefined", index, text)
        ELSE IF free = {} THEN Label("endless", index, text)
        ELSE Label("sym", index, Numbered(text, CHOOSE n \in free : \A m \in free : n <= m))

(* What asmRef has of a label. *)
LabelInRef(label) ==
    IF label.kind = "sym" /\ Len(label.text) > RefRoom
    THEN [label EXCEPT !.text = SubSeq(@, 1, RefRoom)]
    ELSE label
=============================================================================
