----------------------------- MODULE MCRepacking -----------------------------
EXTENDS Repacking

A == 97
X == 120

Array(class, refs)  == [type |-> 1, class |-> class, refs |-> refs, data |-> << >>]
Frame(map, refs)    == [type |-> 3, class |-> map, refs |-> refs, data |-> << >>]
Bin(class, data)    == [type |-> 0, class |-> class, refs |-> << >>, data |-> data]
Symbol(name)        == [type |-> 0, class |-> SymbolClass, refs |-> << >>, data |-> name]

MCInstructionsNames == {<<105>>}
MCRealNames         == {<<114>>}

NOSPart(align, objects) == [nos |-> TRUE, align |-> align, info |-> << >>, data |-> << >>, objects |-> objects]
RawPart(data)           == [nos |-> FALSE, align |-> 4, info |-> <<A>>, data |-> data, objects |-> << >>]

(* All kinds of objects, a cycle, an invalid reference and immediates.       *)
Mixed(data) ==
    <<Array(-6, <<-2>>), Frame(-3, <<-4, -1>>), Array(4, <<2, -5, -6>>), Bin(-5, data),
      Symbol(<<A>>), Symbol(<<X, 45>>), Array(26, <<9, 12, 7, 106>>)>>

(* Names that become the same label, or are numbered like others.            *)
Names == {<<X>>, <<X, 95, 50>>, <<45>>, <<50, 68>>}

Named(names) == <<Array(2, [i \in DOMAIN names |-> -(i + 1)])>> \o [i \in DOMAIN names |-> Symbol(names[i])]

Plain(parts) ==
    [copyright |-> << >>, name |-> <<A>>, info |-> << >>, relocation |-> << >>, parts |-> parts,
     extra |-> << >>, fault |-> "none"]

Datas == {<< >>, <<1>>, <<1, 2, 3>>}

MixedParts == {NOSPart(align, Mixed(data)) : align \in {4, 8}, data \in Datas}

Small == NOSPart(4, <<Array(2, <<-2>>), Bin(2, <<5>>)>>)
Other == NOSPart(4, <<Array(2, <<-2>>), Bin(2, <<6>>)>>)

OnePart == {Plain(<<part>>) : part \in MixedParts}

TwoParts ==
    {Plain(<<a, b>>) : a \in {Small, Other, RawPart(<<1, 2, 3, 4>>)}, b \in MixedParts \cup {Small, Other}}
        \cup {Plain(<<Small, RawPart(data)>>) : data \in {<<1, 2, 3>>, <<1, 2, 3, 4>>}}

Dressed ==
    {[Plain(<<part>>) EXCEPT !.copyright = text, !.info = info, !.relocation = sets, !.extra = extra] :
        part \in {Small, NOSPart(8, Mixed(<<1>>)), RawPart(<<1, 2, 3, 4>>)},
        text \in {<< >>, <<A, X>>}, info \in {<< >>, <<A>>},
        sets \in {<< >>, <<<<1, 2>>, <<3>>>>}, extra \in {<< >>, <<9, 8>>}}

Labelled == {Plain(<<NOSPart(4, Named(names))>>) : names \in [1 .. 3 -> Names]}

Odd ==
    {Plain(<<NOSPart(4, Named(names))>>) :
        names \in {<<<<X>>, <<X>>, <<X>>, <<X>>>>, <<<<1, A>>>>, <<<<A, 1, X>>>>,
                   [i \in 1 .. 2 |-> <<X, X, X, X, X, X>>],
                   <<<<X, X, X, X, X, A>>, <<X, X, X, X, X>>>>, <<<<X, X, X, X, X, A>>, <<A>>>>}}
     \cup {Plain(<<NOSPart(4, <<Array(2, <<-2>>), Bin(-3, code), Symbol(name)>>)>>) :
              name \in MCInstructionsNames \cup MCRealNames, code \in {<<1, 15, 0, 1>>, <<15, 7>>}}

Broken == {[Plain(<<part>>) EXCEPT !.fault = fault] : part \in {Small, NOSPart(8, Mixed(<<1>>)), RawPart(<<1, 2, 3, 4>>)},
                                                      fault \in {"signature", "truncated", "short", "negative"}}

(* Two objects; and the file where another alignment puts the second one      *)
(* four bytes further, where its reference does not lead.                     *)
Pair == Plain(<<NOSPart(4, <<Array(2, << >>), Array(2, <<-2>>)>>)>>)

Realigned ==
    LET bytes == FileOf(Pair)
        start == PartStart(Pair, 1)
    IN  [SubSeq(bytes, 1, start + 12) EXCEPT ![start + 8] = 0] \o [i \in 1 .. 4 |-> Filler]
           \o SubSeq(bytes, start + 13, Len(bytes))

MCPackages ==
    {Plain(<< >>), Pair} \cup OnePart \cup TwoParts \cup Dressed \cup Labelled \cup Odd \cup Broken

(* Files with a byte that is another one: by one, or by its highest bit.      *)
Altered(bytes) ==
    {[bytes EXCEPT ![p] = (@ + change) % Base] : p \in DOMAIN bytes, change \in {1, Base \div 2}}

(* The size of the first part is the largest int. *)
LargestPart(bytes) ==
    [p \in DOMAIN bytes |-> CASE p = HeaderSize + 5 -> Base \div 2 - 1
                              [] p \in HeaderSize + 6 .. HeaderSize + 8 -> Base - 1
                              [] OTHER -> bytes[p]]

Neighbours ==
    {Plain(<<Small>>), Plain(<<Small, Other>>), Plain(<<NOSPart(4, Mixed(<<1>>))>>),
     [Plain(<<Small>>) EXCEPT !.info = <<A>>, !.relocation = <<<<1, 2>>, <<3>>>>]}

MCContenders(d) ==
    {FileOf(other) :
        other \in {Plain(<< >>), [Plain(<< >>) EXCEPT !.copyright = <<A>>]}
                    \cup {Plain(<<a, b>>) : a, b \in {Small, Other}}
                    \cup {Plain(<<part>>) : part \in {Small, Other}}
                    \cup {[Plain(<<Small>>) EXCEPT !.fault = "signature"]}}
      \cup (IF d \in Neighbours THEN Altered(FileOf(d)) \cup {LargestPart(FileOf(d))} ELSE {})
      \cup (IF d = Pair THEN {Realigned, FileOf(Pair)} ELSE {})
=============================================================================
