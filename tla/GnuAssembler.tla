----------------------------- MODULE GnuAssembler -----------------------------
(***************************************************************************)
(* The part of the GNU assembler and of objcopy that the package writer    *)
(* relies on: the items of the .data section, one behind the other from    *)
(* address 0, and the bytes they become.  It is external to the program,   *)
(* which calls it in asmToObj and objToBin (src/src/dynec.cpp).            *)
(***************************************************************************)
EXTENDS PackageBytes, FiniteSets

Verbatim(bytes)             == [op |-> "verbatim", bytes |-> bytes]
Define(label)               == [op |-> "label", label |-> label]
Address(label, plus, width) == [op |-> "address", label |-> label, plus |-> plus, width |-> width]
Distance(from, to, width)   == [op |-> "distance", from |-> from, to |-> to, width |-> width]
Balign(align, fill)         == [op |-> "balign", align |-> align, fill |-> fill]
Asciz(text)                 == [op |-> "asciz", text |-> text]

(* "1:", which may be defined many times, and (1f-.)<<8 | rest.             *)
LocalLabel     == [op |-> "local"]
ToLocal(rest)  == [op |-> "to local", rest |-> rest]

IsHexDigit(c) == c \in (48 .. 57) \cup (65 .. 70) \cup (97 .. 102)

HexValue(c) == IF c < 65 THEN c - 48 ELSE (c % 32) + 9

Printable(c) == c \in 32 .. 126

(* A string in which what is not printable is written with \x, which takes  *)
(* all the hexadecimal digits that follow, and keeps the last two.          *)
AscizText(text) ==
    LET done[n \in 0 .. Len(text)] ==
          IF n = 0 THEN [text |-> << >>, hex |-> FALSE]
          ELSE LET before == done[n - 1]
               IN  IF Printable(text[n]) /\ before.hex /\ IsHexDigit(text[n])
                   THEN [before EXCEPT !.text[Len(before.text)] = (16 * @ + HexValue(text[n])) % Base]
                   ELSE [text |-> Append(before.text, text[n]), hex |-> ~Printable(text[n])]
    IN  done[Len(text)].text

ItemLength(item, at) ==
    CASE item.op = "verbatim" -> Len(item.bytes)
      [] item.op \in {"label", "local"} -> 0
      [] item.op \in {"address", "distance"} -> item.width
      [] item.op = "to local" -> 4
      [] item.op = "balign" -> AlignedTo(at, item.align) - at
      [] item.op = "asciz" -> Len(AscizText(item.text)) + 1

(* The address of each item, and of the end. *)
Addresses(asm) ==
    LET place[i \in 1 .. Len(asm) + 1] ==
          IF i = 1 THEN 0 ELSE place[i - 1] + ItemLength(asm[i - 1], place[i - 1])
    IN  place

Defined(asm) == {asm[i].label : i \in {j \in DOMAIN asm : asm[j].op = "label"}}

Used(asm) ==
    {asm[i].label : i \in {j \in DOMAIN asm : asm[j].op = "address"}}
        \cup UNION {{asm[i].from, asm[i].to} : i \in {j \in DOMAIN asm : asm[j].op = "distance"}}

Assembles(asm) ==
    /\ Used(asm) \subseteq Defined(asm)
    /\ Cardinality(Defined(asm)) = Cardinality({i \in DOMAIN asm : asm[i].op = "label"})
    /\ \A i \in DOMAIN asm : asm[i].op = "to local" => \E j \in i .. Len(asm) : asm[j] = LocalLabel

Digits(number, width) == IF width = 2 THEN Short(number) ELSE Word(number)

Assembled(asm) ==
    LET places   == Addresses(asm)
        At(label) == places[CHOOSE i \in DOMAIN asm : asm[i] = Define(label)]
        NextLocal(i) ==
            places[CHOOSE j \in i .. Len(asm) : /\ asm[j] = LocalLabel
                                                /\ \A k \in i .. j - 1 : asm[k] # LocalLabel]
        Encoded(i) ==
            LET item == asm[i]
            IN  CASE item.op = "verbatim" -> item.bytes
                  [] item.op \in {"label", "local"} -> << >>
                  [] item.op = "address"  -> Digits(At(item.label) + item.plus, item.width)
                  [] item.op = "distance" -> Digits(At(item.to) - At(item.from), item.width)
                  [] item.op = "to local" -> Word((NextLocal(i) - places[i]) * Base + item.rest)
                  [] item.op = "balign"   -> [k \in 1 .. ItemLength(item, places[i]) |-> item.fill]
                  [] item.op = "asciz"    -> Append(AscizText(item.text), 0)
    IN  FlattenSeq([i \in DOMAIN asm |-> Encoded(i)])
=============================================================================
