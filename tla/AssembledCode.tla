---------------------------- MODULE AssembledCode ----------------------------
(***************************************************************************)
(* transcode_from_ns on the bytes of compiled functions: it gives back the *)
(* code that was written as bytes, with the labels that its branches need. *)
(***************************************************************************)
EXTENDS Transcode

CONSTANTS
    Sources,    \* code: instructions from index 1 on, without references
    NoSource

-----------------------------------------------------------------------------
Command(bc) ==
    IF bc \in {WithArg[a] : a \in DOMAIN WithArg} THEN CHOOSE a \in DOMAIN WithArg : WithArg[a] = bc
    ELSE IF bc \in Branches THEN CHOOSE a \in DOMAIN WithAddress : WithAddress[a] = bc
    ELSE IF \E i \in DOMAIN Simple : Simple[i] = bc THEN 0
    ELSE 24

(* The number that stands for x: that of a simple or a frequent function,   *)
(* or an argument in 16 bits.                                               *)
Number(x) ==
    CASE Command(x.bc) = 0  -> (CHOOSE i \in DOMAIN Simple : Simple[i] = x.bc) - 1
      [] Command(x.bc) = 24 -> (CHOOSE i \in DOMAIN FreqFunc : FreqFunc[i] = x.bc) - 1
      [] OTHER              -> x.arg % 65536

(* Branches are written before their targets are known, so always long.     *)
Width(x) == IF x.bc \in Branches \/ Number(x) > 6 THEN 3 ELSE 1

(* Where each instruction starts, and where the last byte ends: EndOfFile   *)
(* is not written.                                                          *)
Addresses(code) ==
    LET address[n \in 0 .. Len(code) - 1] == IF n = 0 THEN 0 ELSE address[n - 1] + Width(code[n])
    IN  address

Bytes(address, x) ==
    LET number == IF x.bc \in Branches THEN address[x.arg] ELSE Number(x)
    IN  IF Width(x) = 3
        THEN <<Command(x.bc) * 8 + 7, number \div 256, number % 256>>
        ELSE <<Command(x.bc) * 8 + number>>

Assembled(code) ==
    LET address  == Addresses(code)
        last     == Len(code) - 1
        Owner(i) == CHOOSE n \in 1 .. last : address[n - 1] <= i /\ i < address[n]
    IN  [i \in 0 .. address[last] - 1 |->
            Bytes(address, code[Owner(i)])[i - address[Owner(i) - 1] + 1]]

(* What a compiler writes: branches lead to instructions, arguments and     *)
(* addresses have 16 bits, and EndOfFile comes last.                        *)
IsWritten(x, last) ==
    \/ x.bc \in Branches /\ x.arg \in 0 .. last - 1
    \/ /\ x.bc \in {WithArg[a] : a \in DOMAIN WithArg} \ {"NewHandler"}
       /\ Between(x.arg, -32768, 32767)
    \/ /\ \/ \E i \in DOMAIN Simple : Simple[i] = x.bc
          \/ \E i \in DOMAIN FreqFunc : FreqFunc[i] = x.bc
       /\ x.arg = 0

IsSource(code) ==
    LET last == Len(code) - 1
    IN  /\ code \in Seq([bc : Bytecodes, arg : Int, references : {0}])
        /\ code # << >> /\ code[last + 1] = Instruction("EndOfFile", 0, 0)
        /\ \A n \in 1 .. last : IsWritten(code[n], last)
        /\ Addresses(code)[last] <= 65536

ASSUME SourcesAssumption == \A code \in Sources : IsSource(code)

-----------------------------------------------------------------------------
VARIABLE source

AssembledOf == [code \in Sources |-> Assembled(code)]

(* The bytes of a source, or, for NoSource, any of Streams.                 *)
SourceInit ==
    \/ source \in Sources /\ inst = AssembledOf[source] /\ Start
    \/ source = NoSource /\ Init

SourceSpec == SourceInit /\ [][Next /\ UNCHANGED source]_<<vars, source>>

(* Transcoding is the inverse of assembling: every argument keeps its value  *)
(* and sign, every branch its target, and an instruction is a label for as   *)
(* many references as there are.                                            *)
RestoresTheCode ==
    source # NoSource /\ phase = "done" =>
        [i \in 0 .. Len(func) - 1 |-> func[i + 1]] = Linked(source)
=============================================================================
