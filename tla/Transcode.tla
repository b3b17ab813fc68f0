------------------------------ MODULE Transcode ------------------------------
(***************************************************************************)
(* transcode_from_ns (src/src/lang/transcode.cpp): from the bytes of a     *)
(* NewtonScript function to a vector of instructions.  A first pass finds  *)
(* where instructions start, a second one decodes them and turns the byte  *)
(* addresses that branches use into indices of the vector.  The bytes are  *)
(* whatever a Package holds.                                               *)
(***************************************************************************)
EXTENDS Bytecode, SequencesExt

CONSTANTS
    Streams,    \* the byte sequences, on 0 .. n-1
    Behind      \* what may be in memory behind the last byte

Between(n, low, high) == n \in Int /\ low <= n /\ n <= high

IsByte(n) == Between(n, 0, 255)

(* A binary object holds bytes.                                             *)
IsBinary(s) ==
    LET n == Cardinality(DOMAIN s)
    IN  /\ n \in Nat
        /\ s = [k \in 0 .. n - 1 |-> s[k]]
        /\ \A k \in 0 .. n - 1 : IsByte(s[k])

ASSUME StreamAssumption ==
    /\ \A s \in Streams : IsBinary(s)
    /\ \A byte \in Behind : IsByte(byte)

VARIABLES
    inst,       \* the bytes
    func,       \* the instructions, func[i + 1] is func[i] of C++
    pc_map,     \* the index of the instruction that starts at an address
    ip,         \* the address of the next byte (i in the first pass)
    pc,         \* the index of the instruction to decode
    phase       \* "map", "decode", "done", or "undefined": func[] was read out of range

vars == <<inst, func, pc_map, ip, pc, phase>>

Size == Cardinality(DOMAIN inst)

(* The command byte holds a and, when it is less than 7, b.                 *)
CommandOf(byte) == byte \div 8
ShortArg(byte)  == byte % 8
IsLong(byte)    == ShortArg(byte) = 7

(* Faulty: no cast. *)
SignedNot(b) == b

(* (int16_t)b *)
Signed(b) == IF b >= 32768 THEN b - 65536 ELSE b

Simple ==
    <<"Pop", "Dup", "Return", "PushSelf", "SetLexScope", "IterNext", "IterDone", "PopHandlers">>

FreqFunc ==
    <<"Add", "Subtract", "ARef", "SetARef", "Equals", "Not", "NotEquals", "Multiply",
      "Divide", "Div", "LessThan", "GreaterThan", "GreaterOrEqual", "LessOrEqual",
      "BitAnd", "BitOr", "BitNot", "NewIter", "Length", "Clone", "SetClass",
      "AddArraySlot", "Stringer", "HasPath", "ClassOf">>

(* The commands 3 .. 25; 24 stands for FreqFunc.                            *)
Commands ==
    <<"Push", "PushConst", "Call", "Invoke", "Send", "SendIfDefined", "Resend",
      "ResendIfDefined", "Branch", "BranchIfTrue", "BranchIfFalse", "FindVar", "GetVar",
      "MakeFrame", "MakeArray", "GetPath", "SetPath", "SetVar", "FindAndSetVar",
      "IncrVar", "BranchLoop", "Unknown", "NewHandler">>

(* Commands 3 .. 22 and 25 keep b; 11, 12, 13 and 23 take it as an address. *)
WithArg     == [a \in 3 .. 25 \ {11, 12, 13, 23, 24} |-> Commands[a - 2]]
WithAddress == [a \in {11, 12, 13, 23} |-> Commands[a - 2]]

(* Faulty: the address is used as an index. *)
PcOfAddress(address) == IF address < Len(func) THEN address ELSE 0

(* pc_map[address]: a place where no instruction starts reads 0.            *)
PcOf(address) == IF address \in DOMAIN pc_map THEN pc_map[address] ELSE 0

Unnamed == Instruction("Unknown", 0, 0)

Decoded(a, b) ==
    IF a = 0 /\ b < Len(Simple) THEN Instruction(Simple[b + 1], 0, 0)
    ELSE IF a = 24 /\ b < Len(FreqFunc) THEN Instruction(FreqFunc[b + 1], 0, 0)
    ELSE IF a \in DOMAIN WithArg THEN Instruction(WithArg[a], Signed(b), 0)
    ELSE IF a \in DOMAIN WithAddress THEN Instruction(WithAddress[a], PcOf(b), 0)
    ELSE Unnamed

(* The places of the addresses of n exception handlers: every second        *)
(* instruction before this one.                                             *)
HandlerPlaces(n) == {pc - 2 * i - 1 : i \in 0 .. n - 1}

HandlerTargets(n) ==
    LET good == {k \in HandlerPlaces(n) : func[k + 1].bc = "PushConst" /\ func[k + 1].arg % 4 = 0}
    IN  [k \in good |-> PcOf(func[k + 1].arg \div 4)]

(* Faulty: a loop back is no reference. *)
NewReferencesForward(x, b, i) ==
    IF x.bc \in Branches \ {"BranchLoop"} THEN IF x.arg = i THEN 1 ELSE 0
    ELSE IF x.bc = "NewHandler"
    THEN Cardinality({k \in DOMAIN HandlerTargets(b) : HandlerTargets(b)[k] = i})
    ELSE 0

(* How many references to instruction i the instruction x adds.             *)
NewReferences(x, b, i) ==
    IF x.bc \in Branches THEN IF x.arg = i THEN 1 ELSE 0
    ELSE IF x.bc = "NewHandler"
    THEN Cardinality({k \in DOMAIN HandlerTargets(b) : HandlerTargets(b)[k] = i})
    ELSE 0

Start ==
    /\ func = << >>
    /\ pc_map = << >>
    /\ ip = 0
    /\ pc = 0
    /\ phase = "map"

Init == inst \in Streams /\ Start

(* Faulty: one byte, or three, for the argument. *)
AfterLong(address) == address + IF IsLong(inst[address]) THEN 4 ELSE 1
AfterShort(address) == address + IF IsLong(inst[address]) THEN 2 ELSE 1

(* Where the instruction after the one at "address" starts.                 *)
After(address) == address + IF IsLong(inst[address]) THEN 3 ELSE 1

MapInstruction ==
    /\ phase = "map"
    /\ ip < Size
    /\ pc_map' = [k \in DOMAIN pc_map \cup {ip} |-> IF k = ip THEN Len(func) ELSE pc_map[k]]
    /\ func' = Append(func, Unnamed)
    /\ ip' = After(ip)
    /\ UNCHANGED <<inst, pc, phase>>

EndMap ==
    /\ phase = "map"
    /\ ip >= Size
    /\ func' = Append(func, Instruction("EndOfFile", 0, 0))
    /\ ip' = 0
    /\ phase' = "decode"
    /\ UNCHANGED <<inst, pc_map, pc>>

(* The byte at an address, or anything when it lies behind the object.      *)
BytesAt(address) == IF address < Size THEN {inst[address]} ELSE Behind

ArgsAt(address) ==
    IF IsLong(inst[address])
    THEN {hi * 256 + lo : hi \in BytesAt(address + 1), lo \in BytesAt(address + 2)}
    ELSE {ShortArg(inst[address])}

Decode ==
    /\ phase = "decode"
    /\ pc < Len(func) - 1
    /\ \E b \in ArgsAt(ip) :
          LET x == Decoded(CommandOf(inst[ip]), b)
          IN  IF x.bc = "NewHandler" /\ \E k \in HandlerPlaces(b) : k < 0
              THEN phase' = "undefined" /\ UNCHANGED <<func, ip, pc>>
              ELSE /\ func' = [k \in DOMAIN func |->
                                  Instruction(IF k = pc + 1 THEN x.bc ELSE func[k].bc,
                                              IF k = pc + 1 THEN x.arg ELSE func[k].arg,
                                              func[k].references + NewReferences(x, b, k - 1))]
                   /\ ip' = ip + IF IsLong(inst[ip]) THEN 3 ELSE 1
                   /\ pc' = pc + 1
                   /\ UNCHANGED phase
    /\ UNCHANGED <<inst, pc_map>>

Done ==
    /\ phase = "decode"
    /\ pc = Len(func) - 1
    /\ phase' = "done"
    /\ UNCHANGED <<inst, func, pc_map, ip, pc>>

Next == MapInstruction \/ EndMap \/ Decode \/ Done

Spec == Init /\ [][Next]_vars

-----------------------------------------------------------------------------
(* Every variable has its type.                                             *)
TypeOK ==
    /\ \A k \in DOMAIN func : /\ func[k].bc \in Bytecodes
                              /\ Between(func[k].arg, -32768, 65535)
                              /\ func[k].references \in Nat
    /\ \A k \in DOMAIN pc_map : k \in 0 .. Size - 1 /\ pc_map[k] \in Nat
    /\ ip \in 0 .. Size + 2
    /\ pc \in 0 .. Size
    /\ phase \in {"map", "decode", "done", "undefined"}

(* The second pass reads each instruction where the first pass found it,     *)
(* also when the last one is cut off: the two count bytes in the same way.   *)
PassesAgree ==
    phase = "decode" /\ pc < Len(func) - 1 => ip \in DOMAIN pc_map /\ pc_map[ip] = pc

(* The instructions there are, found independently of the two passes: one    *)
(* starts at the first byte, and one behind each.  The index of an           *)
(* instruction is the number of instructions before it.                      *)
FoundBelow[n \in 0 .. Size] ==
    IF n = 0 THEN {}
    ELSE LET found == FoundBelow[n - 1]
         IN  IF n = 1 \/ \E j \in found : n - 1 = j + IF IsLong(inst[j]) THEN 3 ELSE 1
             THEN found \cup {n - 1}
             ELSE found

Starts == FoundBelow[Size]

IndexOf(start) == Cardinality({k \in Starts : k < start})

(* A branch to the first byte of an instruction leads to that instruction,   *)
(* forward or back; any other address leads to instruction 0.                *)
BranchesLand ==
    phase = "done" =>
        \A start \in Starts : \A address \in ArgsAt(start) :
            LET x == func[IndexOf(start) + 1]
            IN  x.bc \in Branches /\ Cardinality(ArgsAt(start)) = 1 =>
                    x.arg = IF address \in Starts THEN IndexOf(address) ELSE 0

(* Every instruction a decoded branch leads to is marked as a label, so the  *)
(* decompiler looks there; marks and branches are equal in number, except    *)
(* for those of exception handlers.                                          *)
References(i) == Cardinality({k \in DOMAIN func : func[k].bc \in Branches /\ func[k].arg = i})

LabelsCounted ==
    \A i \in 0 .. Len(func) - 1 :
        /\ func[i + 1].references >= References(i)
        /\ (\A k \in DOMAIN func : func[k].bc # "NewHandler") => func[i + 1].references = References(i)
=============================================================================
