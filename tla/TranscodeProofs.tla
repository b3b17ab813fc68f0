--------------------------- MODULE TranscodeProofs ---------------------------
(***************************************************************************)
(* For every sequence of bytes: the two passes of transcode_from_ns agree  *)
(* where instructions start, the labels count the branches that lead to    *)
(* them, and what it returns is a program as the decompiler expects it.    *)
(***************************************************************************)
EXTENDS AssembledCode, FiniteSetTheorems, SequenceTheorems, WellFoundedInduction, TLAPS

Instructions == [bc : Bytecodes, arg : Int, references : Nat]

IsArg(n) == Between(n, -32768, 65535)

(* What After says of an address the first pass has gone over: the next     *)
(* instruction has the next index, and the last is followed by "end".       *)
Mapped(k, end, count) ==
    \/ After(k) \in DOMAIN pc_map /\ pc_map[After(k)] = pc_map[k] + 1
    \/ After(k) >= end /\ pc_map[k] + 1 = count

MapInv ==
    phase = "map" =>
        /\ pc = 0
        /\ Len(func) <= ip /\ Len(func) <= Size
        /\ ip \in 0 .. Size + 2
        /\ DOMAIN pc_map \subseteq 0 .. ip - 1
        /\ \A k \in DOMAIN pc_map : Mapped(k, ip, Len(func)) /\ After(k) <= ip
        /\ IF Len(func) = 0 THEN ip = 0 ELSE 0 \in DOMAIN pc_map /\ pc_map[0] = 0
        /\ \A i \in 1 .. Len(func) : func[i] = Unnamed

DecodeInv ==
    phase # "map" =>
        /\ Len(func) > 0 /\ Len(func) <= Size + 1
        /\ pc \in 0 .. Len(func) - 1
        /\ ip \in 0 .. Size + 2
        /\ \A k \in DOMAIN pc_map : Mapped(k, Size, Len(func) - 1)
        /\ \A i \in 1 .. Len(func) : func[i].bc = "EndOfFile" <=> i = Len(func)
        /\ \A i \in pc + 1 .. Len(func) - 1 : func[i].bc = "Unknown"

IInv ==
    /\ IsBinary(inst)
    /\ phase \in {"map", "decode", "done", "undefined"}
    /\ func \in Seq(Instructions)
    /\ \A i \in 1 .. Len(func) : IsArg(func[i].arg)
    /\ DOMAIN pc_map \subseteq 0 .. Size - 1
    /\ \A k \in DOMAIN pc_map : pc_map[k] \in 0 .. k
    /\ MapInv
    /\ DecodeInv
    /\ PassesAgree
    /\ LabelsCounted

-----------------------------------------------------------------------------
(* The bytes are on 0 .. Size - 1.                                           *)
LEMMA Bytewise ==
    ASSUME IsBinary(inst)
    PROVE  /\ Size \in Nat
           /\ DOMAIN inst = 0 .. Size - 1
           /\ \A k \in 0 .. Size - 1 : IsByte(inst[k])
           /\ \A k \in 0 .. Size - 1 : After(k) \in k + 1 .. k + 3
<1>1. /\ Size \in Nat
      /\ DOMAIN inst = 0 .. Size - 1
      /\ \A k \in 0 .. Size - 1 : IsByte(inst[k])
  BY DEF IsBinary, Size
<1>2. QED
  BY <1>1 DEF After

(* The names in the tables are names of instructions.                        *)
Names == Bytecodes \ {"EndOfFile"}

(* They are in each of the three tables, which are as long as in the code.   *)
LEMMA SimpleNames == Len(Simple) = 8 /\ \A n \in 1 .. 8 : Simple[n] \in Names
<1>1. /\ "Pop" \in Names /\ "Dup" \in Names /\ "Return" \in Names /\ "PushSelf" \in Names
      /\ "SetLexScope" \in Names /\ "IterNext" \in Names /\ "IterDone" \in Names
      /\ "PopHandlers" \in Names
  BY DEF Names, Bytecodes, Leaves, Unsupported
<1>2. Simple \in Seq(Names) /\ Len(Simple) = 8
  BY <1>1 DEF Simple
<1>3. QED
  BY <1>2, ElementOfSeq, Zenon

(* So are those of the frequent functions,                                   *)
LEMMA FreqFuncNames == Len(FreqFunc) = 25 /\ \A n \in 1 .. 25 : FreqFunc[n] \in Names
<1>1. /\ "Add" \in Names /\ "Subtract" \in Names /\ "ARef" \in Names /\ "SetARef" \in Names
      /\ "Equals" \in Names /\ "Not" \in Names /\ "NotEquals" \in Names /\ "Multiply" \in Names
      /\ "Divide" \in Names /\ "Div" \in Names /\ "LessThan" \in Names /\ "GreaterThan" \in Names
      /\ "GreaterOrEqual" \in Names /\ "LessOrEqual" \in Names /\ "BitAnd" \in Names /\ "BitOr" \in Names
      /\ "BitNot" \in Names /\ "NewIter" \in Names /\ "Length" \in Names /\ "Clone" \in Names
      /\ "SetClass" \in Names /\ "AddArraySlot" \in Names /\ "Stringer" \in Names /\ "HasPath" \in Names
      /\ "ClassOf" \in Names
  BY DEF Names, Bytecodes, Infix, Precedence, Unsupported
<1>2. FreqFunc \in Seq(Names) /\ Len(FreqFunc) = 25
  BY <1>1 DEF FreqFunc
<1>3. QED
  BY <1>2, ElementOfSeq, Zenon

(* and those of the commands with an argument.                               *)
LEMMA CommandsNames == Len(Commands) = 23 /\ \A n \in 1 .. 23 : Commands[n] \in Names
<1>1. /\ "Push" \in Names /\ "PushConst" \in Names /\ "Call" \in Names /\ "Invoke" \in Names
      /\ "Send" \in Names /\ "SendIfDefined" \in Names /\ "Resend" \in Names /\ "ResendIfDefined" \in Names
      /\ "Branch" \in Names /\ "BranchIfTrue" \in Names /\ "BranchIfFalse" \in Names /\ "FindVar" \in Names
      /\ "GetVar" \in Names /\ "MakeFrame" \in Names /\ "MakeArray" \in Names /\ "GetPath" \in Names
      /\ "SetPath" \in Names /\ "SetVar" \in Names /\ "FindAndSetVar" \in Names /\ "IncrVar" \in Names
      /\ "BranchLoop" \in Names /\ "Unknown" \in Names /\ "NewHandler" \in Names
  BY DEF Names, Bytecodes, Leaves, Calls, Sends, Resends, Branches, Unsupported
<1>2. Commands \in Seq(Names) /\ Len(Commands) = 23
  BY <1>1 DEF Commands
<1>3. QED
  BY <1>2, ElementOfSeq, Zenon

(* An instruction has one of the names and an argument of 16 bits, signed or *)
(* not.                                                                      *)
LEMMA DecodedInstruction ==
    ASSUME IInv, NEW byte, IsByte(byte), NEW b, Between(b, 0, 65535),
           NEW x, x = Decoded(CommandOf(byte), b)
    PROVE  x.bc \in Names /\ IsArg(x.arg)
<1>1. PICK a \in Nat : x = Decoded(a, b)
  <2>1. CommandOf(byte) \in Nat
    BY DEF CommandOf, IsByte, Between
  <2>2. QED
    BY <2>1
<1>2. IsArg(PcOf(b))
  <2>1. CASE b \in DOMAIN pc_map
    <3>1. pc_map[b] \in 0 .. b
      BY <2>1 DEF IInv
    <3>2. QED
      BY <2>1, <3>1 DEF PcOf, IsArg, Between
  <2>2. CASE b \notin DOMAIN pc_map
    BY <2>2 DEF PcOf, IsArg, Between
  <2>3. QED
    BY <2>1, <2>2
<1>3. IsArg(Signed(b)) /\ IsArg(0) /\ b \in Nat
  BY DEF Signed, IsArg, Between
<1>7. "Unknown" \in Names
  BY DEF Names, Bytecodes, Unsupported
<1>8. \/ b < Len(Simple) /\ x = Instruction(Simple[b + 1], 0, 0)
      \/ b < Len(FreqFunc) /\ x = Instruction(FreqFunc[b + 1], 0, 0)
      \/ a \in DOMAIN WithArg /\ x = Instruction(WithArg[a], Signed(b), 0)
      \/ a \in DOMAIN WithAddress /\ x = Instruction(WithAddress[a], PcOf(b), 0)
      \/ x = Unnamed
  BY <1>1, SMT DEF Decoded
<1>9. CASE b < Len(Simple) /\ x = Instruction(Simple[b + 1], 0, 0)
  <2>1. Simple[b + 1] \in Names
    BY <1>3, <1>9, SimpleNames
  <2>2. QED
    BY <1>3, <1>9, <2>1 DEF Instruction
<1>10. CASE b < Len(FreqFunc) /\ x = Instruction(FreqFunc[b + 1], 0, 0)
  <2>1. FreqFunc[b + 1] \in Names
    BY <1>3, <1>10, FreqFuncNames
  <2>2. QED
    BY <1>3, <1>10, <2>1 DEF Instruction
<1>11. CASE a \in DOMAIN WithArg /\ x = Instruction(WithArg[a], Signed(b), 0)
  <2>1. WithArg[a] \in Names
    BY <1>11, CommandsNames DEF WithArg
  <2>2. QED
    BY <1>3, <1>11, <2>1 DEF Instruction
<1>12. CASE a \in DOMAIN WithAddress /\ x = Instruction(WithAddress[a], PcOf(b), 0)
  <2>1. WithAddress[a] \in Names
    BY <1>12, CommandsNames DEF WithAddress
  <2>2. QED
    BY <1>2, <1>12, <2>1 DEF Instruction
<1>13. CASE x = Unnamed
  BY <1>3, <1>7, <1>13 DEF Unnamed, Instruction
<1>14. QED
  BY <1>8, <1>9, <1>10, <1>11, <1>12, <1>13

-----------------------------------------------------------------------------
(* The first pass: every entry of pc_map is followed by the next one.        *)
LEMMA MapStep ==
    ASSUME IInv, MapInstruction
    PROVE  IInv'
<1>1. /\ Size \in Nat /\ ip \in 0 .. Size - 1 /\ After(ip) \in ip + 1 .. ip + 3
      /\ \A k \in 0 .. Size - 1 : After(k) \in k + 1 .. k + 3
  BY Bytewise DEF IInv, MapInv, MapInstruction
<1>2. /\ inst' = inst /\ Size' = Size /\ \A k \in Nat : After(k)' = After(k)
      /\ phase = "map" /\ phase' = "map" /\ pc' = pc /\ ip' = After(ip)
  BY DEF MapInstruction, Size, After
<1>3. /\ pc = 0 /\ Len(func) \in Nat /\ Len(func) <= ip
      /\ DOMAIN pc_map \subseteq 0 .. ip - 1
      /\ \A k \in DOMAIN pc_map :
            Mapped(k, ip, Len(func)) /\ After(k) <= ip /\ pc_map[k] \in 0 .. k
      /\ IF Len(func) = 0 THEN ip = 0 ELSE 0 \in DOMAIN pc_map /\ pc_map[0] = 0
      /\ \A i \in 1 .. Len(func) : func[i] = Unnamed
  BY <1>2, LenProperties DEF IInv, MapInv
<1>4. /\ DOMAIN pc_map' = DOMAIN pc_map \cup {ip}
      /\ pc_map'[ip] = Len(func)
      /\ \A k \in DOMAIN pc_map : k # ip /\ pc_map'[k] = pc_map[k]
  BY <1>3 DEF MapInstruction
<1>5. Unnamed \in Instructions
  BY DEF Unnamed, Instruction, Instructions, Bytecodes, Unsupported
<1>6. /\ func' \in Seq(Instructions) /\ Len(func') = Len(func) + 1
      /\ \A i \in 1 .. Len(func') : func'[i] = Unnamed
  <2>1. func \in Seq(Instructions) /\ func' = Append(func, Unnamed)
    BY DEF IInv, MapInstruction
  <2>2. QED
    BY <1>3, <1>5, <2>1
<1>7. ASSUME NEW k \in DOMAIN pc_map'
      PROVE  Mapped(k, ip, Len(func))' /\ After(k)' <= ip'
  <2>1. CASE k = ip
    <3>1. After(ip) \notin DOMAIN pc_map'
      <4>1. After(ip) \in Nat /\ After(ip) > ip /\ ip \in Nat
        BY <1>1
      <4>2. After(ip) \notin DOMAIN pc_map
        BY <1>3, <4>1
      <4>3. QED
        BY <1>4, <4>1, <4>2
    <3>2. QED
      BY <1>1, <1>2, <1>3, <1>4, <1>6, <2>1, <3>1 DEF Mapped
  <2>2. CASE k # ip
    <3>1. /\ k \in DOMAIN pc_map /\ k \in Nat /\ pc_map'[k] = pc_map[k]
          /\ Mapped(k, ip, Len(func)) /\ After(k) <= ip
          /\ After(k) \in Nat
      <4>1. k \in DOMAIN pc_map
        BY <1>4, <2>2
      <4>2. pc_map'[k] = pc_map[k] /\ Mapped(k, ip, Len(func)) /\ After(k) <= ip
        BY <1>3, <1>4, <4>1
      <4>3. k \in 0 .. ip - 1 /\ ip - 1 <= Size - 1 /\ ip \in Nat
        BY <1>1, <1>3, <4>1
      <4>4. k \in Nat /\ k \in 0 .. Size - 1
        BY <1>1, <4>3
      <4>5. After(k) \in Nat
        BY <1>1, <4>4
      <4>6. QED
        BY <4>1, <4>2, <4>4, <4>5
    <3>2. CASE After(k) \in DOMAIN pc_map
      <4>1. After(k) < ip /\ ip \in Nat
        BY <1>1, <1>3, <3>2
      <4>2. pc_map[After(k)] = pc_map[k] + 1
        BY <3>1, <4>1 DEF Mapped
      <4>3. After(k) \in DOMAIN pc_map' /\ pc_map'[After(k)] = pc_map'[k] + 1
        BY <1>4, <3>1, <3>2, <4>2
      <4>4. QED
        BY <1>1, <1>2, <3>1, <4>1, <4>3 DEF Mapped
    <3>3. CASE After(k) \notin DOMAIN pc_map
      <4>1. After(k) = ip /\ pc_map[k] + 1 = Len(func)
        BY <1>1, <3>1, <3>3 DEF Mapped
      <4>2. QED
        BY <1>1, <1>2, <1>3, <1>4, <1>6, <3>1, <4>1 DEF Mapped
    <3>4. QED
      BY <3>2, <3>3
  <2>3. QED
    BY <2>1, <2>2
<1>8. MapInv'
  <2>1. Len(func') <= ip' /\ Len(func') <= Size /\ ip' \in 0 .. Size + 2
    BY <1>1, <1>2, <1>3, <1>6
  <2>2. ASSUME NEW k \in DOMAIN pc_map'
        PROVE  k \in 0 .. ip' - 1
    <3>1. ip \in Nat /\ ip' \in Nat /\ ip + 1 <= ip'
      BY <1>1, <1>2
    <3>2. k \in 0 .. ip - 1 \/ k = ip
      BY <1>3, <1>4
    <3>3. QED
      BY <3>1, <3>2
  <2>3. 0 \in DOMAIN pc_map' /\ pc_map'[0] = 0 /\ Len(func') # 0
    BY <1>1, <1>3, <1>4, <1>6
  <2>4. QED
    BY <1>2, <1>3, <1>6, <1>7, <2>1, <2>2, <2>3 DEF MapInv
<1>9. ASSUME NEW k \in DOMAIN pc_map'
      PROVE  k \in 0 .. Size - 1 /\ pc_map'[k] \in 0 .. k
  <2>1. CASE k = ip
    BY <1>1, <1>3, <1>4, <2>1
  <2>2. CASE k # ip
    <3>1. k \in 0 .. ip - 1 /\ pc_map'[k] = pc_map[k] /\ pc_map[k] \in 0 .. k
      BY <1>3, <1>4, <2>2
    <3>2. QED
      BY <1>1, <3>1
  <2>3. QED
    BY <2>1, <2>2
<1>10. LabelsCounted'
  <2>1. \A i \in 1 .. Len(func') :
           func'[i].references = 0 /\ func'[i].bc \notin Branches
    BY <1>6 DEF Unnamed, Instruction, Branches
  <2>2. DOMAIN func' = 1 .. Len(func')
    BY <1>6, LenProperties
  <2>3. \A i : References(i)' = Cardinality({})
    <3>1. \A i : {k \in DOMAIN func' : func'[k].bc \in Branches /\ func'[k].arg = i} = {}
      BY <2>1, <2>2
    <3>2. QED
      BY <3>1 DEF References
  <2>4. QED
    BY <1>3, <1>6, <2>1, <2>3, FS_EmptySet DEF LabelsCounted
<1>11. \A i \in 1 .. Len(func') : IsArg(func'[i].arg)
  BY <1>6 DEF Unnamed, Instruction, IsArg, Between
<1>12. IsBinary(inst)'
  BY <1>2 DEF IInv
<1>13. QED
  BY <1>2, <1>6, <1>8, <1>9, <1>10, <1>11, <1>12 DEF IInv, DecodeInv, PassesAgree

(* The first pass ends where the bytes do.                                   *)
LEMMA EndMapStep ==
    ASSUME IInv, EndMap
    PROVE  IInv'
<1> DEFINE eof == Instruction("EndOfFile", 0, 0)
<1>1. Size \in Nat
  BY Bytewise DEF IInv
<1>2. /\ inst' = inst /\ Size' = Size /\ \A k : After(k)' = After(k)
      /\ phase = "map" /\ phase' = "decode" /\ pc' = pc /\ ip' = 0 /\ pc_map' = pc_map
      /\ ip >= Size
  BY DEF EndMap, Size, After
<1>3. /\ pc = 0 /\ Len(func) \in Nat /\ Len(func) <= Size /\ ip \in Nat
      /\ \A k \in DOMAIN pc_map : Mapped(k, ip, Len(func)) /\ k \in 0 .. Size - 1
      /\ Len(func) # 0 => 0 \in DOMAIN pc_map /\ pc_map[0] = 0
      /\ \A i \in 1 .. Len(func) : func[i] = Unnamed
  BY <1>1, <1>2, LenProperties DEF IInv, MapInv
<1>4. /\ func' \in Seq(Instructions) /\ Len(func') = Len(func) + 1
      /\ \A i \in 1 .. Len(func) : func'[i] = Unnamed
      /\ func'[Len(func) + 1] = eof
  <2>1. eof \in Instructions
    BY DEF Instruction, Instructions, Bytecodes
  <2> HIDE DEF eof
  <2>2. func \in Seq(Instructions) /\ func' = Append(func, eof)
    BY DEF IInv, EndMap, eof
  <2>3. QED
    BY <1>3, <2>1, <2>2
<1>5. \A i \in 1 .. Len(func') :
         /\ func'[i].references = 0 /\ func'[i].bc \notin Branches /\ IsArg(func'[i].arg)
         /\ func'[i].bc = IF i = Len(func') THEN "EndOfFile" ELSE "Unknown"
  <2>1. \A i \in 1 .. Len(func') : i \in 1 .. Len(func) \/ i = Len(func')
    BY <1>3, <1>4
  <2>2. QED
    BY <1>3, <1>4, <2>1 DEF Unnamed, Instruction, Branches, IsArg, Between
<1>6. \A k \in DOMAIN pc_map' : Mapped(k, Size, Len(func) - 1)'
  <2>1. SUFFICES ASSUME NEW k \in DOMAIN pc_map
                 PROVE  Mapped(k, Size, Len(func) - 1)'
    BY <1>2
  <2>2. Mapped(k, ip, Len(func)) /\ Len(func') - 1 = Len(func)
    BY <1>3, <1>4, <2>1
  <2>3. After(k) >= ip => After(k) >= Size
    <3>1. After(k) \in Int
      BY <1>3, <2>1, Bytewise DEF IInv
    <3>2. QED
      BY <1>1, <1>2, <1>3, <3>1
  <2>4. QED
    BY <1>2, <2>2, <2>3 DEF Mapped
<1>7. DecodeInv'
  BY <1>1, <1>2, <1>3, <1>4, <1>5, <1>6 DEF DecodeInv
<1>8. PassesAgree'
  BY <1>2, <1>3, <1>4 DEF PassesAgree
<1>9. LabelsCounted'
  <2>1. \A i : {k \in DOMAIN func' : func'[k].bc \in Branches /\ func'[k].arg = i} = {}
    BY <1>4, <1>5, LenProperties
  <2>2. \A i : References(i)' = Cardinality({})
    BY <2>1 DEF References
  <2>3. QED
    BY <1>3, <1>4, <1>5, <2>2, FS_EmptySet DEF LabelsCounted
<1>10. IsBinary(inst)'
  BY <1>2 DEF IInv
<1>11. QED
  BY <1>2, <1>4, <1>5, <1>7, <1>8, <1>9, <1>10 DEF IInv, MapInv

-----------------------------------------------------------------------------
(* A branch adds one reference to its target, other instructions none, and   *)
(* exception handlers as many as they like.                                  *)
LEMMA AddedReferences ==
    ASSUME NEW x, NEW b, b \in Nat, NEW i, pc \in Nat,
           x.bc = "NewHandler" => \A k \in HandlerPlaces(b) : k >= 0
    PROVE  /\ NewReferences(x, b, i) \in Nat
           /\ x.bc \in Branches => NewReferences(x, b, i) = IF x.arg = i THEN 1 ELSE 0
           /\ x.bc \notin Branches /\ x.bc # "NewHandler" => NewReferences(x, b, i) = 0
<1>1. CASE x.bc # "NewHandler" \/ x.bc \in Branches
  BY <1>1 DEF NewReferences
<1>2. CASE x.bc = "NewHandler" /\ x.bc \notin Branches
  <2> DEFINE H == {k \in DOMAIN HandlerTargets(b) : HandlerTargets(b)[k] = i}
  <2>1. \A k \in HandlerPlaces(b) : k \in 0 .. pc
    <3>1. TAKE k \in HandlerPlaces(b)
    <3>2. PICK j \in 0 .. b - 1 : k = pc - 2 * j - 1
      BY DEF HandlerPlaces
    <3>3. k \in Int /\ k <= pc /\ k >= 0
      BY <1>2, <3>2
    <3>4. QED
      BY <3>3
  <2>2. H \subseteq 0 .. pc
    BY <2>1 DEF HandlerTargets
  <2> HIDE DEF H
  <2>3. IsFiniteSet(H)
    <3>1. IsFiniteSet(0 .. pc) /\ H \in SUBSET (0 .. pc)
      BY <2>2, FS_Interval
    <3>2. QED
      BY <3>1, FS_Subset, Zenon
  <2>4. Cardinality(H) \in Nat
    BY <2>3, FS_CardinalityType
  <2>5. NewReferences(x, b, i) = Cardinality(H)
    BY <1>2 DEF NewReferences, H
  <2>6. QED
    BY <1>2, <2>4, <2>5
<1>3. QED
  BY <1>1, <1>2

(* The second pass: the bytes of an argument are bytes, whichever they are.  *)
LEMMA ArgsFit ==
    ASSUME IInv, NEW at \in 0 .. Size - 1, NEW b \in ArgsAt(at)
    PROVE  Between(b, 0, 65535) /\ b \in Nat
<1>1. Size \in Nat /\ \A k \in 0 .. Size - 1 : IsByte(inst[k])
  BY Bytewise DEF IInv
<1>2. \A k \in Nat : \A byte \in BytesAt(k) : IsByte(byte)
  BY <1>1, StreamAssumption DEF BytesAt
<1>3. CASE IsLong(inst[at])
  <2>1. PICK hi \in BytesAt(at + 1), lo \in BytesAt(at + 2) : b = hi * 256 + lo
    BY <1>3 DEF ArgsAt
  <2>2. IsByte(hi) /\ IsByte(lo)
    BY <1>2, <2>1
  <2>3. QED
    BY <2>1, <2>2 DEF IsByte, Between
<1>4. CASE ~IsLong(inst[at])
  <2>1. b = inst[at] % 8 /\ inst[at] \in Int
    BY <1>1, <1>4 DEF ArgsAt, ShortArg, IsByte, Between
  <2>2. QED
    BY <2>1 DEF Between
<1>5. QED
  BY <1>3, <1>4

(* What Decode does to the vector: instruction pc is named, the others keep  *)
(* their names, and each gets the references the new one adds.               *)
Filled(x, b) ==
    [k \in DOMAIN func |->
        Instruction(IF k = pc + 1 THEN x.bc ELSE func[k].bc,
                    IF k = pc + 1 THEN x.arg ELSE func[k].arg,
                    func[k].references + NewReferences(x, b, k - 1))]

(* The vector after an instruction was filled in.                            *)
LEMMA FilledTypes ==
    ASSUME IInv, pc \in Nat, NEW x, x.bc \in Names, IsArg(x.arg), NEW b \in Nat,
           x.bc = "NewHandler" => \A k \in HandlerPlaces(b) : k >= 0,
           NEW f, f = Filled(x, b)
    PROVE  /\ f \in Seq(Instructions)
           /\ Len(f) = Len(func)
           /\ \A k \in 1 .. Len(func) :
                 /\ f[k].bc = IF k = pc + 1 THEN x.bc ELSE func[k].bc
                 /\ f[k].arg = IF k = pc + 1 THEN x.arg ELSE func[k].arg
                 /\ f[k].references = func[k].references + NewReferences(x, b, k - 1)
                 /\ IsArg(f[k].arg)
<1>1. /\ func \in Seq(Instructions) /\ Len(func) \in Nat /\ DOMAIN func = 1 .. Len(func)
      /\ \A k \in 1 .. Len(func) : func[k] \in Instructions /\ IsArg(func[k].arg)
  BY LenProperties, ElementOfSeq DEF IInv
<1>2. \A k \in 1 .. Len(func) :
         /\ f[k].bc = IF k = pc + 1 THEN x.bc ELSE func[k].bc
         /\ f[k].arg = IF k = pc + 1 THEN x.arg ELSE func[k].arg
         /\ f[k].references = func[k].references + NewReferences(x, b, k - 1)
         /\ f[k] = Instruction(f[k].bc, f[k].arg, f[k].references)
  BY <1>1 DEF Filled, Instruction
<1>3. \A k \in 1 .. Len(func) : NewReferences(x, b, k - 1) \in Nat
  BY AddedReferences
<1>4. ASSUME NEW k \in 1 .. Len(func)
      PROVE  f[k] \in Instructions /\ IsArg(f[k].arg)
  <2>1. /\ func[k].bc \in Bytecodes /\ func[k].arg \in Int /\ func[k].references \in Nat
        /\ IsArg(func[k].arg)
    BY <1>1 DEF Instructions
  <2>2. f[k].bc \in Bytecodes
    BY <1>2, <2>1 DEF Names
  <2>3. IsArg(f[k].arg)
    BY <1>2, <2>1
  <2>4. f[k].references \in Nat
    <3>1. NewReferences(x, b, k - 1) \in Nat /\ func[k].references \in Nat
      BY <1>3, <2>1
    <3>2. f[k].references = func[k].references + NewReferences(x, b, k - 1)
      BY <1>2
    <3>3. QED
      BY <3>1, <3>2
  <2>5. f[k].arg \in Int
    BY <2>3 DEF IsArg, Between
  <2>6. f[k] = Instruction(f[k].bc, f[k].arg, f[k].references)
    BY <1>2
  <2>7. Instruction(f[k].bc, f[k].arg, f[k].references) \in Instructions
    BY <2>2, <2>4, <2>5 DEF Instructions, Instruction
  <2>8. QED
    BY <2>3, <2>6, <2>7
<1>5. f = [k \in 1 .. Len(func) |-> f[k]]
  BY <1>1 DEF Filled
<1>6. f \in [1 .. Len(func) -> Instructions]
  BY <1>4, <1>5
<1>7. f \in Seq(Instructions)
  <2>1. [1 .. Len(func) -> Instructions] \in {[1 .. n -> Instructions] : n \in Nat}
    BY <1>1
  <2>2. QED
    BY <1>6, <2>1, SeqDef, Zenon
<1>8. Len(f) = Len(func)
  BY <1>1, <1>6, <1>7, LenProperties
<1>9. QED
  BY <1>2, <1>4, <1>7, <1>8

(* The new instruction adds to the branches that lead to i what it adds to   *)
(* the references of i, at most.                                             *)
LEMMA LabelsStayCounted ==
    ASSUME IInv, pc \in Nat, pc + 1 \in 1 .. Len(func), func[pc + 1].bc = "Unknown",
           NEW x, x.bc \in Names, IsArg(x.arg), NEW b \in Nat,
           x.bc = "NewHandler" => \A k \in HandlerPlaces(b) : k >= 0,
           func' = Filled(x, b)
    PROVE  LabelsCounted'
<1>1. /\ Len(func) \in Nat /\ DOMAIN func = 1 .. Len(func) /\ DOMAIN func' = DOMAIN func
      /\ Len(func') = Len(func)
      /\ \A k \in 1 .. Len(func) :
            /\ func'[k].bc = IF k = pc + 1 THEN x.bc ELSE func[k].bc
            /\ func'[k].arg = IF k = pc + 1 THEN x.arg ELSE func[k].arg
            /\ func'[k].references = func[k].references + NewReferences(x, b, k - 1)
            /\ func[k].references \in Nat
  <2>1. /\ func \in Seq(Instructions) /\ Len(func) \in Nat /\ DOMAIN func = 1 .. Len(func)
        /\ \A k \in 1 .. Len(func) : func[k] \in Instructions
    BY LenProperties, ElementOfSeq DEF IInv
  <2>2. /\ func' \in Seq(Instructions) /\ Len(func') = Len(func)
        /\ \A k \in 1 .. Len(func) :
              /\ func'[k].bc = IF k = pc + 1 THEN x.bc ELSE func[k].bc
              /\ func'[k].arg = IF k = pc + 1 THEN x.arg ELSE func[k].arg
              /\ func'[k].references = func[k].references + NewReferences(x, b, k - 1)
    BY FilledTypes
  <2>3. DOMAIN func' = 1 .. Len(func')
    BY <2>2, LenProperties
  <2>4. \A k \in 1 .. Len(func) : func[k].references \in Nat
    BY <2>1 DEF Instructions
  <2>5. QED
    BY <2>1, <2>2, <2>3, <2>4
<1>2. ASSUME NEW i \in 0 .. Len(func) - 1
      PROVE  /\ func'[i + 1].references >= References(i)'
             /\ (\A k \in DOMAIN func' : func'[k].bc # "NewHandler") =>
                    func'[i + 1].references = References(i)'
  <2> DEFINE Old == {k \in DOMAIN func : func[k].bc \in Branches /\ func[k].arg = i}
             New == {k \in DOMAIN func' : func'[k].bc \in Branches /\ func'[k].arg = i}
             added == NewReferences(x, b, i)
  <2>1. pc + 1 \notin Old
    BY DEF Branches
  <2>2. IsFiniteSet(Old) /\ Cardinality(Old) \in Nat
    <3>1. IsFiniteSet(1 .. Len(func)) /\ Old \in SUBSET (1 .. Len(func))
      BY <1>1, FS_Interval
    <3>2. IsFiniteSet(Old)
      BY <3>1, FS_Subset, Zenon
    <3>3. QED
      BY <3>2, FS_CardinalityType
  <2>3. Cardinality(New) = IF x.bc \in Branches /\ x.arg = i
                           THEN Cardinality(Old) + 1 ELSE Cardinality(Old)
    <3>1. CASE x.bc \in Branches /\ x.arg = i
      <4>1. New = Old \cup {pc + 1}
        BY <1>1, <3>1
      <4> HIDE DEF Old, New
      <4>2. QED
        BY <2>1, <2>2, <3>1, <4>1, FS_AddElement
    <3>2. CASE ~(x.bc \in Branches /\ x.arg = i)
      <4>1. New = Old
        BY <1>1, <2>1, <3>2
      <4>2. QED
        BY <3>2, <4>1
    <3>3. QED
      BY <3>1, <3>2
  <2>4. /\ added \in Nat
        /\ x.bc \in Branches => added = IF x.arg = i THEN 1 ELSE 0
        /\ x.bc \notin Branches /\ x.bc # "NewHandler" => added = 0
    BY AddedReferences
  <2>5. /\ func[i + 1].references >= Cardinality(Old)
        /\ (\A k \in DOMAIN func : func[k].bc # "NewHandler") =>
              func[i + 1].references = Cardinality(Old)
    BY DEF IInv, LabelsCounted, References
  <2>6. func'[i + 1].references = func[i + 1].references + added /\ func[i + 1].references \in Nat
    <3>1. i + 1 \in 1 .. Len(func) /\ i + 1 - 1 = i
      BY <1>1
    <3>2. QED
      BY <1>1, <3>1
  <2>7. func'[i + 1].references >= Cardinality(New)
    <3> HIDE DEF Old, New, added
    <3>1. QED
      BY <2>2, <2>3, <2>4, <2>5, <2>6
  <2>8. ASSUME \A k \in DOMAIN func' : func'[k].bc # "NewHandler"
        PROVE  func'[i + 1].references = Cardinality(New)
    <3>1. x.bc # "NewHandler"
      BY <1>1, <2>8
    <3>2. \A k \in DOMAIN func : func[k].bc # "NewHandler"
      BY <1>1, <2>8
    <3> HIDE DEF Old, New, added
    <3>3. QED
      BY <2>2, <2>3, <2>4, <2>5, <2>6, <3>1, <3>2
  <2>9. References(i)' = Cardinality(New)
    BY DEF References
  <2>10. QED
    BY <2>7, <2>8, <2>9
<1>3. QED
  BY <1>1, <1>2 DEF LabelsCounted

(* The second pass preserves the invariant.                                  *)
LEMMA DecodeStep ==
    ASSUME IInv, Decode
    PROVE  IInv'
<1>1. /\ Size \in Nat /\ inst' = inst /\ pc_map' = pc_map /\ Size' = Size
      /\ \A k : After(k)' = After(k)
      /\ phase = "decode"
  BY Bytewise DEF IInv, Decode, Size, After
<1>2. /\ Len(func) \in Nat /\ Len(func) > 0 /\ Len(func) <= Size + 1
      /\ pc \in 0 .. Len(func) - 2
      /\ \A k \in DOMAIN pc_map : Mapped(k, Size, Len(func) - 1)
      /\ \A i \in 1 .. Len(func) : func[i].bc = "EndOfFile" <=> i = Len(func)
      /\ \A i \in pc + 1 .. Len(func) - 1 : func[i].bc = "Unknown"
  <2>1. Len(func) \in Nat
    BY LenProperties DEF IInv
  <2>2. QED
    BY <1>1, <2>1 DEF IInv, DecodeInv, Decode
<1>3. ip \in DOMAIN pc_map /\ pc_map[ip] = pc /\ ip \in 0 .. Size - 1
  BY <1>1 DEF IInv, PassesAgree, Decode
<1>4. PICK b \in ArgsAt(ip) :
         LET x == Decoded(CommandOf(inst[ip]), b)
         IN  IF x.bc = "NewHandler" /\ \E k \in HandlerPlaces(b) : k < 0
             THEN phase' = "undefined" /\ UNCHANGED <<func, ip, pc>>
             ELSE /\ func' = Filled(x, b)
                  /\ ip' = After(ip)
                  /\ pc' = pc + 1
                  /\ UNCHANGED phase
  BY DEF Decode, Filled, After
<1>5. PICK x : x = Decoded(CommandOf(inst[ip]), b)
  OBVIOUS
<1>6. b \in Nat /\ x.bc \in Names /\ IsArg(x.arg)
  <2>1. IsByte(inst[ip])
    BY <1>3, Bytewise DEF IInv
  <2>2. b \in Nat /\ Between(b, 0, 65535)
    BY <1>3, ArgsFit DEF IInv
  <2>3. x.bc \in Names /\ IsArg(x.arg)
    BY <1>5, <2>1, <2>2, DecodedInstruction
  <2>4. QED
    BY <2>2, <2>3
<1>7. CASE x.bc = "NewHandler" /\ \E k \in HandlerPlaces(b) : k < 0
  <2>1. phase' = "undefined" /\ func' = func /\ ip' = ip /\ pc' = pc
    BY <1>4, <1>5, <1>7
  <2>2. DecodeInv'
    BY <1>1, <2>1 DEF IInv, DecodeInv, Mapped
  <2>3. LabelsCounted'
    BY <2>1 DEF IInv, LabelsCounted, References
  <2>4. QED
    BY <1>1, <2>1, <2>2, <2>3 DEF IInv, MapInv, PassesAgree
<1>8. CASE ~(x.bc = "NewHandler" /\ \E k \in HandlerPlaces(b) : k < 0)
  <2>1. func' = Filled(x, b) /\ ip' = After(ip) /\ pc' = pc + 1 /\ phase' = "decode"
    BY <1>1, <1>4, <1>5, <1>8
  <2>2. x.bc = "NewHandler" => \A k \in HandlerPlaces(b) : k >= 0
    <3>1. \A k \in HandlerPlaces(b) : k \in Int
      BY <1>2, <1>6 DEF HandlerPlaces
    <3>2. QED
      BY <1>8, <3>1
  <2>3. /\ func' \in Seq(Instructions) /\ Len(func') = Len(func)
        /\ \A k \in 1 .. Len(func) :
              /\ func'[k].bc = IF k = pc + 1 THEN x.bc ELSE func[k].bc
              /\ IsArg(func'[k].arg)
    <3>1. pc \in Nat
      BY <1>2
    <3>2. PICK f : f = Filled(x, b)
      OBVIOUS
    <3>3. /\ f \in Seq(Instructions) /\ Len(f) = Len(func)
          /\ \A k \in 1 .. Len(func) : f[k].bc = IF k = pc + 1 THEN x.bc ELSE func[k].bc
          /\ \A k \in 1 .. Len(func) : IsArg(f[k].arg)
      BY <1>6, <2>2, <3>1, <3>2, FilledTypes
    <3>4. QED
      BY <2>1, <3>2, <3>3
  <2>4. After(ip) \in ip + 1 .. ip + 3
    BY <1>3, Bytewise DEF IInv
  <2>5. DecodeInv'
    <3>1. /\ pc' \in 0 .. Len(func') - 1 /\ ip' \in 0 .. Size + 2
          /\ Len(func') > 0 /\ Len(func') <= Size + 1
      BY <1>1, <1>2, <1>3, <2>1, <2>3, <2>4
    <3>2. \A k \in DOMAIN pc_map' : Mapped(k, Size, Len(func) - 1)'
      BY <1>1, <1>2, <2>3 DEF Mapped
    <3>3. \A i \in 1 .. Len(func') : func'[i].bc = "EndOfFile" <=> i = Len(func')
      BY <1>2, <1>6, <2>3 DEF Names
    <3>4. \A i \in pc' + 1 .. Len(func') - 1 : func'[i].bc = "Unknown"
      BY <1>2, <2>1, <2>3
    <3>5. QED
      BY <1>1, <3>1, <3>2, <3>3, <3>4 DEF DecodeInv
  <2>6. PassesAgree'
    <3>1. SUFFICES ASSUME pc + 1 < Len(func) - 1
                   PROVE  After(ip) \in DOMAIN pc_map /\ pc_map[After(ip)] = pc + 1
      BY <1>1, <2>1, <2>3 DEF PassesAgree
    <3>2. Mapped(ip, Size, Len(func) - 1)
      BY <1>2, <1>3
    <3>3. ~(pc_map[ip] + 1 = Len(func) - 1)
      BY <1>2, <1>3, <3>1
    <3>4. QED
      BY <1>3, <3>2, <3>3 DEF Mapped
  <2>7. LabelsCounted'
    BY <1>2, <1>6, <2>1, <2>2, LabelsStayCounted
  <2>8. QED
    BY <1>1, <2>1, <2>3, <2>5, <2>6, <2>7 DEF IInv, MapInv
<1>9. QED
  BY <1>7, <1>8

(* What leaves the vector and both tables alone.                             *)
LEMMA RestStep ==
    ASSUME IInv, Done \/ UNCHANGED vars
    PROVE  IInv'
<1>1. /\ UNCHANGED <<inst, func, pc_map, ip, pc>>
      /\ phase' = phase \/ (phase = "decode" /\ phase' = "done")
  BY DEF Done, vars
<1>2. Size' = Size /\ \A k : After(k)' = After(k)
  BY <1>1 DEF Size, After
<1>3. MapInv' /\ DecodeInv' /\ PassesAgree'
  BY <1>1, <1>2 DEF IInv, MapInv, DecodeInv, Mapped, PassesAgree
<1>4. LabelsCounted'
  BY <1>1 DEF IInv, LabelsCounted, References
<1>5. QED
  BY <1>1, <1>2, <1>3, <1>4 DEF IInv

(* Before the first pass there is nothing to agree about.                    *)
LEMMA Initially ==
    ASSUME IsBinary(inst), Start
    PROVE  IInv
<1>1. /\ func \in Seq(Instructions) /\ Len(func) = 0 /\ DOMAIN pc_map = {}
      /\ ip = 0 /\ pc = 0 /\ phase = "map" /\ Size \in Nat
  BY Bytewise DEF Start
<1>2. MapInv
  BY <1>1 DEF MapInv
<1>3. LabelsCounted
  BY <1>1 DEF LabelsCounted
<1>4. QED
  BY <1>1, <1>2, <1>3 DEF IInv, DecodeInv, PassesAgree

(* The invariant, for every binary.                                          *)
LEMMA AlwaysIInv == Spec => []IInv
<1>1. Init => IInv
  BY StreamAssumption, Initially DEF Init
<1>2. IInv /\ [Next]_vars => IInv'
  BY MapStep, EndMapStep, DecodeStep, RestStep DEF Next
<1>3. QED
  BY <1>1, <1>2, PTL DEF Spec

-----------------------------------------------------------------------------
(* Every variable has its type, whatever the bytes are.                      *)
THEOREM TypeCorrect == Spec => []TypeOK
<1>1. ASSUME IInv
      PROVE  TypeOK
  <2>1. \A k \in DOMAIN func : /\ func[k].bc \in Bytecodes
                                /\ Between(func[k].arg, -32768, 65535)
                                /\ func[k].references \in Nat
    <3>1. func \in Seq(Instructions) /\ DOMAIN func = 1 .. Len(func)
      BY <1>1, LenProperties DEF IInv
    <3>2. \A k \in DOMAIN func : func[k] \in Instructions
      BY <3>1, ElementOfSeq
    <3>3. QED
      BY <1>1, <3>1, <3>2 DEF IInv, Instructions, IsArg
  <2>2. \A k \in DOMAIN pc_map : k \in 0 .. Size - 1 /\ pc_map[k] \in Nat
    BY <1>1, Bytewise DEF IInv
  <2>3. ip \in 0 .. Size + 2 /\ pc \in 0 .. Size
    <3>1. Size \in Nat /\ Len(func) \in Nat
      BY <1>1, Bytewise, LenProperties DEF IInv
    <3>2. QED
      BY <1>1, <3>1 DEF IInv, MapInv, DecodeInv
  <2>4. QED
    BY <1>1, <2>1, <2>2, <2>3 DEF TypeOK, IInv
<1>2. QED
  BY <1>1, AlwaysIInv, PTL

(* The two passes count bytes alike: the second decodes each instruction     *)
(* where the first found it, and pc_map knows it by its index.               *)
THEOREM PassesAlwaysAgree == Spec => []PassesAgree
<1>1. IInv => PassesAgree
  BY DEF IInv
<1>2. QED
  BY <1>1, AlwaysIInv, PTL

(* An instruction counts as many references as there are branches to it, and *)
(* more only if there are exception handlers: no label is missed.            *)
THEOREM LabelsAlwaysCounted == Spec => []LabelsCounted
<1>1. IInv => LabelsCounted
  BY DEF IInv
<1>2. QED
  BY <1>1, AlwaysIInv, PTL

(* func as C++ indexes it.                                                   *)
Returned == [i \in 0 .. Len(func) - 1 |-> func[i + 1]]

(* What transcode_from_ns returns is a program in the sense of the           *)
(* decompiler's assumption: one EndOfFile, at the end.                       *)
THEOREM ReturnsAProgram == Spec => [](phase = "done" => IsProgram(Returned))
<1>1. ASSUME IInv, phase = "done"
      PROVE  IsProgram(Returned)
  <2>1. func \in Seq(Instructions) /\ Len(func) \in Nat
    BY <1>1, LenProperties DEF IInv
  <2>2. \A i \in 0 .. Len(func) - 1 : func[i + 1] \in Instructions
    BY <2>1, ElementOfSeq
  <2>3. /\ Len(func) > 0
        /\ \A i \in 1 .. Len(func) : func[i].bc = "EndOfFile" <=> i = Len(func)
    BY <1>1 DEF IInv, DecodeInv
  <2> DEFINE n == Len(func) - 1
  <2>4. n \in Nat /\ n \in DOMAIN Returned /\ DOMAIN Returned = 0 .. n
    BY <2>1, <2>3 DEF Returned
  <2>5. ASSUME NEW i \in 0 .. n
        PROVE  /\ Returned[i].bc \in Bytecodes
               /\ Returned[i].arg \in Int
               /\ Returned[i].references \in Nat
               /\ Returned[i].bc = "EndOfFile" <=> i = n
    BY <2>1, <2>2, <2>3 DEF Returned, Instructions
  <2> HIDE DEF n
  <2>6. QED
    BY <2>4, <2>5 DEF IsProgram
<1>2. QED
  BY <1>1, AlwaysIInv, PTL

-----------------------------------------------------------------------------
(* Where branches lead.  The entries of pc_map are numbered in the order of  *)
(* their addresses, from address 0 or from behind another one.               *)
Bounded(count) == \A k \in DOMAIN pc_map : pc_map[k] \in 0 .. count - 1

Numbered ==
    /\ \A k \in DOMAIN pc_map : k = 0 \/ \E j \in DOMAIN pc_map : After(j) = k
    /\ \A k \in DOMAIN pc_map : pc_map[k] = Cardinality({j \in DOMAIN pc_map : j < k})
    /\ \A j, k \in DOMAIN pc_map : j < k => pc_map[j] < pc_map[k]
    /\ IF phase = "map"
       THEN /\ ip = 0 \/ \E j \in DOMAIN pc_map : After(j) = ip
            /\ Cardinality(DOMAIN pc_map) = Len(func)
            /\ Bounded(Len(func))
       ELSE /\ Size > 0 => 0 \in DOMAIN pc_map
            /\ Bounded(Len(func) - 1)
            /\ phase = "done" => pc = Len(func) - 1

(* Instruction k was decoded from the bytes at its address.                  *)
DecodedAt(k) ==
    \E b \in ArgsAt(k) :
        /\ func[pc_map[k] + 1].bc = Decoded(CommandOf(inst[k]), b).bc
        /\ func[pc_map[k] + 1].arg = Decoded(CommandOf(inst[k]), b).arg

DecodedFrom ==
    phase # "map" => \A k \in DOMAIN pc_map : pc_map[k] < pc => DecodedAt(k)

LandInv == IInv /\ Numbered /\ DecodedFrom

(* The first pass gives the next address the next number.                    *)
LEMMA NumbersNext ==
    ASSUME LandInv, MapInstruction
    PROVE  Numbered' /\ DecodedFrom'
<1>1. /\ phase = "map" /\ phase' = "map" /\ ip' = After(ip) /\ inst' = inst
      /\ \A k : After(k)' = After(k)
      /\ ip \in Nat /\ Len(func) \in Nat
      /\ DOMAIN pc_map \subseteq 0 .. ip - 1
  BY LenProperties DEF LandInv, IInv, MapInv, MapInstruction, After
<1>2. /\ DOMAIN pc_map' = DOMAIN pc_map \cup {ip}
      /\ pc_map'[ip] = Len(func)
      /\ \A k \in DOMAIN pc_map : k # ip /\ k < ip /\ k \in Nat /\ pc_map'[k] = pc_map[k]
  BY <1>1 DEF MapInstruction
<1>3. Len(func') = Len(func) + 1
  BY DEF LandInv, IInv, MapInstruction
<1>4. Cardinality(DOMAIN pc_map) = Len(func) /\ IsFiniteSet(DOMAIN pc_map)
  <2>1. IsFiniteSet(0 .. ip - 1) /\ DOMAIN pc_map \in SUBSET (0 .. ip - 1)
    <3>1. 0 \in Int /\ ip - 1 \in Int
      BY <1>1
    <3>2. QED
      BY <1>1, <3>1, FS_Interval
  <2>2. IsFiniteSet(DOMAIN pc_map)
    BY <2>1, FS_Subset, Zenon
  <2>3. QED
    BY <1>1, <2>2 DEF LandInv, Numbered
<1>5. Cardinality(DOMAIN pc_map') = Len(func')
  BY <1>2, <1>3, <1>4, FS_AddElement
<1>6. \A k \in DOMAIN pc_map' : k = 0 \/ \E j \in DOMAIN pc_map' : After(j)' = k
  BY <1>1, <1>2 DEF LandInv, Numbered
<1>7. ASSUME NEW k \in DOMAIN pc_map'
      PROVE  pc_map'[k] = Cardinality({j \in DOMAIN pc_map' : j < k})
  <2>1. CASE k = ip
    <3>1. {j \in DOMAIN pc_map' : j < k} = DOMAIN pc_map
      <4>1. \A j \in DOMAIN pc_map' : j < k <=> j \in DOMAIN pc_map
        BY <1>1, <1>2, <2>1
      <4>2. DOMAIN pc_map \subseteq DOMAIN pc_map'
        BY <1>2
      <4>3. QED
        BY <4>1, <4>2
    <3>2. QED
      BY <1>2, <1>4, <2>1, <3>1
  <2>2. CASE k # ip
    <3>1. k \in DOMAIN pc_map
      BY <1>2, <2>2
    <3>2. {j \in DOMAIN pc_map' : j < k} = {j \in DOMAIN pc_map : j < k}
      BY <1>1, <1>2, <3>1
    <3>3. QED
      BY <1>2, <3>1, <3>2 DEF LandInv, Numbered
  <2>3. QED
    BY <2>1, <2>2
<1>8. \A k \in DOMAIN pc_map : pc_map[k] \in 0 .. Len(func) - 1
  BY <1>1 DEF LandInv, Numbered, Bounded
<1>9. Bounded(Len(func))'
  BY <1>1, <1>2, <1>3, <1>8 DEF Bounded
<1>10. ASSUME NEW j \in DOMAIN pc_map', NEW k \in DOMAIN pc_map', j < k
       PROVE  pc_map'[j] < pc_map'[k]
  <2>1. j \in DOMAIN pc_map
    BY <1>1, <1>2, <1>10
  <2>2. CASE k = ip
    BY <1>1, <1>2, <1>8, <2>1, <2>2
  <2>3. CASE k # ip
    BY <1>2, <1>10, <2>1, <2>3 DEF LandInv, Numbered
  <2>4. QED
    BY <2>2, <2>3
<1>11. \E j \in DOMAIN pc_map' : After(j)' = ip'
  BY <1>1, <1>2
<1>12. QED
  BY <1>1, <1>5, <1>6, <1>7, <1>9, <1>10, <1>11 DEF Numbered, DecodedFrom

(* EndMap adds EndOfFile behind them.                                        *)
LEMMA NumbersAll ==
    ASSUME LandInv, EndMap
    PROVE  Numbered' /\ DecodedFrom'
<1>1. /\ phase = "map" /\ phase' = "decode" /\ inst' = inst /\ pc_map' = pc_map /\ pc' = pc
      /\ Size' = Size /\ ip >= Size /\ pc = 0 /\ Size \in Nat
      /\ \A k : After(k)' = After(k)
  BY Bytewise DEF LandInv, IInv, MapInv, EndMap, After, Size
<1>2. Len(func') - 1 = Len(func) /\ Len(func) \in Nat
  <2>1. func \in Seq(Instructions)
    BY DEF LandInv, IInv
  <2>2. Len(func') = Len(func) + 1 /\ Len(func) \in Nat
    BY <2>1 DEF EndMap
  <2>3. QED
    BY <2>2
<1>3. /\ \A k \in DOMAIN pc_map : k = 0 \/ \E j \in DOMAIN pc_map : After(j) = k
      /\ \A k \in DOMAIN pc_map : pc_map[k] = Cardinality({j \in DOMAIN pc_map : j < k})
      /\ \A j, k \in DOMAIN pc_map : j < k => pc_map[j] < pc_map[k]
      /\ Bounded(Len(func))
  BY <1>1 DEF LandInv, Numbered
<1>4. Size > 0 => 0 \in DOMAIN pc_map
  BY <1>1, <1>2 DEF LandInv, IInv, MapInv
<1>5. Bounded(Len(func) - 1)'
  BY <1>1, <1>2, <1>3 DEF Bounded
<1>6. Numbered'
  BY <1>1, <1>3, <1>4, <1>5 DEF Numbered
<1>7. \A k \in DOMAIN pc_map : ~(pc_map[k] < pc)
  BY <1>1, <1>2, <1>3 DEF Bounded
<1>8. QED
  BY <1>1, <1>6, <1>7 DEF DecodedFrom

(* The second pass decodes the instruction pc_map knows by this index, and   *)
(* leaves the names and arguments of the others alone.                       *)
LEMMA DecodesNext ==
    ASSUME LandInv, Decode
    PROVE  Numbered' /\ DecodedFrom'
<1>1. /\ phase = "decode" /\ phase' \in {"decode", "undefined"} /\ inst' = inst /\ pc_map' = pc_map
      /\ Size' = Size /\ \A k : After(k)' = After(k) /\ ArgsAt(k)' = ArgsAt(k)
      /\ \A a, b : Decoded(a, b)' = Decoded(a, b)
  BY DEF Decode, Size, After, ArgsAt, BytesAt, Decoded, PcOf
<1>2. ip \in DOMAIN pc_map /\ pc_map[ip] = pc
  BY <1>1 DEF LandInv, IInv, PassesAgree, Decode
<1>3. /\ Len(func) \in Nat /\ DOMAIN func = 1 .. Len(func)
      /\ pc \in 0 .. Len(func) - 2
      /\ \A k \in DOMAIN pc_map : k \in Nat /\ pc_map[k] \in 0 .. Len(func) - 2
  <2>1. Len(func) \in Nat /\ DOMAIN func = 1 .. Len(func)
    BY LenProperties DEF LandInv, IInv
  <2>2. pc \in 0 .. Len(func) - 2
    BY <1>1, <2>1 DEF LandInv, IInv, DecodeInv, Decode
  <2>3. \A k \in DOMAIN pc_map : k \in Nat
    BY Bytewise DEF LandInv, IInv
  <2>4. \A k \in DOMAIN pc_map : pc_map[k] \in 0 .. Len(func) - 1 - 1
    BY <1>1 DEF LandInv, Numbered, Bounded
  <2>5. QED
    BY <2>1, <2>2, <2>3, <2>4
<1>4. PICK b \in ArgsAt(ip) :
         LET x == Decoded(CommandOf(inst[ip]), b)
         IN  IF x.bc = "NewHandler" /\ \E k \in HandlerPlaces(b) : k < 0
             THEN phase' = "undefined" /\ UNCHANGED <<func, ip, pc>>
             ELSE func' = Filled(x, b) /\ pc' = pc + 1
  BY DEF Decode, Filled
<1>5. PICK x : x = Decoded(CommandOf(inst[ip]), b)
  OBVIOUS
<1>6. \/ func' = func /\ pc' = pc
      \/ func' = Filled(x, b) /\ pc' = pc + 1
  BY <1>4, <1>5
<1>7. /\ DOMAIN func' = DOMAIN func /\ Len(func') = Len(func)
  <2>1. DOMAIN func' = DOMAIN func
    BY <1>6 DEF Filled
  <2>2. func' \in Seq(Instructions) /\ func \in Seq(Instructions)
    BY DecodeStep DEF LandInv, IInv
  <2>3. DOMAIN func' = 1 .. Len(func') /\ Len(func') \in Nat
    BY <2>2, LenProperties
  <2>4. QED
    BY <1>3, <2>1, <2>3
<1>8. Numbered'
  <2>1. Bounded(Len(func) - 1)'
    BY <1>1, <1>3, <1>7 DEF Bounded
  <2>2. QED
    BY <1>1, <2>1 DEF LandInv, Numbered
<1>9. ASSUME NEW k \in DOMAIN pc_map, pc_map[k] < pc'
      PROVE  DecodedAt(k)'
  <2>1. CASE pc_map[k] < pc
    <3>1. PICK c \in ArgsAt(k) :
             /\ func[pc_map[k] + 1].bc = Decoded(CommandOf(inst[k]), c).bc
             /\ func[pc_map[k] + 1].arg = Decoded(CommandOf(inst[k]), c).arg
      BY <1>1, <2>1 DEF LandInv, DecodedFrom, DecodedAt
    <3>2. PICK i \in DOMAIN func : i = pc_map[k] + 1 /\ i # pc + 1
      BY <1>3, <2>1
    <3>3. func'[i].bc = func[i].bc /\ func'[i].arg = func[i].arg
      BY <1>6, <3>2 DEF Filled, Instruction
    <3>4. QED
      BY <1>1, <3>1, <3>2, <3>3 DEF DecodedAt
  <2>2. CASE ~(pc_map[k] < pc)
    <3>1. pc' = pc + 1 /\ func' = Filled(x, b) /\ pc_map[k] = pc
      BY <1>3, <1>6, <1>9, <2>2
    <3>2. k = ip
      <4>1. \A i, j \in DOMAIN pc_map : i < j => pc_map[i] < pc_map[j]
        BY DEF LandInv, Numbered
      <4>2. pc_map[k] = pc_map[ip] /\ pc_map[k] \in Int /\ k \in Int /\ ip \in Int
        BY <1>2, <1>3, <3>1
      <4>3. ~(k < ip) /\ ~(ip < k)
        BY <1>2, <4>1, <4>2
      <4>4. QED
        BY <4>2, <4>3
    <3>3. PICK i \in DOMAIN func : i = pc_map[k] + 1 /\ i = pc + 1
      BY <1>3, <3>1
    <3>4. func'[i].bc = x.bc /\ func'[i].arg = x.arg
      BY <3>1, <3>3 DEF Filled, Instruction
    <3>5. QED
      BY <1>1, <1>5, <3>2, <3>3, <3>4 DEF DecodedAt
  <2>3. QED
    BY <2>1, <2>2
<1>10. QED
  BY <1>1, <1>8, <1>9 DEF DecodedFrom

(* Done is for when all are decoded.                                         *)
LEMMA DecodesAll ==
    ASSUME LandInv, Done \/ UNCHANGED vars
    PROVE  Numbered' /\ DecodedFrom'
<1>1. /\ UNCHANGED <<inst, func, pc_map, ip, pc>>
      /\ phase' = phase \/ (phase = "decode" /\ phase' = "done" /\ pc = Len(func) - 1)
  BY DEF Done, vars
<1>2. /\ Size' = Size /\ \A k : After(k)' = After(k) /\ DecodedAt(k)' = DecodedAt(k)
      /\ \A n : Bounded(n)' = Bounded(n)
  BY <1>1 DEF Size, After, DecodedAt, ArgsAt, BytesAt, Decoded, PcOf, Bounded
<1>3. QED
  BY <1>1, <1>2 DEF LandInv, Numbered, DecodedFrom

(* All of it, from the start on and in every step.                           *)
LEMMA LandStart ==
    ASSUME IsBinary(inst), Start
    PROVE  LandInv
<1>1. phase = "map" /\ DOMAIN pc_map = {} /\ ip = 0 /\ Len(func) = 0
  BY DEF Start
<1>2. Numbered /\ DecodedFrom
  BY <1>1, FS_EmptySet DEF Numbered, Bounded, DecodedFrom
<1>3. QED
  BY <1>2, Initially DEF LandInv

LEMMA LandStep ==
    ASSUME LandInv, [Next]_vars
    PROVE  LandInv'
<1>1. IInv'
  BY MapStep, EndMapStep, DecodeStep, RestStep DEF LandInv, Next
<1>2. Numbered' /\ DecodedFrom'
  BY NumbersNext, NumbersAll, DecodesNext, DecodesAll DEF Next
<1>3. QED
  BY <1>1, <1>2 DEF LandInv

(* So it holds for every binary.                                             *)
LEMMA AlwaysLandInv == Spec => []LandInv
<1>1. Init => LandInv
  BY StreamAssumption, LandStart DEF Init
<1>2. LandInv /\ [Next]_vars => LandInv'
  BY LandStep
<1>3. QED
  BY <1>1, <1>2, PTL DEF Spec

-----------------------------------------------------------------------------
(* A set of natural numbers has a least one: what lets us prove of all       *)
(* addresses what a recursive function says of them.                         *)
LEMMA LeastNumber ==
    ASSUME NEW T, T \subseteq Nat, T # {}
    PROVE  \E n \in T : \A m \in T : n <= m
<1> DEFINE R == OpToRel(<, Nat)
<1>1. IsWellFoundedOn(R, Nat)
  BY NatLessThanWellFounded
<1>2. ASSUME NEW x \in Nat, NEW y \in Nat, x < y
      PROVE  <<x, y>> \in R
  BY <1>2 DEF OpToRel
<1> HIDE DEF R
<1>3. PICK n \in T : \A m \in T : ~(<<m, n>> \in R)
  BY <1>1, WFMin
<1>4. ASSUME NEW m \in T
      PROVE  n <= m
  <2>1. m \in Nat /\ n \in Nat
    OBVIOUS
  <2>2. ~(m < n)
    BY <1>2, <1>3, <2>1
  <2>3. QED
    BY <2>1, <2>2
<1>5. QED
  BY <1>4

(* The first pass found every instruction, and nothing else.                 *)
LEMMA StartsAreMapped ==
    ASSUME LandInv, phase = "done"
    PROVE  Starts = DOMAIN pc_map
<1> DEFINE D == DOMAIN pc_map
           Below(n) == {j \in D : j < n}
           Found(f, n) ==
               IF n = 0 THEN {}
               ELSE LET found == f[n - 1]
                    IN  IF n = 1 \/ \E j \in found : n - 1 = j + IF IsLong(inst[j]) THEN 3 ELSE 1
                        THEN found \cup {n - 1}
                        ELSE found
           Equation(f) == f = [n \in 0 .. Size |-> Found(f, n)]
           g == [n \in 0 .. Size |-> Below(n)]
<1>1. /\ Size \in Nat /\ D \subseteq 0 .. Size - 1
      /\ \A k \in D : After(k) \in k + 1 .. k + 3
  BY Bytewise DEF LandInv, IInv
<1>2. ASSUME NEW n \in 1 .. Size
      PROVE  n - 1 \in D <=> (n = 1 \/ \E j \in Below(n - 1) : n - 1 = After(j))
  <2>1. n = 1 => n - 1 \in D
    BY <1>1 DEF LandInv, Numbered
  <2>2. n - 1 \in D /\ n # 1 => \E j \in Below(n - 1) : n - 1 = After(j)
    <3>1. SUFFICES ASSUME n - 1 \in D, n # 1
                   PROVE  \E j \in Below(n - 1) : n - 1 = After(j)
      OBVIOUS
    <3>2. PICK j \in D : After(j) = n - 1
      BY <3>1 DEF LandInv, Numbered
    <3>3. j < n - 1
      BY <1>1, <3>2
    <3>4. QED
      BY <3>2, <3>3
  <2>3. ASSUME NEW j \in Below(n - 1), n - 1 = After(j)
        PROVE  n - 1 \in D
    <3>1. Mapped(j, Size, Len(func) - 1)
      BY DEF LandInv, IInv, DecodeInv
    <3>2. CASE After(j) \in D
      BY <2>3, <3>2
    <3>3. CASE After(j) >= Size
      BY <1>1, <2>3, <3>3
    <3>4. QED
      BY <3>1, <3>2, <3>3 DEF Mapped
  <2>4. QED
    BY <2>1, <2>2, <2>3
<1>3. ASSUME NEW f, NEW n \in 1 .. Size, f[n - 1] = Below(n - 1)
      PROVE  Found(f, n) = Below(n)
  <2>1. \A j : After(j) = j + IF IsLong(inst[j]) THEN 3 ELSE 1
    BY DEF After
  <2>2. n # 0 /\ n \in Int
    OBVIOUS
  <2>3. Below(n) = IF n - 1 \in D THEN Below(n - 1) \cup {n - 1} ELSE Below(n - 1)
    BY <1>1
  <2>4. Found(f, n) = IF n = 1 \/ \E j \in Below(n - 1) : n - 1 = After(j)
                      THEN Below(n - 1) \cup {n - 1} ELSE Below(n - 1)
    BY <1>3, <2>1, <2>2
  <2> HIDE DEF Below, Found, D
  <2>5. QED
    BY <1>2, <2>3, <2>4
<1>4. Below(0) = {} /\ \A f : Found(f, 0) = {}
  BY <1>1
<1> HIDE DEF Below, Found
<1>5. Equation(g)
  <2>1. ASSUME NEW n \in 0 .. Size
        PROVE  Found(g, n) = Below(n)
    <3>1. CASE n = 0
      BY <1>4, <3>1
    <3>2. CASE n # 0
      <4>1. n \in 1 .. Size /\ n - 1 \in 0 .. Size
        BY <1>1, <3>2
      <4>2. g[n - 1] = Below(n - 1)
        BY <4>1
      <4>3. QED
        BY <1>3, <4>1, <4>2
    <3>3. QED
      BY <3>1, <3>2
  <2>2. QED
    BY <2>1
<1>6. FoundBelow = CHOOSE f : Equation(f)
  BY DEF FoundBelow, Found
<1> HIDE DEF Equation, g
<1>7. Equation(FoundBelow)
  BY <1>5, <1>6
<1>8. \A n \in 0 .. Size : FoundBelow[n] = Found(FoundBelow, n)
  BY <1>7 DEF Equation
<1> DEFINE T == {n \in 0 .. Size : FoundBelow[n] # Below(n)}
<1>9. T = {}
  <2>1. SUFFICES ASSUME T # {}
                 PROVE  FALSE
    OBVIOUS
  <2>2. PICK n \in T : \A m \in T : n <= m
    <3>1. T \subseteq Nat
      BY <1>1
    <3> HIDE DEF T
    <3>2. QED
      BY <2>1, <3>1, LeastNumber
  <2>3. n # 0 /\ n \in 1 .. Size /\ n - 1 \in 0 .. Size /\ n - 1 \notin T
    <3>1. n \in 0 .. Size /\ FoundBelow[n] # Below(n)
      BY <2>2
    <3>2. n # 0
      BY <1>1, <1>4, <1>8, <3>1
    <3>3. n \in 1 .. Size /\ n - 1 \in 0 .. Size /\ ~(n <= n - 1)
      BY <1>1, <3>1, <3>2
    <3>4. QED
      BY <2>2, <3>2, <3>3
  <2>4. FoundBelow[n] = Below(n)
    BY <1>3, <1>8, <2>3
  <2>5. QED
    BY <2>4
<1>10. Below(Size) = D
  BY <1>1 DEF Below
<1>11. QED
  BY <1>1, <1>9, <1>10 DEF Starts

(* Only commands 11, 12, 13 and 23 are branches; their argument is the index *)
(* of the instruction at an address.                                         *)
LEMMA DecodedBranch ==
    ASSUME NEW a, NEW b \in Nat, NEW x, x = Decoded(a, b), x.bc \in Branches
    PROVE  x.arg = PcOf(b)
<1>1. \A n \in 1 .. 8 : Simple[n] \notin Branches
  BY DEF Simple, Branches
<1>2. \A n \in 1 .. 25 : FreqFunc[n] \notin Branches
  BY DEF FreqFunc, Branches
<1>3. \A n \in 1 .. 23 : n \notin {9, 10, 11, 21} => Commands[n] \notin Branches
  BY DEF Commands, Branches
<1>4. \/ b < 8 /\ x = Instruction(Simple[b + 1], 0, 0)
      \/ b < 25 /\ x = Instruction(FreqFunc[b + 1], 0, 0)
      \/ a \in DOMAIN WithArg /\ x = Instruction(WithArg[a], Signed(b), 0)
      \/ a \in DOMAIN WithAddress /\ x = Instruction(WithAddress[a], PcOf(b), 0)
      \/ x = Unnamed
  BY SimpleNames, FreqFuncNames, SMT DEF Decoded
<1>5. ~(b < 8 /\ x = Instruction(Simple[b + 1], 0, 0))
  BY <1>1 DEF Instruction
<1>6. ~(b < 25 /\ x = Instruction(FreqFunc[b + 1], 0, 0))
  BY <1>2 DEF Instruction
<1>7. ~(a \in DOMAIN WithArg /\ x = Instruction(WithArg[a], Signed(b), 0))
  <2>1. SUFFICES ASSUME a \in DOMAIN WithArg, x = Instruction(WithArg[a], Signed(b), 0)
                 PROVE  FALSE
    OBVIOUS
  <2>2. x.bc = Commands[a - 2] /\ a - 2 \in 1 .. 23 /\ a - 2 \notin {9, 10, 11, 21}
    BY <2>1 DEF WithArg, Instruction
  <2>3. QED
    BY <1>3, <2>2
<1>8. x # Unnamed
  BY DEF Unnamed, Instruction, Branches
<1>9. QED
  BY <1>4, <1>5, <1>6, <1>7, <1>8 DEF Instruction

(* A branch to the first byte of an instruction leads to that instruction,   *)
(* forward or back, and any other to instruction 0: for every binary, and    *)
(* with the instructions counted independently of the two passes.            *)
THEOREM BranchesAlwaysLand == Spec => []BranchesLand
<1>1. ASSUME LandInv
      PROVE  BranchesLand
  <2>1. SUFFICES ASSUME phase = "done", NEW start \in Starts, NEW address \in ArgsAt(start),
                        func[IndexOf(start) + 1].bc \in Branches, Cardinality(ArgsAt(start)) = 1
                 PROVE  func[IndexOf(start) + 1].arg =
                            IF address \in Starts THEN IndexOf(address) ELSE 0
    BY DEF BranchesLand
  <2>2. Starts = DOMAIN pc_map
    BY <1>1, <2>1, StartsAreMapped
  <2>3. \A k \in Starts : IndexOf(k) = pc_map[k]
    BY <1>1, <2>2 DEF IndexOf, LandInv, Numbered
  <2>4. pc_map[start] < pc
    <3>1. Len(func) \in Nat
      BY <1>1, LenProperties DEF LandInv, IInv
    <3>2. pc_map[start] \in 0 .. Len(func) - 1 - 1 /\ pc = Len(func) - 1
      BY <1>1, <2>1, <2>2 DEF LandInv, Numbered, Bounded
    <3>3. QED
      BY <3>1, <3>2
  <2>5. PICK b \in ArgsAt(start) :
           /\ func[pc_map[start] + 1].bc = Decoded(CommandOf(inst[start]), b).bc
           /\ func[pc_map[start] + 1].arg = Decoded(CommandOf(inst[start]), b).arg
    BY <1>1, <2>1, <2>2, <2>4 DEF LandInv, DecodedFrom, DecodedAt
  <2>6. b = address
    <3>1. start \in 0 .. Size - 1
      BY <1>1, <2>2, Bytewise DEF LandInv, IInv
    <3>2. PICK most \in Nat : \A n \in ArgsAt(start) : n \in Nat /\ n <= most
      BY <1>1, <3>1, ArgsFit DEF LandInv, Between
    <3>3. IsFiniteSet(ArgsAt(start))
      <4>1. ArgsAt(start) \subseteq 0 .. most
        BY <3>2
      <4>2. IsFiniteSet(0 .. most) /\ ArgsAt(start) \in SUBSET (0 .. most)
        BY <4>1, FS_Interval
      <4>3. QED
        BY <4>2, FS_Subset, Zenon
    <3>4. PICK only : ArgsAt(start) = {only}
      BY <2>1, <3>3, FS_Singleton, Zenon
    <3>5. QED
      BY <3>4
  <2>7. b \in Nat
    BY <1>1, <2>2, ArgsFit DEF LandInv, IInv
  <2>8. func[pc_map[start] + 1].arg = PcOf(b)
    <3>1. Decoded(CommandOf(inst[start]), b).bc \in Branches
      BY <2>1, <2>3, <2>5
    <3>2. QED
      BY <2>5, <2>7, <3>1, DecodedBranch
  <2>9. QED
    BY <2>2, <2>3, <2>6, <2>8 DEF PcOf
<1>2. QED
  BY <1>1, AlwaysLandInv, PTL

-----------------------------------------------------------------------------
(* The code of functions, written as bytes: the addresses are the sums of    *)
(* the widths.                                                               *)
IsSum(f, w, N) == f = [n \in 0 .. N |-> IF n = 0 THEN 0 ELSE f[n - 1] + w[n]]

LEMMA SumsExist ==
    ASSUME NEW N \in Nat, NEW w, \A n \in 1 .. N : w[n] \in Nat
    PROVE  \E f \in [0 .. N -> Nat] : IsSum(f, w, N)
<1> DEFINE Good(n) == \E f \in [0 .. n -> Nat] : IsSum(f, w, n)
           T == {n \in 0 .. N : ~Good(n)}
<1>1. SUFFICES ASSUME T # {}
               PROVE  FALSE
  <2>1. N \in 0 .. N
    OBVIOUS
  <2>2. T = {} => Good(N)
    <3> HIDE DEF Good
    <3>1. QED
      BY <2>1
  <2>3. QED
    BY <2>2
<1>2. PICK n \in T : \A m \in T : n <= m
  <2>1. T \subseteq Nat
    OBVIOUS
  <2> HIDE DEF T
  <2>2. QED
    BY <1>1, <2>1, LeastNumber
<1>3. n \in 0 .. N /\ ~Good(n)
  BY <1>2
<1>4. n # 0
  <2> DEFINE g == [m \in 0 .. 0 |-> 0]
  <2>1. g \in [0 .. 0 -> Nat] /\ IsSum(g, w, 0)
    BY DEF IsSum
  <2> HIDE DEF g
  <2>2. QED
    BY <1>3, <2>1
<1>5. n - 1 \in 0 .. N /\ n \in 1 .. N /\ ~(n <= n - 1)
  BY <1>3, <1>4
<1>6. PICK f \in [0 .. n - 1 -> Nat] : IsSum(f, w, n - 1)
  <2>1. n - 1 \notin T
    BY <1>2, <1>5
  <2>2. QED
    BY <1>5, <2>1
<1> DEFINE g == [m \in 0 .. n |-> IF m = n THEN f[n - 1] + w[n] ELSE f[m]]
<1>7. f[n - 1] \in Nat /\ w[n] \in Nat
  BY <1>5, <1>6
<1>8. g \in [0 .. n -> Nat]
  BY <1>5, <1>6, <1>7
<1>9. \A m \in 0 .. n : g[m] = IF m = 0 THEN 0 ELSE g[m - 1] + w[m]
  <2>1. \A m \in 0 .. n - 1 : f[m] = IF m = 0 THEN 0 ELSE f[m - 1] + w[m]
    BY <1>6 DEF IsSum
  <2>2. \A m \in 0 .. n - 1 : g[m] = f[m]
    BY <1>5
  <2>3. g[n] = f[n - 1] + w[n]
    BY <1>5
  <2> HIDE DEF g
  <2>4. ASSUME NEW m \in 0 .. n
        PROVE  g[m] = IF m = 0 THEN 0 ELSE g[m - 1] + w[m]
    <3>1. CASE m = n
      BY <1>5, <2>2, <2>3, <3>1
    <3>2. CASE m # n
      BY <1>5, <2>1, <2>2, <3>2
    <3>3. QED
      BY <3>1, <3>2
  <2>5. QED
    BY <2>4
<1>10. IsSum(g, w, n)
  BY <1>9 DEF IsSum
<1>11. QED
  BY <1>3, <1>8, <1>10

Positive(w, N) == \A n \in 1 .. N : w[n] \in Nat \ {0}

Grows(f, w, N) ==
    /\ f[0] = 0
    /\ \A n \in 1 .. N : f[n] = f[n - 1] + w[n]
    /\ \A n \in 0 .. N : f[n] \in Nat
    /\ \A n \in 0 .. N : \A m \in 0 .. n - 1 : f[m] < f[n]

LEMMA SumsGrow ==
    ASSUME NEW N \in Nat, NEW w, Positive(w, N), NEW f, IsSum(f, w, N)
    PROVE  Grows(f, w, N)
<1> DEFINE T == {n \in 0 .. N : ~(f[n] \in Nat /\ \A m \in 0 .. n - 1 : f[m] < f[n])}
<1>1. \A n \in 0 .. N : f[n] = IF n = 0 THEN 0 ELSE f[n - 1] + w[n]
  BY DEF IsSum
<1>2. f[0] = 0 /\ \A n \in 1 .. N : f[n] = f[n - 1] + w[n]
  BY <1>1
<1>3. T = {}
  <2>1. SUFFICES ASSUME T # {}
                 PROVE  FALSE
    OBVIOUS
  <2>2. PICK n \in T : \A m \in T : n <= m
    <3>1. T \subseteq Nat
      OBVIOUS
    <3> HIDE DEF T
    <3>2. QED
      BY <2>1, <3>1, LeastNumber
  <2>3. n # 0
    BY <1>2, <2>2
  <2>4. n \in 1 .. N /\ n - 1 \in 0 .. N /\ n - 1 \notin T
    BY <2>2, <2>3
  <2>5. f[n - 1] \in Nat /\ \A m \in 0 .. n - 1 - 1 : f[m] < f[n - 1]
    BY <2>4
  <2>6. f[n] = f[n - 1] + w[n] /\ w[n] \in Nat \ {0}
    BY <1>2, <2>4 DEF Positive
  <2>7. ASSUME NEW m \in 0 .. n - 1
        PROVE  f[m] < f[n]
    <3>1. CASE m = n - 1
      BY <2>5, <2>6, <3>1
    <3>2. CASE m # n - 1
      <4>1. m \in 0 .. n - 1 - 1 /\ m \in 0 .. N
        BY <2>4, <3>2
      <4>2. f[m] < f[n - 1] /\ f[m] \in Nat
        <5>1. m \notin T
          BY <2>2, <2>4, <4>1
        <5>2. QED
          BY <2>5, <4>1, <5>1
      <4>3. QED
        BY <2>5, <2>6, <4>2
    <3>3. QED
      BY <3>1, <3>2
  <2>8. QED
    BY <2>2, <2>5, <2>6, <2>7
<1>4. QED
  BY <1>2, <1>3 DEF Grows

-----------------------------------------------------------------------------
(* An instruction stands as a command and a number, which decode to it again.*)
Operand(address, x) == IF x.bc \in Branches THEN address[x.arg] ELSE Number(x)

Addressed(address, last) == \A k \in 0 .. last - 1 : Between(address[k], 0, 65535)

ArgNames == {WithArg[a] : a \in DOMAIN WithArg}

(* No two of the tables have a name in common.                               *)
LEMMA TablesDiffer ==
    /\ \A a \in DOMAIN WithArg : WithArg[a] \notin Branches
    /\ \A n \in 1 .. 8 : Simple[n] \notin Branches /\ Simple[n] \notin ArgNames
    /\ \A n \in 1 .. 25 : FreqFunc[n] \notin Branches /\ FreqFunc[n] \notin ArgNames
    /\ \A n \in 1 .. 8 : \A m \in 1 .. 25 : Simple[n] # FreqFunc[m]
<1> DEFINE C == {Commands[n] : n \in 1 .. 23}
<1>1. \A n \in 1 .. 23 : n \notin {9, 10, 11, 21} => Commands[n] \notin Branches
  BY DEF Commands, Branches
<1>2. ASSUME NEW a \in DOMAIN WithArg
      PROVE  a - 2 \in 1 .. 23 \ {9, 10, 11, 21, 22} /\ WithArg[a] = Commands[a - 2]
  BY DEF WithArg
<1>3. C \subseteq {"Push", "PushConst", "Call", "Invoke", "Send", "SendIfDefined", "Resend",
                   "ResendIfDefined", "Branch", "BranchIfTrue", "BranchIfFalse", "FindVar", "GetVar",
                   "MakeFrame", "MakeArray", "GetPath", "SetPath", "SetVar", "FindAndSetVar",
                   "IncrVar", "BranchLoop", "Unknown", "NewHandler"}
  BY DEF Commands
<1>4. \A n \in 1 .. 8 : Simple[n] \in {"Pop", "Dup", "Return", "PushSelf", "SetLexScope",
                                       "IterNext", "IterDone", "PopHandlers"}
  BY DEF Simple
<1>5. \A n \in 1 .. 25 : FreqFunc[n] \in
         {"Add", "Subtract", "ARef", "SetARef", "Equals", "Not", "NotEquals", "Multiply",
          "Divide", "Div", "LessThan", "GreaterThan", "GreaterOrEqual", "LessOrEqual",
          "BitAnd", "BitOr", "BitNot", "NewIter", "Length", "Clone", "SetClass",
          "AddArraySlot", "Stringer", "HasPath", "ClassOf"}
  BY DEF FreqFunc
<1>6. ArgNames \subseteq C
  BY <1>2 DEF ArgNames
<1> HIDE DEF C
<1>7. \A n \in 1 .. 8 : Simple[n] \notin Branches /\ Simple[n] \notin ArgNames
  BY <1>3, <1>4, <1>6 DEF Branches
<1>8. \A n \in 1 .. 25 : FreqFunc[n] \notin Branches /\ FreqFunc[n] \notin ArgNames
  BY <1>3, <1>5, <1>6 DEF Branches
<1>9. \A n \in 1 .. 8 : \A m \in 1 .. 25 : Simple[n] # FreqFunc[m]
  BY <1>4, <1>5
<1>10. QED
  BY <1>1, <1>2, <1>7, <1>8, <1>9

(* 16 bits keep an argument with its sign.                                   *)
LEMMA SignedAgain ==
    ASSUME NEW arg, Between(arg, -32768, 32767)
    PROVE  Between(arg % 65536, 0, 65535) /\ Signed(arg % 65536) = arg
<1>1. arg \in Int /\ -32768 <= arg /\ arg <= 32767
  BY DEF Between
<1>2. arg % 65536 = IF arg >= 0 THEN arg ELSE arg + 65536
  BY <1>1
<1>3. QED
  BY <1>1, <1>2 DEF Signed, Between

LEMMA DecodesAgain ==
    ASSUME NEW last \in Nat, NEW x, IsWritten(x, last), NEW A, Addressed(A, last),
           NEW b, b = Operand(A, x), NEW a, a = Command(x.bc)
    PROVE  /\ a \in 0 .. 25 /\ Between(b, 0, 65535)
           /\ x.bc # "NewHandler" /\ x.bc # "EndOfFile"
           /\ Width(x) \in {1, 3} /\ (Width(x) = 1 => b <= 6)
           /\ IF x.bc \in Branches
              THEN Decoded(a, b) = Instruction(x.bc, PcOf(A[x.arg]), 0)
              ELSE Decoded(a, b) = Instruction(x.bc, x.arg, 0)
<1>1. Width(x) \in {1, 3}
  BY DEF Width
<1>2. CASE x.bc \in Branches /\ x.arg \in 0 .. last - 1
  <2>1. a = CHOOSE c \in DOMAIN WithAddress : WithAddress[c] = x.bc
    <3>1. x.bc \notin ArgNames
      BY <1>2, TablesDiffer DEF ArgNames
    <3>2. QED
      BY <1>2, <3>1 DEF Command, ArgNames
  <2>2. \E c \in DOMAIN WithAddress : WithAddress[c] = x.bc
    <3>1. /\ 11 \in DOMAIN WithAddress /\ WithAddress[11] = "Branch"
          /\ 12 \in DOMAIN WithAddress /\ WithAddress[12] = "BranchIfTrue"
          /\ 13 \in DOMAIN WithAddress /\ WithAddress[13] = "BranchIfFalse"
          /\ 23 \in DOMAIN WithAddress /\ WithAddress[23] = "BranchLoop"
      BY DEF WithAddress, Commands
    <3>2. QED
      BY <1>2, <3>1 DEF Branches
  <2>3. a \in DOMAIN WithAddress /\ WithAddress[a] = x.bc
    BY <2>1, <2>2
  <2>4. a \in {11, 12, 13, 23} /\ a \notin DOMAIN WithArg /\ a \in 0 .. 25 /\ a # 0 /\ a # 24
    BY <2>3 DEF WithAddress, WithArg
  <2>5. b = A[x.arg] /\ Between(b, 0, 65535)
    BY <1>2 DEF Operand, Addressed
  <2>6. Decoded(a, b) = Instruction(x.bc, PcOf(A[x.arg]), 0)
    BY <2>3, <2>4, <2>5 DEF Decoded
  <2>7. Width(x) = 3 /\ x.bc # "NewHandler" /\ x.bc # "EndOfFile"
    BY <1>2 DEF Width, Branches
  <2>8. QED
    BY <1>2, <2>4, <2>5, <2>6, <2>7
<1>3. CASE x.bc \in ArgNames \ {"NewHandler"} /\ Between(x.arg, -32768, 32767)
  <2>1. x.bc \notin Branches
    BY <1>3, TablesDiffer DEF ArgNames
  <2>2. a \in DOMAIN WithArg /\ WithArg[a] = x.bc
    BY <1>3 DEF Command, ArgNames
  <2>3. a \in 3 .. 25 /\ a # 0 /\ a # 24
    BY <2>2 DEF WithArg
  <2>4. b = x.arg % 65536 /\ b = Number(x)
    BY <2>1, <2>3 DEF Operand, Number
  <2>5. Between(b, 0, 65535) /\ Signed(b) = x.arg
    BY <1>3, <2>4, SignedAgain
  <2>6. Decoded(a, b) = Instruction(x.bc, x.arg, 0)
    <3>1. a \in DOMAIN WithArg /\ a # 0 /\ a # 24
      BY <2>2, <2>3
    <3>2. Decoded(a, b) = Instruction(WithArg[a], Signed(b), 0)
      BY <3>1 DEF Decoded
    <3>3. WithArg[a] = x.bc /\ Signed(b) = x.arg
      BY <2>2, <2>5
    <3>4. QED
      BY <3>2, <3>3
  <2>7. Width(x) = 1 => b <= 6
    <3>1. b \in Int
      BY <2>5 DEF Between
    <3>2. Width(x) = 1 => ~(b > 6)
      BY <2>4 DEF Width
    <3>3. QED
      BY <3>1, <3>2
  <2>8. x.bc # "EndOfFile"
    BY <2>2, <2>3, CommandsNames DEF WithArg, Names
  <2>9. QED
    BY <1>1, <1>3, <2>1, <2>3, <2>5, <2>6, <2>7, <2>8
<1>4. CASE (\E i \in DOMAIN Simple : Simple[i] = x.bc) /\ x.arg = 0
  <2>1. DOMAIN Simple = 1 .. 8
    BY DEF Simple
  <2>2. x.bc \notin Branches /\ x.bc \notin ArgNames
    BY <1>4, <2>1, TablesDiffer
  <2>3. a = 0
    BY <1>4, <2>2 DEF Command, ArgNames
  <2>4. PICK i : i = CHOOSE j \in DOMAIN Simple : Simple[j] = x.bc
    OBVIOUS
  <2>5. i \in 1 .. 8 /\ Simple[i] = x.bc
    BY <1>4, <2>1, <2>4
  <2>6. b = i - 1 /\ b = Number(x)
    BY <2>2, <2>3, <2>4 DEF Operand, Number
  <2>7. Decoded(a, b) = Instruction(x.bc, x.arg, 0)
    BY <1>4, <2>3, <2>5, <2>6, SimpleNames DEF Decoded
  <2>8. Width(x) = 1 => b <= 6
    BY <2>5, <2>6 DEF Width
  <2>9. x.bc # "EndOfFile" /\ x.bc # "NewHandler"
    BY <2>5 DEF Simple
  <2>10. QED
    BY <1>1, <2>2, <2>3, <2>5, <2>6, <2>7, <2>8, <2>9 DEF Between
<1>5. CASE (\E i \in DOMAIN FreqFunc : FreqFunc[i] = x.bc) /\ x.arg = 0
  <2>1. DOMAIN FreqFunc = 1 .. 25 /\ DOMAIN Simple = 1 .. 8
    BY DEF FreqFunc, Simple
  <2>2. x.bc \notin Branches /\ x.bc \notin ArgNames /\ \A i \in 1 .. 8 : Simple[i] # x.bc
    BY <1>5, <2>1, TablesDiffer
  <2>3. a = 24
    BY <2>1, <2>2 DEF Command, ArgNames
  <2>4. PICK i : i = CHOOSE j \in DOMAIN FreqFunc : FreqFunc[j] = x.bc
    OBVIOUS
  <2>5. i \in 1 .. 25 /\ FreqFunc[i] = x.bc
    BY <1>5, <2>1, <2>4
  <2>6. b = i - 1 /\ b = Number(x)
    BY <2>2, <2>3, <2>4 DEF Operand, Number
  <2>7. Decoded(a, b) = Instruction(x.bc, x.arg, 0)
    BY <1>5, <2>3, <2>5, <2>6, FreqFuncNames DEF Decoded
  <2>8. Width(x) = 1 => b <= 6
    BY <2>5, <2>6 DEF Width
  <2>9. x.bc # "EndOfFile" /\ x.bc # "NewHandler"
    BY <2>5 DEF FreqFunc
  <2>10. QED
    BY <1>1, <2>2, <2>3, <2>5, <2>6, <2>7, <2>8, <2>9 DEF Between
<1>6. QED
  BY <1>2, <1>3, <1>4, <1>5 DEF IsWritten, ArgNames

LEMMA BytesOf ==
    ASSUME NEW last \in Nat, NEW x, IsWritten(x, last), NEW A, Addressed(A, last),
           NEW B, B = Bytes(A, x)
    PROVE  /\ \A j \in 1 .. Width(x) : IsByte(B[j])
           /\ CommandOf(B[1]) = Command(x.bc)
           /\ Width(x) = 3 => IsLong(B[1]) /\ B[2] * 256 + B[3] = Operand(A, x)
           /\ Width(x) = 1 => ~IsLong(B[1]) /\ ShortArg(B[1]) = Operand(A, x)
<1>1. PICK a : a = Command(x.bc)
  OBVIOUS
<1>2. PICK b : b = Operand(A, x)
  OBVIOUS
<1>3. /\ a \in Int /\ 0 <= a /\ a <= 25
      /\ b \in Int /\ 0 <= b /\ b <= 65535
      /\ Width(x) = 1 => b <= 6
  BY <1>1, <1>2, DecodesAgain DEF Between
<1>4. B = IF Width(x) = 3 THEN <<a * 8 + 7, b \div 256, b % 256>> ELSE <<a * 8 + b>>
  <2>1. CASE x.bc \in Branches
    BY <1>1, <1>2, <2>1, SMTT(30) DEF Bytes, Operand
  <2>2. CASE x.bc \notin Branches
    BY <1>1, <1>2, <2>2, SMTT(30) DEF Bytes, Operand
  <2>3. QED
    BY <2>1, <2>2
<1>5. CASE Width(x) = 3
  <2>1. PICK hi, lo : hi = b \div 256 /\ lo = b % 256
    OBVIOUS
  <2>2. hi \in 0 .. 255 /\ lo \in 0 .. 255 /\ hi * 256 + lo = b
    BY <1>3, <2>1
  <2>3. B[1] = a * 8 + 7 /\ B[2] = hi /\ B[3] = lo
    BY <1>4, <1>5, <2>1
  <2>4. CommandOf(B[1]) = a /\ IsLong(B[1]) /\ IsByte(B[1])
    BY <1>3, <2>3 DEF CommandOf, IsLong, ShortArg, IsByte, Between
  <2>5. IsByte(B[2]) /\ IsByte(B[3])
    BY <2>2, <2>3 DEF IsByte, Between
  <2>6. \A j \in 1 .. 3 : IsByte(B[j])
    <3>1. \A j \in 1 .. 3 : j = 1 \/ j = 2 \/ j = 3
      OBVIOUS
    <3>2. QED
      BY <2>4, <2>5, <3>1
  <2>7. QED
    BY <1>1, <1>2, <1>5, <2>2, <2>3, <2>4, <2>6
<1>6. CASE Width(x) = 1
  <2>1. B[1] = a * 8 + b /\ b <= 6
    BY <1>3, <1>4, <1>6
  <2>2. CommandOf(B[1]) = a /\ ShortArg(B[1]) = b /\ IsByte(B[1])
    BY <1>3, <2>1 DEF CommandOf, ShortArg, IsByte, Between
  <2>3. \A j \in 1 .. 1 : IsByte(B[j])
    BY <2>2
  <2>4. ~IsLong(B[1])
    BY <1>3, <2>1, <2>2 DEF IsLong
  <2>5. QED
    BY <1>1, <1>2, <1>6, <2>2, <2>3, <2>4
<1>7. QED
  BY <1>5, <1>6, DecodesAgain

-----------------------------------------------------------------------------
(* The bytes of a source, and where its instructions stand among them.       *)
Laid(code, last, A) ==
    /\ last \in Nat
    /\ A[0] = 0
    /\ \A n \in 1 .. last : A[n] = A[n - 1] + Width(code[n])
    /\ \A n \in 0 .. last : A[n] \in Nat
    /\ \A n \in 0 .. last : \A m \in 0 .. n - 1 : A[m] < A[n]
    /\ \A n \in 1 .. last : IsWritten(code[n], last)
    /\ Addressed(A, last)

LEMMA LaidOut ==
    ASSUME NEW code, IsSource(code), NEW last, last = Len(code) - 1, NEW A, A = Addresses(code)
    PROVE  Laid(code, last, A)
<1>1. /\ last \in Nat
      /\ \A n \in 1 .. last : IsWritten(code[n], last)
      /\ A[last] <= 65536
  <2>1. code \in Seq([bc : Bytecodes, arg : Int, references : {0}]) /\ code # << >>
    BY DEF IsSource
  <2>2. Len(code) \in Nat /\ Len(code) # 0
    BY <2>1, EmptySeq, LenProperties
  <2>3. QED
    BY <2>2 DEF IsSource
<1> DEFINE w == [n \in 1 .. last |-> Width(code[n])]
           Equation(f) == f = [n \in 0 .. last |-> IF n = 0 THEN 0 ELSE f[n - 1] + Width(code[n])]
<1>2. \A n \in 1 .. last : w[n] \in Nat /\ w[n] \in Nat \ {0} /\ w[n] = Width(code[n])
  BY DEF Width
<1>3. ASSUME NEW f
      PROVE  Equation(f) <=> IsSum(f, w, last)
  <2>1. \A n \in 0 .. last : (IF n = 0 THEN 0 ELSE f[n - 1] + Width(code[n]))
                             = (IF n = 0 THEN 0 ELSE f[n - 1] + w[n])
    <3>1. \A n \in 0 .. last : n = 0 \/ n \in 1 .. last
      BY <1>1
    <3> HIDE DEF w
    <3>2. QED
      BY <1>2, <3>1
  <2> HIDE DEF w
  <2>2. QED
    BY <2>1 DEF IsSum
<1>4. A = CHOOSE f : Equation(f)
  BY DEF Addresses
<1> HIDE DEF w, Equation
<1>5. IsSum(A, w, last)
  <2>1. \E f \in [0 .. last -> Nat] : IsSum(f, w, last)
    <3>1. last \in Nat /\ \A n \in 1 .. last : w[n] \in Nat
      BY <1>1, <1>2
    <3>2. QED
      BY <3>1, SumsExist, Zenon
  <2>2. \E f : Equation(f)
    BY <1>3, <2>1
  <2>3. QED
    BY <1>3, <1>4, <2>2
<1>6. /\ A[0] = 0
      /\ \A n \in 1 .. last : A[n] = A[n - 1] + w[n]
      /\ \A n \in 0 .. last : A[n] \in Nat
      /\ \A n \in 0 .. last : \A m \in 0 .. n - 1 : A[m] < A[n]
  <2>1. last \in Nat /\ Positive(w, last)
    BY <1>1, <1>2 DEF Positive
  <2>2. Grows(A, w, last)
    BY <1>5, <2>1, SumsGrow
  <2>3. QED
    BY <2>2 DEF Grows
<1>7. Addressed(A, last)
  <2>1. ASSUME NEW k \in 0 .. last - 1
        PROVE  Between(A[k], 0, 65535)
    <3>1. A[k] \in Nat /\ A[last] \in Nat /\ A[k] < A[last]
      BY <1>1, <1>6
    <3>2. QED
      BY <1>1, <3>1 DEF Between
  <2>2. QED
    BY <2>1 DEF Addressed
<1>8. \A n \in 1 .. last : A[n] = A[n - 1] + Width(code[n])
  BY <1>2, <1>6
<1>9. QED
  BY <1>1, <1>6, <1>7, <1>8 DEF Laid

(* Each byte belongs to one instruction.                                     *)
Holds(A, n, i) == A[n - 1] <= i /\ i < A[n]

LEMMA OneOwner ==
    ASSUME NEW code, NEW last, NEW A, Laid(code, last, A), NEW i \in 0 .. A[last] - 1
    PROVE  /\ \E n \in 1 .. last : Holds(A, n, i)
           /\ \A m, n \in 1 .. last : Holds(A, m, i) /\ Holds(A, n, i) => m = n
<1> DEFINE T == {n \in 0 .. last : i < A[n]}
<1>1. last \in Nat /\ A[0] = 0 /\ A[last] \in Nat /\ \A n \in 0 .. last : A[n] \in Nat
  BY DEF Laid
<1>2. i \in Nat /\ i < A[last] /\ T # {} /\ T \subseteq Nat
  BY <1>1
<1>3. PICK n \in T : \A m \in T : n <= m
  <2> HIDE DEF T
  <2>1. QED
    BY <1>2, LeastNumber
<1>4. n \in 1 .. last /\ n - 1 \in 0 .. last /\ i < A[n] /\ n - 1 \notin T
  <2>1. n # 0
    BY <1>1, <1>2, <1>3
  <2>2. n \in 1 .. last /\ n - 1 \in 0 .. last /\ ~(n <= n - 1) /\ i < A[n]
    BY <1>1, <1>3, <2>1
  <2> HIDE DEF T
  <2>3. QED
    BY <1>3, <2>2
<1>5. Holds(A, n, i)
  BY <1>1, <1>2, <1>4 DEF Holds
<1>6. ASSUME NEW m \in 1 .. last, NEW k \in 1 .. last, Holds(A, m, i), Holds(A, k, i), m < k
      PROVE  FALSE
  <2>1. A[m] <= A[k - 1]
    <3>1. CASE m = k - 1
      BY <1>1, <3>1
    <3>2. CASE m # k - 1
      <4>1. k - 1 \in 0 .. last /\ m \in 0 .. k - 1 - 1
        BY <1>1, <1>6, <3>2
      <4>2. A[m] < A[k - 1]
        BY <4>1 DEF Laid
      <4>3. QED
        BY <1>1, <4>1, <4>2
    <3>3. QED
      BY <3>1, <3>2
  <2>2. A[m] \in Nat /\ A[k - 1] \in Nat /\ i < A[m] /\ A[k - 1] <= i
    BY <1>1, <1>6 DEF Holds
  <2>3. QED
    BY <1>2, <2>1, <2>2
<1>7. ASSUME NEW m \in 1 .. last, NEW k \in 1 .. last, Holds(A, m, i), Holds(A, k, i)
      PROVE  m = k
  <2>1. ~(m < k) /\ ~(k < m)
    BY <1>6, <1>7
  <2>2. QED
    BY <2>1
<1>8. QED
  BY <1>4, <1>5, <1>7

LEMMA ByteOf ==
    ASSUME NEW code, IsSource(code), NEW last, last = Len(code) - 1, NEW A, A = Addresses(code),
           NEW s, s = Assembled(code)
    PROVE  /\ DOMAIN s = 0 .. A[last] - 1
           /\ \A n \in 1 .. last : \A i \in 0 .. A[last] - 1 :
                 Holds(A, n, i) => s[i] = Bytes(A, code[n])[i - A[n - 1] + 1]
<1>1. Laid(code, last, A)
  BY LaidOut
<1> DEFINE Owner(i) == CHOOSE n \in 1 .. last : Holds(A, n, i)
<1>2. s = [i \in 0 .. A[last] - 1 |-> Bytes(A, code[Owner(i)])[i - A[Owner(i) - 1] + 1]]
  BY DEF Assembled, Holds
<1>3. ASSUME NEW n \in 1 .. last, NEW i \in 0 .. A[last] - 1, Holds(A, n, i)
      PROVE  Owner(i) = n
  <2>1. Owner(i) \in 1 .. last /\ Holds(A, Owner(i), i)
    BY <1>3
  <2> HIDE DEF Owner
  <2>2. QED
    BY <1>1, <1>3, <2>1, OneOwner
<1> HIDE DEF Owner
<1>4. QED
  BY <1>2, <1>3

(* The bytes of an instruction stand behind those of the one before.         *)
StandsAt(x, A, s, at) ==
    \A j \in 0 .. Width(x) - 1 : at + j \in DOMAIN s /\ s[at + j] = Bytes(A, x)[j + 1]

LEMMA BytesInPlace ==
    ASSUME NEW code, IsSource(code), NEW last, last = Len(code) - 1, NEW A, A = Addresses(code),
           NEW s, s = Assembled(code), NEW n \in 1 .. last
    PROVE  StandsAt(code[n], A, s, A[n - 1])
<1>1. Laid(code, last, A)
  BY LaidOut
<1>2. PICK at : at = A[n - 1]
  OBVIOUS
<1>3. PICK x : x = code[n]
  OBVIOUS
<1>4. /\ last \in Nat /\ n - 1 \in 0 .. last /\ n \in 0 .. last
      /\ at \in Nat /\ Width(x) \in {1, 3} /\ A[n] = at + Width(x)
      /\ A[n] \in Nat /\ A[last] \in Nat
  <2>1. last \in Nat /\ n - 1 \in 0 .. last /\ n \in 0 .. last /\ last \in 0 .. last
    BY <1>1 DEF Laid
  <2>2. QED
    BY <1>1, <1>2, <1>3, <2>1 DEF Laid, Width
<1>5. A[n] <= A[last]
  <2>1. n = last \/ n \in 0 .. last - 1
    BY <1>4
  <2>2. CASE n \in 0 .. last - 1
    <3>1. A[n] < A[last]
      BY <1>1, <1>4, <2>2 DEF Laid
    <3>2. QED
      BY <1>4, <3>1
  <2>3. QED
    BY <1>4, <2>1, <2>2
<1>6. /\ DOMAIN s = 0 .. A[last] - 1
      /\ \A m \in 1 .. last : \A i \in 0 .. A[last] - 1 :
            Holds(A, m, i) => s[i] = Bytes(A, code[m])[i - A[m - 1] + 1]
  BY ByteOf
<1>7. ASSUME NEW j \in 0 .. Width(x) - 1
      PROVE  at + j \in DOMAIN s /\ s[at + j] = Bytes(A, x)[j + 1]
  <2>1. PICK i : i = at + j
    OBVIOUS
  <2>2. i \in 0 .. A[last] - 1 /\ at <= i /\ i < A[n] /\ i - at + 1 = j + 1
    <3>1. j \in Nat /\ j < Width(x)
      BY <1>4
    <3>2. QED
      BY <1>4, <1>5, <2>1, <3>1
  <2>3. Holds(A, n, i)
    BY <1>2, <2>2 DEF Holds
  <2>4. i \in DOMAIN s /\ s[i] = Bytes(A, x)[i - at + 1]
    BY <1>2, <1>3, <1>6, <2>2, <2>3
  <2>5. QED
    BY <2>1, <2>2, <2>4
<1>8. QED
  BY <1>2, <1>3, <1>7 DEF StandsAt

LEMMA AssembledIsBinary ==
    ASSUME NEW code, IsSource(code)
    PROVE  IsBinary(Assembled(code))
<1>1. PICK s : s = Assembled(code)
  OBVIOUS
<1>2. PICK last : last = Len(code) - 1
  OBVIOUS
<1>3. PICK A : A = Addresses(code)
  OBVIOUS
<1>4. Laid(code, last, A)
  BY <1>2, <1>3, LaidOut
<1>5. DOMAIN s = 0 .. A[last] - 1 /\ A[last] \in Nat /\ last \in Nat
  BY <1>1, <1>2, <1>3, <1>4, ByteOf DEF Laid
<1>6. ASSUME NEW i \in 0 .. A[last] - 1
      PROVE  IsByte(s[i])
  <2>1. PICK n \in 1 .. last : Holds(A, n, i)
    BY <1>4, OneOwner
  <2>2. s[i] = Bytes(A, code[n])[i - A[n - 1] + 1]
    BY <1>1, <1>2, <1>3, <2>1, ByteOf
  <2>3. \A j \in 1 .. Width(code[n]) : IsByte(Bytes(A, code[n])[j])
    BY <1>4, <1>5, BytesOf DEF Laid
  <2>4. i - A[n - 1] + 1 \in 1 .. Width(code[n])
    <3>1. n - 1 \in 0 .. last /\ n \in 0 .. last
      BY <1>5
    <3>2. A[n - 1] \in Nat /\ A[n] \in Nat /\ A[n] = A[n - 1] + Width(code[n]) /\ Width(code[n]) \in {1, 3}
      BY <1>4, <3>1 DEF Laid, Width
    <3>3. QED
      BY <1>5, <2>1, <3>2 DEF Holds
  <2>5. QED
    BY <2>2, <2>3, <2>4
<1>7. Cardinality(DOMAIN s) = A[last]
  <2>1. PICK z : z = A[last] - 1
    OBVIOUS
  <2>2. z \in Int /\ 0 .. z = DOMAIN s
    BY <1>5, <2>1
  <2>3. Cardinality(0 .. z) = IF 0 > z THEN 0 ELSE z - 0 + 1
    BY <2>2, FS_Interval
  <2>4. QED
    BY <1>5, <2>1, <2>2, <2>3
<1>8. s = [k \in 0 .. A[last] - 1 |-> s[k]]
  <2>1. s = [k \in DOMAIN s |-> s[k]]
    BY <1>1 DEF Assembled
  <2>2. QED
    BY <1>5, <2>1
<1>9. QED
  BY <1>1, <1>5, <1>6, <1>7, <1>8, Zenon DEF IsBinary

(* The transcoder reads at an address what was written there.                *)
AsWritten(code, last, A) ==
    /\ Size = A[last]
    /\ \A n \in 1 .. last :
          /\ A[n - 1] \in DOMAIN inst /\ After(A[n - 1]) = A[n]
          /\ CommandOf(inst[A[n - 1]]) = Command(code[n].bc)
          /\ ArgsAt(A[n - 1]) = {Operand(A, code[n])}

LEMMA ReadsBack ==
    ASSUME NEW code, IsSource(code), NEW last, last = Len(code) - 1, NEW A, A = Addresses(code),
           inst = Assembled(code)
    PROVE  AsWritten(code, last, A)
<1>1. Laid(code, last, A)
  BY LaidOut
<1>2. IsBinary(inst)
  BY AssembledIsBinary
<1>3. Size = A[last] /\ A[last] \in Nat /\ last \in Nat /\ DOMAIN inst = 0 .. A[last] - 1
  <2>1. DOMAIN inst = 0 .. A[last] - 1 /\ A[last] \in Nat /\ last \in Nat
    BY <1>1, ByteOf DEF Laid
  <2>2. Size \in Nat /\ DOMAIN inst = 0 .. Size - 1
    BY <1>2, Bytewise
  <2>3. Size = A[last]
    <3>1. ASSUME NEW m \in Nat, NEW n \in Nat, 0 .. m - 1 = 0 .. n - 1, m < n
          PROVE  FALSE
      <4>1. m \in 0 .. n - 1 /\ m \notin 0 .. m - 1
        BY <3>1
      <4>2. QED
        BY <3>1, <4>1
    <3>2. ~(Size < A[last]) /\ ~(A[last] < Size)
      BY <2>1, <2>2, <3>1
    <3>3. QED
      BY <2>1, <2>2, <3>2
  <2>4. QED
    BY <2>1, <2>3
<1>4. ASSUME NEW n \in 1 .. last
      PROVE  /\ A[n - 1] \in DOMAIN inst /\ After(A[n - 1]) = A[n]
             /\ CommandOf(inst[A[n - 1]]) = Command(code[n].bc)
             /\ ArgsAt(A[n - 1]) = {Operand(A, code[n])}
  <2>1. PICK x : x = code[n]
    OBVIOUS
  <2>2. PICK at : at = A[n - 1]
    OBVIOUS
  <2>3. PICK B : B = Bytes(A, x)
    OBVIOUS
  <2>4. /\ A[n] = at + Width(x) /\ IsWritten(x, last) /\ Addressed(A, last)
        /\ at \in Nat /\ Width(x) \in {1, 3}
    <3>1. n - 1 \in 0 .. last
      BY <1>3
    <3>2. QED
      BY <1>1, <2>1, <2>2, <3>1 DEF Laid, Width
  <2>5. /\ CommandOf(B[1]) = Command(x.bc)
        /\ Width(x) = 3 => IsLong(B[1]) /\ B[2] * 256 + B[3] = Operand(A, x)
        /\ Width(x) = 1 => ~IsLong(B[1]) /\ ShortArg(B[1]) = Operand(A, x)
    <3>1. last \in Nat /\ IsWritten(x, last) /\ Addressed(A, last)
      BY <1>3, <2>4
    <3>2. QED
      BY <2>3, <3>1, BytesOf
  <2>6. \A j \in 0 .. Width(x) - 1 : at + j \in DOMAIN inst /\ inst[at + j] = B[j + 1]
    <3>1. StandsAt(code[n], A, inst, A[n - 1])
      BY BytesInPlace
    <3>2. QED
      BY <2>1, <2>2, <2>3, <3>1 DEF StandsAt
  <2>7. at \in DOMAIN inst /\ inst[at] = B[1]
    <3>1. 0 \in 0 .. Width(x) - 1 /\ at + 0 = at /\ 0 + 1 = 1
      BY <2>4
    <3>2. QED
      BY <2>6, <3>1
  <2>8. After(at) = A[n]
    BY <2>4, <2>5, <2>7 DEF After
  <2>9. ArgsAt(at) = {Operand(A, x)}
    <3>1. CASE Width(x) = 1
      BY <2>5, <2>7, <3>1 DEF ArgsAt
    <3>2. CASE Width(x) = 3
      <4>1. 1 \in 0 .. Width(x) - 1 /\ 2 \in 0 .. Width(x) - 1 /\ 1 + 1 = 2 /\ 2 + 1 = 3
        BY <3>2
      <4>2. /\ at + 1 \in DOMAIN inst /\ inst[at + 1] = B[2]
            /\ at + 2 \in DOMAIN inst /\ inst[at + 2] = B[3]
        BY <2>6, <4>1
      <4>3. BytesAt(at + 1) = {B[2]} /\ BytesAt(at + 2) = {B[3]}
        <5>1. at + 1 < Size /\ at + 2 < Size
          BY <1>3, <2>4, <4>2
        <5>2. QED
          BY <4>2, <5>1 DEF BytesAt
      <4>4. ArgsAt(at) = {hi * 256 + lo : hi \in {B[2]}, lo \in {B[3]}}
        BY <2>5, <2>7, <3>2, <4>3 DEF ArgsAt
      <4>5. QED
        BY <2>5, <3>2, <4>4
    <3>3. QED
      BY <2>4, <3>1, <3>2
  <2>10. QED
    BY <2>1, <2>2, <2>5, <2>7, <2>8, <2>9
<1>5. QED
  BY <1>3, <1>4 DEF AsWritten

(* The first pass finds the instructions where they were written,            *)
LEMMA FoundWhereWritten ==
    ASSUME NEW code, IsSource(code), NEW last, last = Len(code) - 1, NEW A, A = Addresses(code),
           inst = Assembled(code), LandInv, phase = "done"
    PROVE  /\ \A n \in 0 .. last - 1 : A[n] \in DOMAIN pc_map /\ pc_map[A[n]] = n
           /\ Len(func) = last + 1
<1>1. Laid(code, last, A)
  BY LaidOut
<1>2. /\ last \in Nat /\ A[0] = 0 /\ Size = A[last] /\ A[last] \in Nat
      /\ \A n \in 1 .. last : After(A[n - 1]) = A[n]
  <2>1. Size = A[last] /\ \A n \in 1 .. last : After(A[n - 1]) = A[n]
    BY ReadsBack DEF AsWritten
  <2>2. last \in Nat /\ A[0] = 0 /\ \A n \in 0 .. last : A[n] \in Nat
    BY <1>1 DEF Laid
  <2>3. QED
    BY <2>1, <2>2
<1>3. /\ Len(func) \in Nat /\ Len(func) > 0 /\ Len(func) <= Size + 1
      /\ \A k \in DOMAIN pc_map : Mapped(k, Size, Len(func) - 1) /\ pc_map[k] \in 0 .. k
      /\ DOMAIN pc_map \subseteq 0 .. Size - 1
  BY LenProperties DEF LandInv, IInv, DecodeInv
<1>4. \A m, n \in 0 .. last : m < n => A[m] < A[n] /\ A[m] \in Nat /\ A[n] \in Nat
  <2>1. ASSUME NEW m \in 0 .. last, NEW n \in 0 .. last, m < n
        PROVE  m \in 0 .. n - 1
    BY <2>1
  <2>2. QED
    BY <1>1, <2>1 DEF Laid
<1> DEFINE Found(n) == A[n] \in DOMAIN pc_map /\ pc_map[A[n]] = n
           T == {n \in 0 .. last - 1 : ~Found(n)}
<1>5. T = {}
  <2>1. SUFFICES ASSUME T # {}
                 PROVE  FALSE
    OBVIOUS
  <2>2. PICK n \in T : \A m \in T : n <= m
    <3>1. T \subseteq Nat
      BY <1>2
    <3> HIDE DEF T
    <3>2. QED
      BY <2>1, <3>1, LeastNumber
  <2>3. n \in 0 .. last - 1 /\ ~Found(n)
    BY <2>2
  <2>4. n # 0
    <3>1. SUFFICES ASSUME last > 0
                   PROVE  Found(0)
      BY <1>2, <2>3
    <3>2. Size > 0
      BY <1>2, <1>4, <3>1
    <3>3. 0 \in DOMAIN pc_map
      BY <3>2 DEF LandInv, Numbered
    <3>4. pc_map[0] = 0
      BY <1>3, <3>3
    <3>5. QED
      BY <1>2, <3>3, <3>4
  <2>5. n - 1 \in 0 .. last - 1 /\ n - 1 \notin T /\ n \in 1 .. last
    BY <1>2, <2>2, <2>3, <2>4
  <2>6. A[n - 1] \in DOMAIN pc_map /\ pc_map[A[n - 1]] = n - 1
    BY <2>5
  <2>7. Mapped(A[n - 1], Size, Len(func) - 1) /\ After(A[n - 1]) = A[n]
    BY <1>2, <1>3, <2>5, <2>6
  <2>8. A[n] < Size
    BY <1>2, <1>4, <2>3
  <2>9. A[n] \in Nat
    BY <1>1, <1>2, <2>3 DEF Laid
  <2>10. n - 1 + 1 = n
    BY <2>3
  <2>11. QED
    BY <1>2, <2>3, <2>6, <2>7, <2>8, <2>9, <2>10 DEF Mapped
<1>6. Len(func) = last + 1
  <2>1. CASE last = 0
    <3>1. Size = 0
      BY <1>2, <2>1
    <3>2. QED
      BY <1>3, <2>1, <3>1
  <2>2. CASE last # 0
    <3>1. last - 1 \in 0 .. last - 1 /\ last \in 1 .. last
      BY <1>2, <2>2
    <3>2. Found(last - 1)
      BY <1>5, <3>1
    <3>3. Mapped(A[last - 1], Size, Len(func) - 1) /\ After(A[last - 1]) = Size
      <4>1. Mapped(A[last - 1], Size, Len(func) - 1)
        BY <1>3, <3>2
      <4>2. After(A[last - 1]) = A[last]
        BY <1>2, <3>1
      <4>3. QED
        BY <1>2, <4>1, <4>2
    <3>4. Size \notin DOMAIN pc_map
      BY <1>2, <1>3
    <3>5. last - 1 + 1 = Len(func) - 1
      BY <3>2, <3>3, <3>4 DEF Mapped
    <3>6. QED
      BY <1>2, <1>3, <3>5
  <2>3. QED
    BY <2>1, <2>2
<1>7. QED
  BY <1>5, <1>6

(* and the second one reads there what was written.                          *)
LEMMA Restored ==
    ASSUME NEW code, IsSource(code), NEW last, last = Len(code) - 1,
           inst = Assembled(code), LandInv, phase = "done", NEW n \in 1 .. last
    PROVE  func[n].bc = code[n].bc /\ func[n].arg = code[n].arg /\ code[n].bc # "NewHandler"
<1>1. PICK A : A = Addresses(code)
  OBVIOUS
<1>2. PICK x : x = code[n]
  OBVIOUS
<1>3. Laid(code, last, A)
  BY <1>1, LaidOut
<1>4. last \in Nat /\ IsWritten(x, last) /\ Addressed(A, last)
  BY <1>2, <1>3 DEF Laid
<1>5. PICK at : at = A[n - 1]
  OBVIOUS
<1>6. at \in DOMAIN pc_map /\ pc_map[at] = n - 1 /\ Len(func) = last + 1
  <2>1. n - 1 \in 0 .. last - 1
    BY <1>4
  <2>2. QED
    BY <1>1, <1>5, <2>1, FoundWhereWritten
<1>7. pc_map[at] < pc /\ n - 1 + 1 = n
  <2>1. pc = Len(func) - 1
    BY DEF LandInv, Numbered
  <2>2. QED
    BY <1>4, <1>6, <2>1
<1>8. DecodedAt(at)
  BY <1>6, <1>7 DEF LandInv, DecodedFrom
<1>9. CommandOf(inst[at]) = Command(x.bc) /\ ArgsAt(at) = {Operand(A, x)}
  <2>1. AsWritten(code, last, A)
    BY <1>1, ReadsBack
  <2>2. QED
    BY <1>2, <1>5, <2>1 DEF AsWritten
<1>10. /\ func[n].bc = Decoded(Command(x.bc), Operand(A, x)).bc
       /\ func[n].arg = Decoded(Command(x.bc), Operand(A, x)).arg
  BY <1>6, <1>7, <1>8, <1>9 DEF DecodedAt
<1>11. /\ x.bc # "NewHandler"
       /\ IF x.bc \in Branches
          THEN Decoded(Command(x.bc), Operand(A, x)) = Instruction(x.bc, PcOf(A[x.arg]), 0)
          ELSE Decoded(Command(x.bc), Operand(A, x)) = Instruction(x.bc, x.arg, 0)
  BY <1>4, DecodesAgain
<1>12. x.bc \in Branches => PcOf(A[x.arg]) = x.arg
  <2>1. SUFFICES ASSUME x.bc \in Branches
                 PROVE  PcOf(A[x.arg]) = x.arg
    OBVIOUS
  <2>2. x.arg \in 0 .. last - 1
    <3>1. x.bc \notin ArgNames
      BY <2>1, TablesDiffer DEF ArgNames
    <3>2. ~(\E i \in DOMAIN Simple : Simple[i] = x.bc) /\ ~(\E i \in DOMAIN FreqFunc : FreqFunc[i] = x.bc)
      <4>1. DOMAIN FreqFunc = 1 .. 25 /\ DOMAIN Simple = 1 .. 8
        BY DEF FreqFunc, Simple
      <4>2. QED
        BY <2>1, <4>1, TablesDiffer
    <3>3. QED
      BY <1>4, <3>1, <3>2 DEF IsWritten, ArgNames
  <2>3. A[x.arg] \in DOMAIN pc_map /\ pc_map[A[x.arg]] = x.arg
    BY <1>1, <2>2, FoundWhereWritten
  <2>4. QED
    BY <2>3 DEF PcOf
<1>13. func[n].bc = x.bc /\ func[n].arg = x.arg
  BY <1>10, <1>11, <1>12 DEF Instruction
<1>14. QED
  BY <1>2, <1>11, <1>13

-----------------------------------------------------------------------------
(* EndOfFile keeps the argument it was appended with.                        *)
EndIsBare == phase # "map" => func[Len(func)].arg = 0

LEMMA EndStaysBare ==
    ASSUME LandInv, EndIsBare, [Next]_vars
    PROVE  EndIsBare'
<1>1. func \in Seq(Instructions) /\ Len(func) \in Nat /\ DOMAIN func = 1 .. Len(func)
  BY LenProperties DEF LandInv, IInv
<1>2. CASE MapInstruction
  BY <1>2 DEF MapInstruction, EndIsBare
<1>3. CASE EndMap
  <2>1. PICK eof : eof = Instruction("EndOfFile", 0, 0)
    OBVIOUS
  <2>2. func' = Append(func, eof) /\ eof.arg = 0
    BY <1>3, <2>1 DEF EndMap, Instruction
  <2>3. eof \in Instructions
    BY <2>1 DEF Instruction, Instructions, Bytecodes
  <2>4. Len(func') = Len(func) + 1 /\ func'[Len(func) + 1] = eof
    BY <1>1, <2>2, <2>3
  <2>5. QED
    BY <2>2, <2>4 DEF EndIsBare
<1>4. CASE Decode
  <2>1. PICK x, b : func' = func \/ func' = Filled(x, b)
    BY <1>4 DEF Decode, Filled
  <2>2. func' \in Seq(Instructions) /\ DOMAIN func' = DOMAIN func
    BY <1>1, <1>4, <2>1, DecodeStep DEF LandInv, IInv, Filled
  <2>3. Len(func') = Len(func)
    <3>1. DOMAIN func' = 1 .. Len(func') /\ Len(func') \in Nat
      BY <2>2, LenProperties
    <3>2. QED
      BY <1>1, <2>2, <3>1
  <2>4. /\ pc \in Nat /\ pc < Len(func) - 1 /\ Len(func) \in DOMAIN func
        /\ func[Len(func)].arg = 0
    <3>1. phase = "decode" /\ pc < Len(func) - 1
      BY <1>4 DEF Decode
    <3>2. pc \in 0 .. Len(func) - 1 /\ Len(func) > 0
      BY <3>1 DEF LandInv, IInv, DecodeInv
    <3>3. func[Len(func)].arg = 0
      BY <3>1 DEF EndIsBare
    <3>4. QED
      BY <1>1, <3>1, <3>2, <3>3
  <2>5. Len(func) # pc + 1
    <3>1. \A i \in Nat, l \in Nat : i < l - 1 => l # i + 1
      OBVIOUS
    <3>2. QED
      BY <1>1, <2>4, <3>1
  <2>6. func'[Len(func)].arg = 0
    BY <2>1, <2>4, <2>5 DEF Filled, Instruction
  <2>7. QED
    BY <2>3, <2>6 DEF EndIsBare
<1>5. CASE Done \/ UNCHANGED vars
  BY <1>5 DEF Done, vars, EndIsBare
<1>6. QED
  BY <1>2, <1>3, <1>4, <1>5 DEF Next

(* What was transcoded is the source: from any code that a compiler writes,  *)
(* whatever its length and its branches, the transcoder makes that code again*)
(* and counts its labels.                                                    *)
SourceInv ==
    /\ LandInv
    /\ EndIsBare
    /\ source # NoSource => source \in Sources /\ inst = Assembled(source)

LEMMA RestoredCode ==
    ASSUME SourceInv, source # NoSource, phase = "done"
    PROVE  [i \in 0 .. Len(func) - 1 |-> func[i + 1]] = Linked(source)
<1>1. PICK code : code = source
  OBVIOUS
<1>2. PICK last : last = Len(code) - 1
  OBVIOUS
<1>3. PICK A : A = Addresses(code)
  OBVIOUS
<1>4. IsSource(code) /\ inst = Assembled(code) /\ LandInv
  BY <1>1, SourcesAssumption DEF SourceInv
<1>5. last \in Nat /\ Len(func) = last + 1
  <2>1. Laid(code, last, A)
    BY <1>2, <1>3, <1>4, LaidOut
  <2>2. Len(func) = last + 1
    BY <1>2, <1>3, <1>4, FoundWhereWritten
  <2>3. QED
    BY <2>1, <2>2 DEF Laid
<1>6. /\ code \in Seq([bc : Bytecodes, arg : Int, references : {0}]) /\ Len(code) \in Nat
      /\ Len(code) = last + 1 /\ DOMAIN code = 1 .. last + 1
      /\ code[last + 1] = Instruction("EndOfFile", 0, 0)
  <2>1. code \in Seq([bc : Bytecodes, arg : Int, references : {0}])
    BY <1>4 DEF IsSource
  <2>2. Len(code) \in Nat /\ DOMAIN code = 1 .. Len(code)
    BY <2>1, LenProperties
  <2>3. Len(code) = last + 1
    BY <1>2, <2>2
  <2>4. code[last + 1] = Instruction("EndOfFile", 0, 0)
    BY <1>2, <1>4 DEF IsSource
  <2>5. QED
    BY <2>1, <2>2, <2>3, <2>4
<1>7. /\ func \in Seq(Instructions) /\ DOMAIN func = 1 .. last + 1
      /\ \A n \in 1 .. last + 1 : func[n] \in Instructions
  <2>1. func \in Seq(Instructions)
    BY <1>4 DEF LandInv, IInv
  <2>2. QED
    BY <1>5, <2>1, LenProperties, ElementOfSeq
<1>8. ASSUME NEW n \in 1 .. last + 1
      PROVE  func[n].bc = code[n].bc /\ func[n].arg = code[n].arg /\ func[n].bc # "NewHandler"
  <2>1. CASE n \in 1 .. last
    BY <1>2, <1>4, <2>1, Restored
  <2>2. CASE n = last + 1
    <3>1. func[n].bc = "EndOfFile"
      BY <1>4, <1>5, <2>2 DEF LandInv, IInv, DecodeInv
    <3>2. func[n].arg = 0
      BY <1>5, <2>2 DEF SourceInv, EndIsBare
    <3>3. code[n].bc = "EndOfFile" /\ code[n].arg = 0
      BY <1>6, <2>2 DEF Instruction
    <3>4. QED
      BY <3>1, <3>2, <3>3
  <2>3. QED
    BY <1>5, <2>1, <2>2
<1>9. ASSUME NEW i \in 0 .. last
      PROVE  func[i + 1].references = Cardinality(Targets(code, i))
  <2>1. References(i) = Cardinality(Targets(code, i))
    <3>1. {k \in DOMAIN func : func[k].bc \in Branches /\ func[k].arg = i} = Targets(code, i)
      BY <1>6, <1>7, <1>8 DEF Targets
    <3>2. QED
      BY <3>1 DEF References
  <2>2. i \in 0 .. Len(func) - 1
    BY <1>5
  <2>3. \A k \in DOMAIN func : func[k].bc # "NewHandler"
    BY <1>7, <1>8
  <2>4. func[i + 1].references = References(i)
    BY <1>4, <2>2, <2>3 DEF LandInv, IInv, LabelsCounted
  <2>5. QED
    BY <2>1, <2>4
<1>10. ASSUME NEW i \in 0 .. last
       PROVE  func[i + 1] = [code[i + 1] EXCEPT !.references = Cardinality(Targets(code, i))]
  <2>1. PICK n \in 1 .. last + 1 : n = i + 1
    BY <1>5
  <2>2. PICK count : count = Cardinality(Targets(code, i))
    OBVIOUS
  <2>3. code[n] \in [bc : Bytecodes, arg : Int, references : {0}]
    BY <1>6, <2>1, ElementOfSeq
  <2>4. func[n] \in Instructions /\ func[n].references = count
    BY <1>7, <1>9, <2>1, <2>2
  <2>5. [code[n] EXCEPT !.references = count] = Instruction(code[n].bc, code[n].arg, count)
    BY <2>3 DEF Instruction
  <2>6. func[n] = Instruction(func[n].bc, func[n].arg, count)
    BY <2>4 DEF Instructions, Instruction
  <2>7. func[n].bc = code[n].bc /\ func[n].arg = code[n].arg
    BY <1>8
  <2>8. QED
    BY <2>1, <2>2, <2>5, <2>6, <2>7
<1>11. Len(func) - 1 = last /\ Len(code) - 1 = last
  BY <1>2, <1>5
<1>12. QED
  BY <1>1, <1>10, <1>11 DEF Linked

(* Transcoding is the inverse of assembling: every argument keeps its value  *)
(* and sign, every branch its target, and labels are counted.                *)
THEOREM AlwaysRestores == SourceSpec => []RestoresTheCode
<1>1. SourceInit => SourceInv
  <2>1. SUFFICES ASSUME SourceInit
                 PROVE  SourceInv
    OBVIOUS
  <2>2. Start
    BY <2>1 DEF SourceInit, Init
  <2>3. source # NoSource => source \in Sources /\ inst = Assembled(source)
    BY <2>1 DEF SourceInit, AssembledOf
  <2>4. IsBinary(inst)
    <3>1. CASE source \in Sources /\ inst = AssembledOf[source]
      BY <3>1, SourcesAssumption, AssembledIsBinary DEF AssembledOf
    <3>2. CASE Init
      BY <3>2, StreamAssumption DEF Init
    <3>3. QED
      BY <2>1, <3>1, <3>2 DEF SourceInit
  <2>5. LandInv
    BY <2>2, <2>4, LandStart
  <2>6. EndIsBare
    BY <2>2 DEF Start, EndIsBare
  <2>7. QED
    BY <2>3, <2>5, <2>6 DEF SourceInv
<1>2. SourceInv /\ [Next /\ UNCHANGED source]_<<vars, source>> => SourceInv'
  <2>1. SUFFICES ASSUME SourceInv, [Next /\ UNCHANGED source]_<<vars, source>>
                 PROVE  SourceInv'
    OBVIOUS
  <2>2. [Next]_vars /\ source' = source
    BY <2>1
  <2>3. LandInv' /\ EndIsBare'
    BY <2>1, <2>2, LandStep, EndStaysBare DEF SourceInv
  <2>4. inst' = inst
    BY <2>2 DEF Next, vars, MapInstruction, EndMap, Decode, Done
  <2>5. Assembled(source)' = Assembled(source)
    BY <2>2
  <2>6. QED
    BY <2>1, <2>2, <2>3, <2>4, <2>5 DEF SourceInv
<1>3. SourceInv => RestoresTheCode
  BY RestoredCode DEF RestoresTheCode
<1>4. QED
  BY <1>1, <1>2, <1>3, PTL DEF SourceSpec

=============================================================================
