----------------------------- MODULE Decompiler -----------------------------
(***************************************************************************)
(* The decompiler of src/src/lang/decompile.cpp: it walks over the         *)
(* instructions once and keeps a stack of nodes, the code seen so far.  An *)
(* instruction takes the expressions it uses from the stack and puts the   *)
(* node that prints them back; a branch waits on the stack until DoLabel,  *)
(* at the place it jumps to, recognises the control structure around it.   *)
(* A program is any sequence of instructions that transcode_from_ns can    *)
(* return, on the indices 0 .. n of C++, with EndOfFile at n.              *)
(***************************************************************************)
EXTENDS Bytecode

CONSTANTS
    Programs,
    HasLiterals     \* whether the literals of the function are an array

(* TranscodeProofs shows that transcode_from_ns returns no other.            *)
ASSUME ProgramAssumption == \A p \in Programs : IsProgram(p)

ASSUME LiteralsAssumption == HasLiterals \in BOOLEAN

VARIABLES
    instructions,   \* the program
    stack,          \* the nodes, stack[1] at the bottom
    pc,             \* state.pc
    phase,          \* "label": DoLabel runs, "code": Do is next, "end": decode is done,
                    \* "dead": an assertion failed
    result          \* what the last handler returned

vars == <<instructions, stack, pc, phase, result>>

Block(nodes) == Text("block", nodes[1].first, [i \in DOMAIN nodes |-> nodes[i].text])

Node(type, first, last, arg, text, info) ==
    [type |-> type, first |-> first, last |-> last, arg |-> arg, text |-> text, info |-> info]

Expr(first, last, precedence, text) == Node("Expr", first, last, precedence, text, 0)
Statement(first, last, text)        == Node("Statement", first, last, 0, text, 0)

EndOfStack == Node("EndOfStack", -1, -1, 0, Text("bottom", -1, << >>), 0)

Bracketed(precedence, node) ==
    IF precedence < node.arg
    THEN Text("brackets", node.first, <<node.text>>)
    ELSE node.text

(* The node k places below the top. *)
Top(k) == stack[Len(stack) - k]

Popped(k) == SubSeq(stack, 1, Len(stack) - k)

(* The index of the first node below stack[i] that is not a statement: the  *)
(* loops "while (stack[si]->type == ND::Statement) --si".                   *)
BelowStatements(i) ==
    CHOOSE j \in 1 .. i - 1 :
        /\ stack[j].type # "Statement"
        /\ \A k \in j + 1 .. i - 1 : stack[k].type = "Statement"

At(bcs) == phase = "code" /\ instructions[pc].bc \in bcs

Arg == instructions[pc].arg

(* decompile(): the stack gets its bottom, then decode() starts. *)
Start ==
    /\ stack = <<EndOfStack>>
    /\ pc = 0
    /\ phase = IF instructions[0].references > 0 THEN "label" ELSE "code"
    /\ result = 1

Init == instructions \in Programs /\ Start

(* decode() goes on with the next instruction, or stops. *)
Continue ==
    /\ pc' = pc + 1
    /\ phase' = IF instructions[pc + 1].references > 0 THEN "label" ELSE "code"
    /\ result' = 1
    /\ UNCHANGED instructions

Stop(code) ==
    /\ result' = code
    /\ phase' = "end"
    /\ UNCHANGED <<instructions, pc>>

Push(node) == stack' = Append(stack, node) /\ Continue

-----------------------------------------------------------------------------
(* Expressions and statements.                                             *)
DoEOF == At({"EndOfFile"}) /\ Stop(-1) /\ UNCHANGED stack

(* DoPush reads its literal.  Behind the end of the array is nil, but an     *)
(* index is asserted not to be negative, which it is from 2^15 on.           *)
IsNegativeLiteral == At({"Push"}) /\ HasLiterals /\ Arg < 0

DoPushDies == IsNegativeLiteral /\ phase' = "dead" /\ UNCHANGED <<instructions, stack, pc, result>>

DoLeaf ==
    /\ At(Leaves) /\ ~IsNegativeLiteral
    /\ Push(Node("Expr", pc, pc, 0, Text(instructions[pc].bc, pc, << >>),
                 IF instructions[pc].bc # "PushConst" THEN 0
                 ELSE IF Arg = NilConst THEN 1
                 ELSE IF Arg = TrueConst THEN 2
                 ELSE 0))

DoInfixOperator ==
    /\ At(Infix)
    /\ LET level == Precedence[instructions[pc].bc]
           text  == Text(instructions[pc].bc, pc,
                         <<Bracketed(level, Top(1)), Bracketed(level, Top(0))>>)
       IN  IF Top(0).type = "Expr" /\ Top(1).type = "Expr"
           THEN stack' = Append(Popped(2), Expr(Top(1).first, pc, level, text)) /\ Continue
           ELSE Stop(-1) /\ UNCHANGED stack

(* Faulty: nothing looks at the types of the arguments. *)
ArgsFromUnchecked(k, n) == IF k + n > Len(stack) THEN Len(stack) - k ELSE n

(* How many of the n nodes from Top(k) down are expressions, counted until   *)
(* the first that is not: these are popped.                                  *)
ArgsFrom(k, n) ==
    CHOOSE m \in 0 .. n :
        /\ \A i \in k .. k + m - 1 : Top(i).type = "Expr"
        /\ m < n => Top(k + m).type # "Expr"

(* Faulty: the node starts where its last argument does. *)
ArgListStartLast(k, n) == Top(k).first

(* The pc DoArgList returns: where the bottom argument starts. *)
ArgListStart(k, n) == Top(k + n - 1).first

(* DoCallOrInvoke, and DoSend with and without a receiver: "heads" nodes    *)
(* above the arguments say what is called, the function or the message name *)
(* first.                                                                   *)
CallWith(heads) ==
    LET n    == Arg
        args == IF n > 0 THEN ArgsFrom(heads, n) ELSE 0
        part == [i \in 1 .. heads + n |-> IF i <= heads THEN i - 1 ELSE 2 * heads + n - i]
        text == Text(instructions[pc].bc, pc, [i \in 1 .. heads + n |-> Top(part[i]).text])
    IN  IF \E i \in 0 .. heads - 1 : Top(i).type # "Expr"
        THEN /\ stack' = Popped(IF Top(0).type = "Expr" THEN 1 ELSE 0)
             /\ Stop(-1)
        ELSE IF args = n /\ n > 0
        THEN /\ stack' = Append(Popped(heads + n), Expr(ArgListStart(heads, n), pc, 0, text))
             /\ Continue
        ELSE stack' = Popped(heads + args) /\ Stop(-1)

DoCallOrInvoke == At(Calls) /\ CallWith(1)
DoSend         == At(Sends) /\ CallWith(2)
DoResend       == At(Resends) /\ CallWith(1)

DoFindAndSetVar ==
    /\ At({"FindAndSetVar"})
    /\ IF Top(0).type = "Expr"
       THEN /\ stack' = Append(Popped(1), Statement(Top(0).first, pc,
                                   Text("FindAndSetVar", pc, <<Top(0).text>>)))
            /\ Continue
       ELSE Stop(-1) /\ UNCHANGED stack

DoPop ==
    /\ At({"Pop"})
    /\ IF Top(0).type = "Expr"
       THEN stack' = [stack EXCEPT ![Len(stack)].type = "Statement"] /\ Continue
       ELSE Stop(-1) /\ UNCHANGED stack

(* At the end of the function a return prints nothing when there is no value *)
(* to return, and when the instruction before it pushed nil.                 *)
AtEndOfFunction == instructions[pc + 1].bc = "EndOfFile"

AfterPushNil ==
    pc > 0 /\ instructions[pc - 1].bc = "PushConst" /\ instructions[pc - 1].arg = NilConst

DoReturn ==
    /\ At({"Return"})
    /\ IF Top(0).type # "Expr"
       THEN /\ UNCHANGED stack
            /\ IF AtEndOfFunction THEN Continue ELSE Stop(-1)
       ELSE /\ stack' = IF AtEndOfFunction /\ AfterPushNil
                        THEN Popped(1)
                        ELSE Append(Popped(1), Statement(Top(0).first, pc,
                                        Text("Return", pc, <<Top(0).text>>)))
            /\ Continue

DoUnsupported == At(Unsupported) /\ Stop(-2) /\ UNCHANGED stack

-----------------------------------------------------------------------------
(* Branches wait on the stack.                                             *)
(* Faulty: the direction is left out. *)
BranchNodeUndirected(name) == Node(name, pc, pc, Arg, Text(name, pc, << >>), 0)

Forward ==
    [Branch |-> "BranchFwd", BranchTrue |-> "BranchTrueFwd", BranchFalse |-> "BranchFalseFwd"]

Backward ==
    [Branch |-> "BranchBack", BranchTrue |-> "BranchTrueBack", BranchFalse |-> "BranchFalseBack"]

BranchNode(name) ==
    Node(IF Arg > pc THEN Forward[name] ELSE Backward[name], pc, pc, Arg, Text(name, pc, << >>), 0)

DoBranch == At({"Branch"}) /\ Push(BranchNode("Branch"))

DoBranchIfFalse == At({"BranchIfFalse"}) /\ Push(BranchNode("BranchFalse"))

(* "while": [branch_fwd a; b: statements; a: condition], and the branch back *)
(* to b is the current instruction.                                          *)
WhileStart == BelowStatements(Len(stack) - 1)

IsWhileDo ==
    /\ Top(0).type = "Expr"
    /\ Top(1).type = "Statement"
    /\ Arg = stack[WhileStart + 1].first
    /\ stack[WhileStart].type = "BranchFwd"
    /\ stack[WhileStart].arg = Top(0).first

(* A branch back that closes no loop is left on the stack, and reported as 0, *)
(* an unknown bytecode.                                                       *)
DoBranchIfTrue ==
    /\ At({"BranchIfTrue"})
    /\ IF Arg > pc THEN Push(BranchNode("BranchTrue"))
       ELSE IF IsWhileDo
       THEN LET start == WhileStart
                body  == SubSeq(stack, start + 1, Len(stack) - 1)
                text  == Text("while", stack[start].first, <<Top(0).text, Block(body)>>)
            IN  /\ stack' = Append(SubSeq(stack, 1, start - 1),
                                   Statement(stack[start].first, pc + 1, text))
                /\ Continue
       ELSE stack' = Append(stack, BranchNode("BranchTrue")) /\ Stop(0)

-----------------------------------------------------------------------------
(* DoLabel: control structures that end at state.pc, tried in this order.   *)
Logical(branch, constant) ==
    /\ Len(stack) >= 6
    /\ Top(0).type = "Expr" /\ Top(0).info = constant
    /\ Top(1).type = "BranchFwd" /\ Top(1).arg = pc
    /\ Top(2).type = "Expr"
    /\ Top(3).type = branch /\ Top(3).arg = Top(0).first
    /\ Top(4).type = "Expr"

IsLogicAnd == Logical("BranchFalseFwd", 1)
IsLogicOr  == Logical("BranchTrueFwd", 2)

JoinLogical(what) ==
    LET text == Text(what, Top(3).first, <<Bracketed(11, Top(4)), Bracketed(11, Top(2))>>)
    IN  stack' = Append(Popped(5), Expr(Top(4).first, pc, 11, text))

(* The branch that ends the first block, and the one that skips it.         *)
ElseBranch == BelowStatements(Len(stack))
ThenBranch == BelowStatements(ElseBranch - 1)

(* The two blocks of if-then-else end in a statement, or, when the whole    *)
(* yields a value, in an expression.                                        *)
HasIfElseShape(type) ==
    /\ Top(0).type = type
    /\ stack[ElseBranch].type = "BranchFwd" /\ stack[ElseBranch].arg = pc
    /\ stack[ElseBranch - 1].type = type
    /\ stack[ThenBranch].type = "BranchFalseFwd"
    /\ stack[ThenBranch].arg = stack[ElseBranch + 1].first
    /\ stack[ThenBranch - 1].type = "Expr"

JoinIfElse(type) ==
    LET condition == stack[ThenBranch - 1]
        text == Text("if", stack[ThenBranch].first,
                     <<condition.text,
                       Block(SubSeq(stack, ThenBranch + 1, ElseBranch - 1)),
                       Block(SubSeq(stack, ElseBranch + 1, Len(stack)))>>)
    IN  stack' = Append(SubSeq(stack, 1, ThenBranch - 2),
                        Node(type, condition.first, Top(0).last, 0, text, 0))

(* Faulty: the label need not be the one that "if" jumps to. *)
IsIfThenAnyLabel ==
    /\ Top(0).type = "Statement"
    /\ stack[ElseBranch].type = "BranchFalseFwd"
    /\ stack[ElseBranch - 1].type = "Expr"

IsIfThen ==
    /\ Top(0).type = "Statement"
    /\ stack[ElseBranch].type = "BranchFalseFwd" /\ stack[ElseBranch].arg = pc
    /\ stack[ElseBranch - 1].type = "Expr"

(* Faulty: the first statement of the block is forgotten. *)
IfThenBlockShort == SubSeq(stack, ElseBranch + IF ElseBranch + 1 < Len(stack) THEN 2 ELSE 1, Len(stack))

IfThenBlock == SubSeq(stack, ElseBranch + 1, Len(stack))

JoinIfThen ==
    LET condition == stack[ElseBranch - 1]
        text == Text("if", stack[ElseBranch].first, <<condition.text, Block(IfThenBlock)>>)
    IN  stack' = Append(SubSeq(stack, 1, ElseBranch - 2),
                        Statement(condition.first, Top(0).last, text))

AtLabel == phase = "label"

CheckLogicAnd == AtLabel /\ IsLogicAnd /\ JoinLogical("and") /\ UNCHANGED <<instructions, pc, phase, result>>

CheckLogicOr == AtLabel /\ IsLogicOr /\ JoinLogical("or") /\ UNCHANGED <<instructions, pc, phase, result>>

CheckIfThenElseExpr ==
    /\ AtLabel
    /\ ~IsLogicAnd
    /\ ~IsLogicOr
    /\ HasIfElseShape("Expr")
    /\ JoinIfElse("Expr")
    /\ UNCHANGED <<instructions, pc, phase, result>>

CheckIfThenElse ==
    /\ AtLabel
    /\ HasIfElseShape("Statement")
    /\ JoinIfElse("Statement")
    /\ UNCHANGED <<instructions, pc, phase, result>>

CheckIfThen ==
    /\ AtLabel
    /\ ~HasIfElseShape("Statement")
    /\ IsIfThen
    /\ JoinIfThen
    /\ UNCHANGED <<instructions, pc, phase, result>>

LabelDone ==
    /\ AtLabel
    /\ ~IsLogicAnd
    /\ ~IsLogicOr
    /\ ~HasIfElseShape("Expr")
    /\ ~HasIfElseShape("Statement")
    /\ ~IsIfThen
    /\ phase' = "code"
    /\ UNCHANGED <<instructions, stack, pc, result>>

DoLabel ==
    \/ CheckLogicAnd \/ CheckLogicOr \/ CheckIfThenElseExpr
    \/ CheckIfThenElse \/ CheckIfThen \/ LabelDone

Do ==
    \/ DoEOF \/ DoPushDies \/ DoLeaf \/ DoInfixOperator \/ DoCallOrInvoke \/ DoSend \/ DoResend
    \/ DoFindAndSetVar \/ DoPop \/ DoReturn \/ DoUnsupported
    \/ DoBranch \/ DoBranchIfTrue \/ DoBranchIfFalse

Next == DoLabel \/ Do

Spec == Init /\ [][Next]_vars

-----------------------------------------------------------------------------
NodeTypes ==
    {"EndOfStack", "Expr", "Statement", "BranchFwd", "BranchBack", "BranchTrueFwd",
     "BranchTrueBack", "BranchFalseFwd", "BranchFalseBack"}

(* Every variable has its type.                                             *)
TypeOK ==
    /\ pc \in DOMAIN instructions
    /\ phase \in {"label", "code", "end", "dead"}
    /\ result \in {1, 0, -1, -2}
    /\ \A i \in DOMAIN stack :
          /\ stack[i].type \in NodeTypes
          /\ stack[i].first \in Int /\ stack[i].last \in Int
          /\ stack[i].arg \in Int /\ stack[i].info \in 0 .. 2

(* No handler takes the bottom of the stack or buries it a second time: the  *)
(* searches down the stack, which have no bound of their own, end at it, and *)
(* stack.back() always exists, whatever the program is.                      *)
BottomStays ==
    /\ Len(stack) > 0
    /\ \A i \in DOMAIN stack : stack[i].type = "EndOfStack" <=> i = 1

(* Until the function has ended, the nodes account for all instructions      *)
(* before pc, in order: each starts where the node below it stops.  Labels   *)
(* are compared with pc_first, so a node that starts anywhere else hides a   *)
(* control structure.  "and", "or" and "while" already count the instruction *)
(* after them as their last, and a pop is in no node at all.                 *)
Decoding == result = 1 /\ instructions[pc].bc # "EndOfFile"

OnlyPops(n, m) == n <= m + 2 /\ \A k \in n .. m : instructions[k].bc = "Pop"

Follows(first, below) == OnlyPops(below.last + 1, first - 1)

Contiguous ==
    Decoding => /\ \A i \in 2 .. Len(stack) : Follows(stack[i].first, stack[i - 1])
                /\ Follows(pc, Top(0))

(* Instructions whose absence from the output would change the function.    *)
Visible ==
    {"Push", "PushSelf", "FindVar", "FindAndSetVar"} \cup Infix \cup Calls \cup Sends \cup Resends

(* The places of the texts on the stack that show the instruction at i.      *)
Occurrences(i) ==
    UNION {{<<n, p>> : p \in {q \in stack[n].text.shows : q.at = i}} : n \in DOMAIN stack}

(* Until the function has ended, every visible instruction before pc shows   *)
(* in exactly one place of what is on the stack: whatever the handlers took  *)
(* apart and put together, no call and no assignment was lost or repeated.   *)
PrintedOnce ==
    Decoding => \A i \in 0 .. pc - 1 : instructions[i].bc \in Visible => Cardinality(Occurrences(i)) = 1

(* decompile.cpp:275: a return that prints nothing is the "return NIL" the   *)
(* compiler added: what it drops is nil, and nothing else.                   *)
SilentReturnIsNil ==
    [][At({"Return"}) /\ Len(stack') < Len(stack) => Top(0).text.what = "PushConst"]_vars
=============================================================================
