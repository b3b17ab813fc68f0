----------------------------- MODULE SourceCode -----------------------------
(***************************************************************************)
(* Sources of functions as syntax trees, what a compiler makes of them and *)
(* how a printed text is read.  The NewtonScript compiler is not part of   *)
(* the repository; its code is taken from the footprints in the comments   *)
(* of decompile.cpp and from the table of bytecodes in transcode.cpp.      *)
(* Compile gives the code of a tree and the text that stands for it; Read  *)
(* is how the language reads infix text: by precedence, from the left.     *)
(***************************************************************************)
EXTENDS Bytecode, SequencesExt, FiniteSetsExt

Tree(kind, val, kids) == [kind |-> kind, val |-> val, kids |-> kids]

Leaf(kind, val)       == Tree(kind, val, << >>)
Nil                   == Leaf("PushConst", NilConst)
PopOf(e)              == Tree("Pop", 0, <<e>>)
Assign(e)             == Tree("FindAndSetVar", 0, <<e>>)
BlockOf(trees)        == Tree("block", 0, trees)
(* A while loop leaves nil, here popped. *)
WhileDo(c, trees)     == <<Tree("while", 0, <<c, BlockOf(trees)>>), PopOf(Nil)>>
IfThen(c, trees)      == Tree("if", 0, <<c, BlockOf(trees)>>)
IfElse(c, yes, no)    == Tree("if", 0, <<c, BlockOf(yes), BlockOf(no)>>)

Compiled(code, text) == [code |-> code, text |-> text]
One(bc, arg) == <<Instruction(bc, arg, 0)>>

RECURSIVE Compile(_, _), CompileAll(_, _)

(* The code of trees one after the other, and the texts of all. *)
CompileAll(trees, base) ==
    IF trees = << >> THEN Compiled(<< >>, << >>)
    ELSE LET first == Compile(Head(trees), base)
             rest  == CompileAll(Tail(trees), base + Len(first.code))
         IN  Compiled(first.code \o rest.code, <<first.text>> \o rest.text)

(* The operands of a conditional: <<condition, block, block>> at the places *)
(* where the branches between them leave them.                              *)
CompileIf(t, base) ==
    LET c    == Compile(t.kids[1], base)
        skip == base + Len(c.code)
        yes  == Compile(t.kids[2], skip + 1)
        over == skip + 1 + Len(yes.code)
        no   == Compile(t.kids[3], over + 1)
    IN  IF Len(t.kids) = 2
        THEN Compiled(c.code \o One("BranchIfFalse", over) \o yes.code,
                      Text("if", skip, <<c.text, yes.text>>))
        ELSE Compiled(c.code \o One("BranchIfFalse", over + 1) \o yes.code
                        \o One("Branch", over + 1 + Len(no.code)) \o no.code,
                      Text("if", skip, <<c.text, yes.text, no.text>>))

CompileLogical(t, base, branch, constant) ==
    LET l    == Compile(t.kids[1], base)
        skip == base + Len(l.code)
        r    == Compile(t.kids[2], skip + 1)
        over == skip + 1 + Len(r.code)
    IN  Compiled(l.code \o One(branch, over + 1) \o r.code \o One("Branch", over + 2)
                   \o One("PushConst", constant),
                 Text(t.kind, skip, <<l.text, r.text>>))

CompileWhile(t, base) ==
    LET body == Compile(t.kids[2], base + 1)
        c    == Compile(t.kids[1], base + 1 + Len(body.code))
    IN  Compiled(One("Branch", base + 1 + Len(body.code)) \o body.code \o c.code
                   \o One("BranchIfTrue", base + 1),
                 Text("while", base, <<c.text, body.text>>))

(* Operands first, then the bytecode.  A call has its function, a send its  *)
(* name and then its receiver, above the arguments.                         *)
CompilePlain(t, base, heads) ==
    LET n    == Len(t.kids)
        onto == SubSeq(t.kids, heads + 1, n) \o SubSeq(t.kids, 1, heads)
        all  == CompileAll(onto, base)
        at   == base + Len(all.code)
        text == SubSeq(all.text, n - heads + 1, n) \o SubSeq(all.text, 1, n - heads)
    IN  Compiled(all.code \o One(t.kind, IF heads > 0 THEN n - heads ELSE t.val),
                 Text(t.kind, at, text))

Compile(t, base) ==
    CASE t.kind = "if"    -> CompileIf(t, base)
      [] t.kind = "and"   -> CompileLogical(t, base, "BranchIfFalse", NilConst)
      [] t.kind = "or"    -> CompileLogical(t, base, "BranchIfTrue", TrueConst)
      [] t.kind = "while" -> CompileWhile(t, base)
      [] t.kind = "block" -> LET all == CompileAll(t.kids, base)
                             IN  Compiled(all.code, Text("block", base, all.text))
      [] t.kind = "Pop"   -> LET e == Compile(t.kids[1], base)
                             IN  Compiled(e.code \o One("Pop", 0), e.text)
      [] t.kind \in Calls \cup Resends -> CompilePlain(t, base, 1)
      [] t.kind \in Sends -> CompilePlain(t, base, 2)
      [] OTHER            -> CompilePlain(t, base, 0)

(* A function: its body, then the return the compiler adds, of a value or   *)
(* of nil, or of nothing.                                                   *)
Function(body, ending) == [body |-> body, ending |-> ending]

WholeCode(f) ==
    CompileAll(f.body \o f.ending, 0).code \o One("Return", 0) \o One("EndOfFile", 0)

(* The statements the function consists of. *)
Meaning(f) ==
    LET all == CompileAll(f.body \o f.ending, 0)
        n   == Len(f.body)
    IN  IF f.ending \in {<< >>, <<Nil>>}
        THEN SubSeq(all.text, 1, n)
        ELSE SubSeq(all.text, 1, n) \o <<Text("Return", Len(all.code), <<all.text[n + 1]>>)>>

-----------------------------------------------------------------------------
(* Reading a text back.                                                    *)
Level(what) == IF what \in Infix THEN Precedence[what] ELSE 11

IsOperator(what) == what \in Infix \cup {"and", "or"}

RECURSIVE Printed(_), Read(_), Parse(_)

(* The operands and operators of an infix text in the order they appear. *)
Printed(text) ==
    IF IsOperator(text.what)
    THEN Printed(text.parts[1]) \o <<Text(text.what, text.at, << >>)>> \o Printed(text.parts[2])
    ELSE <<text>>

(* The last of the loosest operators is applied last. *)
Parse(tokens) ==
    LET ops == {i \in DOMAIN tokens : IsOperator(tokens[i].what) /\ tokens[i].parts = << >>}
        loosest == Max({Level(tokens[i].what) : i \in ops})
        split == Max({i \in ops : Level(tokens[i].what) = loosest})
    IN  IF ops # {}
        THEN Text(tokens[split].what, tokens[split].at,
                  <<Parse(SubSeq(tokens, 1, split - 1)),
                    Parse(SubSeq(tokens, split + 1, Len(tokens)))>>)
        ELSE IF tokens[1].what = "brackets" THEN Read(tokens[1].parts[1])
        ELSE Text(tokens[1].what, tokens[1].at,
                  [i \in DOMAIN tokens[1].parts |-> Read(tokens[1].parts[i])])

Read(text) == Parse(Printed(text))
=============================================================================
