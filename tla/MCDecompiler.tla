---------------------------- MODULE MCDecompiler ----------------------------
(* Instances of CompiledPrograms for TLC: sources built from a few           *)
(* expressions, to three levels of nesting; all programs of three            *)
(* instructions, and all that differ in one instruction from a seed.         *)
EXTENDS CompiledPrograms

Var == Leaf("FindVar", 0)
Binary(kind, l, r) == Tree(kind, 0, <<l, r>>)

Operand == {Nil, Var}

Nestings ==
    {Binary("Multiply", Binary("Add", Var, Var), Var),
     Binary("Add", Binary("Subtract", Var, Var), Binary("Multiply", Var, Var)),
     Binary("Multiply", Var, Binary("Add", Var, Var)),
     Binary("or", Binary("and", Var, Var), Binary("LessThan", Var, Var)),
     Binary("Equals", Binary("or", Var, Var), Var)}

Exprs == Operand \cup Nestings
    \cup {Binary(k, a, Var) : k \in {"Add", "and", "or"}, a \in Operand}
    \cup {Tree("Call", 0, <<Var, a>>) : a \in Operand}
    \cup {IfElse(Var, <<a>>, <<Leaf("PushSelf", 0)>>) : a \in Operand}
    \cup {IfElse(Var, <<Assign(Var), Nil>>, <<PopOf(Var), Var>>)}

Simple == {Assign(Var), PopOf(Nil), PopOf(Tree("Invoke", 0, <<Var, Var, Nil>>)), PopOf(Binary("and", Var, Var))}

Conditionals ==
    {IfThen(c, <<s>>) : c \in Exprs, s \in Simple}
    \cup {IfElse(c, <<s>>, <<t>>) : c \in {Var, Binary("or", Var, Var)}, s \in Simple, t \in Simple}
    \cup {IfThen(Var, <<IfThen(Var, <<s>>), t>>) : s \in Simple, t \in Simple}
    \cup {IfThen(Var, <<IfElse(Var, <<s>>, <<t>>)>>) : s \in Simple, t \in Simple}
    \cup {IfElse(Var, <<IfThen(Var, <<s>>)>>, <<t>>) : s \in Simple, t \in Simple}

Statements == {Assign(e) : e \in Exprs} \cup Conditionals

Loops == {WhileDo(c, <<s>>) : c \in Exprs, s \in Statements}
    \cup {<<IfThen(Var, WhileDo(c, <<s>>))>> : c \in Exprs, s \in Simple}

Endings == {<< >>, <<Nil>>, <<Var>>}

MCSources ==
    {Function(<<s>>, e) : s \in Statements, e \in Endings}
    \cup {Function(<<s, t>>, << >>) : s \in Conditionals, t \in Simple}
    \cup {Function(l, <<Nil>>) : l \in Loops}

(* Sources for the runs that show a disagreement.                           *)
RightNested == {Function(<< >>, <<Binary(k, Var, Binary(k, Var, Var))>>) : k \in {"Subtract", "Add"}}

LogicalValues == {Function(<<Assign(Var)>>, <<Binary(k, Var, Var)>>) : k \in {"and", "or"}}

-----------------------------------------------------------------------------
(* Programs that no compiler made.                                          *)
Run == PopOf(Tree("Call", 0, <<Var, Var>>))
Both == Tree("and", 0, <<Var, Var>>)

Seeds ==
    {Function(<<IfElse(Var, <<Run>>, <<Assign(Var), Run>>)>>, <<Nil>>),
     Function(<<IfThen(Both, <<Run, Assign(Var)>>)>>, << >>),
     Function(WhileDo(Var, <<Run, Assign(Var)>>), <<Nil>>),
     Function(<<Assign(IfElse(Var, <<Run, Var>>, <<Tree("or", 0, <<Var, Var>>)>>))>>, << >>),
     Function(<<PopOf(Tree("Send", 0, <<Var, Var, Var, Both>>))>>, <<Nil>>),
     Function(<<PopOf(Tree("Resend", 0, <<Var, Tree("Add", 0, <<Var, Nil>>)>>))>>, <<Both>>)}

Plain ==
    {Instruction(bc, 0, 0) : bc \in {"FindVar", "Pop", "Return", "FindAndSetVar", "Subtract", "Not"}}
    \cup {Instruction("PushConst", n, 0) : n \in {NilConst, TrueConst}}
    \cup {Instruction("Push", n, 0) : n \in {0, -32768}}
    \cup {Instruction(bc, n, 0) : bc \in {"Call", "Send", "ResendIfDefined"}, n \in 0 .. 1}

Jumps(n) == {Instruction(bc, t, 0) : bc \in Branches, t \in 0 .. n}

Short == {Linked(s \o One("EndOfFile", 0)) : s \in [1 .. 3 -> Plain \cup Jumps(3)]}

(* The program f with the instruction at i replaced.                        *)
Patched(f, i, instruction) ==
    LET code == WholeCode(f) IN Linked([code EXCEPT ![i] = instruction])

Patches(f, alphabet) ==
    {Patched(f, i, x) : i \in 1 .. Len(WholeCode(f)) - 1, x \in alphabet}

MCPrograms == Short \cup UNION {Patches(f, Plain \cup Jumps(12)) : f \in Seeds}
=============================================================================
