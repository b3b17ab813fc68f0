----------------------------- MODULE MCTranscode -----------------------------
(* Instance of AssembledCode for TLC: all functions of up to four bytes from *)
(* an alphabet in which each byte is a command in one place and part of an   *)
(* argument in another; compiled functions with every kind of branch, and    *)
(* arguments of one and two bytes.                                           *)
EXTENDS AssembledCode, SourceCode

Alphabet ==
    {0, 2,              \* pop, return; also addresses
     3 * 8 + 7,         \* push, long
     4 * 8, 4 * 8 + 4,  \* push_const 0 and 4, the addresses 0 and 1
     11 * 8 + 1,        \* branch 1
     12 * 8 + 7,        \* branch_if_true, long
     13 * 8 + 3,        \* branch_if_false 3
     23 * 8,            \* branch_loop 0
     24 * 8 + 7,        \* frequent function, long
     25 * 8 + 1,        \* new_handler 1
     26 * 8}            \* no command

MCStreams == UNION {[0 .. n - 1 -> Alphabet] : n \in 1 .. 4}

MCBehind == {0, 2, 3}

-----------------------------------------------------------------------------
Var == Leaf("FindVar", 5)
Const(n) == Leaf("PushConst", n)
Binary(kind, l, r) == Tree(kind, 0, <<l, r>>)

Exprs == {Var, Nil, Const(26), Const(-4), Const(-32768), Const(7), Leaf("Push", 300),
          Tree("Call", 0, <<Var, Nil>>), Tree("Send", 0, <<Var, Var, Nil>>)}
    \cup {Binary(k, Const(-4), Var) : k \in Infix \cup {"and", "or"}}

MCStatements == {Assign(e) : e \in Exprs}
    \cup {IfThen(c, <<Assign(e)>>) : c \in Exprs, e \in Exprs}
    \cup {IfElse(c, <<Assign(e)>>, <<Assign(Var)>>) : c \in Exprs, e \in Exprs}

MCFunctions ==
    {Function(<<s>>, <<Nil>>) : s \in MCStatements}
    \cup {Function(WhileDo(c, <<s>>), << >>) : c \in {Var, Const(-4)}, s \in MCStatements}

MCSources == {WholeCode(f) : f \in MCFunctions}
=============================================================================
