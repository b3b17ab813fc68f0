-------------------------- MODULE CompiledPrograms --------------------------
(***************************************************************************)
(* What the decompiler is for: given the code of a function, it prints     *)
(* that function.  "source" is what the program was compiled from, or      *)
(* NoSource for one of Programs, which no compiler made.                   *)
(***************************************************************************)
EXTENDS Decompiler, SourceCode

CONSTANTS Sources, NoSource

VARIABLE source

(* The code of every source. *)
CodeOf == [f \in Sources |-> Linked(WholeCode(f))]

SourceInit ==
    \/ /\ source \in Sources
       /\ instructions = CodeOf[source]
       /\ Start
    \/ source = NoSource /\ Init

SourceSpec == SourceInit /\ [][Next /\ UNCHANGED source]_<<vars, source>>

-----------------------------------------------------------------------------
(* The decompiler accepts the code of every source, and what is on the      *)
(* stack then reads as the statements of that source, in their order.       *)
ReadBack == [i \in 1 .. Len(stack) - 1 |-> Read(stack[i + 1].text)]

RoundTrip ==
    source # NoSource /\ phase = "end" =>
        /\ result = -1
        /\ instructions[pc].bc = "EndOfFile"
        /\ \A i \in 2 .. Len(stack) : stack[i].type = "Statement"
        /\ ReadBack = Meaning(source)

(* decompile.cpp:209: the precedence of an operator is known "so we can      *)
(* determine if the left or right expression need to be bracketed": the      *)
(* text of nested operators reads as they were nested.                       *)
BracketsKeepMeaning == phase = "end" /\ result = -1 => ReadBack = Meaning(source)
=============================================================================
