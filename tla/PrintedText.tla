----------------------------- MODULE PrintedText -----------------------------
(***************************************************************************)
(* What Printer prints, against the text of a graph cut at a depth.        *)
(***************************************************************************)
EXTENDS Printer, SequencesExt

RECURSIVE Text(_, _, _)

(* The text of a part, when "depth" more levels may be opened.              *)
Text(of, part, depth) ==
    LET node  == of[part.ref]
        inner == IF node.kind \in Containers THEN depth - 1 ELSE depth
        parts == PartsOf(node)
    IN  IF node.kind \in Containers /\ depth = 0 THEN <<Item("address", part.ref)>>
        ELSE IF node.kind \in Containers \cup Binaries
        THEN <<Item("open", part.ref)>>
                \o FlattenSeq([i \in DOMAIN parts |-> Text(of, parts[i], inner)])
                \o <<Item("close", part.ref)>>
        ELSE <<Item(IF node.kind = "symbol" /\ ~part.name THEN "quoted" ELSE "plain", part.ref)>>

TextOf == [g \in Graphs |-> Text(g.of, Plain(g.root), PrintDepth)]

(* An array of class 'array does not print its class.  Printed as a class    *)
(* itself, it prints its slots with the flag still set.                      *)
FlagIsForSymbols(g) ==
    \A ref \in DOMAIN g.of :
        LET class == g.of[g.of[ref].class]
        IN  ~(class.kind = "array" /\ class.class = ArraySymbol)

Unquoted(text) ==
    [i \in DOMAIN text |-> IF text[i].what = "quoted" THEN Item("plain", text[i].ref) ELSE text[i]]

(* At any time the text so far is a beginning of that of the graph, each     *)
(* object cut at the same depth, and all of it at the end.  Tags and classes *)
(* have no quote and symbols in slots have one, however deep the nesting and *)
(* however often the flag was set and cleared on the way, unless the class   *)
(* of something is a plain array: then the text is the same up to quotes.    *)
PrintsTheGraph ==
    LET text == TextOf[graph]
    IN  /\ IsPrefix(Unquoted(out), Unquoted(text))
        /\ FlagIsForSymbols(graph) => IsPrefix(out, text)
        /\ Printed => Len(out) = Len(text)
=============================================================================
