--------------------------- MODULE StreamedGraphs ---------------------------
(***************************************************************************)
(* A graph of objects, written the way Newton writes it, is read back as   *)
(* the same graph, with its sharing and its cycles.  The writer is not     *)
(* part of the repository: it follows the description at the head of       *)
(* stream.cpp.  An object is written in full where it is met first, and as *)
(* its precedent ID after that; an integer is its value as a 32 bit Ref.   *)
(***************************************************************************)
EXTENDS StreamReader, SequencesExt

CONSTANTS
    Nodes,          \* the objects of a graph
    Graphs,         \* [root, of], of[node] the object
    NoGraph,        \* the stream is any of Streams
    Word,           \* the number of values of a long, 2^32
    LongestStream   \* bound: the tokens of a stream

VARIABLE graph

Source(kind, name, class, tags, parts) ==
    [kind |-> kind, name |-> name, class |-> class, tags |-> tags, parts |-> parts]

(* What an object consists of, in the order it is written. *)
Parts(object) ==
    CASE object.kind = "binary" -> <<object.class>>
      [] object.kind = "array"  -> <<object.class>> \o object.parts
      [] OTHER                  -> object.tags \o object.parts

(* The writer has "todo" to write, and has numbered the objects "ids".       *)
Writer(todo, ids) == [todo |-> todo, ids |-> ids]

IdOf(ids, v) == CHOOSE k \in DOMAIN ids : ids[k] = v

IsNew(ids, v) == v \in Nodes /\ ~Contains(ids, v)

NextToken(of, w) ==
    LET v == Head(w.todo)
    IN  CASE v \notin Nodes   -> Token("immediate", (v * 4) % Word)
          [] IsNew(w.ids, v)  ->
                Token(of[v].kind, IF of[v].kind = "symbol" THEN of[v].name ELSE Len(of[v].parts))
          [] OTHER            -> Token("precedent", IdOf(w.ids, v) - 1)

AfterToken(of, w) ==
    LET v == Head(w.todo)
    IN  IF IsNew(w.ids, v) THEN Writer(Parts(of[v]) \o Tail(w.todo), Append(w.ids, v))
        ELSE Writer(Tail(w.todo), w.ids)

(* The writer before the k-th token.  The first one is the version number.   *)
Writing(g) ==
    LET writer[k \in 2 .. LongestStream + 1] ==
            IF k = 2 THEN Writer(<<g.root>>, << >>)
            ELSE IF writer[k - 1].todo = << >> THEN writer[k - 1]
            ELSE AfterToken(g.of, writer[k - 1])
    IN  writer

Ends(writer, k) == writer[k].todo = << >> /\ \A j \in 2 .. k - 1 : writer[j].todo # << >>

WrittenOf ==
    [g \in Graphs |->
        LET writer == Writing(g)
            end    == CHOOSE k \in DOMAIN writer : Ends(writer, k)
        IN  [stream |-> [k \in 1 .. end - 1 |-> IF k = 1 THEN Token("version", 2)
                                                ELSE NextToken(g.of, writer[k])],
             ids |-> writer[end].ids]]

(* A class and a tag is a symbol; no frame has the same tag twice.           *)
IsSymbolNode(g, v) == v \in Nodes /\ g.of[v].kind = "symbol"

IsSource(g, object) ==
    /\ object.kind \in ObjectTags
    /\ object.parts \in Seq(Nodes \cup Int) /\ object.tags \in Seq(Nodes)
    /\ object.kind \in {"binary", "array"} => IsSymbolNode(g, object.class)
    /\ object.kind \in {"binary", "string", "symbol"} => object.parts = << >>
    /\ IF object.kind = "frame"
       THEN /\ Len(object.tags) = Len(object.parts) /\ Len(object.tags) + 1 < SizeLimit
            /\ \A i \in DOMAIN object.tags : IsSymbolNode(g, object.tags[i])
            /\ \A i, j \in DOMAIN object.tags :
                  g.of[object.tags[i]].name = g.of[object.tags[j]].name => i = j
       ELSE object.tags = << >> /\ Len(object.parts) < SizeLimit

IntegersOf(g) ==
    {v \in {g.root} \cup UNION {Range(g.of[n].parts) : n \in Nodes} : v \notin Nodes}

IsGraph(g) ==
    /\ g.root \in Nodes \cup Int
    /\ \A n \in Nodes : IsSource(g, g.of[n])
    /\ \A v \in IntegersOf(g) : StreamImmediate((v * 4) % Word) \in Immediates
    /\ \E k \in 2 .. LongestStream + 1 : Writing(g)[k].todo = << >>

ASSUME GraphAssumption ==
    /\ LongestStream \in Nat \ {0} /\ Word \in Nat \ {0}
    /\ \A g \in Graphs : IsGraph(g)

GraphInit == Init /\ graph \in Graphs \cup {NoGraph}

OpenStream ==
    \/ graph # NoGraph /\ Open(WrittenOf[graph].stream)
    \/ graph = NoGraph /\ status = "closed" /\ \E contents \in Streams : Open(contents)

(* The reader stops here, and nowhere else.                                 *)
Stopped == status \in {"read"} \cup Deaths /\ UNCHANGED vars

GraphNext == UNCHANGED graph /\ (OpenStream \/ ReadStep \/ Stopped)

GraphSpec == GraphInit /\ [][GraphNext]_<<vars, graph>>

-----------------------------------------------------------------------------
(* What was read for a node, and for an integer.                            *)
Ids == WrittenOf[graph].ids

Image(v) == IF v \in Nodes THEN precedent[IdOf(Ids, v)] ELSE v * 4 + 1

Holds(object, parts) ==
    /\ object.length = Len(parts)
    /\ \A i \in DOMAIN parts : object.slot[i - 1] = Image(parts[i])

SameObject(v) ==
    LET written == graph.of[v]
        read    == heap[Image(v)]
    IN  CASE written.kind = "symbol" -> NameOf[Image(v)] = written.name
          [] written.kind = "string" -> read = Binary(StringClass)
          [] written.kind = "binary" -> read = Binary(Image(written.class))
          [] written.kind = "array"  -> read.tag = "array" /\ read.head = Image(written.class)
                                        /\ Holds(read, written.parts)
          [] written.kind = "plainArray" -> read.tag = "array" /\ read.head = ArrayClass
                                        /\ Holds(read, written.parts)
          [] written.kind = "frame"  -> /\ read.tag = "frame"
                                        /\ Holds(read, written.parts)
                                        /\ read.head.length = Len(written.tags) + 1
                                        /\ \A i \in DOMAIN written.tags :
                                              read.head.slot[i] = Image(written.tags[i])

SameAsWritten ==
    status = "read" => /\ value = Image(graph.root)
                       /\ IsInjective(precedent)
                       /\ \A k \in DOMAIN Ids : SameObject(Ids[k])

NoneNegative(g) == \A v \in IntegersOf(g) : 0 <= v /\ v * 4 < Word

(* A graph is read to its last token, and is the graph that was written: no  *)
(* assertion, exception or access out of range stops the reader, and the     *)
(* counts of slots lead it to the end of every object, cycles or not.        *)
SameGraph ==
    graph # NoGraph /\ NoneNegative(graph) =>
        /\ status \notin Deaths
        /\ status = "read" => pos = Len(stream) + 1
        /\ SameAsWritten

(* stream.cpp:29: an xlong that is more than a byte is a signed long, so     *)
(* integers keep their sign.                                                 *)
IntegersKeepTheirSign == graph # NoGraph => SameAsWritten
=============================================================================
