--------------------------- MODULE MCStreamReader ---------------------------
(* Instances of StreamedGraphs for TLC: the streams, well formed or not, of  *)
(* up to five tokens after the version number (up to three of the rarer      *)
(* ones), one with a bad version number and one that is empty; five tokens   *)
(* make a frame of two slots, and there are frames with a tag twice,         *)
(* precedents of objects that are being read, and an array longer than       *)
(* SizeLimit.  And graphs of two objects of every kind with two slots, which *)
(* may hold each other and themselves, two symbols, a string and an integer. *)
(* "Word" is 2^8; a graph is written in less than 16 tokens.                 *)
EXTENDS StreamedGraphs

CONSTANTS p1, p2, p3, p4, p5, s1, s2, s3, s4, s5, symArray, symString, foo, bar,
          n1, n2, nFoo, nBar, nString

MCNameOf ==
    [s \in Symbols |-> IF s \in {s1, s2, s3} THEN foo ELSE IF s \in {s4, s5} THEN bar ELSE s]

MCTokens ==
    {Token("immediate", 4), Token("binary", 3), Token("symbol", foo), Token("array", 2),
     Token("plainArray", 1), Token("plainArray", 4), Token("frame", 1), Token("frame", 2),
     Token("precedent", 0), Token("precedent", 1)}

MCRareTokens ==
    {Token("char", 1), Token("nil", 0), Token("unsupported", 11), Token("symbol", bar),
     Token("string", 2), Token("array", 0), Token("frame", 0)}

MCStreams ==
    {<<Token("version", 2)>> \o tokens :
        tokens \in SeqOf(MCTokens, 5) \cup SeqOf(MCTokens \cup MCRareTokens, 3)}
        \cup {<< >>, <<Token("version", 1)>>}

-----------------------------------------------------------------------------
MCParts == {n1, n2, nFoo, nString, 1} \X {n1, n2, nFoo, nBar}

MCObjects ==
    {Source("array", foo, nFoo, << >>, parts) : parts \in MCParts}
        \cup {Source("plainArray", foo, nFoo, << >>, parts) : parts \in MCParts}
        \cup {Source("frame", foo, nFoo, <<nBar, nFoo>>, parts) : parts \in MCParts}
        \cup {Source("binary", foo, class, << >>, << >>) : class \in {nFoo, nBar}}
        \cup {Source("frame", foo, nFoo, << >>, << >>), Source("array", foo, nBar, << >>, << >>)}

Graph(o1, o2) ==
    [root |-> n1,
     of |-> n1 :> o1 @@ n2 :> o2 @@ nString :> Source("string", foo, nFoo, << >>, << >>)
            @@ nFoo :> Source("symbol", foo, nFoo, << >>, << >>)
            @@ nBar :> Source("symbol", bar, nFoo, << >>, << >>)]

MCGraphs == {Graph(o1, o2) : o1, o2 \in MCObjects}

MCNegative ==
    {Graph(Source("plainArray", foo, nFoo, << >>, <<-1>>), Source("frame", foo, nFoo, << >>, << >>))}
=============================================================================
