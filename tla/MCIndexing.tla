----------------------------- MODULE MCIndexing -----------------------------
(* Files of every format: prose at the boundaries of a chunk, tables of up to five rows, *)
(* every way three pages of a PDF can be scans, and headings nested in other elements.   *)
EXTENDS Indexing, TLC

P(kind, place, words) ==
    [kind |-> kind, place |-> place, words |-> words, rows |-> <<>>, figure |-> 0, small |-> TRUE]
Grid(place, rows) == [P("table", place, 0) EXCEPT !.rows = rows]
Figure(place, words, content) ==
    [P("image", place, words) EXCEPT !.figure = content, !.small = FALSE]
File(format, places, parts) ==
    [format |-> format, flaw |-> "none", places |-> places, parts |-> parts]

Flawed == {[File(format, 1, <<>>) EXCEPT !.flaw = flaw] :
              format \in {"docx", "pdf"}, flaw \in {"empty", "bomb", "corrupt", "locked"}}
             \cup {File("other", 0, <<>>), File("pdf", 4, <<>>)}

Plain == {File("txt", 0, <<P("text", 0, n)>>) : n \in {0, 4, 5, 9, 11}}
            \cup {File("image", 0, <<P("image", 0, n)>>) : n \in {0, 5}}

\* Up to four lines or blocks of one word, one of them perhaps blank.
Blocks == {P("heading", 0, 1), P("text", 0, 1), P("text", 0, 0)}
Tables == {Grid(0, <<<<0>>, <<1>>>>), Grid(0, <<<<0, 0>>>>)}
Marked == {File("markdown", 0, s) : s \in UNION {[1..n -> Blocks] : n \in 1..3}}
Word   == {File("docx", 0, s) : s \in [1..3 -> Blocks \cup Tables]}
             \cup {File("docx", 0, <<P("heading", 0, 1), P("text", 0, 1), Grid(0, <<<<1>>, <<1>>>>),
                                     P("text", 0, 1), Figure(0, 0, 1)>>),
                    File("docx", 0, <<P("text", 0, 5), Figure(0, 0, 1), Figure(0, 0, 1)>>)}

Web == {File("html", 0, s) : s \in [1..3 -> {P("heading", 0, 1), P("text", 0, 1)}]}
          \cup {File("html", 0, <<P("heading", 0, 1), P("box", 0, 0), P("heading", 2, 0),
                                  P("text", 2, 1), P("bare", 0, 1), P("text", 0, 1)>>)}

Slides == {File("pptx", 2, <<P("title", 1, n), P("text", 1, m), Figure(1, 0, 1),
                             P("text", 2, 1), P("title", 2, k), Grid(2, <<<<1>>>>)>>) :
              n \in {0, 1}, m \in {0, 1}, k \in {0, 1}}
Sheets == {File("xlsx", 1, <<Grid(1, [i \in 1..n |-> <<rows[i], 0>>])>>) :
              n \in 0..5, rows \in {r \in [1..5 -> {1, 5}] : r[1] = 1 /\ r[2] = 1}}

Pages(k) ==
    {<<>>, <<P("text", k, 1)>>, <<Grid(k, <<<<0>>>>)>>, <<P("image", k, 0)>>, <<P("image", k, 1)>>,
     <<P("image", k, 1), P("image", k, 1)>>}
Scans == {File("pdf", 3, a \o b \o c) : a \in Pages(1), b \in Pages(2), c \in Pages(3)}
             \cup {File("pdf", 1, <<P("text", 1, 5), Grid(1, <<<<1>>>>), Figure(1, 1, 1)>>)}

AllFiles == Flawed \cup Plain \cup Marked \cup Word \cup Web \cup Slides \cup Sheets \cup Scans
AllHosts == [ocr : BOOLEAN, vision : BOOLEAN]

Unparsed    == {<<>>}
Logits      == {-2, 1}
FloorsOfRun == {None, -1}

=============================================================================
