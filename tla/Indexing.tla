------------------------------ MODULE Indexing ------------------------------
(***************************************************************************)
(* Indexing: one document from its file to the answer of a search.  The    *)
(* worker parses the file (module Parsing), hands the sections to          *)
(* chunk_sections (module Chunking), and what it cut is later ranked for a *)
(* query (module Ranking).  Between the two only the words of a section    *)
(* and its content type count.                                             *)
(***************************************************************************)
EXTENDS Parsing, Ranking

CONSTANT CaptionWords  \* the words of a caption

ASSUME IndexingAssumption == CaptionWords \in Nat

IndexingInit == ParsingInit /\ RankingInit /\ sections = <<>>

-----------------------------------------------------------------------------
Total(s) == Width([units |-> s], 0, Len(s))

\* The words of the lines of a table, split at white space: a cell's own and the bars.
\* A line of a spreadsheet has its cells that hold something, with bars between them only.
Lines(i) ==
    LET rows == Rows(i)
        line(row) == IF file.format = "xlsx"
                        THEN Total(row) + Cardinality({c \in DOMAIN row : row[c] > 0}) - 1
                        ELSE Total(row) + Len(row) + 1
        separator == 2 * Len(rows[1]) + 1
    IN  IF file.format = "xlsx" THEN [r \in DOMAIN rows |-> line(rows[r])]
        ELSE <<line(rows[1]), separator>> \o [r \in 1..(Len(rows) - 1) |-> line(rows[r + 1])]

\* _split_table_rows takes the first two lines, whatever they are, for header and separator.
TableSection(l) ==
    [type |-> "table",
     head |-> Total(SubSeq(l, 1, IF Len(l) < 3 THEN Len(l) ELSE 2)),
     units |-> SubSeq(l, 3, Len(l))]

\* A section as chunk_sections sees it.
Measured(s) ==
    IF s.type = "table" THEN TableSection(Lines(s.texts[1]))
    ELSE LET words == IF s.type = "image" THEN CaptionWords
                      ELSE Total([i \in DOMAIN s.texts |-> Part(s.texts[i]).words])
         IN  [type |-> s.type, head |-> 0, units |-> [i \in 1..words |-> 1]]

\* The parser's own data ends here.
HandOver ==
    /\ reading = "read"
    /\ reading' = "chunking"
    /\ sections' = [i \in DOMAIN parsed |-> Measured(parsed[i])]
    /\ host' = None /\ file' = None /\ next' = 1 /\ heading' = 0 /\ lines' = <<>> /\ parsed' = <<>>
    /\ budget' = MaxOcrImages /\ skipped' = {} /\ figures' = <<>>
    /\ UNCHANGED <<at, from, to, chunks, kvars>>

\* "document contained no extractable text"
RefuseEmpty ==
    /\ reading = "chunking" /\ Finished /\ chunks = <<>>
    /\ reading' = "refused"
    /\ UNCHANGED <<host, file, next, heading, lines, parsed, budget, skipped, figures, pvars>>

IndexingNext ==
    \/ ParsingNext /\ UNCHANGED pvars
    \/ HandOver \/ RefuseEmpty
    \/ reading = "chunking" /\ RankingNext /\ UNCHANGED rvars

IndexingSpec == IndexingInit /\ [][IndexingNext]_<<rvars, pvars>>

=============================================================================
