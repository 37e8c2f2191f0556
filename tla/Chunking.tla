------------------------------- MODULE Chunking -------------------------------
(***************************************************************************)
(* Chunking: the loop of chunking.py (FR-4) over the parsed sections of    *)
(* one document.  Prose is cut by a sliding window whose pieces overlap, a *)
(* table stays whole or, past a much larger size, is cut between rows      *)
(* under a repeated header, and a caption stays whole.                     *)
(*                                                                         *)
(* A section is the sequence of the widths of its units: words of prose or *)
(* of a caption, each of width 1, or the rows of a table below `head`      *)
(* words of header.  A chunk names the units it takes; its chunk_index is  *)
(* its place in the sequence, less one.                                    *)
(***************************************************************************)
EXTENDS Integers, Sequences

CONSTANTS
    Documents,     \* the documents: sequences of sections
    TargetWords,   \* CHUNK_TARGET_WORDS
    Overlap,       \* int(CHUNK_TARGET_WORDS * CHUNK_OVERLAP_RATIO)
    TableMaxWords  \* CHUNK_TABLE_MAX_WORDS

Sections == [type : {"text", "ocr", "table", "image"}, head : Nat, units : Seq(Nat)]
Chunks   == [section : Nat, from : Nat, to : Nat]

ASSUME DocumentsAssumption == Documents \subseteq Seq(Sections)

\* The code does not check this: with a ratio of 1 or more the window never ends.
ASSUME SizesAssumption ==
    TargetWords \in Nat /\ Overlap \in Nat /\ TableMaxWords \in Nat /\ Overlap < TargetWords

VARIABLES
    sections,  \* the document
    at,        \* the section being cut
    from, to,  \* the units of it before the next piece, and those before or in it
    chunks     \* the chunks so far

cvars == <<sections, at, from, to, chunks>>

ChunkingInit ==
    /\ sections \in Documents
    /\ at = 1 /\ from = 0 /\ to = 0 /\ chunks = <<>>

-----------------------------------------------------------------------------
Section   == sections[at]
Units(i)  == Len(sections[i].units)
Size      == Units(at)
Cutting   == at \in DOMAIN sections
Finished  == ~Cutting

\* The words of the units after the a-th up to the b-th.
Width(s, a, b) ==
    LET sum[i \in Nat] == IF i <= a THEN 0 ELSE sum[i - 1] + s.units[i] IN sum[b]

\* A header and some rows below it are more than a chunk of a table may have.
Exceeds(s, a, b) == s.head + Width(s, a, b) > TableMaxWords

Atomic(s) == s.type \in {"table", "image"}

\* _split_table_rows: a table past the limit, with a row below its header.
Splits(s) ==
    /\ s.type = "table"
    /\ Len(s.units) > 0
    /\ Exceeds(s, 0, Len(s.units))

Blank(s) == s.head = 0 /\ s.units = <<>>

NextSection == at' = at + 1 /\ from' = 0 /\ to' = 0

Emit(a, b) == chunks' = Append(chunks, [section |-> at, from |-> a, to |-> b])

Skip ==
    /\ Cutting /\ Blank(Section)
    /\ NextSection
    /\ UNCHANGED <<sections, chunks>>

\* Mutant of Whole: an atomic section is cut off at the size of a prose chunk.
Truncated ==
    /\ Cutting /\ ~Blank(Section) /\ Atomic(Section) /\ ~Splits(Section)
    /\ Emit(0, IF TargetWords < Size THEN TargetWords ELSE Size)
    /\ NextSection
    /\ UNCHANGED sections

Whole ==
    /\ Cutting /\ ~Blank(Section) /\ Atomic(Section) /\ ~Splits(Section)
    /\ Emit(0, Size)
    /\ NextSection
    /\ UNCHANGED sections

\* The window that reaches the end of the section is the last.
Stop(end) == end = Size

Window ==
    /\ Cutting /\ ~Blank(Section) /\ ~Atomic(Section)
    /\ LET end == IF from + TargetWords < Size THEN from + TargetWords ELSE Size IN
          /\ Emit(from, end)
          /\ IF Stop(end) THEN NextSection
                          ELSE at' = at /\ from' = end - Overlap /\ to' = end - Overlap
    /\ UNCHANGED sections

\* One more row would take the group past the limit. A group has at least one row.
Full == to > from /\ Exceeds(Section, from, to + 1)

TakeRow ==
    /\ Cutting /\ Splits(Section)
    /\ to < Size /\ ~Full
    /\ to' = to + 1
    /\ UNCHANGED <<sections, at, from, chunks>>

CloseGroup ==
    /\ Cutting /\ Splits(Section)
    /\ to < Size /\ Full
    /\ Emit(from, to)
    /\ from' = to
    /\ UNCHANGED <<sections, at, to>>

LastGroup ==
    /\ Cutting /\ Splits(Section)
    /\ to = Size
    /\ Emit(from, to)
    /\ NextSection
    /\ UNCHANGED sections

ChunkingNext == Skip \/ Whole \/ Window \/ TakeRow \/ CloseGroup \/ LastGroup

ChunkingSpec == ChunkingInit /\ [][ChunkingNext]_cvars

-----------------------------------------------------------------------------
ChunkingTypeOK ==
    /\ sections \in Seq(Sections)
    /\ at \in 1..(Len(sections) + 1)
    /\ from \in Nat /\ to \in Nat
    /\ chunks \in Seq(Chunks)

\* The units a to b of a section lie in one chunk.
InOneChunk(i, a, b) ==
    \E c \in 1..Len(chunks) :
        chunks[c].section = i /\ chunks[c].from < a /\ b <= chunks[c].to

\* FR-4: nothing of a document is lost between its chunks, and every passage of its
\* prose that is no longer than the overlap and one word can be read in one of them.
PassagesKept ==
    \A i \in 1..(at - 1) : \A a \in 1..Units(i) :
        /\ InOneChunk(i, a, a)
        /\ ~Atomic(sections[i]) =>
               \A b \in a..Units(i) : b - a <= Overlap => InOneChunk(i, a, b)

\* A row of a table is in one chunk only, and no chunk repeats what is all in another:
\* each piece of a section begins and ends after the one before, so the loop ends.
NothingTwice ==
    \A c \in 1..Len(chunks), e \in 1..Len(chunks) :
        c < e /\ chunks[c].section = chunks[e].section =>
            /\ chunks[c].from < chunks[e].from /\ chunks[c].to < chunks[e].to
            /\ Atomic(sections[chunks[c].section]) => chunks[c].to <= chunks[e].from

\* The embedding backend refuses a chunk past its limit: only one row alone, or a
\* caption, may be larger than what its kind of section is cut to.
ChunksFit ==
    \A c \in 1..Len(chunks) :
        LET k == chunks[c]
            s == sections[k.section]
        IN  /\ ~Atomic(s) => k.to - k.from <= TargetWords
            /\ Splits(s) => k.to = k.from + 1 \/ ~Exceeds(s, k.from, k.to)

=============================================================================
