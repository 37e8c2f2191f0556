---------------------------- MODULE IndexingProofs ----------------------------
(***************************************************************************)
(* Proofs about Parsing, Chunking, Ranking and what Indexing makes of the  *)
(* three: for any files as ParsingAssumption describes them, any sizes     *)
(* with an overlap shorter than the window, any scores, weights and        *)
(* floors, and any number of places in the answer.                         *)
(*                                                                         *)
(* The cutting comes first, then the ranking, the reading, and the run     *)
(* from the file to the answer, which puts the three together.             *)
(***************************************************************************)
EXTENDS Indexing, FiniteSetTheorems, FunctionTheorems, WellFoundedInduction, TLAPS

ChunkNumbers == 1..Len(chunks)

\* The chunks of the section being cut lie behind the place where the next piece begins.
AllBehind ==
    \A c \in ChunkNumbers : chunks[c].section = at =>
        /\ chunks[c].from < from
        /\ Atomic(Section) => chunks[c].to <= from
        /\ ~Atomic(Section) => chunks[c].to <= from + Overlap /\ chunks[c].to < Size

\* What has been cut of the current section: every short passage that begins before the
\* next piece does, or every row before it.
CutSoFar ==
    \A a \in 1..Size : a <= from =>
        /\ InOneChunk(at, a, a)
        /\ ~Atomic(Section) =>
              \A b \in a..Size : b - a <= Overlap => InOneChunk(at, a, b)

\* Where the cutting of the current section can be. A group of rows that was just closed
\* is followed by a row.
Position ==
    /\ from <= to /\ to <= Size
    /\ ~Splits(Section) => to = from
    /\ Atomic(Section) /\ ~Splits(Section) => from = 0
    /\ Splits(Section) => from < Size
    /\ Splits(Section) => to <= from + 1 \/ ~Exceeds(Section, from, to)

ChunkingInv ==
    /\ ChunkingTypeOK
    /\ \A c \in ChunkNumbers : chunks[c].section <= at
    /\ Cutting => Position /\ CutSoFar /\ AllBehind
    /\ PassagesKept /\ NothingTwice /\ ChunksFit

LEMMA SectionType ==
  ASSUME ChunkingTypeOK
  PROVE  /\ sections \in Seq(Sections)
         /\ at \in Nat \ {0} /\ from \in Nat /\ to \in Nat
         /\ \A i \in 1..Len(sections) : sections[i] \in Sections /\ Units(i) \in Nat
         /\ Cutting => at \in 1..Len(sections)
         /\ ~Cutting => at = Len(sections) + 1
         /\ \A c \in ChunkNumbers : chunks[c] \in Chunks
<1>1. sections \in Seq(Sections)
  BY DEF ChunkingTypeOK
<1>2. \A i \in 1..Len(sections) : sections[i] \in Sections
  BY <1>1
<1>3. \A i \in 1..Len(sections) : sections[i].units \in Seq(Nat)
  BY <1>2 DEF Sections
<1>4. \A i \in 1..Len(sections) : Units(i) \in Nat
  BY <1>3 DEF Units
<1>5. \A c \in ChunkNumbers : chunks[c] \in Chunks
  BY DEF ChunkingTypeOK, ChunkNumbers
<1>6. QED
  BY <1>1, <1>2, <1>4, <1>5 DEF ChunkingTypeOK, Cutting

-----------------------------------------------------------------------------
(* Emitting a chunk *)

\* A new chunk takes nothing away from the ones before.
LEMMA EmitKeeps ==
  ASSUME ChunkingTypeOK, NEW a \in Nat, NEW b \in Nat, Emit(a, b), UNCHANGED sections
  PROVE  /\ chunks' \in Seq(Chunks)
         /\ Len(chunks') = Len(chunks) + 1
         /\ \A c \in ChunkNumbers : chunks'[c] = chunks[c]
         /\ chunks'[Len(chunks) + 1] = [section |-> at, from |-> a, to |-> b]
         /\ \A i \in Nat, x \in Nat, y \in Nat :
               InOneChunk(i, x, y) => InOneChunk(i, x, y)'
         /\ \A i \in Nat, x \in Nat, y \in Nat :
               i = at /\ a < x /\ y <= b => InOneChunk(i, x, y)'
<1> DEFINE k == [section |-> at, from |-> a, to |-> b]
<1>1. k \in Chunks /\ chunks \in Seq(Chunks)
  BY SectionType DEF Chunks, ChunkingTypeOK
<1>2. chunks' = Append(chunks, k)
  BY DEF Emit
<1>3. k.section = at /\ k.from = a /\ k.to = b
  OBVIOUS
<1> HIDE DEF k
<1>4. /\ chunks' \in Seq(Chunks)
      /\ Len(chunks') = Len(chunks) + 1
      /\ \A c \in ChunkNumbers : chunks'[c] = chunks[c]
      /\ chunks'[Len(chunks) + 1] = k
  BY <1>1, <1>2 DEF ChunkNumbers
<1>5. ASSUME NEW i \in Nat, NEW x \in Nat, NEW y \in Nat, InOneChunk(i, x, y)
      PROVE  InOneChunk(i, x, y)'
  <2>1. PICK c \in 1..Len(chunks) :
           chunks[c].section = i /\ chunks[c].from < x /\ y <= chunks[c].to
    BY <1>5 DEF InOneChunk
  <2>2. c \in 1..Len(chunks') /\ chunks'[c] = chunks[c]
    BY <1>1, <1>4 DEF ChunkNumbers
  <2>3. QED
    BY <2>1, <2>2 DEF InOneChunk
<1>6. ASSUME NEW i \in Nat, NEW x \in Nat, NEW y \in Nat, i = at, a < x, y <= b
      PROVE  InOneChunk(i, x, y)'
  BY <1>1, <1>3, <1>4, <1>6 DEF InOneChunk
<1>7. QED
  BY <1>4, <1>5, <1>6 DEF k

\* A chunk that lies after the others of its section, fits, and ends what it cuts.
LEMMA EmitInv ==
  ASSUME ChunkingInv, Cutting, NEW a \in Nat, NEW b \in Nat, Emit(a, b), UNCHANGED sections,
         a = from,
         \A c \in ChunkNumbers : chunks[c].section = at =>
             chunks[c].to < b /\ (Atomic(Section) => chunks[c].to <= a),
         ~Atomic(Section) => b - a <= TargetWords,
         Splits(Section) => b = a + 1 \/ ~Exceeds(Section, a, b)
  PROVE  NothingTwice' /\ ChunksFit'
<1>0. /\ chunks' \in Seq(Chunks)
      /\ Len(chunks') = Len(chunks) + 1
      /\ \A c \in ChunkNumbers : chunks'[c] = chunks[c]
      /\ chunks'[Len(chunks) + 1] = [section |-> at, from |-> a, to |-> b]
      /\ Len(chunks) \in Nat
  BY EmitKeeps DEF ChunkingInv, ChunkingTypeOK
<1>1. \A c \in 1..Len(chunks') : c \in ChunkNumbers \/ c = Len(chunks) + 1
  BY <1>0 DEF ChunkNumbers
<1>2. NothingTwice'
  <2> SUFFICES ASSUME NEW c \in 1..Len(chunks'), NEW e \in 1..Len(chunks'), c < e,
                      chunks'[c].section = chunks'[e].section
               PROVE  /\ chunks'[c].from < chunks'[e].from /\ chunks'[c].to < chunks'[e].to
                      /\ Atomic(sections[chunks'[c].section]) => chunks'[c].to <= chunks'[e].from
    BY DEF NothingTwice
  <2>1. c \in ChunkNumbers
    BY <1>0 DEF ChunkNumbers
  <2>2. CASE e \in ChunkNumbers
    BY <1>0, <2>1, <2>2 DEF ChunkingInv, NothingTwice, ChunkNumbers
  <2>3. CASE e = Len(chunks) + 1
    <3>1. chunks[c].section = at /\ chunks'[c] = chunks[c]
      BY <1>0, <2>1, <2>3
    <3>2. AllBehind
      BY DEF ChunkingInv
    <3>3. chunks[c].from < a /\ chunks[c].to < b
      BY <2>1, <3>1, <3>2 DEF AllBehind
    <3>4. Atomic(sections[at]) => chunks[c].to <= a
      BY <2>1, <3>1 DEF Section
    <3>5. QED
      BY <1>0, <2>3, <3>1, <3>3, <3>4
  <2>4. QED
    BY <1>1, <2>2, <2>3
<1>3. ChunksFit'
  <2> SUFFICES ASSUME NEW c \in 1..Len(chunks')
               PROVE  /\ ~Atomic(sections[chunks'[c].section]) =>
                            chunks'[c].to - chunks'[c].from <= TargetWords
                      /\ Splits(sections[chunks'[c].section]) =>
                            \/ chunks'[c].to = chunks'[c].from + 1
                            \/ ~Exceeds(sections[chunks'[c].section], chunks'[c].from,
                                        chunks'[c].to)
    BY DEF ChunksFit
  <2>1. CASE c \in ChunkNumbers
    BY <1>0, <2>1 DEF ChunkingInv, ChunksFit, ChunkNumbers
  <2>2. CASE c = Len(chunks) + 1
    BY <1>0, <2>2 DEF Section
  <2>3. QED
    BY <1>1, <2>1, <2>2
<1>4. QED
  BY <1>2, <1>3

\* The first piece of the next section, if all of this one has been cut.
LEMMA Leaving ==
  ASSUME ChunkingInv, ChunkingTypeOK', Cutting, NextSection, UNCHANGED sections,
         \A c \in 1..Len(chunks') : chunks'[c].section <= at,
         \A i \in Nat, x \in Nat, y \in Nat : InOneChunk(i, x, y) => InOneChunk(i, x, y)',
         \A i \in Nat : i = at => \A x \in 1..Units(i) :
             /\ InOneChunk(i, x, x)'
             /\ ~Atomic(sections[i]) =>
                   \A y \in x..Units(i) : y - x <= Overlap => InOneChunk(i, x, y)',
         NothingTwice', ChunksFit'
  PROVE  ChunkingInv'
<1>0. /\ at \in 1..Len(sections) /\ at' = at + 1 /\ from' = 0 /\ to' = 0
      /\ \A i \in 1..Len(sections) : Units(i) \in Nat
      /\ Len(sections) \in Nat
      /\ sections' = sections
  BY SectionType DEF ChunkingInv, NextSection
<1>1. \A c \in ChunkNumbers' : chunks'[c].section <= at' /\ chunks'[c].section # at'
  <2>1. \A c \in ChunkNumbers' : chunks'[c] \in Chunks
    BY DEF ChunkNumbers, ChunkingTypeOK
  <2>2. QED
    BY <1>0, <2>1 DEF ChunkNumbers, Chunks
<1>2. PassagesKept'
  <2> SUFFICES ASSUME NEW i \in 1..(at' - 1), NEW x \in 1..Units(i)
               PROVE  /\ InOneChunk(i, x, x)'
                      /\ ~Atomic(sections[i]) =>
                            \A y \in x..Units(i) : y - x <= Overlap => InOneChunk(i, x, y)'
    BY <1>0 DEF PassagesKept, Units
  <2>1. i \in 1..Len(sections) /\ x \in Nat /\ Units(i) \in Nat
    BY <1>0
  <2>2. CASE i = at
    BY <2>1, <2>2
  <2>3. CASE i \in 1..(at - 1)
    <3>1. /\ InOneChunk(i, x, x)
          /\ ~Atomic(sections[i]) =>
                \A y \in x..Units(i) : y - x <= Overlap => InOneChunk(i, x, y)
      BY <2>3 DEF ChunkingInv, PassagesKept
    <3>2. \A y \in x..Units(i) : y \in Nat
      BY <2>1
    <3>3. QED
      BY <2>1, <3>1, <3>2
  <2>4. QED
    BY <1>0, <2>2, <2>3
<1>3. Cutting' => Position' /\ CutSoFar' /\ AllBehind'
  <2> SUFFICES ASSUME Cutting'
               PROVE  Position' /\ CutSoFar' /\ AllBehind'
    OBVIOUS
  <2>1. at' \in 1..Len(sections) /\ Size' \in Nat
    BY <1>0 DEF Cutting, Size, Units
  <2>2. Position'
    <3>1. Splits(Section)' => 0 < Size'
      BY DEF Splits, Size, Units, Section
    <3>2. QED
      BY <1>0, <2>1, <3>1 DEF Position
  <2>3. CutSoFar'
    BY <1>0, <2>1 DEF CutSoFar
  <2>4. AllBehind'
    BY <1>1 DEF AllBehind
  <2>5. QED
    BY <2>2, <2>3, <2>4
<1>4. QED
  BY <1>1, <1>2, <1>3 DEF ChunkingInv

-----------------------------------------------------------------------------
(* The steps *)

LEMMA PassageEnd ==
  ASSUME NEW x \in Nat, NEW y \in Nat, NEW f \in Nat, NEW o \in Nat, x <= f, y - x <= o
  PROVE  y <= f + o
  OBVIOUS

LEMMA ChunkingTypeStep == ChunkingTypeOK /\ [ChunkingNext]_cvars => ChunkingTypeOK'
<1> SUFFICES ASSUME ChunkingTypeOK, [ChunkingNext]_cvars PROVE ChunkingTypeOK'
  OBVIOUS
<1>0. /\ at \in Nat \ {0} /\ from \in Nat /\ to \in Nat /\ Len(sections) \in Nat
      /\ Cutting => at \in 1..Len(sections) /\ Size \in Nat
  BY SectionType DEF Size
<1>1. ASSUME Cutting, NextSection PROVE at' \in 1..(Len(sections) + 1) /\ from' \in Nat /\ to' \in Nat
  BY <1>0, <1>1 DEF NextSection
<1>2. ASSUME NEW a \in Nat, NEW b \in Nat, Emit(a, b), UNCHANGED sections
      PROVE  chunks' \in Seq(Chunks)
  BY <1>2, EmitKeeps
<1>3. CASE Skip
  BY <1>1, <1>3 DEF Skip, ChunkingTypeOK
<1>4. CASE Whole
  BY <1>0, <1>1, <1>2, <1>4 DEF Whole, ChunkingTypeOK
<1>5. CASE Window
  <2> DEFINE end == IF from + TargetWords < Size THEN from + TargetWords ELSE Size
  <2>1. /\ Cutting /\ Emit(from, end) /\ UNCHANGED sections
        /\ \/ NextSection
           \/ end # Size /\ at' = at /\ from' = end - Overlap /\ to' = end - Overlap
    BY <1>5 DEF Window, Stop
  <2>2. end \in Nat
    BY <1>0, <2>1, SizesAssumption
  <2>3. end # Size => end - Overlap \in Nat
    BY <1>0, <2>1, SizesAssumption
  <2>4. chunks' \in Seq(Chunks)
    BY <1>0, <1>2, <2>1, <2>2
  <2>5. at' \in 1..(Len(sections) + 1) /\ from' \in Nat /\ to' \in Nat
    BY <1>0, <1>1, <2>1, <2>3
  <2>6. QED
    BY <2>1, <2>4, <2>5 DEF ChunkingTypeOK
<1>6. CASE TakeRow
  BY <1>6 DEF TakeRow, ChunkingTypeOK
<1>7. CASE CloseGroup
  BY <1>0, <1>2, <1>7 DEF CloseGroup, ChunkingTypeOK
<1>8. CASE LastGroup
  BY <1>0, <1>1, <1>2, <1>8 DEF LastGroup, ChunkingTypeOK
<1>9. CASE UNCHANGED cvars
  BY <1>9 DEF cvars, ChunkingTypeOK
<1>10. QED
  BY <1>3, <1>4, <1>5, <1>6, <1>7, <1>8, <1>9 DEF ChunkingNext

LEMMA ChunkingStep == ChunkingInv /\ [ChunkingNext]_cvars => ChunkingInv'
<1> SUFFICES ASSUME ChunkingInv, [ChunkingNext]_cvars PROVE ChunkingInv'
  OBVIOUS
<1>0. /\ ChunkingTypeOK /\ ChunkingTypeOK'
      /\ at \in Nat \ {0} /\ from \in Nat /\ to \in Nat /\ Len(chunks) \in Nat
      /\ Cutting => at \in 1..Len(sections) /\ Size \in Nat /\ Size = Units(at)
      /\ \A c \in ChunkNumbers : chunks[c] \in Chunks /\ chunks[c].section <= at
  BY ChunkingTypeStep, SectionType DEF ChunkingInv, Size, ChunkingTypeOK
<1>1. \A c \in ChunkNumbers : chunks[c].from \in Nat /\ chunks[c].to \in Nat
  BY <1>0 DEF Chunks
<1>2. ASSUME Cutting, NEW b \in Nat, Emit(from, b), UNCHANGED sections,
             \A c \in ChunkNumbers : chunks[c].section = at => chunks[c].to < b,
             ~Atomic(Section) => b - from <= TargetWords,
             Splits(Section) => b = from + 1 \/ ~Exceeds(Section, from, b)
      PROVE  NothingTwice' /\ ChunksFit'
  <2>1. AllBehind
    BY <1>2 DEF ChunkingInv
  <2>2. QED
    BY <1>0, <1>2, <2>1, EmitInv DEF AllBehind
<1>3. ASSUME Cutting, NEW b \in Nat, Emit(from, b), UNCHANGED sections
      PROVE  /\ \A c \in 1..Len(chunks') : chunks'[c].section <= at
             /\ \A i \in Nat, x \in Nat, y \in Nat : InOneChunk(i, x, y) => InOneChunk(i, x, y)'
             /\ \A i \in Nat, x \in Nat, y \in Nat :
                   i = at /\ from < x /\ y <= b => InOneChunk(i, x, y)'
  <2>1. /\ Len(chunks') = Len(chunks) + 1
        /\ \A c \in ChunkNumbers : chunks'[c] = chunks[c]
        /\ chunks'[Len(chunks) + 1] = [section |-> at, from |-> from, to |-> b]
    BY <1>0, <1>3, EmitKeeps
  <2>2. \A c \in 1..Len(chunks') : chunks'[c].section <= at
    <3> TAKE c \in 1..Len(chunks')
    <3>1. c \in ChunkNumbers \/ c = Len(chunks) + 1
      BY <1>0, <2>1 DEF ChunkNumbers
    <3>2. QED
      BY <1>0, <2>1, <3>1
  <2>3. QED
    BY <1>0, <1>3, <2>2, EmitKeeps
<1>4. ASSUME Cutting, Emit(from, Size), NextSection, UNCHANGED sections, NothingTwice', ChunksFit'
      PROVE  ChunkingInv'
  <2>1. \A x \in 1..Size :
          /\ x <= from => InOneChunk(at, x, x)
          /\ x <= from /\ ~Atomic(Section) =>
                \A y \in x..Size : y - x <= Overlap => InOneChunk(at, x, y)
    BY <1>4 DEF ChunkingInv, CutSoFar
  <2>2. ASSUME NEW i \in Nat, i = at, NEW x \in 1..Units(i)
        PROVE  /\ InOneChunk(i, x, x)'
               /\ ~Atomic(sections[i]) =>
                     \A y \in x..Units(i) : y - x <= Overlap => InOneChunk(i, x, y)'
    <3>1. x \in Nat /\ x \in 1..Size /\ \A y \in x..Units(i) : y \in Nat /\ y \in x..Size
      BY <1>0, <1>4, <2>2
    <3>2. CASE x <= from
      BY <1>0, <1>3, <1>4, <2>1, <2>2, <3>1, <3>2 DEF Section
    <3>3. CASE ~(x <= from)
      BY <1>0, <1>3, <1>4, <2>2, <3>1, <3>3
    <3>4. QED
      BY <3>2, <3>3
  <2>3. QED
    BY <1>0, <1>3, <1>4, <2>2, Leaving
<1>5. CASE Skip
  <2>1. Size = 0 /\ Cutting
    BY <1>5 DEF Skip, Blank, Size, Units, Section
  <2>2. \A i \in Nat : i = at => 1..Units(i) = {}
    BY <1>0, <2>1
  <2>3. UNCHANGED <<sections, chunks>> /\ NextSection
    BY <1>5 DEF Skip
  <2>4. NothingTwice' /\ ChunksFit'
    BY <2>3 DEF ChunkingInv, NothingTwice, ChunksFit
  <2>5. \A i \in Nat, x \in Nat, y \in Nat : InOneChunk(i, x, y) => InOneChunk(i, x, y)'
    BY <2>3 DEF InOneChunk
  <2>6. QED
    BY <1>0, <2>1, <2>2, <2>3, <2>4, <2>5, Leaving DEF ChunkNumbers
<1>6. CASE Whole
  <2>1. Cutting /\ Atomic(Section) /\ ~Splits(Section) /\ NextSection /\ UNCHANGED sections
    BY <1>6 DEF Whole
  <2>2. from = 0
    BY <2>1 DEF ChunkingInv, Position
  <2>3. Emit(from, Size)
    BY <1>6, <2>2 DEF Whole
  <2>4. \A c \in ChunkNumbers : chunks[c].section # at
    BY <1>1, <2>1, <2>2 DEF ChunkingInv, AllBehind
  <2>5. NothingTwice' /\ ChunksFit'
    BY <1>0, <1>2, <2>1, <2>3, <2>4
  <2>6. QED
    BY <1>4, <2>1, <2>3, <2>5
<1>7. CASE Window
  <2> DEFINE end == IF from + TargetWords < Size THEN from + TargetWords ELSE Size
  <2>1. /\ Cutting /\ ~Atomic(Section) /\ Emit(from, end) /\ UNCHANGED sections
        /\ \/ end = Size /\ NextSection
           \/ end # Size /\ at' = at /\ from' = end - Overlap /\ to' = end - Overlap
    BY <1>7 DEF Window, Stop
  <2>2. end \in Nat /\ end <= Size /\ end <= from + TargetWords
    BY <1>0, <2>1, SizesAssumption
  <2>3. ~Splits(Section)
    BY <2>1 DEF Splits, Atomic
  <2>4. from <= Size
    BY <1>0, <2>1 DEF ChunkingInv, Position
  <2>5. \A c \in ChunkNumbers : chunks[c].section = at =>
           chunks[c].from < from /\ chunks[c].to <= from + Overlap /\ chunks[c].to < Size
    BY <2>1 DEF ChunkingInv, AllBehind
  <2>6. \A c \in ChunkNumbers : chunks[c].section = at => chunks[c].to < end
    BY <1>0, <1>1, <2>1, <2>5, SizesAssumption
  <2>7. NothingTwice' /\ ChunksFit'
    BY <1>0, <1>2, <2>1, <2>2, <2>3, <2>6, SizesAssumption
  <2>8. CASE end = Size
    BY <1>4, <2>1, <2>7, <2>8
  <2>9. CASE end # Size
    <3>1. end = from + TargetWords /\ end < Size
      BY <1>0, <2>1, <2>2, <2>9
    <3> HIDE DEF end
    <3>2. from' = end - Overlap /\ to' = from' /\ at' = at /\ sections' = sections
      BY <2>1, <2>9
    <3>0. from \in Nat /\ end \in Nat /\ Size \in Nat /\ Overlap \in Nat
      BY <1>0, <2>1, <2>2, SizesAssumption
    <3>3. from' \in Nat /\ from < from' /\ from' < Size /\ end = from' + Overlap
          /\ end <= from' + Overlap /\ end < Size
      BY <3>0, <3>1, <3>2, SizesAssumption
    <3>4. /\ Size' = Size /\ Section' = Section /\ Cutting'
          /\ (Atomic(Section) <=> Atomic(Section)') /\ (Splits(Section) <=> Splits(Section)')
      BY <2>1, <3>2 DEF Size, Units, Section, Cutting
    <3>5. Position'
      BY <1>0, <2>1, <2>3, <3>2, <3>3, <3>4 DEF Position
    <3>6. /\ chunks' \in Seq(Chunks) /\ Len(chunks') = Len(chunks) + 1
          /\ \A c \in ChunkNumbers : chunks'[c] = chunks[c]
          /\ chunks'[Len(chunks) + 1] = [section |-> at, from |-> from, to |-> end]
      BY <1>0, <2>1, <2>2, EmitKeeps
    <3>7. AllBehind'
      <4> SUFFICES ASSUME NEW c \in 1..Len(chunks'), chunks'[c].section = at
                   PROVE  chunks'[c].from < from' /\ chunks'[c].to <= from' + Overlap
                          /\ chunks'[c].to < Size
        BY <2>1, <3>2, <3>4 DEF AllBehind, ChunkNumbers
      <4>1. CASE c \in ChunkNumbers
        <5>1. chunks[c].section = at /\ chunks'[c] = chunks[c] /\ chunks[c].from \in Nat
          BY <1>1, <3>6, <4>1
        <5>2. chunks[c].from < from /\ chunks[c].to < end
          BY <2>5, <2>6, <4>1, <5>1 DEF ChunkNumbers
        <5>3. chunks[c].to \in Nat /\ from' \in Nat /\ from < from' /\ end = from' + Overlap /\ end < Size
          BY <1>1, <3>1, <3>3, <4>1
        <5>4. chunks[c].from < from'
          BY <3>0, <5>1, <5>2, <5>3
        <5>5. chunks[c].to <= from' + Overlap /\ chunks[c].to < Size
          <6>1. \A x, y, z \in Nat : x < y /\ y < z => x <= y /\ x < z
            OBVIOUS
          <6>2. end \in Nat /\ Size \in Nat
            BY <3>0
          <6> QED
            BY <5>2, <5>3, <6>1, <6>2
        <5>6. QED
          BY <5>1, <5>4, <5>5
      <4>2. CASE c = Len(chunks) + 1
        <5>1. chunks'[c].from = from /\ chunks'[c].to = end
          BY <3>6, <4>2
        <5>2. QED
          BY <3>3, <5>1
      <4>3. QED
        BY <1>0, <3>6, <4>1, <4>2 DEF ChunkNumbers
    <3>8. CutSoFar'
      <4> SUFFICES ASSUME NEW x \in 1..Size, x <= from', NEW y \in x..Size, y - x <= Overlap
                   PROVE  InOneChunk(at, x, y)'
        BY <1>0, <2>1, <3>4, SizesAssumption DEF CutSoFar
      <4>1. x \in Nat /\ y \in Nat
        BY <1>0, <2>1
      <4>2. CASE x <= from
        <5>1. InOneChunk(at, x, y)
          BY <2>1, <4>2 DEF ChunkingInv, CutSoFar
        <5>2. \A i \in Nat : i = at => InOneChunk(i, x, y)'
          BY <1>0, <1>3, <2>1, <2>2, <4>1, <5>1
        <5>3. QED
          BY <1>0, <3>2, <5>2 DEF InOneChunk
      <4>3. CASE ~(x <= from)
        <5>1. from < x /\ y <= end
          <6>1. from < x
            BY <1>0, <4>1, <4>3
          <6>2. Overlap \in Nat /\ from' \in Nat /\ x <= from' /\ y - x <= Overlap
            BY <3>3, SizesAssumption
          <6>3. y <= from' + Overlap
            BY <4>1, <6>2, PassageEnd
          <6>4. QED
            BY <3>3, <6>1, <6>3
        <5>2. \A i \in Nat : i = at => InOneChunk(i, x, y)'
          BY <1>0, <1>3, <2>1, <2>2, <4>1, <5>1
        <5>3. QED
          BY <1>0, <3>2, <5>2 DEF InOneChunk
      <4>4. QED
        BY <4>2, <4>3
    <3>9. PassagesKept'
      <4>1. ASSUME NEW i \in 1..(at - 1), NEW x \in 1..Units(i)
            PROVE  /\ InOneChunk(i, x, x)'
                   /\ ~Atomic(sections[i]) =>
                         \A y \in x..Units(i) : y - x <= Overlap => InOneChunk(i, x, y)'
        <5>1. /\ InOneChunk(i, x, x)
              /\ ~Atomic(sections[i]) =>
                    \A y \in x..Units(i) : y - x <= Overlap => InOneChunk(i, x, y)
          BY DEF ChunkingInv, PassagesKept
        <5>2. Units(i) \in Nat /\ i \in Nat /\ x \in Nat
          BY <1>0, <2>1, SectionType
        <5>3. \A y \in x..Units(i) : y \in Nat
          BY <5>2
        <5>4. QED
          BY <1>3, <2>1, <2>2, <5>1, <5>2, <5>3
      <4>2. QED
        BY <3>2, <4>1 DEF PassagesKept, Units
    <3>10. \A c \in ChunkNumbers' : chunks'[c].section <= at'
      BY <1>3, <2>1, <2>2, <3>2 DEF ChunkNumbers
    <3>11. QED
      BY <1>0, <2>7, <3>5, <3>7, <3>8, <3>9, <3>10 DEF ChunkingInv
  <2>10. QED
    BY <2>8, <2>9
<1>8. CASE TakeRow
  <2>1. /\ Cutting /\ Splits(Section) /\ to < Size /\ ~Full /\ to' = to + 1
        /\ UNCHANGED <<sections, at, from, chunks>>
    BY <1>8 DEF TakeRow
  <2>2. Position'
    <3>1. from <= to /\ from < Size
      BY <2>1 DEF ChunkingInv, Position
    <3>2. to = from \/ ~Exceeds(Section, from, to + 1)
      BY <1>0, <2>1, <3>1 DEF Full
    <3>3. /\ Size' = Size /\ Section' = Section
          /\ Splits(Section)' /\ Atomic(Section)'
          /\ (Exceeds(Section, from, to + 1) <=> Exceeds(Section, from, to)')
      BY <2>1 DEF Size, Units, Section, Splits, Atomic, Exceeds, Width
    <3>4. QED
      BY <1>0, <2>1, <3>1, <3>2, <3>3 DEF Position
  <2>3. CutSoFar' /\ AllBehind'
    BY <2>1 DEF ChunkingInv, CutSoFar, AllBehind, InOneChunk, Size, Units, Section, ChunkNumbers
  <2>5. PassagesKept' /\ NothingTwice' /\ ChunksFit'
    BY <2>1 DEF ChunkingInv, PassagesKept, NothingTwice, ChunksFit, InOneChunk, Units
  <2>4. QED
    BY <1>0, <2>1, <2>2, <2>3, <2>5 DEF ChunkingInv, ChunkNumbers
<1>9. CASE CloseGroup
  <2>1. /\ Cutting /\ Splits(Section) /\ to < Size /\ to > from
        /\ Emit(from, to) /\ from' = to
        /\ UNCHANGED <<sections, at, to>>
    BY <1>9 DEF CloseGroup, Full
  <2>2. Atomic(Section)
    BY <2>1 DEF Splits, Atomic
  <2>3. \A c \in ChunkNumbers : chunks[c].section = at =>
           chunks[c].from < from /\ chunks[c].to <= from
    BY <2>1, <2>2 DEF ChunkingInv, AllBehind
  <2>4. to = from + 1 \/ ~Exceeds(Section, from, to)
    BY <1>0, <2>1 DEF ChunkingInv, Position
  <2>5. NothingTwice' /\ ChunksFit'
    BY <1>0, <1>1, <1>2, <2>1, <2>2, <2>3, <2>4
  <2>6. /\ Size' = Size /\ Section' = Section /\ Cutting'
        /\ Splits(Section)' /\ Atomic(Section)'
    BY <2>1, <2>2 DEF Size, Units, Section, Cutting, Splits, Atomic, Exceeds, Width
  <2>7. Position'
    BY <1>0, <2>1, <2>6 DEF Position
  <2>8. /\ chunks' \in Seq(Chunks) /\ Len(chunks') = Len(chunks) + 1
        /\ \A c \in ChunkNumbers : chunks'[c] = chunks[c]
        /\ chunks'[Len(chunks) + 1] = [section |-> at, from |-> from, to |-> to]
    BY <1>0, <2>1, EmitKeeps
  <2>9. AllBehind'
    <3> SUFFICES ASSUME NEW c \in 1..Len(chunks'), chunks'[c].section = at
                 PROVE  chunks'[c].from < to /\ chunks'[c].to <= to
      BY <2>1, <2>6 DEF AllBehind, ChunkNumbers
    <3>1. CASE c \in ChunkNumbers
      BY <1>0, <1>1, <2>1, <2>3, <2>8, <3>1
    <3>2. CASE c = Len(chunks) + 1
      BY <1>0, <2>1, <2>8, <3>2
    <3>3. QED
      BY <1>0, <2>8, <3>1, <3>2 DEF ChunkNumbers
  <2>10. CutSoFar'
    <3> SUFFICES ASSUME NEW x \in 1..Size, x <= to PROVE InOneChunk(at, x, x)'
      BY <2>1, <2>6 DEF CutSoFar
    <3>1. x \in Nat
      BY <1>0, <2>1
    <3>2. CASE x <= from
      <4>1. InOneChunk(at, x, x)
        BY <2>1, <3>2 DEF ChunkingInv, CutSoFar
      <4>2. \A i \in Nat : i = at => InOneChunk(i, x, x)'
        BY <1>0, <1>3, <2>1, <3>1, <4>1
      <4>3. QED
        BY <1>0, <2>1, <4>2 DEF InOneChunk
    <3>3. CASE ~(x <= from)
      <4>1. \A i \in Nat : i = at => InOneChunk(i, x, x)'
        BY <1>0, <1>3, <2>1, <3>1, <3>3
      <4>2. QED
        BY <1>0, <2>1, <4>1 DEF InOneChunk
    <3>4. QED
      BY <3>2, <3>3
  <2>11. PassagesKept'
    <3>1. ASSUME NEW i \in 1..(at - 1), NEW x \in 1..Units(i)
          PROVE  /\ InOneChunk(i, x, x)'
                 /\ ~Atomic(sections[i]) =>
                       \A y \in x..Units(i) : y - x <= Overlap => InOneChunk(i, x, y)'
      <4>1. /\ InOneChunk(i, x, x)
            /\ ~Atomic(sections[i]) =>
                  \A y \in x..Units(i) : y - x <= Overlap => InOneChunk(i, x, y)
        BY DEF ChunkingInv, PassagesKept
      <4>2. Units(i) \in Nat /\ i \in Nat /\ x \in Nat
        BY <1>0, <2>1, SectionType
      <4>3. \A y \in x..Units(i) : y \in Nat
        BY <4>2
      <4>4. QED
        BY <1>0, <1>3, <2>1, <4>1, <4>2, <4>3
    <3>2. QED
      BY <2>1, <3>1 DEF PassagesKept, Units
  <2>12. \A c \in ChunkNumbers' : chunks'[c].section <= at'
    BY <1>0, <1>3, <2>1 DEF ChunkNumbers
  <2>13. QED
    BY <1>0, <2>5, <2>7, <2>9, <2>10, <2>11, <2>12 DEF ChunkingInv
<1>10. CASE LastGroup
  <2>1. /\ Cutting /\ Splits(Section) /\ to = Size /\ Emit(from, Size)
        /\ NextSection /\ UNCHANGED sections
    BY <1>10 DEF LastGroup
  <2>2. Atomic(Section)
    BY <2>1 DEF Splits, Atomic
  <2>3. from < Size /\ (Size <= from + 1 \/ ~Exceeds(Section, from, Size))
    BY <2>1 DEF ChunkingInv, Position
  <2>4. \A c \in ChunkNumbers : chunks[c].section = at => chunks[c].to <= from
    BY <2>1, <2>2 DEF ChunkingInv, AllBehind
  <2>5. NothingTwice' /\ ChunksFit'
    BY <1>0, <1>1, <1>2, <2>1, <2>2, <2>3, <2>4
  <2>6. QED
    BY <1>4, <2>1, <2>5
<1>11. CASE UNCHANGED cvars
  <2>1. UNCHANGED <<sections, at, from, to, chunks>>
    BY <1>11 DEF cvars
  <2>2. (Cutting <=> Cutting') /\ (Position <=> Position')
    BY <2>1 DEF Cutting, Position, Size, Units, Section
  <2>3. \A i, x, y : InOneChunk(i, x, y) <=> InOneChunk(i, x, y)'
    BY <2>1 DEF InOneChunk
  <2>4. (CutSoFar <=> CutSoFar') /\ (AllBehind <=> AllBehind')
    BY <2>1, <2>3 DEF CutSoFar, AllBehind, Size, Units, Section, ChunkNumbers
  <2>5. PassagesKept <=> PassagesKept'
    BY <2>1, <2>3 DEF PassagesKept, Units
  <2>6. (NothingTwice <=> NothingTwice') /\ (ChunksFit <=> ChunksFit')
    BY <2>1 DEF NothingTwice, ChunksFit
  <2>7. \A c \in ChunkNumbers' : chunks'[c].section <= at'
    BY <2>1 DEF ChunkingInv, ChunkNumbers
  <2>8. QED
    BY <1>0, <2>2, <2>4, <2>5, <2>6, <2>7 DEF ChunkingInv
<1>12. QED
  BY <1>5, <1>6, <1>7, <1>8, <1>9, <1>10, <1>11 DEF ChunkingNext

\* Before the first section is cut.
Uncut == sections \in Seq(Sections) /\ at = 1 /\ from = 0 /\ to = 0 /\ chunks = <<>>

LEMMA UncutStarts == Uncut => ChunkingInv
<1> SUFFICES ASSUME Uncut PROVE ChunkingInv
  OBVIOUS
<1>1. sections \in Seq(Sections) /\ at = 1 /\ from = 0 /\ to = 0 /\ chunks = <<>>
  BY DEF Uncut
<1>2. ChunkingTypeOK
  BY <1>1 DEF ChunkingTypeOK
<1>3. ChunkNumbers = {} /\ 1..Len(chunks) = {} /\ 1..(at - 1) = {}
  BY <1>1 DEF ChunkNumbers
<1>4. Cutting => Size \in Nat
  BY <1>2, SectionType DEF Size
<1>5. Cutting => Position
  BY <1>1, <1>4 DEF Position, Splits, Size, Units, Section
<1>6. Cutting => CutSoFar /\ AllBehind
  BY <1>1, <1>3, <1>4 DEF CutSoFar, AllBehind
<1>7. PassagesKept /\ NothingTwice /\ ChunksFit
  BY <1>3 DEF PassagesKept, NothingTwice, ChunksFit
<1>8. QED
  BY <1>2, <1>3, <1>5, <1>6, <1>7 DEF ChunkingInv

LEMMA ChunkingStarts == ChunkingInit => ChunkingInv
BY UncutStarts, DocumentsAssumption DEF ChunkingInit, Uncut

LEMMA ChunkingInvariant == ChunkingSpec => []ChunkingInv
BY ChunkingStarts, ChunkingStep, PTL DEF ChunkingSpec

-----------------------------------------------------------------------------
(* The theorems *)

\* Every unit of a section that was cut is in a chunk, and so is every short passage of
\* its prose, whole.
THEOREM NothingIsLost == ChunkingSpec => []PassagesKept
  BY ChunkingInvariant, PTL DEF ChunkingInv

\* The pieces of a section advance, and rows are never repeated.
THEOREM PiecesAdvance == ChunkingSpec => []NothingTwice
  BY ChunkingInvariant, PTL DEF ChunkingInv

\* Every chunk has a size the embedding backend was configured for, but for what cannot
\* be cut.
THEOREM PiecesFit == ChunkingSpec => []ChunksFit
  BY ChunkingInvariant, PTL DEF ChunkingInv

-----------------------------------------------------------------------------
(* Which chunks can share text *)

\* Pieces of a section that are not neighbours lie apart, if the overlap is at most half of
\* one; and so do those before the last one and the piece to come.
LieApart ==
    2 * Overlap <= TargetWords =>
        /\ \A c \in ChunkNumbers, e \in ChunkNumbers :
              c + 1 < e /\ chunks[c].section = chunks[e].section => chunks[c].to <= chunks[e].from
        /\ Cutting => \A c \in ChunkNumbers :
              c < Len(chunks) /\ chunks[c].section = at => chunks[c].to <= from

LEMMA EmitApart ==
  ASSUME ChunkingInv, LieApart, 2 * Overlap <= TargetWords, Cutting, NEW b \in Nat,
         Emit(from, b), UNCHANGED sections,
         NextSection \/ (at' = at /\ \A c \in ChunkNumbers :
                                        chunks[c].section = at => chunks[c].to <= from')
  PROVE  LieApart'
<1>1. /\ ChunkingTypeOK /\ at \in Nat /\ from \in Nat /\ Len(chunks) \in Nat
      /\ \A c \in ChunkNumbers : chunks[c] \in Chunks /\ chunks[c].section <= at
  BY SectionType DEF ChunkingInv, ChunkingTypeOK
<1>2. \A c \in ChunkNumbers : chunks[c].from \in Nat /\ chunks[c].to \in Nat /\ chunks[c].section \in Nat
  BY <1>1 DEF Chunks
<1>3. /\ Len(chunks') = Len(chunks) + 1
      /\ \A c \in ChunkNumbers : chunks'[c] = chunks[c]
      /\ chunks'[Len(chunks) + 1] = [section |-> at, from |-> from, to |-> b]
  BY <1>1, EmitKeeps
<1>4. \A c \in ChunkNumbers' : c \in ChunkNumbers \/ c = Len(chunks) + 1
  BY <1>1, <1>3 DEF ChunkNumbers
<1>5. ASSUME NEW c \in ChunkNumbers', NEW e \in ChunkNumbers', c + 1 < e,
             chunks'[c].section = chunks'[e].section
      PROVE  chunks'[c].to <= chunks'[e].from
  <2>1. c \in ChunkNumbers /\ chunks'[c] = chunks[c]
    BY <1>1, <1>3, <1>4, <1>5 DEF ChunkNumbers
  <2>2. CASE e \in ChunkNumbers
    BY <1>3, <1>5, <2>1, <2>2 DEF LieApart
  <2>3. CASE e = Len(chunks) + 1
    <3>1. chunks[c].section = at /\ c < Len(chunks) /\ chunks'[e].from = from
      BY <1>1, <1>3, <1>5, <2>1, <2>3 DEF ChunkNumbers
    <3> QED
      BY <2>1, <3>1 DEF LieApart
  <2> QED
    BY <1>4, <2>2, <2>3
<1>6. ASSUME NEW c \in ChunkNumbers', c < Len(chunks'), chunks'[c].section = at'
      PROVE  chunks'[c].to <= from'
  <2>1. c \in ChunkNumbers /\ chunks'[c] = chunks[c]
    BY <1>1, <1>3, <1>4, <1>6 DEF ChunkNumbers
  <2>2. ~NextSection
    BY <1>1, <1>2, <1>6, <2>1 DEF NextSection
  <2> QED
    BY <1>6, <2>1, <2>2
<1> QED
  BY <1>5, <1>6 DEF LieApart

LEMMA LieApartStep == ChunkingInv /\ LieApart /\ [ChunkingNext]_cvars => LieApart'
<1> SUFFICES ASSUME ChunkingInv, LieApart, [ChunkingNext]_cvars, 2 * Overlap <= TargetWords
             PROVE  LieApart'
  BY DEF LieApart
<1>1. /\ ChunkingTypeOK /\ at \in Nat /\ from \in Nat /\ to \in Nat /\ Len(chunks) \in Nat
      /\ Cutting => Size \in Nat /\ Position /\ AllBehind
      /\ \A c \in ChunkNumbers : chunks[c] \in Chunks /\ chunks[c].section <= at
      /\ TargetWords \in Nat /\ Overlap \in Nat
  BY SectionType, SizesAssumption DEF ChunkingInv, ChunkingTypeOK, Size
<1>2. \A c \in ChunkNumbers : chunks[c].from \in Nat /\ chunks[c].to \in Nat /\ chunks[c].section \in Nat
  BY <1>1 DEF Chunks
<1>3. CASE Skip
  BY <1>1, <1>2, <1>3 DEF Skip, NextSection, LieApart, ChunkNumbers
<1>4. CASE Whole
  <2>1. Cutting /\ Emit(from, Size) /\ NextSection /\ UNCHANGED sections
    BY <1>1, <1>4 DEF Whole, Position
  <2> QED
    BY <1>1, <2>1, EmitApart
<1>5. CASE Window
  <2> DEFINE end == IF from + TargetWords < Size THEN from + TargetWords ELSE Size
  <2>1. /\ Cutting /\ ~Atomic(Section) /\ Emit(from, end) /\ UNCHANGED sections
        /\ end = Size => NextSection
        /\ end # Size => at' = at /\ from' = end - Overlap
    BY <1>5 DEF Window, Stop
  <2>2. end \in Nat
    BY <1>1, <2>1
  <2>3. \A c \in ChunkNumbers : chunks[c].section = at => chunks[c].to <= from + Overlap
    BY <1>1, <2>1 DEF AllBehind
  <2>4. end # Size => from + Overlap <= from'
    BY <1>1, <2>1
  <2>5. from' \in Int
    BY <1>1, <2>1, <2>2 DEF NextSection
  <2> HIDE DEF end
  <2>6. ASSUME NEW c \in ChunkNumbers, end # Size, chunks[c].section = at
        PROVE  chunks[c].to <= from'
    BY <1>1, <1>2, <2>3, <2>4, <2>5, <2>6
  <2> QED
    BY <2>1, <2>2, <2>6, EmitApart
<1>6. CASE TakeRow
  BY <1>6 DEF TakeRow, LieApart, ChunkNumbers, Cutting
<1>7. CASE CloseGroup
  <2>1. /\ Cutting /\ Splits(Section) /\ from < to /\ Emit(from, to) /\ from' = to
        /\ UNCHANGED <<sections, at>>
    BY <1>7 DEF CloseGroup, Full
  <2>2. \A c \in ChunkNumbers : chunks[c].section = at => chunks[c].to <= from
    BY <1>1, <2>1 DEF AllBehind, Splits, Atomic
  <2>3. ASSUME NEW c \in ChunkNumbers, chunks[c].section = at
        PROVE  chunks[c].to <= from'
    BY <1>1, <1>2, <2>1, <2>2, <2>3
  <2> QED
    BY <1>1, <2>1, <2>3, EmitApart
<1>8. CASE LastGroup
  <2>1. Cutting /\ Emit(from, to) /\ NextSection /\ UNCHANGED sections
    BY <1>8 DEF LastGroup
  <2> QED
    BY <1>1, <2>1, EmitApart
<1>9. CASE UNCHANGED cvars
  BY <1>9 DEF cvars, LieApart, ChunkNumbers, Cutting
<1> QED
  BY <1>3, <1>4, <1>5, <1>6, <1>7, <1>8, <1>9 DEF ChunkingNext

\* What is no neighbour of a chunk shares no text with it.
LEMMA StrangersShareNothing ==
  ASSUME ChunkingInv, LieApart, 2 * Overlap <= TargetWords,
         NEW i \in ChunkNumbers, NEW j \in ChunkNumbers, i # j, ~Neighbour(i, j)
  PROVE  ~Shared(i, j)
<1>1. i \in Nat /\ j \in Nat /\ chunks[i] \in Chunks /\ chunks[j] \in Chunks
  BY SectionType DEF ChunkNumbers, ChunkingInv
<1>2. i + 1 < j \/ j + 1 < i
  BY <1>1 DEF Neighbour
<1>3. \/ chunks[i].section # chunks[j].section
      \/ chunks[i].to <= chunks[j].from
      \/ chunks[j].to <= chunks[i].from
  BY <1>2 DEF LieApart
<1>4. /\ chunks[i].from \in Nat /\ chunks[j].from \in Nat
      /\ chunks[i].to \in Nat /\ chunks[j].to \in Nat
  BY <1>1 DEF Chunks
<1> QED
  BY <1>3, <1>4 DEF Shared

-----------------------------------------------------------------------------
(* The order of the candidates *)

Answers == [ChunkNumbers -> Int \cup {None}]

\* The fused order has every chunk once.
PoolInv ==
    /\ pool \in [ChunkNumbers -> ChunkNumbers]
    /\ \A i, j \in ChunkNumbers : pool[i] = pool[j] => i = j
    /\ \A i \in ChunkNumbers : \E p \in ChunkNumbers : pool[p] = i

\* All that the ranking uses of the weight.
Weighted == setup \in [floor : Floors, weight : Weights]

LEMMA BoostedType ==
  ASSUME Weighted, NEW answer \in Answers, NEW i \in ChunkNumbers
  PROVE  Boosted(answer, i) \in Int \cup {None}
<1>1. setup.weight \in Nat
  BY RankingAssumption DEF Weighted
<1>2. (IF Type(i) = "table" THEN setup.weight ELSE 4) \in Nat
  BY <1>1
<1>3. answer[i] \in Int \cup {None}
  BY DEF Answers
<1> QED
  BY <1>2, <1>3 DEF Boosted

LEMMA PlacesDiffer ==
  ASSUME PoolInv, NEW i \in ChunkNumbers, NEW j \in ChunkNumbers
  PROVE  /\ Place(i) \in ChunkNumbers /\ pool[Place(i)] = i
         /\ Place(i) = Place(j) => i = j
<1>1. \A k \in ChunkNumbers : \E p \in DOMAIN pool : pool[p] = k
  BY DEF PoolInv
<1>2. \A k \in ChunkNumbers : Place(k) \in DOMAIN pool /\ pool[Place(k)] = k
  BY <1>1 DEF Place
<1> QED
  BY <1>2 DEF PoolInv

\* Being ahead is a strict total order.
LEMMA AheadIsOrder ==
  ASSUME PoolInv, Weighted, NEW answer \in Answers
  PROVE  /\ \A i \in ChunkNumbers : ~Ahead(answer, i, i)
         /\ \A i, j \in ChunkNumbers : i = j \/ Ahead(answer, i, j) \/ Ahead(answer, j, i)
         /\ \A i, j, k \in ChunkNumbers :
               Ahead(answer, i, j) /\ Ahead(answer, j, k) => Ahead(answer, i, k)
<1>1. \A i \in ChunkNumbers : Boosted(answer, i) \in Int \cup {None}
  BY BoostedType
<1>2. \A i \in ChunkNumbers : Place(i) \in Int
  BY PlacesDiffer DEF ChunkNumbers
<1>3. \A i, j \in ChunkNumbers : Place(i) = Place(j) => i = j
  BY PlacesDiffer
<1>4. None \notin Int
  BY RankingAssumption
<1>5. ASSUME NEW i \in ChunkNumbers, NEW j \in ChunkNumbers, i # j
      PROVE  Ahead(answer, i, j) \/ Ahead(answer, j, i)
  BY <1>1, <1>2, <1>3, <1>4, <1>5 DEF Ahead
<1>6. ASSUME NEW i \in ChunkNumbers, NEW j \in ChunkNumbers, NEW k \in ChunkNumbers,
             Ahead(answer, i, j), Ahead(answer, j, k)
      PROVE  Ahead(answer, i, k)
  BY <1>1, <1>2, <1>4, <1>6 DEF Ahead
<1>7. \A i \in ChunkNumbers : ~Ahead(answer, i, i)
  BY <1>2 DEF Ahead
<1> QED
  BY <1>5, <1>6, <1>7

StrictOrder(R, S) ==
    /\ \A i \in S : <<i, i>> \notin R
    /\ \A i, j \in S : i = j \/ <<i, j>> \in R \/ <<j, i>> \in R
    /\ \A i, j, k \in S : <<i, j>> \in R /\ <<j, k>> \in R => <<i, k>> \in R

\* The p-th of the sequence is a member that p - 1 others come before, if there is one.
Counts(order, S, R) ==
    /\ order = [p \in 1..Cardinality(S) |-> order[p]]
    /\ \A p \in 1..Cardinality(S) :
          (\E i \in S : Cardinality({j \in S : <<j, i>> \in R}) = p - 1) =>
              /\ order[p] \in S
              /\ Cardinality({j \in S : <<j, order[p]>> \in R}) = p - 1

\* Ordering a finite set by counting who comes before each member: everybody is in the
\* sequence once, and behind all that come before.
LEMMA CountedOrder ==
  ASSUME NEW S, IsFiniteSet(S), NEW R, NEW order, StrictOrder(R, S), Counts(order, S, R)
  PROVE  /\ order \in Seq(S) /\ Len(order) = Cardinality(S) /\ Cardinality(S) \in Nat
         /\ \A i \in S : \E p \in DOMAIN order : order[p] = i
         /\ \A p, q \in DOMAIN order : p < q => <<order[p], order[q]>> \in R
<1> DEFINE below(i) == {j \in S : <<j, i>> \in R}
           n == Cardinality(S)
           place == [i \in S |-> Cardinality(below(i))]
<1>a. \A i : below(i) \subseteq S
  OBVIOUS
<1>b. \A i, j \in S : i \in below(j) <=> <<i, j>> \in R
  OBVIOUS
<1>c. /\ \A i \in S : <<i, i>> \notin R
      /\ \A i, j \in S : i = j \/ <<i, j>> \in R \/ <<j, i>> \in R
      /\ \A i, j, k \in S : <<i, j>> \in R /\ <<j, k>> \in R => <<i, k>> \in R
  BY DEF StrictOrder
<1>5. DOMAIN order = 1..n /\ (order \in [1..n -> S] <=> \A p \in 1..n : order[p] \in S)
  BY DEF Counts
<1>6. \A p \in 1..n : (\E i \in S : Cardinality(below(i)) = p - 1) =>
                          order[p] \in S /\ Cardinality(below(order[p])) = p - 1
  BY DEF Counts
<1>1. n \in Nat
  BY FS_CardinalityType
<1> HIDE DEF below
<1>2. \A i \in S : IsFiniteSet(below(i)) /\ Cardinality(below(i)) \in Nat
  BY <1>a, FS_Subset, FS_CardinalityType
<1>3. ASSUME NEW i \in S
      PROVE  Cardinality(below(i)) < n
  <2>1. i \notin below(i)
    BY <1>b, <1>c
  <2>2. below(i) \in SUBSET S /\ below(i) # S
    BY <1>a, <2>1
  <2> QED
    BY <1>1, <1>2, <2>2, FS_Subset
<1>4. ASSUME NEW i \in S, NEW j \in S, <<i, j>> \in R
      PROVE  Cardinality(below(i)) < Cardinality(below(j))
  <2>1. i \in below(j) /\ i \notin below(i)
    BY <1>4, <1>b, <1>c
  <2>2. \A k \in S : k \in below(i) => k \in below(j)
    BY <1>4, <1>b, <1>c
  <2>3. below(i) \in SUBSET below(j) /\ below(i) # below(j)
    BY <1>a, <2>1, <2>2
  <2> QED
    BY <1>2, <2>3, FS_Subset
<1> HIDE DEF n
<1> DEFINE T == 0..(n - 1)
<1>7. IsFiniteSet(T) /\ Cardinality(T) = n
  <2>1. PICK last \in Int : last = n - 1
    BY <1>1
  <2>2. IsFiniteSet(0..last) /\ Cardinality(0..last) = IF 0 > last THEN 0 ELSE last - 0 + 1
    BY FS_Interval
  <2> QED
    BY <1>1, <2>1, <2>2
<1>8. place \in Surjection(S, T)
  <2>1. \A i \in S : Cardinality(below(i)) \in T
    BY <1>1, <1>2, <1>3
  <2>2. place \in [S -> T]
    BY <2>1
  <2>3. ASSUME NEW i \in S, NEW j \in S, i # j
        PROVE  place[i] # place[j]
    <3>1. <<i, j>> \in R \/ <<j, i>> \in R
      BY <1>c, <2>3
    <3> QED
      BY <1>2, <1>4, <3>1
  <2> HIDE DEF T, place
  <2>4. place \in Injection(S, T)
    BY <2>2, <2>3 DEF Injection, IsInjective
  <2>5. Cardinality(S) = Cardinality(T)
    BY <1>7 DEF n
  <2> QED
    BY <1>7, <2>4, <2>5, FS_Injection
<1>9. \A p \in 1..n : \E i \in S : Cardinality(below(i)) = p - 1
  <2> SUFFICES ASSUME NEW p \in 1..n
               PROVE  \E i \in S : Cardinality(below(i)) = p - 1
    OBVIOUS
  <2>1. p - 1 \in 0..(n - 1)
    BY <1>1
  <2> QED
    BY <1>8, <2>1 DEF Surjection
<1> HIDE DEF place, T
<1>10. \A p \in 1..n : order[p] \in S /\ Cardinality(below(order[p])) = p - 1
  BY <1>6, <1>9
<1>11. order \in Seq(S) /\ DOMAIN order = 1..n /\ Len(order) = n
  BY <1>1, <1>5, <1>10
<1>12. ASSUME NEW i \in S
       PROVE  \E p \in 1..n : order[p] = i
  <2> DEFINE p == Cardinality(below(i)) + 1
  <2>1. p \in 1..n /\ p - 1 = Cardinality(below(i))
    BY <1>1, <1>2, <1>3
  <2> HIDE DEF p
  <2>2. order[p] \in S /\ Cardinality(below(order[p])) = Cardinality(below(i))
    BY <1>10, <2>1
  <2>3. Cardinality(below(i)) \in Nat
    BY <1>2
  <2>4. <<i, order[p]>> \notin R /\ <<order[p], i>> \notin R
    BY <1>4, <2>2, <2>3
  <2>5. order[p] = i
    BY <1>c, <2>2, <2>4
  <2> QED
    BY <2>1, <2>5
<1>13. ASSUME NEW p \in 1..n, NEW q \in 1..n, p < q
       PROVE  <<order[p], order[q]>> \in R
  <2>1. /\ order[p] \in S /\ order[q] \in S
        /\ Cardinality(below(order[p])) < Cardinality(below(order[q]))
    BY <1>1, <1>10, <1>13
  <2>2. order[p] # order[q]
    BY <1>2, <2>1
  <2>3. Cardinality(below(order[p])) \in Nat /\ Cardinality(below(order[q])) \in Nat
    BY <1>2, <2>1
  <2>4. <<order[q], order[p]>> \notin R
    BY <1>4, <2>1, <2>3
  <2> QED
    BY <1>c, <2>1, <2>2, <2>4
<1> QED
  BY <1>1, <1>11, <1>12, <1>13 DEF n

\* sorted() returns every member of S once, each behind those that are ahead of it.
LEMMA SortedInOrder ==
  ASSUME PoolInv, Weighted, Len(chunks) \in Nat, NEW answer \in Answers,
         NEW S \in SUBSET ChunkNumbers
  PROVE  /\ Sorted(answer, S) \in Seq(S)
         /\ \A i \in S : \E p \in DOMAIN Sorted(answer, S) : Sorted(answer, S)[p] = i
         /\ \A p, q \in DOMAIN Sorted(answer, S) :
               p < q => Ahead(answer, Sorted(answer, S)[p], Sorted(answer, S)[q])
<1> DEFINE R == {r \in ChunkNumbers \X ChunkNumbers : Ahead(answer, r[1], r[2])}
           below(i) == {j \in S : Ahead(answer, j, i)}
           order == Sorted(answer, S)
<1>1. IsFiniteSet(S)
  <2>1. 1 \in Int /\ Len(chunks) \in Int
    OBVIOUS
  <2>2. IsFiniteSet(ChunkNumbers)
    BY <2>1, FS_Interval DEF ChunkNumbers
  <2> QED
    BY <2>2, FS_Subset
<1>2. \A i, j \in ChunkNumbers : <<i, j>> \in R <=> Ahead(answer, i, j)
  OBVIOUS
<1>3. order = [p \in 1..Cardinality(S) |-> CHOOSE i \in S : Cardinality(below(i)) = p - 1]
  BY DEF Sorted
<1>4. \A i \in S : below(i) = {j \in S : <<j, i>> \in R}
  BY <1>2
<1> HIDE DEF R, below, order
<1>5. \A p \in 1..Cardinality(S) :
         (\E i \in S : Cardinality(below(i)) = p - 1) =>
             order[p] \in S /\ Cardinality(below(order[p])) = p - 1
  BY <1>3
<1>6. \A p \in 1..Cardinality(S) :
         (\E i \in S : Cardinality({j \in S : <<j, i>> \in R}) = p - 1) =>
             order[p] \in S /\ Cardinality({j \in S : <<j, order[p]>> \in R}) = p - 1
  BY <1>4, <1>5
<1>7. StrictOrder(R, S)
  <2>1. \A i \in S : i \in ChunkNumbers
    OBVIOUS
  <2> QED
    BY <1>2, <2>1, AheadIsOrder DEF StrictOrder
<1>8. Counts(order, S, R)
  <2>1. order = [p \in 1..Cardinality(S) |-> order[p]]
    BY <1>3
  <2> QED
    BY <1>6, <2>1 DEF Counts
<1>9. /\ order \in Seq(S)
      /\ \A i \in S : \E p \in DOMAIN order : order[p] = i
      /\ \A p, q \in DOMAIN order : p < q => <<order[p], order[q]>> \in R
  BY <1>1, <1>7, <1>8, CountedOrder
<1>10. \A p \in DOMAIN order : order[p] \in ChunkNumbers
  BY <1>9
<1> QED
  BY <1>2, <1>9, <1>10 DEF order

-----------------------------------------------------------------------------
(* The walk *)

\* What is walked is in order, and leaves out nothing that is not below the floor.
RankedInv ==
    /\ ranked \in Seq(ChunkNumbers)
    /\ scores # <<>> => scores \in Answers
    /\ \A p, q \in DOMAIN ranked : p # q => ranked[p] # ranked[q]
    /\ scores # <<>> =>
          \A i, j \in ChunkNumbers, p, q \in DOMAIN ranked :
             ranked[p] = i /\ ranked[q] = j /\ p < q => Ahead(scores, i, j)
    /\ \A i \in ChunkNumbers :
          scores = <<>> \/ ClearsFloor(scores, i) => \E p \in DOMAIN ranked : ranked[p] = i

\* What has been walked is kept, or has a neighbour that was kept before.
WalkedInv ==
    /\ kept \in Seq(ChunkNumbers) /\ Len(kept) <= TopK
    /\ walked \in 0..Len(ranked)
    /\ \A p \in DOMAIN kept : \E r \in 1..walked : kept[p] = ranked[r]
    /\ \A p, q \in DOMAIN kept : p # q => kept[p] # kept[q] /\ ~Neighbour(kept[p], kept[q])
    /\ \A q \in 1..walked : \E p \in DOMAIN kept :
          \/ kept[p] = ranked[q]
          \/ /\ Neighbour(ranked[q], kept[p])
             /\ \E r \in 1..walked : r < q /\ kept[p] = ranked[r]

RankingInv ==
    /\ ChunkingInv /\ LieApart /\ Weighted
    /\ stage \in {"cut", "fused", "ranked", "answered"}
    /\ stage # "cut" => ~Cutting /\ chunks # <<>> /\ PoolInv
    /\ stage \in {"cut", "fused"} => scores = <<>> /\ kept = <<>> /\ walked = 0
    /\ stage \in {"ranked", "answered"} => RankedInv /\ WalkedInv
    /\ stage = "answered" => ~(Room /\ walked < Len(ranked))

LEMMA ChunkCount ==
  ASSUME ChunkingInv
  PROVE  Len(chunks) \in Nat /\ chunks \in Seq(Chunks)
BY DEF ChunkingInv, ChunkingTypeOK

LEMMA FusedOrder ==
  ASSUME RankingInv, Fuse
  PROVE  PoolInv'
<1>1. /\ pool' \in [ChunkNumbers -> ChunkNumbers]
      /\ \A i, j \in ChunkNumbers : i # j => pool'[i] # pool'[j]
      /\ ChunkNumbers' = ChunkNumbers
  BY DEF Fuse, ChunkNumbers, cvars
<1>2. IsFiniteSet(ChunkNumbers)
  <2>1. 1 \in Int /\ Len(chunks) \in Int
    BY ChunkCount DEF RankingInv
  <2> QED
    BY <2>1, FS_Interval DEF ChunkNumbers
<1>3. pool' \in Injection(ChunkNumbers, ChunkNumbers)
  BY <1>1 DEF Injection, IsInjective
<1>4. pool' \in Surjection(ChunkNumbers, ChunkNumbers)
  BY <1>2, <1>3, FS_Injection
<1> QED
  BY <1>1, <1>4 DEF PoolInv, Surjection

LEMMA RankedInOrder ==
  ASSUME RankingInv, NEW answer \in [1..Len(chunks) -> Int \cup {None}], RankedBy(answer)
  PROVE  RankedInv' /\ WalkedInv'
<1> DEFINE S == {i \in 1..Len(chunks) : ClearsFloor(answer, i)}
<1>1. /\ stage = "fused" /\ scores' = answer /\ ranked' = Sorted(answer, S)
      /\ UNCHANGED <<sections, chunks, setup, pool, walked, kept>>
  BY DEF RankedBy, cvars
<1>2. /\ PoolInv /\ Weighted /\ Len(chunks) \in Nat /\ answer \in Answers
      /\ S \in SUBSET ChunkNumbers /\ walked = 0 /\ kept = <<>>
  BY <1>1, ChunkCount DEF RankingInv, Answers, ChunkNumbers
<1>3. ChunkNumbers' = ChunkNumbers /\ Answers' = Answers
  BY <1>1 DEF ChunkNumbers, Answers
<1>4. \A i \in ChunkNumbers : ClearsFloor(scores, i)' <=> i \in S
  BY <1>1 DEF ChunkNumbers, ClearsFloor, Boosted, Type
<1>5. \A i, j \in ChunkNumbers : Ahead(scores, i, j)' <=> Ahead(answer, i, j)
  BY <1>1 DEF Ahead, Boosted, Type, Place
<1> HIDE DEF S
<1>6. /\ ranked' \in Seq(S)
      /\ \A i \in S : \E p \in DOMAIN ranked' : ranked'[p] = i
      /\ \A p, q \in DOMAIN ranked' : p < q => Ahead(answer, ranked'[p], ranked'[q])
  BY <1>1, <1>2, SortedInOrder
<1>7. /\ ranked' \in Seq(ChunkNumbers) /\ DOMAIN ranked' \subseteq Nat
      /\ \A p \in DOMAIN ranked' : ranked'[p] \in ChunkNumbers
  BY <1>2, <1>6
<1>8. \A p, q \in DOMAIN ranked' : p # q => ranked'[p] # ranked'[q]
  BY <1>2, <1>6, <1>7, AheadIsOrder
<1>9. scores' # <<>>
  BY <1>1, <1>2 DEF RankingInv, ChunkingInv, ChunkingTypeOK
<1>10. RankedInv'
  <2>1. scores' \in Answers'
    BY <1>1, <1>2, <1>3
  <2>2. \A i, j \in ChunkNumbers, p, q \in DOMAIN ranked' :
           ranked'[p] = i /\ ranked'[q] = j /\ p < q => Ahead(scores, i, j)'
    BY <1>5, <1>6, <1>7
  <2>3. \A i \in ChunkNumbers : ClearsFloor(scores, i)' => \E p \in DOMAIN ranked' : ranked'[p] = i
    BY <1>4, <1>6
  <2> QED
    BY <1>1, <1>3, <1>7, <1>8, <1>9, <2>1, <2>2, <2>3 DEF RankedInv
<1>11. WalkedInv'
  <2>1. kept' = <<>> /\ walked' = 0 /\ Len(ranked') \in Nat /\ TopK \in Nat
    BY <1>1, <1>2, <1>7, RankingAssumption
  <2> QED
    BY <2>1 DEF WalkedInv
<1> QED
  BY <1>10, <1>11

LEMMA RankedStays ==
  ASSUME RankedInv, UNCHANGED <<sections, chunks, setup, pool, scores, ranked>>
  PROVE  RankedInv'
<1>1. \A i, j : Ahead(scores, i, j)' <=> Ahead(scores, i, j)
  BY DEF Ahead, Boosted, Type, Place
<1>2. \A i : ClearsFloor(scores, i)' <=> ClearsFloor(scores, i)
  BY DEF ClearsFloor, Boosted, Type
<1>3. ChunkNumbers' = ChunkNumbers /\ Answers' = Answers
  BY DEF ChunkNumbers, Answers
<1> QED
  BY <1>1, <1>2, <1>3 DEF RankedInv

LEMMA WalkStep ==
  ASSUME RankingInv, Walk
  PROVE  WalkedInv'
<1> DEFINE i == ranked[walked + 1]
<1>1. /\ stage = "ranked" /\ Len(kept) < TopK /\ walked < Len(ranked) /\ walked' = walked + 1
      /\ kept' = IF Collapses(i) THEN kept ELSE Append(kept, i)
      /\ UNCHANGED <<ranked, chunks>>
  BY DEF Walk, Room, cvars
<1>2. /\ RankedInv /\ WalkedInv /\ TopK \in Nat /\ ranked \in Seq(ChunkNumbers)
      /\ kept \in Seq(ChunkNumbers) /\ walked \in Nat
  BY <1>1, RankingAssumption DEF RankingInv, RankedInv, WalkedInv
<1>3. walked + 1 \in DOMAIN ranked /\ i \in ChunkNumbers /\ walked + 1 \in 1..walked'
  BY <1>1, <1>2
<1>4. \A r \in 1..walked : ranked[r] # i /\ r \in 1..walked' /\ r < walked + 1
  BY <1>1, <1>2, <1>3 DEF RankedInv
<1>5. \A q \in 1..walked' : q \in 1..walked \/ q = walked + 1
  BY <1>1, <1>2
<1>6. ChunkNumbers' = ChunkNumbers /\ walked' \in 0..Len(ranked')
  BY <1>1, <1>2 DEF ChunkNumbers
<1>7. DOMAIN kept = 1..Len(kept) /\ Len(kept) \in Nat
  BY <1>2
<1>8. \A p \in DOMAIN kept : \E r \in 1..walked : kept[p] = ranked[r]
  BY <1>2 DEF WalkedInv
<1>9. \A p, q \in DOMAIN kept : p # q => kept[p] # kept[q] /\ ~Neighbour(kept[p], kept[q])
  BY <1>2 DEF WalkedInv
<1>10. \A q \in 1..walked : \E p \in DOMAIN kept :
          \/ kept[p] = ranked[q]
          \/ Neighbour(ranked[q], kept[p]) /\ \E r \in 1..walked : r < q /\ kept[p] = ranked[r]
  BY <1>2 DEF WalkedInv
<1> HIDE DEF i
<1>11. CASE Collapses(i)
  <2>1. kept' = kept
    BY <1>1, <1>11
  <2>2. PICK k \in DOMAIN kept : Neighbour(i, kept[k])
    BY <1>11 DEF Collapses
  <2>3. PICK s \in 1..walked : kept[k] = ranked[s]
    BY <1>8
  <2>4. ASSUME NEW q \in 1..walked'
        PROVE  \E p \in DOMAIN kept :
                  \/ kept[p] = ranked[q]
                  \/ Neighbour(ranked[q], kept[p]) /\ \E r \in 1..walked' : r < q /\ kept[p] = ranked[r]
    <3>1. CASE q \in 1..walked
      BY <1>4, <1>10, <3>1
    <3>2. CASE q = walked + 1
      BY <1>4, <2>2, <2>3, <3>2 DEF i
    <3> QED
      BY <1>5, <3>1, <3>2
  <2>5. \A p \in DOMAIN kept : \E r \in 1..walked' : kept[p] = ranked[r]
    BY <1>4, <1>8
  <2>6. Len(kept) <= TopK
    BY <1>1, <1>2, <1>7
  <2> QED
    <3>1. kept' \in Seq(ChunkNumbers') /\ Len(kept') <= TopK
      BY <1>2, <1>6, <2>1, <2>6
    <3>2. \A p \in DOMAIN kept' : \E r \in 1..walked' : kept'[p] = ranked'[r]
      BY <1>1, <2>1, <2>5
    <3>3. \A p, q \in DOMAIN kept' :
             p # q => kept'[p] # kept'[q] /\ ~Neighbour(kept'[p], kept'[q])
      BY <1>9, <2>1
    <3>4. \A q \in 1..walked' : \E p \in DOMAIN kept' :
             \/ kept'[p] = ranked'[q]
             \/ /\ Neighbour(ranked'[q], kept'[p])
                /\ \E r \in 1..walked' : r < q /\ kept'[p] = ranked'[r]
      BY <1>1, <2>1, <2>4
    <3> QED
      BY <1>6, <3>1, <3>2, <3>3, <3>4 DEF WalkedInv
<1>12. CASE ~Collapses(i)
  <2> DEFINE n == Len(kept) + 1
  <2>1. /\ kept' \in Seq(ChunkNumbers) /\ Len(kept') = n /\ kept'[n] = i
        /\ \A p \in DOMAIN kept : kept'[p] = kept[p] /\ p \in DOMAIN kept' /\ p # n
        /\ DOMAIN kept' = 1..n
    BY <1>1, <1>2, <1>3, <1>12
  <2>2. n \in DOMAIN kept' /\ \A p \in DOMAIN kept' : p \in DOMAIN kept \/ p = n
    BY <1>7, <2>1
  <2>3. n <= TopK
    BY <1>1, <1>2, <1>7
  <2> HIDE DEF n
  <2>4. \A p \in DOMAIN kept' : \E r \in 1..walked' : kept'[p] = ranked[r]
    BY <1>3, <1>4, <1>8, <2>1, <2>2 DEF i
  <2>5. \A p \in DOMAIN kept : kept[p] # i /\ ~Neighbour(i, kept[p])
    BY <1>4, <1>8, <1>12 DEF Collapses
  <2>6. ASSUME NEW p \in DOMAIN kept', NEW q \in DOMAIN kept', p # q
        PROVE  kept'[p] # kept'[q] /\ ~Neighbour(kept'[p], kept'[q])
    <3>1. CASE p \in DOMAIN kept /\ q \in DOMAIN kept
      BY <1>9, <2>1, <2>6, <3>1
    <3>2. CASE p \in DOMAIN kept /\ q = n
      BY <2>1, <2>5, <3>2 DEF Neighbour
    <3>3. CASE p = n /\ q \in DOMAIN kept
      BY <2>1, <2>5, <3>3 DEF Neighbour
    <3> QED
      BY <2>2, <2>6, <3>1, <3>2, <3>3
  <2>7. ASSUME NEW q \in 1..walked'
        PROVE  \E p \in DOMAIN kept' :
                  \/ kept'[p] = ranked[q]
                  \/ Neighbour(ranked[q], kept'[p]) /\ \E r \in 1..walked' : r < q /\ kept'[p] = ranked[r]
    <3>1. CASE q \in 1..walked
      BY <1>4, <1>10, <2>1, <3>1
    <3>2. CASE q = walked + 1
      BY <2>1, <2>2, <3>2 DEF i
    <3> QED
      BY <1>5, <3>1, <3>2
  <2> QED
    <3>1. kept' \in Seq(ChunkNumbers') /\ Len(kept') <= TopK
      BY <1>6, <2>1, <2>3
    <3>2. \A p \in DOMAIN kept' : \E r \in 1..walked' : kept'[p] = ranked'[r]
      BY <1>1, <2>4
    <3>3. \A p, q \in DOMAIN kept' :
             p # q => kept'[p] # kept'[q] /\ ~Neighbour(kept'[p], kept'[q])
      BY <2>6
    <3>4. \A q \in 1..walked' : \E p \in DOMAIN kept' :
             \/ kept'[p] = ranked'[q]
             \/ /\ Neighbour(ranked'[q], kept'[p])
                /\ \E r \in 1..walked' : r < q /\ kept'[p] = ranked'[r]
      <4>1. ranked' = ranked
        BY <1>1
      <4> QED
        BY <2>7, <4>1
    <3> QED
      BY <1>6, <3>1, <3>2, <3>3, <3>4 DEF WalkedInv
<1> QED
  BY <1>11, <1>12

LEMMA RankingStep == RankingInv /\ [RankingNext]_pvars => RankingInv'
<1> SUFFICES ASSUME RankingInv, [RankingNext]_pvars PROVE RankingInv'
  OBVIOUS
<1>1. ChunkingInv /\ LieApart /\ Weighted
  BY DEF RankingInv
<1>2. CASE ChunkingNext /\ UNCHANGED kvars
  <2>1. Cutting
    BY <1>2 DEF ChunkingNext, Skip, Whole, Window, TakeRow, CloseGroup, LastGroup
  <2>2. ChunkingInv' /\ LieApart'
    BY <1>1, <1>2, ChunkingStep, LieApartStep
  <2> QED
    BY <1>2, <2>1, <2>2 DEF kvars, RankingInv, Weighted
<1>3. ASSUME UNCHANGED cvars
      PROVE  ChunkingInv' /\ LieApart' /\ (Cutting' <=> Cutting)
  BY <1>1, <1>3, ChunkingStep, LieApartStep DEF cvars, Cutting
<1>4. CASE Fuse
  <2>1. /\ stage = "cut" /\ stage' = "fused" /\ ~Cutting /\ chunks # <<>>
        /\ UNCHANGED <<cvars, setup, scores, walked, kept>>
    BY <1>4 DEF Fuse, Finished
  <2>2. PoolInv'
    BY <1>4, FusedOrder
  <2> QED
    BY <1>3, <2>1, <2>2 DEF RankingInv, Weighted, cvars
<1>5. ASSUME NEW answer \in [1..Len(chunks) -> Int \cup {None}], RankedBy(answer)
      PROVE  RankingInv'
  <2>1. /\ stage = "fused" /\ stage' = "ranked"
        /\ UNCHANGED <<cvars, setup, pool>>
    BY <1>5 DEF RankedBy
  <2>2. RankedInv' /\ WalkedInv'
    BY <1>5, RankedInOrder
  <2>3. PoolInv'
    BY <2>1 DEF RankingInv, PoolInv, ChunkNumbers, cvars
  <2> QED
    BY <1>3, <2>1, <2>2, <2>3 DEF RankingInv, Weighted, cvars
<1>6. CASE Rerank
  <2>1. PICK answer \in [1..Len(chunks) -> Scores] : RankedBy(answer)
    BY <1>6 DEF Rerank
  <2>2. answer \in [1..Len(chunks) -> Int \cup {None}]
    BY RankingAssumption
  <2> QED
    BY <1>5, <2>1, <2>2
<1>7. CASE RerankElsewhere
  <2>1. PICK answer \in [1..Len(chunks) -> Scores \cup {None}] : RankedBy(answer)
    BY <1>7 DEF RerankElsewhere
  <2>2. answer \in [1..Len(chunks) -> Int \cup {None}]
    BY RankingAssumption
  <2> QED
    BY <1>5, <2>1, <2>2
<1>8. CASE RerankerDown
  <2>1. /\ stage = "fused" /\ stage' = "ranked" /\ ranked' = pool
        /\ UNCHANGED <<cvars, setup, pool, scores, walked, kept>>
    BY <1>8 DEF RerankerDown
  <2>2. /\ PoolInv /\ scores = <<>> /\ kept = <<>> /\ walked = 0 /\ Len(chunks) \in Nat
        /\ TopK \in Nat
    BY <1>1, <2>1, ChunkCount, RankingAssumption DEF RankingInv
  <2>3. ChunkNumbers' = ChunkNumbers
    BY <2>1 DEF ChunkNumbers, cvars
  <2>4. ranked' \in Seq(ChunkNumbers) /\ DOMAIN ranked' = ChunkNumbers /\ Len(ranked') \in Nat
    BY <2>1, <2>2 DEF PoolInv, ChunkNumbers
  <2>5. RankedInv'
    BY <2>1, <2>2, <2>3, <2>4 DEF RankedInv, PoolInv
  <2>6. WalkedInv'
    BY <2>1, <2>2, <2>4 DEF WalkedInv
  <2>7. PoolInv'
    BY <2>1, <2>2, <2>3 DEF PoolInv
  <2> QED
    BY <1>3, <2>1, <2>5, <2>6, <2>7 DEF RankingInv, Weighted, cvars
<1>9. CASE Walk
  <2>1. /\ stage = "ranked" /\ UNCHANGED <<cvars, stage, setup, pool, scores, ranked>>
    BY <1>9 DEF Walk
  <2>2. WalkedInv'
    BY <1>9, WalkStep
  <2>3. PoolInv'
    BY <2>1 DEF RankingInv, PoolInv, ChunkNumbers, cvars
  <2>4. RankedInv'
    BY <2>1, RankedStays DEF RankingInv, cvars
  <2> QED
    BY <1>3, <2>1, <2>2, <2>3, <2>4 DEF RankingInv, Weighted, cvars
<1>10. ASSUME UNCHANGED <<cvars, setup, pool, scores, ranked, walked, kept>>,
              stage \in {"ranked", "answered"}
       PROVE  RankedInv' /\ WalkedInv' /\ PoolInv'
  <2>1. PoolInv'
    BY <1>10 DEF RankingInv, PoolInv, ChunkNumbers, cvars
  <2>2. RankedInv'
    BY <1>10, RankedStays DEF RankingInv, cvars
  <2>3. WalkedInv'
    BY <1>10 DEF RankingInv, WalkedInv, ChunkNumbers, cvars, Neighbour
  <2> QED
    BY <2>1, <2>2, <2>3
<1>11. CASE Answer
  <2>1. /\ stage = "ranked" /\ stage' = "answered" /\ ~(Room /\ walked < Len(ranked))
        /\ UNCHANGED <<cvars, setup, pool, scores, ranked, walked, kept>>
    BY <1>11 DEF Answer
  <2> QED
    BY <1>3, <1>10, <2>1 DEF RankingInv, Weighted, cvars, Room
<1>12. CASE UNCHANGED pvars
  <2>1. UNCHANGED <<cvars, stage, setup, pool, scores, ranked, walked, kept>>
    BY <1>12 DEF pvars, kvars
  <2>2. PoolInv => PoolInv'
    BY <2>1 DEF PoolInv, ChunkNumbers, cvars
  <2> QED
    BY <1>3, <1>10, <2>1, <2>2 DEF RankingInv, Weighted, cvars, Room
<1> QED
  BY <1>2, <1>4, <1>6, <1>7, <1>8, <1>9, <1>11, <1>12 DEF RankingNext

\* Before anything is cut or ranked.
Unranked == Uncut /\ Weighted /\ stage = "cut" /\ scores = <<>> /\ kept = <<>> /\ walked = 0

LEMMA UnrankedStarts == Unranked => RankingInv
<1> SUFFICES ASSUME Unranked PROVE RankingInv
  OBVIOUS
<1>1. ChunkingInv
  BY UncutStarts DEF Unranked
<1>2. LieApart
  BY DEF Unranked, Uncut, LieApart, ChunkNumbers
<1> QED
  BY <1>1, <1>2 DEF Unranked, RankingInv

LEMMA RankingStarts == RankingInit => Unranked
BY DocumentsAssumption DEF RankingInit, ChunkingInit, Unranked, Uncut, Weighted

LEMMA RankingHolds == RankingSpec => []RankingInv
BY RankingStarts, UnrankedStarts, RankingStep, PTL DEF RankingSpec

LEMMA KeptShareNothing == RankingInv => NoTextTwice
<1> SUFFICES ASSUME RankingInv, 2 * Overlap <= TargetWords,
                    NEW p \in DOMAIN kept, NEW q \in DOMAIN kept, p # q
             PROVE  ~Shared(kept[p], kept[q])
  BY DEF NoTextTwice
<1>1. WalkedInv
  BY DEF RankingInv
<1>2. kept[p] \in ChunkNumbers /\ kept[q] \in ChunkNumbers
  BY <1>1 DEF WalkedInv
<1>3. kept[p] # kept[q] /\ ~Neighbour(kept[p], kept[q])
  BY <1>1 DEF WalkedInv
<1> QED
  BY <1>2, <1>3, StrangersShareNothing DEF RankingInv

\* NoTextTwice: of any document, and for any sizes with an overlap of at most half a chunk, no
\* two chunks of an answer have text in common: neighbours collapse, and others share none.
THEOREM AnswersRepeatNothing == RankingSpec => []NoTextTwice
BY KeptShareNothing, RankingHolds, PTL

LEMMA DroppedOnlySo == RankingInv => NothingElseIsDropped
<1> SUFFICES ASSUME RankingInv, stage = "answered", NEW i \in 1..Len(chunks), ~IsKept(i),
                    Len(kept) # TopK
             PROVE  \/ \E p \in DOMAIN kept :
                          Neighbour(i, kept[p]) /\ (scores = <<>> \/ Ahead(scores, kept[p], i))
                    \/ /\ scores # <<>> /\ setup.floor # None
                       /\ \/ scores[i] = None
                          \/ scores[i] * (IF Type(i) = "table" THEN setup.weight ELSE 4)
                                < 4 * setup.floor
  BY DEF NothingElseIsDropped
<1>1. RankedInv /\ WalkedInv /\ Weighted /\ ~(Room /\ walked < Len(ranked)) /\ i \in ChunkNumbers
  BY DEF RankingInv, ChunkNumbers
<1>2. walked = Len(ranked) /\ DOMAIN ranked = 1..walked
  BY <1>1, RankingAssumption DEF Room, WalkedInv, RankedInv
<1>3. CASE scores = <<>> \/ ClearsFloor(scores, i)
  <2>1. PICK q \in 1..walked : ranked[q] = i
    BY <1>1, <1>2, <1>3 DEF RankedInv
  <2>2. PICK p \in DOMAIN kept :
           Neighbour(i, kept[p]) /\ \E r \in 1..walked : r < q /\ kept[p] = ranked[r]
    BY <1>1, <2>1 DEF WalkedInv, IsKept
  <2>3. PICK r \in 1..walked : r < q /\ kept[p] = ranked[r]
    BY <2>2
  <2>4. kept[p] \in ChunkNumbers
    BY <1>1 DEF WalkedInv
  <2>5. scores # <<>> => Ahead(scores, kept[p], i)
    BY <1>1, <1>2, <2>1, <2>3, <2>4 DEF RankedInv
  <2> QED
    BY <2>2, <2>5
<1>4. CASE scores # <<>> /\ ~ClearsFloor(scores, i)
  <2>1. scores \in Answers /\ setup.floor \in Int \cup {None} /\ setup.floor # None
    BY <1>1, <1>4, RankingAssumption DEF RankedInv, ClearsFloor, Weighted
  <2>2. Boosted(scores, i) \in Int \cup {None}
    BY <1>1, <2>1, BoostedType
  <2>3. Boosted(scores, i) = None \/ Boosted(scores, i) < 4 * setup.floor
    BY <1>4, <2>1, <2>2 DEF ClearsFloor
  <2>4. scores[i] # None =>
           /\ Boosted(scores, i) = scores[i] * (IF Type(i) = "table" THEN setup.weight ELSE 4)
           /\ Boosted(scores, i) # None
    <3>1. scores[i] # None => scores[i] \in Int
      BY <1>1, <2>1 DEF Answers
    <3>2. (IF Type(i) = "table" THEN setup.weight ELSE 4) \in Nat
      BY <1>1, RankingAssumption DEF Weighted
    <3> QED
      BY <3>1, <3>2, RankingAssumption DEF Boosted
  <2> QED
    BY <1>4, <2>1, <2>3, <2>4
<1> QED
  BY <1>3, <1>4

\* NothingElseIsDropped: whatever the service answers, of any number of candidates, a chunk
\* that is not in the answer was displaced by top_k better ones, by a better neighbour that
\* is in it, or by the floor.
THEOREM DroppedForAReason == RankingSpec => []NothingElseIsDropped
BY DroppedOnlySo, RankingHolds, PTL

-----------------------------------------------------------------------------
(* The widths of a section: a recursive function, reasoned about through the *)
(* least number for which a claim about it fails.                            *)

LEMMA LeastNumber ==
  ASSUME NEW T \in SUBSET Nat, T # {}
  PROVE  \E x \in T : \A y \in T : x <= y
<1>1. IsWellFoundedOn(OpToRel(<, Nat), Nat)
  BY NatLessThanWellFounded
<1>2. \E x \in T : \A y \in T : ~(<<y, x>> \in OpToRel(<, Nat))
  BY <1>1, WFMin
<1>3. \E x \in T : \A y \in T : ~(y < x)
  BY <1>2 DEF OpToRel
<1> QED
  BY <1>3

\* The function that Width defines, up to n.
Sums(f, u, a, n) == f = [i \in 0..n |-> IF i <= a THEN 0 ELSE f[i - 1] + u[i]]

LEMMA SumsExist ==
  ASSUME NEW u, NEW a \in Nat
  PROVE  \A n \in Nat : \E f : Sums(f, u, a, n)
<1> DEFINE T == {n \in Nat : ~ \E f : Sums(f, u, a, n)}
<1> SUFFICES ASSUME T # {} PROVE FALSE
  OBVIOUS
<1>1. PICK m \in T : \A y \in T : m <= y
  BY LeastNumber
<1>2. CASE m = 0
  <2> DEFINE f == [i \in 0..0 |-> 0]
  <2>1. Sums(f, u, a, 0)
    BY DEF Sums
  <2> QED
    BY <1>1, <1>2, <2>1
<1>3. CASE m # 0
  <2>1. m - 1 \in Nat /\ m \in Nat
    BY <1>1, <1>3
  <2>2. m - 1 \notin T
    BY <1>1, <2>1
  <2>3. PICK g : Sums(g, u, a, m - 1)
    BY <2>1, <2>2
  <2> DEFINE last == IF m <= a THEN 0 ELSE g[m - 1] + u[m]
  <2> DEFINE f == [i \in 0..m |-> IF i = m THEN last ELSE g[i]]
  <2>4. \A i \in 0..m : f[i] = IF i <= a THEN 0 ELSE f[i - 1] + u[i]
    <3> SUFFICES ASSUME NEW i \in 0..m PROVE f[i] = IF i <= a THEN 0 ELSE f[i - 1] + u[i]
      OBVIOUS
    <3>1. CASE i = m
      BY <2>1, <3>1
    <3>2. CASE i # m
      <4>1. i \in 0..(m - 1) /\ (i <= a \/ (i - 1 \in 0..m /\ i - 1 # m))
        BY <2>1, <3>2
      <4>2. g[i] = IF i <= a THEN 0 ELSE g[i - 1] + u[i]
        BY <2>3, <4>1 DEF Sums
      <4> QED
        BY <3>2, <4>1, <4>2
    <3> QED
      BY <3>1, <3>2
  <2>5. f = [i \in 0..m |-> f[i]]
    OBVIOUS
  <2> HIDE DEF f
  <2>6. Sums(f, u, a, m)
    BY <2>4, <2>5 DEF Sums
  <2> QED
    BY <1>1, <2>1, <2>6
<1> QED
  BY <1>2, <1>3

LEMMA SumsAgree ==
  ASSUME NEW u, NEW a \in Nat, NEW n \in Nat, NEW m \in Nat, NEW f, NEW g,
         Sums(f, u, a, n), Sums(g, u, a, m)
  PROVE  \A i \in Nat : i <= n /\ i <= m => f[i] = g[i]
<1> DEFINE T == {i \in Nat : i <= n /\ i <= m /\ f[i] # g[i]}
<1> SUFFICES ASSUME T # {} PROVE FALSE
  OBVIOUS
<1>1. PICK x \in T : \A y \in T : x <= y
  BY LeastNumber
<1>2. x \in Nat /\ x \in 0..n /\ x \in 0..m /\ f[x] # g[x]
  BY <1>1
<1>3. /\ f[x] = IF x <= a THEN 0 ELSE f[x - 1] + u[x]
      /\ g[x] = IF x <= a THEN 0 ELSE g[x - 1] + u[x]
  BY <1>2 DEF Sums
<1>4. ~(x <= a) => x - 1 \in Nat /\ x - 1 \notin T
  BY <1>1, <1>2
<1>5. ~(x <= a) => f[x - 1] = g[x - 1]
  BY <1>2, <1>4
<1> QED
  BY <1>2, <1>3, <1>5

\* The equation that Width is defined by has a solution, so that Width satisfies it.
LEMMA WidthUnfolds ==
  ASSUME NEW s, NEW a \in Nat
  PROVE  \A b \in Nat : Width(s, a, b) = IF b <= a THEN 0 ELSE Width(s, a, b - 1) + s.units[b]
<1> DEFINE part(n) == CHOOSE f : Sums(f, s.units, a, n)
           whole == [i \in Nat |-> part(i)[i]]
           sum == CHOOSE f : f = [i \in Nat |-> IF i <= a THEN 0 ELSE f[i - 1] + s.units[i]]
<1>1. \A n \in Nat : Sums(part(n), s.units, a, n)
  BY SumsExist
<1> HIDE DEF part
<1>2. ASSUME NEW i \in Nat
      PROVE  part(i)[i] = IF i <= a THEN 0 ELSE part(i - 1)[i - 1] + s.units[i]
  <2>1. part(i)[i] = IF i <= a THEN 0 ELSE part(i)[i - 1] + s.units[i]
    <3>1. i \in 0..i
      OBVIOUS
    <3> QED
      BY <1>1, <3>1 DEF Sums
  <2>2. ASSUME ~(i <= a) PROVE part(i)[i - 1] = part(i - 1)[i - 1]
    <3>1. i - 1 \in Nat /\ i - 1 <= i
      BY <2>2
    <3> QED
      BY <1>1, <3>1, SumsAgree
  <2> QED
    BY <2>1, <2>2
<1>3. whole = [i \in Nat |-> IF i <= a THEN 0 ELSE whole[i - 1] + s.units[i]]
  BY <1>2
<1> HIDE DEF whole
<1>4. sum = [i \in Nat |-> IF i <= a THEN 0 ELSE sum[i - 1] + s.units[i]]
  BY <1>3
<1>5. \A b : Width(s, a, b) = sum[b]
  BY DEF Width
<1> HIDE DEF sum
<1>6. ASSUME NEW b \in Nat
      PROVE  sum[b] = IF b <= a THEN 0 ELSE sum[b - 1] + s.units[b]
  BY <1>4
<1> QED
  BY <1>5, <1>6

LEMMA WidthType ==
  ASSUME NEW s, s.units \in Seq(Nat), NEW a \in Nat, NEW b \in 0..Len(s.units)
  PROVE  Width(s, a, b) \in Nat
<1> DEFINE T == {i \in 0..Len(s.units) : Width(s, a, i) \notin Nat}
<1> SUFFICES ASSUME T # {} PROVE FALSE
  OBVIOUS
<1>0. T \in SUBSET Nat
  OBVIOUS
<1>1. PICK x \in T : \A y \in T : x <= y
  BY <1>0, LeastNumber
<1>2. x \in Nat /\ x \in 0..Len(s.units) /\ Width(s, a, x) \notin Nat
  BY <1>1
<1>3. Width(s, a, x) = IF x <= a THEN 0 ELSE Width(s, a, x - 1) + s.units[x]
  BY <1>2, WidthUnfolds
<1>4. ~(x <= a) => x - 1 \in 0..Len(s.units) /\ x - 1 \notin T /\ s.units[x] \in Nat
  BY <1>1, <1>2
<1>5. ~(x <= a) => Width(s, a, x - 1) \in Nat
  BY <1>4
<1> QED
  BY <1>2, <1>3, <1>4, <1>5

-----------------------------------------------------------------------------
(* The windows of a chunk that is too long for the model *)

\* The window before the a-th token begins no more than a stride before it.
LEMMA Quotient ==
  ASSUME NEW a \in Nat, NEW s \in Nat \ {0}
  PROVE  /\ a \div s \in Nat /\ a \div s <= a
         /\ (a \div s) * s \in Nat /\ (a \div s) * s <= a /\ a < (a \div s) * s + s
<1>1. a \div s \in Nat /\ (a \div s) * s <= a /\ a < (a \div s) * s + s
  OBVIOUS
<1>2. \A q \in Nat : q <= q * s /\ q * s \in Nat
  OBVIOUS
<1> QED
  BY <1>1, <1>2

LEMMA Multiples ==
  ASSUME NEW s \in Nat
  PROVE  /\ \A j \in Nat : j * s \in Nat
         /\ \A j, k \in Nat : j <= k => j * s <= k * s
         /\ \A k \in Nat \ {0} : (k - 1) * s = k * s - s
<1>1. \A j \in Nat : j * s \in Nat
  OBVIOUS
<1>2. ASSUME NEW j \in Nat, NEW k \in Nat, j <= k PROVE j * s <= k * s
  <2>1. PICK d \in Nat : k = j + d
    <3>1. k - j \in Nat /\ k = j + (k - j)
      BY <1>2
    <3> QED
      BY <3>1
  <2>2. k * s = j * s + d * s
    BY <2>1
  <2> QED
    BY <1>1, <2>2
<1>3. \A k \in Nat \ {0} : (k - 1) * s = k * s - s
  OBVIOUS
<1> QED
  BY <1>1, <1>2, <1>3

LEMMA StrideOverlaps ==
  ASSUME NEW room \in Nat \ {0}
  PROVE  Stride(room) \in Nat \ {0} /\ Stride(room) + room \div 4 <= room
         /\ room \div 4 \in Nat
BY DEF Stride

\* A passage lies in the window that begins at or before its first token, if that window is
\* scored, and if it is not, in the first of them that reaches the end.
LEMMA WindowCovers ==
  ASSUME NEW n \in Nat, NEW room \in Nat \ {0}, n > room,
         NEW a \in Nat, NEW b \in Nat, a < b, b <= n, b - a <= 1 + room \div 4
  PROVE  \E w \in WindowTexts(n, room) : w.from <= a /\ b <= w.to
<1> DEFINE s == Stride(room)
           k == a \div s
           overlap == room \div 4
           w(t) == [from |-> t, to |-> IF t + room < n THEN t + room ELSE n]
<1>1. s \in Nat \ {0} /\ s + overlap <= room /\ overlap \in Nat /\ b - a <= 1 + overlap
  BY StrideOverlaps
<1>2. WindowTexts(n, room) =
         {w(t) : t \in {u \in {j * s : j \in 0..n} : u = 0 \/ u - s + room < n}}
  BY DEF WindowTexts
<1> HIDE DEF s, overlap
<1>3. k \in Nat /\ k <= a /\ k * s \in Nat /\ k * s <= a /\ a < k * s + s
  BY <1>1, Quotient
<1> HIDE DEF k
<1>4. ASSUME NEW j \in 0..n, j * s = 0 \/ j * s - s + room < n,
             j * s <= a, b <= w(j * s).to
      PROVE  \E v \in WindowTexts(n, room) : v.from <= a /\ b <= v.to
  <2>1. w(j * s) \in WindowTexts(n, room)
    BY <1>2, <1>4
  <2> QED
    BY <1>4, <2>1
<1>5. CASE k * s = 0 \/ k * s - s + room < n
  <2>1. b <= k * s + room
    BY <1>1, <1>3
  <2>2. b <= w(k * s).to
    BY <2>1
  <2>3. k \in 0..n
    BY <1>3
  <2> QED
    BY <1>3, <1>4, <1>5, <2>2, <2>3
<1>6. CASE ~(k * s = 0 \/ k * s - s + room < n)
  <2> DEFINE T == {j \in Nat : n <= j * s + room}
  <2>1. k # 0 /\ k - 1 \in Nat /\ (k - 1) * s = k * s - s
    <3>1. k # 0
      BY <1>1, <1>6
    <3> QED
      BY <1>1, <1>3, <3>1, Multiples
  <2>2. k - 1 \in T
    BY <1>1, <1>3, <1>6, <2>1
  <2>3. PICK j \in T : \A i \in T : j <= i
    BY <2>2, LeastNumber
  <2>4. j \in Nat /\ n <= j * s + room /\ j <= k - 1
    BY <2>2, <2>3
  <2>5. j * s \in Nat /\ j * s <= (k - 1) * s
    BY <1>1, <2>1, <2>4, Multiples
  <2>6. j * s <= a
    BY <1>1, <1>3, <2>1, <2>5
  <2>7. j \in 0..n
    BY <1>3, <2>4
  <2>8. j * s = 0 \/ j * s - s + room < n
    <3>1. CASE j = 0
      BY <1>1, <3>1
    <3>2. CASE j # 0
      <4>1. j - 1 \in Nat /\ j - 1 \notin T
        BY <2>3, <2>4, <3>2
      <4>2. (j - 1) * s = j * s - s
        BY <1>1, <2>4, <3>2, Multiples
      <4> QED
        BY <1>1, <2>5, <4>1, <4>2
    <3> QED
      BY <3>1, <3>2
  <2>9. b <= w(j * s).to
    BY <2>4, <2>5
  <2> QED
    BY <1>4, <2>6, <2>7, <2>8, <2>9
<1> QED
  BY <1>5, <1>6

-----------------------------------------------------------------------------
(* A chunk is a piece of a section of the document *)

InDocument ==
    \A c \in ChunkNumbers :
        chunks[c].section \in 1..Len(sections) /\ chunks[c].to <= Units(chunks[c].section)

LEMMA EmitInDocument ==
  ASSUME ChunkingInv, InDocument, Cutting, NEW b \in Nat, b <= Size,
         Emit(from, b), UNCHANGED sections
  PROVE  InDocument'
<1>1. /\ ChunkingTypeOK /\ from \in Nat /\ Len(chunks) \in Nat
      /\ at \in 1..Len(sections) /\ Size = Units(at)
  BY SectionType DEF ChunkingInv, ChunkingTypeOK, Size
<1>2. /\ Len(chunks') = Len(chunks) + 1
      /\ \A c \in ChunkNumbers : chunks'[c] = chunks[c]
      /\ chunks'[Len(chunks) + 1] = [section |-> at, from |-> from, to |-> b]
  BY <1>1, EmitKeeps
<1>3. \A c \in ChunkNumbers' : c \in ChunkNumbers \/ c = Len(chunks) + 1
  BY <1>1, <1>2 DEF ChunkNumbers
<1>4. ASSUME NEW c \in ChunkNumbers'
      PROVE  /\ chunks'[c].section \in 1..Len(sections)
             /\ chunks'[c].to <= Units(chunks'[c].section)
  <2>1. CASE c \in ChunkNumbers
    BY <1>2, <2>1 DEF InDocument
  <2>2. CASE c = Len(chunks) + 1
    BY <1>1, <1>2, <2>2
  <2> QED
    BY <1>3, <2>1, <2>2
<1> QED
  BY <1>4 DEF InDocument, Units

LEMMA InDocumentStep == ChunkingInv /\ InDocument /\ [ChunkingNext]_cvars => InDocument'
<1> SUFFICES ASSUME ChunkingInv, InDocument, [ChunkingNext]_cvars PROVE InDocument'
  OBVIOUS
<1>1. /\ from \in Nat /\ to \in Nat
      /\ Cutting => Size \in Nat /\ Position
      /\ TargetWords \in Nat
  BY SectionType, SizesAssumption DEF ChunkingInv, Size
<1>2. ASSUME UNCHANGED <<sections, chunks>> PROVE InDocument'
  BY <1>2 DEF InDocument, ChunkNumbers, Units
<1>3. CASE Whole
  BY <1>1, <1>3, EmitInDocument DEF Whole, Position
<1>4. CASE Window
  <2> DEFINE end == IF from + TargetWords < Size THEN from + TargetWords ELSE Size
  <2>1. Cutting /\ Emit(from, end) /\ UNCHANGED sections
    BY <1>4 DEF Window
  <2>2. end \in Nat /\ end <= Size
    BY <1>1, <2>1
  <2> QED
    BY <2>1, <2>2, EmitInDocument
<1>5. CASE CloseGroup
  BY <1>1, <1>5, EmitInDocument DEF CloseGroup, Position
<1>6. CASE LastGroup
  BY <1>1, <1>6, EmitInDocument DEF LastGroup, Position
<1> QED
  BY <1>2, <1>3, <1>4, <1>5, <1>6 DEF ChunkingNext, Skip, TakeRow, cvars

LEMMA InDocumentStays == RankingInv /\ InDocument /\ [RankingNext]_pvars => InDocument'
<1> SUFFICES ASSUME RankingInv, InDocument, [RankingNext]_pvars PROVE InDocument'
  OBVIOUS
<1>1. ChunkingInv
  BY DEF RankingInv
<1>2. [ChunkingNext]_cvars
  BY DEF RankingNext, Fuse, Rerank, RerankElsewhere, RankedBy, RerankerDown, Walk, Answer, pvars
<1> QED
  BY <1>1, <1>2, InDocumentStep

LEMMA InDocumentStarts == Unranked => InDocument
BY DEF Unranked, Uncut, InDocument, ChunkNumbers

LEMMA ChunksAreInDocument == RankingSpec => []InDocument
BY RankingStarts, InDocumentStarts, InDocumentStays, RankingHolds, PTL DEF RankingSpec

LEMMA TokensType ==
  ASSUME ChunkingInv, InDocument, NEW c \in ChunkNumbers
  PROVE  Tokens(c) \in Nat
<1> DEFINE k == chunks[c]
           s == sections[k.section]
<1>1. k \in Chunks /\ k.section \in 1..Len(sections) /\ k.to <= Units(k.section)
  BY SectionType DEF ChunkingInv, InDocument
<1>2. s \in Sections
  BY <1>1, SectionType DEF ChunkingInv
<1>3. s.head \in Nat /\ s.units \in Seq(Nat) /\ Units(k.section) = Len(s.units)
  BY <1>2 DEF Sections, Units
<1>4. k.from \in Nat /\ k.to \in Nat
  BY <1>1 DEF Chunks
<1>5. k.to \in 0..Len(s.units)
  BY <1>1, <1>3, <1>4
<1>6. Tokens(c) = 2 * (s.head + Width(s, k.from, k.to))
  BY DEF Tokens
<1> HIDE DEF k, s
<1>7. Width(s, k.from, k.to) \in Nat
  BY <1>3, <1>4, <1>5, WidthType
<1> QED
  BY <1>3, <1>6, <1>7

LEMMA WindowsCoverAll == RankingInv /\ InDocument => TailIsScored
<1> SUFFICES ASSUME RankingInv, InDocument,
                    NEW c \in 1..Len(chunks), NEW room \in Budgets,
                    room > 0, Tokens(c) > room,
                    NEW a \in 0..(Tokens(c) - 1), NEW b \in (a + 1)..Tokens(c),
                    b - a <= 1 + room \div 4
             PROVE  \E w \in WindowTexts(Tokens(c), room) : w.from <= a /\ b <= w.to
  BY DEF TailIsScored
<1>1. Tokens(c) \in Nat
  BY TokensType DEF RankingInv, ChunkNumbers
<1>2. room \in Nat \ {0}
  BY RankingAssumption
<1>3. a \in Nat /\ b \in Nat /\ a < b /\ b <= Tokens(c)
  BY <1>1
<1> QED
  BY <1>1, <1>2, <1>3, WindowCovers

\* TailIsScored: however long a chunk and whatever the query leaves of the model's input, a
\* passage no longer than a quarter of that and one token lies within one of the windows
\* that are scored, at the end of the chunk as anywhere in it.
THEOREM WindowsReachTheTail == RankingSpec => []TailIsScored
BY WindowsCoverAll, RankingHolds, ChunksAreInDocument, PTL

-----------------------------------------------------------------------------
(* The parts of a file *)

\* Every one of some numbers is in the sequence once, and they ascend.
LEMMA InOrderSound ==
  ASSUME NEW S, IsFiniteSet(S), \A i \in S : i \in Int
  PROVE  /\ InOrder(S) \in Seq(S) /\ Len(InOrder(S)) = Cardinality(S)
         /\ \A i \in S : \E p \in DOMAIN InOrder(S) : InOrder(S)[p] = i
         /\ \A p, q \in DOMAIN InOrder(S) : p < q => InOrder(S)[p] < InOrder(S)[q]
<1> DEFINE R == {r \in S \X S : r[1] < r[2]}
           below(i) == {j \in S : j < i}
           order == InOrder(S)
<1>1. \A i, j \in S : <<i, j>> \in R <=> i < j
  OBVIOUS
<1>2. order = [p \in 1..Cardinality(S) |-> CHOOSE i \in S : Cardinality(below(i)) = p - 1]
  BY DEF InOrder
<1>3. \A i \in S : below(i) = {j \in S : <<j, i>> \in R}
  BY <1>1
<1> HIDE DEF R, below, order
<1>4. \A p \in 1..Cardinality(S) :
         (\E i \in S : Cardinality(below(i)) = p - 1) =>
             order[p] \in S /\ Cardinality(below(order[p])) = p - 1
  BY <1>2
<1>5. \A p \in 1..Cardinality(S) :
         (\E i \in S : Cardinality({j \in S : <<j, i>> \in R}) = p - 1) =>
             order[p] \in S /\ Cardinality({j \in S : <<j, order[p]>> \in R}) = p - 1
  BY <1>3, <1>4
<1>6. StrictOrder(R, S)
  BY <1>1 DEF StrictOrder
<1>7. Counts(order, S, R)
  <2>1. order = [p \in 1..Cardinality(S) |-> order[p]]
    BY <1>2
  <2> QED
    BY <1>5, <2>1 DEF Counts
<1>8. /\ order \in Seq(S) /\ Len(order) = Cardinality(S)
      /\ \A i \in S : \E p \in DOMAIN order : order[p] = i
      /\ \A p, q \in DOMAIN order : p < q => <<order[p], order[q]>> \in R
  BY <1>6, <1>7, CountedOrder
<1>9. \A p \in DOMAIN order : order[p] \in S
  BY <1>8
<1> QED
  BY <1>1, <1>8, <1>9 DEF order

LEMMA FileType ==
  ASSUME file \in Files
  PROVE  /\ file.parts \in Seq(Parts) /\ file.places \in Nat
         /\ Nodes = 1..Len(file.parts) /\ Len(file.parts) \in Nat /\ IsFiniteSet(Nodes)
         /\ \A i \in Nodes : i \in Int /\ i > 0 /\ Part(i) \in Parts
<1>1. file.parts \in Seq(Parts) /\ file.places \in Nat
  BY ParsingAssumption
<1>2. Nodes = 1..Len(file.parts) /\ Len(file.parts) \in Nat
  BY <1>1 DEF Nodes
<1>3. IsFiniteSet(Nodes)
  <2>1. 1 \in Int /\ Len(file.parts) \in Int
    BY <1>2
  <2> QED
    BY <1>2, <2>1, FS_Interval
<1>4. \A i \in Nodes : i \in Int /\ i > 0 /\ Part(i) \in Parts
  BY <1>1, <1>2 DEF Part
<1> QED
  BY <1>1, <1>2, <1>3, <1>4

\* The parts of a set of parts, in order.
LEMMA NodesInOrder ==
  ASSUME file \in Files, NEW S \in SUBSET Nodes
  PROVE  /\ InOrder(S) \in Seq(S) /\ InOrder(S) \in Seq(Nodes)
         /\ Len(InOrder(S)) \in Nat /\ (InOrder(S) = <<>> <=> S = {})
         /\ ToSet(InOrder(S)) = S
         /\ \A p, q \in DOMAIN InOrder(S) : p < q => InOrder(S)[p] < InOrder(S)[q]
<1>1. IsFiniteSet(S) /\ \A i \in S : i \in Int
  BY FileType, FS_Subset
<1> DEFINE order == InOrder(S)
<1>2. /\ order \in Seq(S) /\ Len(order) = Cardinality(S)
      /\ \A i \in S : \E p \in DOMAIN order : order[p] = i
      /\ \A p, q \in DOMAIN order : p < q => order[p] < order[q]
  BY <1>1, InOrderSound
<1> HIDE DEF order
<1>3. order \in Seq(Nodes) /\ Len(order) \in Nat
  BY <1>2
<1>4. ToSet(order) = S
  BY <1>2 DEF ToSet
<1>5. order = <<>> <=> S = {}
  BY <1>2
<1> QED
  BY <1>2, <1>3, <1>4, <1>5 DEF order

LEMMA AtSound ==
  ASSUME file \in Files, NEW kind, NEW place
  PROVE  /\ At(kind, place) \in Seq(Nodes)
         /\ ToSet(At(kind, place)) = {i \in Nodes : Part(i).kind = kind /\ Part(i).place = place}
         /\ \A p, q \in DOMAIN At(kind, place) : p < q => At(kind, place)[p] < At(kind, place)[q]
<1> DEFINE S == {i \in Nodes : Part(i).kind = kind /\ Part(i).place = place}
<1>1. S \in SUBSET Nodes /\ At(kind, place) = InOrder(S)
  BY DEF At
<1> QED
  BY <1>1, NodesInOrder

LEMMA WithTextSound ==
  ASSUME file \in Files, NEW s \in Seq(Nodes)
  PROVE  /\ WithText(s) \in Seq(Nodes)
         /\ (WithText(s) = <<>> <=> \A i \in ToSet(s) : ~HasText(i))
         /\ ToSet(WithText(s)) = {i \in ToSet(s) : HasText(i)}
         /\ \A p, q \in DOMAIN WithText(s) : p < q => WithText(s)[p] < WithText(s)[q]
<1> DEFINE S == {i \in ToSet(s) : HasText(i)}
<1>1. ToSet(s) \subseteq Nodes
  BY DEF ToSet
<1>2. S \in SUBSET Nodes /\ WithText(s) = InOrder(S)
  BY <1>1 DEF WithText
<1>3. S = {} <=> \A i \in ToSet(s) : ~HasText(i)
  OBVIOUS
<1> HIDE DEF S
<1>4. /\ WithText(s) \in Seq(Nodes) /\ (WithText(s) = <<>> <=> S = {}) /\ ToSet(WithText(s)) = S
      /\ \A p, q \in DOMAIN WithText(s) : p < q => WithText(s)[p] < WithText(s)[q]
  BY <1>2, NodesInOrder
<1> QED
  BY <1>3, <1>4 DEF S

-----------------------------------------------------------------------------
(* What parsing has in its hands *)

\* The first text of a table is a table, and it has a row.
ReadSections ==
    {s \in [type : {"text", "ocr", "table", "image"}, heading : Nat, page : Nat, texts : Seq(Nodes)] :
        s.type = "table" =>
            s.texts # <<>> /\ Part(s.texts[1]).kind = "table" /\ HasText(s.texts[1])}

Reasons == {"budget_exhausted", "no_text_recognized", "unreadable_images", "ocr_unavailable"}

ParsingTypeOK ==
    /\ reading \in {"parsing", "parsed", "captioning", "read", "refused"}
    /\ host \in Hosts /\ file \in Files
    /\ next \in Nat \ {0} /\ heading \in Nat
    /\ lines \in Seq(Nodes) /\ figures \in Seq(Nodes)
    /\ parsed \in Seq(ReadSections)
    /\ budget \in Nat
    /\ skipped \subseteq [page : Nat, reason : Reasons] /\ IsFiniteSet(skipped)

LEMMA ReadType ==
  ASSUME NEW type \in {"text", "ocr", "table", "image"}, NEW head \in Nat, NEW page \in Nat,
         NEW texts \in Seq(Nodes),
         type = "table" =>
             texts # <<>> /\ Part(texts[1]).kind = "table" /\ HasText(texts[1])
  PROVE  Read(type, head, page, texts) \in ReadSections
BY DEF Read, ReadSections

LEMMA SectionedType ==
  ASSUME NEW type \in {"text", "ocr", "table", "image"}, NEW head \in Nat, NEW page \in Nat,
         NEW texts \in Seq(Nodes),
         type = "table" => \A i \in ToSet(texts) : Part(i).kind = "table" /\ HasText(i)
  PROVE  Sectioned(type, head, page, texts) \in Seq(ReadSections)
<1>1. CASE texts = <<>>
  BY <1>1 DEF Sectioned
<1>2. CASE texts # <<>>
  <2>1. texts[1] \in ToSet(texts)
    BY <1>2 DEF ToSet
  <2>2. Read(type, head, page, texts) \in ReadSections
    BY <1>2, <2>1, ReadType
  <2> QED
    BY <1>2, <2>2 DEF Sectioned
<1> QED
  BY <1>1, <1>2

\* The sections that a place, or a heading and what follows it, is read into.
LEMMA BodyType ==
  ASSUME file \in Files, NEW h
  PROVE  Body(h) \in Seq(Nodes)
<1>1. {j \in Nodes : HasText(j) /\ \E i \in Following(h) : Under(i, j)} \in SUBSET Nodes
  OBVIOUS
<1> QED
  BY <1>1, NodesInOrder DEF Body

LEMMA TakenType ==
  ASSUME NEW s \in Seq(Nodes), NEW m \in Nat
  PROVE  LET n == IF m < Len(s) THEN m ELSE Len(s) IN
         SubSeq(s, 1, n) \in Seq(Nodes) /\ Len(SubSeq(s, 1, n)) = n /\ n \in Nat /\ n <= m
<1> DEFINE n == IF m < Len(s) THEN m ELSE Len(s)
<1>1. n \in Nat /\ n <= m /\ n <= Len(s)
  OBVIOUS
<1> HIDE DEF n
<1>2. SubSeq(s, 1, n) = [k \in 1..n |-> s[k]]
  BY <1>1
<1>3. SubSeq(s, 1, n) \in Seq(Nodes) /\ Len(SubSeq(s, 1, n)) = n
  BY <1>1, <1>2
<1> QED
  BY <1>1, <1>3 DEF n

\* A file of one part is read whole.
LEMMA WholeType ==
  ASSUME ParsingTypeOK, ReadWhole
  PROVE  parsed' \in Seq(ReadSections)
<1>1. /\ file \in Files /\ file.format \in {"txt", "image"}
      /\ parsed' = <<Read(IF file.format = "txt" THEN "text" ELSE "ocr", 0, 0, <<1>>)>>
  BY DEF ReadWhole, Ends, Parses, ParsingTypeOK
<1>2. Len(file.parts) = 1
  BY <1>1, ParsingAssumption
<1>3. <<1>> \in Seq(Nodes)
  BY <1>1, <1>2, FileType
<1>4. Read(IF file.format = "txt" THEN "text" ELSE "ocr", 0, 0, <<1>>) \in ReadSections
  BY <1>3, ReadType
<1> QED
  BY <1>1, <1>4

LEMMA FlushedType ==
  ASSUME ParsingTypeOK
  PROVE  Flushed \in Seq(ReadSections)
<1>1. Sectioned("text", heading, 0, lines) \in Seq(ReadSections)
  BY SectionedType DEF ParsingTypeOK
<1> QED
  BY <1>1 DEF Flushed, ParsingTypeOK

LEMMA LinesEndType ==
  ASSUME ParsingTypeOK, EndOfLines
  PROVE  parsed' \in Seq(ReadSections)
<1>1. Flushed \in Seq(ReadSections)
  BY FlushedType
<1>2. InOrder(Nodes) \in Seq(Nodes)
  BY NodesInOrder DEF ParsingTypeOK
<1>3. Read("text", 0, 0, InOrder(Nodes)) \in ReadSections
  BY <1>2, ReadType
<1> QED
  BY <1>1, <1>3 DEF EndOfLines, Ends

LEMMA TableType ==
  ASSUME ParsingTypeOK, TakeTable
  PROVE  parsed' \in Seq(ReadSections)
<1>1. CASE HasText(next)
  <2>1. /\ next \in Nodes /\ Part(next).kind = "table"
        /\ parsed' = Flushed \o Sectioned("table", heading, 0, <<next>>)
    BY <1>1 DEF TakeTable, Gathers, Nodes
  <2>2. <<next>> \in Seq(Nodes) /\ ToSet(<<next>>) = {next}
    BY <2>1 DEF ToSet
  <2>3. Sectioned("table", heading, 0, <<next>>) \in Seq(ReadSections)
    BY <1>1, <2>1, <2>2, SectionedType DEF ParsingTypeOK
  <2> QED
    BY <2>1, <2>3, FlushedType
<1>2. CASE ~HasText(next)
  BY <1>2 DEF TakeTable, ParsingTypeOK
<1> QED
  BY <1>1, <1>2

LEMMA HtmlType ==
  ASSUME ParsingTypeOK, ReadHtml
  PROVE  parsed' \in Seq(ReadSections)
<1> DEFINE S == {h \in Headings : Body(h) # <<>>}
           order == InOrder(S)
           headed(h) == Read("text", IF HasText(h) THEN h ELSE 0, 0, Body(h))
<1>1. file \in Files
  BY DEF ParsingTypeOK
<1>2. CASE Headings = {}
  <2>1. WithText(InOrder(Nodes)) \in Seq(Nodes)
    BY <1>1, NodesInOrder, WithTextSound
  <2>2. Sectioned("text", 0, 0, WithText(InOrder(Nodes))) \in Seq(ReadSections)
    BY <2>1, SectionedType
  <2> QED
    BY <1>2, <2>2 DEF ReadHtml, Ends
<1>3. CASE Headings # {}
  <2>1. parsed' = [i \in DOMAIN order |-> headed(order[i])]
    BY <1>3 DEF ReadHtml, Ends
  <2>2. S \in SUBSET Nodes
    BY DEF Headings
  <2>3. order \in Seq(Nodes) /\ Len(order) \in Nat
    BY <1>1, <2>2, NodesInOrder
  <2> HIDE DEF order, S
  <2>4. ASSUME NEW h \in Nodes PROVE headed(h) \in ReadSections
    <3>1. (IF HasText(h) THEN h ELSE 0) \in Nat
      BY <1>1, FileType
    <3>2. Body(h) \in Seq(Nodes)
      BY <1>1, BodyType
    <3> QED
      BY <3>1, <3>2, ReadType
  <2> HIDE DEF headed
  <2>5. \A i \in DOMAIN order : headed(order[i]) \in ReadSections
    BY <2>3, <2>4
  <2> QED
    BY <2>1, <2>3, <2>5
<1> QED
  BY <1>2, <1>3

LEMMA SlideType ==
  ASSUME ParsingTypeOK, TakeSlide
  PROVE  parsed' \in Seq(ReadSections)
<1> DEFINE title == WithText(At("title", next))
           texts == WithText(At("text", next))
           head == IF title = <<>> THEN 0 ELSE title[1]
           read == IF texts = <<>> THEN title ELSE texts
<1>1. file \in Files /\ next \in Nat /\ parsed \in Seq(ReadSections)
  BY DEF ParsingTypeOK
<1>2. title \in Seq(Nodes) /\ texts \in Seq(Nodes)
  BY <1>1, AtSound, WithTextSound
<1>3. parsed' = parsed \o Sectioned("text", head, next, read)
  BY DEF TakeSlide
<1> HIDE DEF title, texts
<1>4. head \in Nat
  <2>1. title # <<>> => title[1] \in Nodes
    BY <1>2
  <2> QED
    BY <1>1, <2>1, FileType
<1>5. read \in Seq(Nodes)
  BY <1>2
<1> HIDE DEF head, read
<1>6. Sectioned("text", head, next, read) \in Seq(ReadSections)
  BY <1>1, <1>4, <1>5, SectionedType
<1> QED
  BY <1>1, <1>3, <1>6

LEMMA SheetType ==
  ASSUME ParsingTypeOK, TakeSheet
  PROVE  parsed' \in Seq(ReadSections)
<1> DEFINE tables == WithText(At("table", next))
<1>1. file \in Files /\ next \in Nat /\ parsed \in Seq(ReadSections)
  BY DEF ParsingTypeOK
<1>2. /\ tables \in Seq(Nodes)
      /\ \A i \in ToSet(tables) : Part(i).kind = "table" /\ HasText(i)
  BY <1>1, AtSound, WithTextSound
<1>3. parsed' = parsed \o Sectioned("table", 0, next, tables)
  BY DEF TakeSheet
<1> HIDE DEF tables
<1>4. Sectioned("table", 0, next, tables) \in Seq(ReadSections)
  BY <1>1, <1>2, SectionedType
<1> QED
  BY <1>1, <1>3, <1>4

LEMMA RecognizedType ==
  ASSUME ParsingTypeOK, NEW images \in Seq(Nodes)
  PROVE  Recognized(images) \in Seq(ReadSections)
<1>1. WithText(images) \in Seq(Nodes) /\ next \in Nat
  BY WithTextSound DEF ParsingTypeOK
<1> QED
  BY <1>1, SectionedType DEF Recognized

LEMMA PageType ==
  ASSUME ParsingTypeOK, TakePage
  PROVE  parsed' \in Seq(ReadSections)
<1> DEFINE tables == WithText(At("table", next))
           read(i) == Read("table", 0, next, <<tables[i]>>)
<1>1. file \in Files /\ next \in Nat /\ parsed \in Seq(ReadSections)
  BY DEF ParsingTypeOK
<1>2. /\ tables \in Seq(Nodes)
      /\ \A i \in ToSet(tables) : Part(i).kind = "table" /\ HasText(i)
  BY <1>1, AtSound, WithTextSound
<1>3. parsed' = parsed \o Sectioned("text", 0, next, Prose) \o [i \in DOMAIN tables |-> read(i)]
  BY DEF TakePage
<1> HIDE DEF tables
<1>4. \A i \in DOMAIN tables : read(i) \in ReadSections
  <2> SUFFICES ASSUME NEW i \in DOMAIN tables PROVE read(i) \in ReadSections
    OBVIOUS
  <2>1. tables[i] \in Nodes /\ Part(tables[i]).kind = "table" /\ HasText(tables[i])
    BY <1>2 DEF ToSet
  <2>2. <<tables[i]>> \in Seq(Nodes) /\ <<tables[i]>> # <<>> /\ <<tables[i]>>[1] = tables[i]
    BY <2>1
  <2> QED
    BY <1>1, <2>1, <2>2, ReadType
<1> HIDE DEF read
<1>5. [i \in DOMAIN tables |-> read(i)] \in Seq(ReadSections)
  BY <1>2, <1>4
<1>6. Prose \in Seq(Nodes)
  BY <1>1, AtSound, WithTextSound DEF Prose
<1>7. Sectioned("text", 0, next, Prose) \in Seq(ReadSections)
  BY <1>1, <1>6, SectionedType
<1> QED
  BY <1>1, <1>3, <1>5, <1>7

LEMMA OcrPageType ==
  ASSUME ParsingTypeOK, OcrPage
  PROVE  parsed' \in Seq(ReadSections) /\ budget' \in Nat
<1> DEFINE images == At("image", next)
           n == IF budget < Len(images) THEN budget ELSE Len(images)
           taken == SubSeq(images, 1, n)
<1>1. file \in Files /\ budget \in Nat /\ parsed \in Seq(ReadSections)
  BY DEF ParsingTypeOK
<1>2. images \in Seq(Nodes)
  BY <1>1, AtSound
<1>3. parsed' = parsed \o Recognized(taken) /\ budget' = budget - Len(taken)
  BY DEF OcrPage
<1> HIDE DEF images
<1>4. taken \in Seq(Nodes) /\ Len(taken) \in Nat /\ Len(taken) <= budget
  BY <1>1, <1>2, TakenType
<1> HIDE DEF taken
<1>5. Recognized(taken) \in Seq(ReadSections)
  BY <1>4, RecognizedType
<1> QED
  BY <1>1, <1>3, <1>4, <1>5

\* At most one record is added, and it is of the page being read.
LEMMA RecordType ==
  ASSUME ParsingTypeOK, OcrPage \/ SkipPage
  PROVE  \E reason \in Reasons :
            skipped' = skipped \/ skipped' = skipped \cup {[page |-> next, reason |-> reason]}
<1>1. CASE OcrPage
  <2>1. PICK taken : OcrStatus(taken)
    BY <1>1 DEF OcrPage
  <2>2. "budget_exhausted" \in Reasons /\ "no_text_recognized" \in Reasons
    BY DEF Reasons
  <2> QED
    BY <2>1, <2>2 DEF OcrStatus
<1>2. CASE SkipPage
  <2>1. PICK reason \in (IF host.ocr THEN {"unreadable_images"} ELSE {"ocr_unavailable"}) :
           skipped' = skipped \cup {[page |-> next, reason |-> reason]}
    BY <1>2 DEF SkipPage
  <2>2. reason \in Reasons
    BY <2>1 DEF Reasons
  <2> QED
    BY <2>1, <2>2
<1> QED
  BY <1>1, <1>2

LEMMA RecordsType ==
  ASSUME ParsingTypeOK, OcrPage \/ SkipPage
  PROVE  skipped' \subseteq [page : Nat, reason : Reasons] /\ IsFiniteSet(skipped')
<1>1. PICK reason \in Reasons :
         skipped' = skipped \/ skipped' = skipped \cup {[page |-> next, reason |-> reason]}
  BY RecordType
<1>2. IsFiniteSet(skipped) /\ IsFiniteSet(skipped \cup {[page |-> next, reason |-> reason]})
  BY FS_AddElement DEF ParsingTypeOK
<1>3. [page |-> next, reason |-> reason] \in [page : Nat, reason : Reasons]
  BY DEF ParsingTypeOK
<1> QED
  BY <1>1, <1>2, <1>3 DEF ParsingTypeOK

LEMMA FiguresType ==
  ASSUME ParsingTypeOK, FindFigures
  PROVE  figures' \in Seq(Nodes)
<1> SUFFICES ASSUME NEW lost PROVE Chosen(Images(lost)) \in Seq(Nodes)
  BY DEF FindFigures
<1> DEFINE S == {i \in Images(lost) :
                    \A j \in Images(lost) : j < i => Part(j).figure # Part(i).figure}
<1>1. S \in SUBSET Nodes
  BY DEF Images
<1>2. InOrder(S) \in Seq(Nodes)
  BY <1>1, NodesInOrder DEF ParsingTypeOK
<1>3. Chosen(Images(lost)) =
         SubSeq(InOrder(S), 1, IF MaxImages < Len(InOrder(S)) THEN MaxImages ELSE Len(InOrder(S)))
  BY DEF Chosen
<1> HIDE DEF S
<1> QED
  BY <1>2, <1>3, TakenType, ParsingAssumption

LEMMA CaptionType ==
  ASSUME ParsingTypeOK, Caption
  PROVE  parsed' \in Seq(ReadSections) /\ figures' \in Seq(Nodes)
<1>1. /\ file \in Files /\ figures \in Seq(Nodes) /\ figures # <<>> /\ figures' = Tail(figures)
      /\ parsed \in Seq(ReadSections)
  BY DEF Caption, ParsingTypeOK
<1>2. figures[1] \in Nodes /\ Tail(figures) \in Seq(Nodes)
  BY <1>1
<1>3. Part(figures[1]).place \in Nat /\ <<figures[1]>> \in Seq(Nodes)
  <2>1. Part(figures[1]) \in Parts
    BY <1>1, <1>2, FileType
  <2>2. Part(figures[1]).place \in Nat
    BY <2>1 DEF Parts
  <2> QED
    BY <1>2, <2>2
<1> DEFINE s == Read("image", 0, Part(figures[1]).place, <<figures[1]>>)
<1>4. s \in ReadSections
  BY <1>3, ReadType
<1>5. parsed' = parsed \o <<>> \/ parsed' = parsed \o <<s>>
  BY DEF Caption
<1> HIDE DEF s
<1>6. parsed \o <<>> \in Seq(ReadSections) /\ parsed \o <<s>> \in Seq(ReadSections)
  BY <1>1, <1>4
<1> QED
  BY <1>1, <1>2, <1>5, <1>6

LEMMA ParsingStarts == ParsingInit => ParsingTypeOK
<1> SUFFICES ASSUME ParsingInit PROVE ParsingTypeOK
  OBVIOUS
<1>1. IsFiniteSet(skipped) /\ skipped = {}
  BY FS_EmptySet DEF ParsingInit
<1>2. <<>> \in Seq(Nodes) /\ <<>> \in Seq(ReadSections) /\ MaxOcrImages \in Nat
  BY ParsingAssumption
<1> QED
  BY <1>1, <1>2 DEF ParsingInit, ParsingTypeOK

LEMMA ParsingTypeStep == ParsingTypeOK /\ [ParsingNext]_rvars => ParsingTypeOK'
<1> SUFFICES ASSUME ParsingTypeOK, [ParsingNext]_rvars PROVE ParsingTypeOK'
  OBVIOUS
<1>1. file \in Files /\ next \in Nat /\ next + 1 \in Nat \ {0}
  BY DEF ParsingTypeOK
<1>2. file' = file /\ host' = host
  BY DEF ParsingNext, rvars, Refuse, ReadWhole, TakeHeading, TakeText, TakeTable, PassImage,
         EndOfLines, ReadHtml, TakeSlide, TakeSheet, OcrPage, SkipPage, TakePage, EndOfPlaces,
         FindFigures, Caption, EndOfCaptions, Ends, Gathers, Takes
<1>3. Nodes' = Nodes /\ ReadSections' = ReadSections
  BY <1>2 DEF Nodes, ReadSections, Part, HasText, Rows
<1>4. ASSUME reading' \in {"parsing", "parsed", "captioning", "read", "refused"},
             next' \in Nat \ {0}, heading' \in Nat, lines' \in Seq(Nodes), figures' \in Seq(Nodes),
             parsed' \in Seq(ReadSections), budget' \in Nat,
             skipped' \subseteq [page : Nat, reason : Reasons], IsFiniteSet(skipped')
      PROVE  ParsingTypeOK'
  BY <1>2, <1>3, <1>4 DEF ParsingTypeOK
<1>5. CASE Refuse
  BY <1>4, <1>5 DEF Refuse, ParsingTypeOK
<1>6. CASE ReadWhole
  BY <1>4, <1>6, WholeType DEF ReadWhole, Ends, ParsingTypeOK
<1>7. CASE TakeHeading
  <2>1. (IF HasText(next) THEN next ELSE 0) \in Nat /\ <<>> \in Seq(Nodes)
    BY <1>1
  <2> QED
    BY <1>1, <1>4, <1>7, <2>1, FlushedType DEF TakeHeading, Gathers, ParsingTypeOK
<1>8. CASE TakeText
  <2>1. next \in Nodes
    BY <1>8 DEF TakeText, Gathers, Nodes
  <2>2. WithText(<<next>>) \in Seq(Nodes)
    <3>1. <<next>> \in Seq(Nodes)
      BY <2>1
    <3> QED
      BY <1>1, <3>1, WithTextSound
  <2>3. lines' \in Seq(Nodes)
    BY <1>8, <2>2 DEF TakeText, ParsingTypeOK
  <2> QED
    BY <1>1, <1>4, <1>8, <2>3 DEF TakeText, Gathers, ParsingTypeOK
<1>9. CASE TakeTable
  <2>1. (lines' = <<>> \/ lines' = lines) /\ heading' = heading
    BY <1>9 DEF TakeTable
  <2>2. lines' \in Seq(Nodes)
    <3>1. lines \in Seq(Nodes) /\ <<>> \in Seq(Nodes)
      BY DEF ParsingTypeOK
    <3> QED
      BY <2>1, <3>1
  <2> QED
    BY <1>1, <1>4, <1>9, <2>1, <2>2, TableType DEF TakeTable, Gathers, ParsingTypeOK
<1>10. CASE PassImage
  BY <1>1, <1>4, <1>10 DEF PassImage, Gathers, ParsingTypeOK
<1>11. CASE EndOfLines
  BY <1>4, <1>11, LinesEndType DEF EndOfLines, Ends, ParsingTypeOK
<1>12. CASE ReadHtml
  <2>1. parsed' \in Seq(ReadSections)
    BY <1>12, HtmlType
  <2>2. /\ reading' = "parsed"
        /\ UNCHANGED <<heading, budget, skipped, figures, next, lines>>
    BY <1>12 DEF ReadHtml, Ends
  <2> QED
    BY <1>4, <2>1, <2>2 DEF ParsingTypeOK
<1>13. CASE TakeSlide
  BY <1>1, <1>4, <1>13, SlideType DEF TakeSlide, Takes, ParsingTypeOK
<1>14. CASE TakeSheet
  BY <1>1, <1>4, <1>14, SheetType DEF TakeSheet, Takes, ParsingTypeOK
<1>15. CASE OcrPage
  BY <1>1, <1>4, <1>15, OcrPageType, RecordsType DEF OcrPage, Takes, ParsingTypeOK
<1>16. CASE SkipPage
  BY <1>1, <1>4, <1>16, RecordsType DEF SkipPage, Takes, ParsingTypeOK
<1>17. CASE TakePage
  BY <1>1, <1>4, <1>17, PageType DEF TakePage, Takes, ParsingTypeOK
<1>18. CASE EndOfPlaces
  BY <1>4, <1>18 DEF EndOfPlaces, Ends, ParsingTypeOK
<1>19. CASE FindFigures
  <2>1. reading' \in {"read", "captioning"}
    BY <1>19 DEF FindFigures
  <2> QED
    BY <1>4, <1>19, <2>1, FiguresType DEF FindFigures, ParsingTypeOK
<1>20. CASE Caption
  BY <1>4, <1>20, CaptionType DEF Caption, ParsingTypeOK
<1>21. CASE EndOfCaptions
  BY <1>4, <1>21 DEF EndOfCaptions, ParsingTypeOK
<1>22. CASE UNCHANGED rvars
  BY <1>4, <1>22 DEF rvars, ParsingTypeOK
<1> QED
  BY <1>5, <1>6, <1>7, <1>8, <1>9, <1>10, <1>11, <1>12, <1>13, <1>14, <1>15, <1>16, <1>17, <1>18,
     <1>19, <1>20, <1>21, <1>22 DEF ParsingNext

-----------------------------------------------------------------------------
(* The pages of a PDF *)

SectionsOf(page) == {s \in DOMAIN parsed : parsed[s].page = page}
RecordsOf(page)  == {r \in skipped : r.page = page}
Accounted(page)  == Cardinality(SectionsOf(page)) + Cardinality(RecordsOf(page)) = 1

\* What was read or recorded is of the pages before the next one, and each of those is
\* accounted for.
PagesInv ==
    reading = "parsing" /\ file.format = "pdf" =>
        /\ \A s \in DOMAIN parsed : parsed[s].page < next
        /\ \A r \in skipped : r.page < next
        /\ \A page \in 1..(next - 1) : At("table", page) = <<>> => Accounted(page)

\* Reading one more page.
LEMMA PageStep ==
  ASSUME ParsingTypeOK, PagesInv, Takes("pdf"),
         NEW new \in Seq(ReadSections), parsed' = parsed \o new,
         \A i \in DOMAIN new : new[i].page = next,
         NEW reason,
         skipped' = skipped \/ skipped' = skipped \cup {[page |-> next, reason |-> reason]},
         At("table", next) = <<>> =>
            \/ Len(new) = 1 /\ skipped' = skipped
            \/ new = <<>> /\ skipped' = skipped \cup {[page |-> next, reason |-> reason]}
  PROVE  PagesInv'
<1> DEFINE rec == [page |-> next, reason |-> reason]
           n == Len(parsed)
<1>1. /\ reading = "parsing" /\ file.format = "pdf" /\ next' = next + 1 /\ next \in Nat \ {0}
      /\ file' = file /\ reading' = reading /\ parsed \in Seq(ReadSections) /\ n \in Nat
      /\ skipped \subseteq [page : Nat, reason : Reasons] /\ rec.page = next
  BY DEF Takes, Parses, ParsingTypeOK
<1>2. /\ DOMAIN parsed = 1..n /\ DOMAIN parsed' = 1..(n + Len(new)) /\ Len(new) \in Nat
      /\ DOMAIN new = 1..Len(new)
      /\ \A s \in 1..n : parsed'[s] = parsed[s]
      /\ \A i \in 1..Len(new) : parsed'[n + i] = new[i]
  BY <1>1
<1>3. \A s \in DOMAIN parsed' : s \in 1..n \/ (s - n \in 1..Len(new) /\ s = n + (s - n))
  BY <1>1, <1>2
<1>4. \A s \in DOMAIN parsed' : s \in 1..n \/ parsed'[s].page = next
  BY <1>2, <1>3
<1>5. /\ \A s \in DOMAIN parsed : parsed[s].page < next
      /\ \A r \in skipped : r.page < next /\ r.page \in Nat
      /\ \A page \in 1..(next - 1) : At("table", page) = <<>> => Accounted(page)
  BY <1>1 DEF PagesInv
<1>6. \A s \in DOMAIN parsed : parsed[s].page \in Nat
  BY <1>1 DEF ReadSections
<1> HIDE DEF n, rec
<1>7. \A s \in DOMAIN parsed' : parsed'[s].page < next'
  BY <1>1, <1>2, <1>4, <1>5, <1>6
<1>8. \A r \in skipped' : r.page < next'
  BY <1>1, <1>5 DEF rec
<1>9. ASSUME NEW page \in 1..(next' - 1), At("table", page)' = <<>>
      PROVE  Accounted(page)'
  <2>1. At("table", page) = <<>>
    BY <1>1, <1>9 DEF At, InOrder, Nodes, Part
  <2>2. CASE page = next
    <3>1. RecordsOf(page) = {} /\ SectionsOf(page) = {}
      BY <1>1, <1>5, <1>6, <2>2 DEF RecordsOf, SectionsOf
    <3>2. CASE Len(new) = 1 /\ skipped' = skipped
      <4>1. RecordsOf(page)' = {}
        BY <3>1, <3>2 DEF RecordsOf
      <4>2. n + 1 \in DOMAIN parsed' /\ parsed'[n + 1].page = next
        BY <1>1, <1>2, <3>2
      <4>3. \A s \in DOMAIN parsed' : parsed'[s].page = next => s = n + 1
        BY <1>1, <1>2, <1>5, <1>6, <3>2
      <4>4. SectionsOf(page)' = {n + 1}
        BY <2>2, <4>2, <4>3 DEF SectionsOf
      <4>5. Cardinality(SectionsOf(page)') = 1 /\ Cardinality(RecordsOf(page)') = 0
        BY <4>1, <4>4, FS_EmptySet, FS_Singleton
      <4> QED
        BY <4>5 DEF Accounted
    <3>3. CASE new = <<>> /\ skipped' = skipped \cup {[page |-> next, reason |-> reason]}
      <4>1. skipped' = skipped \cup {rec}
        BY <3>3 DEF rec
      <4>2. RecordsOf(page)' = {rec}
        BY <1>1, <1>5, <2>2, <4>1 DEF RecordsOf
      <4>3. parsed' = parsed
        BY <1>1, <3>3
      <4>4. SectionsOf(page)' = {}
        BY <3>1, <4>3 DEF SectionsOf
      <4>5. Cardinality(SectionsOf(page)') = 0 /\ Cardinality(RecordsOf(page)') = 1
        BY <4>2, <4>4, FS_EmptySet, FS_Singleton
      <4> QED
        BY <4>5 DEF Accounted
    <3> QED
      BY <2>1, <2>2, <3>2, <3>3
  <2>3. CASE page # next
    <3>1. page \in 1..(next - 1)
      BY <1>1, <2>3
    <3>2. SectionsOf(page)' = SectionsOf(page)
      BY <1>1, <1>2, <1>4, <2>3 DEF SectionsOf
    <3>3. RecordsOf(page)' = RecordsOf(page)
      BY <1>1, <2>3 DEF RecordsOf, rec
    <3> QED
      BY <1>5, <2>1, <3>1, <3>2, <3>3 DEF Accounted
  <2> QED
    BY <2>2, <2>3
<1> QED
  BY <1>1, <1>7, <1>8, <1>9 DEF PagesInv

\* A section is made of what is not empty, and of nothing none.
LEMMA SectionedOnce ==
  ASSUME NEW type, NEW head, NEW page, NEW texts
  PROVE  /\ texts = <<>> => Sectioned(type, head, page, texts) = <<>>
         /\ texts # <<>> => /\ Sectioned(type, head, page, texts) = <<Read(type, head, page, texts)>>
                            /\ Len(Sectioned(type, head, page, texts)) = 1
         /\ \A i \in DOMAIN Sectioned(type, head, page, texts) :
               Sectioned(type, head, page, texts)[i] = Read(type, head, page, texts)
BY DEF Sectioned

LEMMA PagesStep == ParsingTypeOK /\ PagesInv /\ [ParsingNext]_rvars => PagesInv'
<1> SUFFICES ASSUME ParsingTypeOK, PagesInv, [ParsingNext]_rvars,
                    reading' = "parsing", file'.format = "pdf"
             PROVE  PagesInv'
  BY DEF PagesInv
<1>1. file \in Files /\ next \in Nat /\ parsed \in Seq(ReadSections)
  BY DEF ParsingTypeOK
<1>2. CASE OcrPage
  <2>1. PICK taken \in Seq(Nodes) : parsed' = parsed \o Recognized(taken) /\ OcrStatus(taken)
    <3> DEFINE images == At("image", next)
               n == IF budget < Len(images) THEN budget ELSE Len(images)
               taken == SubSeq(images, 1, n)
    <3>1. images \in Seq(Nodes) /\ budget \in Nat
      BY <1>1, AtSound DEF ParsingTypeOK
    <3>2. parsed' = parsed \o Recognized(taken) /\ OcrStatus(taken)
      BY <1>2 DEF OcrPage
    <3> HIDE DEF images
    <3>3. taken \in Seq(Nodes)
      BY <3>1, TakenType
    <3> QED
      BY <3>2, <3>3
  <2> DEFINE new == Recognized(taken)
  <2>2. new \in Seq(ReadSections)
    BY RecognizedType
  <2>3. /\ new = <<>> \/ Len(new) = 1
        /\ \A i \in DOMAIN new : new[i].page = next
    BY SectionedOnce DEF Recognized, Read
  <2>4. \E reason : /\ skipped' = skipped \/ skipped' = skipped \cup {[page |-> next, reason |-> reason]}
                    /\ new # <<>> => skipped' = skipped
                    /\ new = <<>> => skipped' = skipped \cup {[page |-> next, reason |-> reason]}
    BY <2>1 DEF OcrStatus
  <2>5. Takes("pdf") /\ parsed' = parsed \o new
    BY <1>2, <2>1 DEF OcrPage
  <2> HIDE DEF new
  <2> QED
    BY <2>2, <2>3, <2>4, <2>5, PageStep
<1>3. CASE SkipPage
  <2>1. PICK reason : skipped' = skipped \cup {[page |-> next, reason |-> reason]}
    BY <1>3 DEF SkipPage
  <2>2. Takes("pdf") /\ parsed' = parsed
    BY <1>3 DEF SkipPage
  <2>3. parsed' = parsed \o <<>> /\ <<>> \in Seq(ReadSections)
    BY <1>1, <2>2
  <2> QED
    <3>1. \A i \in DOMAIN <<>> : <<>>[i].page = next
      OBVIOUS
    <3> QED
      BY <2>1, <2>2, <2>3, <3>1, PageStep
<1>4. CASE TakePage
  <2> DEFINE tables == WithText(At("table", next))
             read(i) == Read("table", 0, next, <<tables[i]>>)
             prose == Sectioned("text", 0, next, Prose)
             rest == [i \in DOMAIN tables |-> read(i)]
             new == prose \o rest
  <2>1. Takes("pdf") /\ parsed' = parsed \o prose \o rest /\ skipped' = skipped
        /\ (Prose # <<>> \/ At("table", next) # <<>>)
    BY <1>4 DEF TakePage
  <2>2. tables \in Seq(Nodes) /\ \A i \in ToSet(tables) : Part(i).kind = "table" /\ HasText(i)
    BY <1>1, AtSound, WithTextSound
  <2>3. At("table", next) = <<>> => tables = <<>>
    <3>1. At("table", next) \in Seq(Nodes)
      BY <1>1, AtSound
    <3>2. ToSet(<<>>) = {}
      BY DEF ToSet
    <3> QED
      BY <1>1, <3>1, <3>2, WithTextSound
  <2> HIDE DEF tables
  <2>4. rest \in Seq(ReadSections) /\ Len(rest) = Len(tables)
    <3>1. \A i \in DOMAIN tables : read(i) \in ReadSections
      <4> SUFFICES ASSUME NEW i \in DOMAIN tables PROVE read(i) \in ReadSections
        OBVIOUS
      <4>1. tables[i] \in Nodes /\ Part(tables[i]).kind = "table" /\ HasText(tables[i])
        BY <2>2 DEF ToSet
      <4>2. <<tables[i]>> \in Seq(Nodes) /\ <<tables[i]>> # <<>> /\ <<tables[i]>>[1] = tables[i]
        BY <4>1
      <4> QED
        BY <1>1, <4>1, <4>2, ReadType
    <3> HIDE DEF read
    <3> QED
      BY <2>2, <3>1
  <2>5. \A i \in DOMAIN rest : rest[i].page = next
    BY DEF Read
  <2>6. Prose \in Seq(Nodes)
    BY <1>1, AtSound, WithTextSound DEF Prose
  <2>7. prose \in Seq(ReadSections)
    BY <1>1, <2>6, SectionedType
  <2>8. /\ \A i \in DOMAIN prose : prose[i].page = next
        /\ Prose # <<>> => Len(prose) = 1
    BY SectionedOnce DEF Read
  <2> HIDE DEF prose, rest
  <2>9. /\ new \in Seq(ReadSections) /\ parsed' = parsed \o new
        /\ \A i \in DOMAIN new : new[i].page = next
    BY <1>1, <2>1, <2>4, <2>5, <2>7, <2>8
  <2>10. At("table", next) = <<>> => Len(new) = 1
    <3>1. At("table", next) = <<>> => Len(prose) = 1 /\ Len(rest) = 0
      BY <2>1, <2>3, <2>4, <2>8
    <3>2. Len(new) = Len(prose) + Len(rest)
      BY <2>4, <2>7
    <3> QED
      BY <3>1, <3>2
  <2> HIDE DEF new
  <2> QED
    BY <2>1, <2>9, <2>10, PageStep
<1>5. CASE UNCHANGED rvars
  BY <1>5 DEF rvars, PagesInv, Accounted, SectionsOf, RecordsOf, At, InOrder, Nodes, Part
<1>6. CASE ~(OcrPage \/ SkipPage \/ TakePage) /\ ParsingNext
  BY <1>6 DEF ParsingNext, Refuse, ReadWhole, TakeHeading, TakeText, TakeTable, PassImage,
              EndOfLines, ReadHtml, TakeSlide, TakeSheet, EndOfPlaces, FindFigures, Caption,
              EndOfCaptions, Ends, Gathers, Takes, Parses
<1> QED
  BY <1>2, <1>3, <1>4, <1>5, <1>6

\* When the last page is done all of them are.
LEMMA PagesEnd == ParsingTypeOK /\ PagesInv /\ [ParsingNext]_rvars /\ PagesAreAccountedFor
                    => PagesAreAccountedFor'
<1> SUFFICES ASSUME ParsingTypeOK, PagesInv, [ParsingNext]_rvars, PagesAreAccountedFor,
                    reading' = "parsed", file'.format = "pdf"
             PROVE  PagesAreAccountedFor'
  BY DEF PagesAreAccountedFor
<1>1. CASE EndOfPlaces
  <2>1. /\ reading = "parsing" /\ file' = file /\ parsed' = parsed /\ skipped' = skipped
        /\ next > file.places
    BY <1>1 DEF EndOfPlaces, Ends, Parses
  <2>2. file.places \in Nat /\ next \in Nat
    BY FileType DEF ParsingTypeOK
  <2>3. \A page \in 1..file.places : page \in 1..(next - 1)
    BY <2>1, <2>2
  <2>4. \A page \in 1..file.places : At("table", page) = <<>> => Accounted(page)
    BY <2>1, <2>3 DEF PagesInv
  <2>5. \A page : At("table", page)' = At("table", page)
    BY <2>1 DEF At, InOrder, Nodes, Part
  <2> QED
    BY <2>1, <2>4, <2>5 DEF PagesAreAccountedFor, Accounted, SectionsOf, RecordsOf
<1>2. CASE UNCHANGED rvars
  BY <1>2 DEF rvars, PagesAreAccountedFor, At, InOrder, Nodes, Part
<1>3. CASE ~EndOfPlaces /\ ParsingNext
  BY <1>3 DEF ParsingNext, Refuse, ReadWhole, TakeHeading, TakeText, TakeTable, PassImage,
              EndOfLines, ReadHtml, TakeSlide, TakeSheet, OcrPage, SkipPage, TakePage, FindFigures,
              Caption, EndOfCaptions, Ends, Gathers, Takes, Parses
<1> QED
  BY <1>1, <1>2, <1>3

-----------------------------------------------------------------------------
(* The sections as they are cut *)

LEMMA TotalType ==
  ASSUME NEW s \in Seq(Nat)
  PROVE  Total(s) \in Nat
<1> DEFINE r == [units |-> s]
<1>1. r.units \in Seq(Nat) /\ 0 \in Nat /\ Len(s) \in 0..Len(r.units)
  OBVIOUS
<1>2. Total(s) = Width(r, 0, Len(s))
  BY DEF Total
<1> HIDE DEF r
<1> QED
  BY <1>1, <1>2, WidthType

\* The rows that are kept have a cell with something in it.
LEMMA RowsType ==
  ASSUME file \in Files, NEW i \in Nodes
  PROVE  /\ Rows(i) \in Seq(Seq(Nat))
         /\ \A r \in DOMAIN Rows(i) : \E c \in DOMAIN Rows(i)[r] : Rows(i)[r][c] > 0
<1> DEFINE rows == Part(i).rows
           S == {r \in DOMAIN rows : \E c \in DOMAIN rows[r] : rows[r][c] > 0}
           full == InOrder(S)
<1>1. rows \in Seq(Seq(Nat))
  <2>1. Part(i) \in Parts
    BY FileType
  <2> QED
    BY <2>1 DEF Parts
<1>2. Rows(i) = [k \in DOMAIN full |-> rows[full[k]]]
  BY DEF Rows
<1> HIDE DEF rows
<1>3. S \subseteq 1..Len(rows) /\ IsFiniteSet(S) /\ \A r \in S : r \in Int
  <2>1. 1 \in Int /\ Len(rows) \in Int /\ DOMAIN rows = 1..Len(rows)
    BY <1>1
  <2>2. IsFiniteSet(1..Len(rows)) /\ S \in SUBSET (1..Len(rows))
    BY <2>1, FS_Interval
  <2> QED
    BY <2>1, <2>2, FS_Subset
<1>4. \A r \in S : rows[r] \in Seq(Nat) /\ \E c \in DOMAIN rows[r] : rows[r][c] > 0
  BY <1>1, <1>3
<1> HIDE DEF S
<1>5. full \in Seq(S)
  BY <1>3, InOrderSound
<1> HIDE DEF full
<1>6. \A k \in DOMAIN full : full[k] \in S
  BY <1>5
<1>7. Rows(i) \in Seq(Seq(Nat))
  BY <1>2, <1>4, <1>5, <1>6
<1>8. \A r \in DOMAIN Rows(i) : Rows(i)[r] = rows[full[r]] /\ full[r] \in S
  BY <1>2, <1>6
<1> QED
  BY <1>4, <1>7, <1>8

LEMMA LinesType ==
  ASSUME file \in Files, NEW i \in Nodes, Rows(i) # <<>>
  PROVE  Lines(i) \in Seq(Nat)
<1> DEFINE rows == Rows(i)
           line(row) == IF file.format = "xlsx"
                           THEN Total(row) + Cardinality({c \in DOMAIN row : row[c] > 0}) - 1
                           ELSE Total(row) + Len(row) + 1
           separator == 2 * Len(rows[1]) + 1
<1>1. /\ rows \in Seq(Seq(Nat)) /\ rows # <<>>
      /\ \A r \in DOMAIN rows : \E c \in DOMAIN rows[r] : rows[r][c] > 0
  BY RowsType
<1>2. Lines(i) = IF file.format = "xlsx" THEN [r \in DOMAIN rows |-> line(rows[r])]
                 ELSE <<line(rows[1]), separator>> \o [r \in 1..(Len(rows) - 1) |-> line(rows[r + 1])]
  BY DEF Lines
<1> HIDE DEF rows
<1>3. ASSUME NEW r \in DOMAIN rows
      PROVE  line(rows[r]) \in Nat /\ Len(rows[r]) \in Nat
  <2> DEFINE row == rows[r]
             S == {c \in DOMAIN row : row[c] > 0}
  <2>1. row \in Seq(Nat) /\ \E c \in DOMAIN row : row[c] > 0
    BY <1>1
  <2> HIDE DEF row
  <2>2. Total(row) \in Nat /\ Len(row) \in Nat
    BY <2>1, TotalType
  <2>3. IsFiniteSet(S) /\ S # {}
    <3>1. 1 \in Int /\ Len(row) \in Int /\ DOMAIN row = 1..Len(row)
      BY <2>1
    <3>2. IsFiniteSet(1..Len(row)) /\ S \in SUBSET (1..Len(row))
      BY <3>1, FS_Interval
    <3> QED
      BY <2>1, <3>2, FS_Subset
  <2>4. line(row) = IF file.format = "xlsx" THEN Total(row) + Cardinality(S) - 1
                    ELSE Total(row) + Len(row) + 1
    OBVIOUS
  <2> HIDE DEF S, line
  <2>5. Cardinality(S) \in Nat /\ Cardinality(S) # 0
    BY <2>3, FS_CardinalityType, FS_EmptySet
  <2>6. line(row) \in Nat
    BY <2>2, <2>4, <2>5
  <2> QED
    BY <2>2, <2>6 DEF row
<1> HIDE DEF line
<1>4. Len(rows) \in Nat \ {0} /\ DOMAIN rows = 1..Len(rows)
  BY <1>1
<1>5. line(rows[1]) \in Nat /\ separator \in Nat
  BY <1>3, <1>4
<1>6. \A r \in 1..(Len(rows) - 1) : line(rows[r + 1]) \in Nat
  BY <1>3, <1>4
<1>7. [r \in DOMAIN rows |-> line(rows[r])] \in Seq(Nat)
  BY <1>3, <1>4
<1>8. [r \in 1..(Len(rows) - 1) |-> line(rows[r + 1])] \in Seq(Nat)
  BY <1>4, <1>6
<1>9. <<line(rows[1]), separator>> \in Seq(Nat)
  BY <1>5
<1> HIDE DEF separator
<1>10. <<line(rows[1]), separator>> \o [r \in 1..(Len(rows) - 1) |-> line(rows[r + 1])] \in Seq(Nat)
  BY <1>8, <1>9
<1> QED
  BY <1>2, <1>7, <1>10

LEMMA TableSectionType ==
  ASSUME NEW l \in Seq(Nat)
  PROVE  TableSection(l) \in Sections
<1> DEFINE n == IF Len(l) < 3 THEN Len(l) ELSE 2
<1>1. SubSeq(l, 1, n) \in Seq(Nat)
  <2>1. n \in Nat /\ n <= Len(l)
    OBVIOUS
  <2> HIDE DEF n
  <2>2. SubSeq(l, 1, n) = [k \in 1..n |-> l[k]]
    BY <2>1
  <2> QED
    BY <2>1, <2>2
<1>2. SubSeq(l, 3, Len(l)) \in Seq(Nat)
  OBVIOUS
<1>3. Total(SubSeq(l, 1, n)) \in Nat
  BY <1>1, TotalType
<1>4. TableSection(l) =
         [type |-> "table", head |-> Total(SubSeq(l, 1, n)), units |-> SubSeq(l, 3, Len(l))]
  BY DEF TableSection
<1> HIDE DEF n
<1> QED
  BY <1>2, <1>3, <1>4 DEF Sections

LEMMA MeasuredType ==
  ASSUME ParsingTypeOK, NEW s \in ReadSections
  PROVE  Measured(s) \in Sections
<1>1. file \in Files /\ s.texts \in Seq(Nodes) /\ s.type \in {"text", "ocr", "table", "image"}
  BY DEF ParsingTypeOK, ReadSections
<1>2. CASE s.type = "table"
  <2>1. /\ s.texts # <<>> /\ Part(s.texts[1]).kind = "table" /\ HasText(s.texts[1])
    BY <1>2 DEF ReadSections
  <2>2. s.texts[1] \in Nodes /\ Rows(s.texts[1]) # <<>>
    BY <1>1, <2>1 DEF HasText
  <2>3. Lines(s.texts[1]) \in Seq(Nat)
    BY <1>1, <2>2, LinesType
  <2> QED
    BY <1>2, <2>3, TableSectionType DEF Measured
<1>3. CASE s.type # "table"
  <2> DEFINE counts == [i \in DOMAIN s.texts |-> Part(s.texts[i]).words]
             words == IF s.type = "image" THEN CaptionWords ELSE Total(counts)
  <2>1. counts \in Seq(Nat)
    <3>1. \A i \in DOMAIN s.texts : Part(s.texts[i]).words \in Nat
      <4> SUFFICES ASSUME NEW i \in DOMAIN s.texts PROVE Part(s.texts[i]).words \in Nat
        OBVIOUS
      <4>1. Part(s.texts[i]) \in Parts
        BY <1>1, FileType
      <4> QED
        BY <4>1 DEF Parts
    <3> QED
      BY <1>1, <3>1
  <2>2. Measured(s) = [type |-> s.type, head |-> 0, units |-> [i \in 1..words |-> 1]]
    BY <1>3 DEF Measured
  <2> HIDE DEF counts
  <2>3. words \in Nat
    BY <2>1, TotalType, IndexingAssumption
  <2> HIDE DEF words
  <2>4. [i \in 1..words |-> 1] \in Seq(Nat)
    BY <2>3
  <2> QED
    BY <1>1, <2>2, <2>4 DEF Sections
<1> QED
  BY <1>2, <1>3

-----------------------------------------------------------------------------
(* The order of what was read *)

\* The texts of some sections ascend, within each and from one to the next.
Ascending(secs) ==
    \A s, t \in DOMAIN secs : \A j \in DOMAIN secs[s].texts, k \in DOMAIN secs[t].texts :
        s < t \/ (s = t /\ j < k) => secs[s].texts[j] < secs[t].texts[k]

TextsOf(secs) == UNION {ToSet(secs[s].texts) : s \in DOMAIN secs}

\* One of the sections has part p, and the place a citation of it must show.
Shows(sec, p) ==
    /\ p \in ToSet(sec.texts)
    /\ IF file.format \in {"pdf", "xlsx"} THEN sec.page = Part(p).place
       ELSE sec.heading = HeadingAbove(p)

Shown(secs, p) == \E s \in DOMAIN secs : Shows(secs[s], p)

LEMMA ConcatIndex ==
  ASSUME NEW R, NEW a \in Seq(R), NEW b \in Seq(R)
  PROVE  /\ DOMAIN a = 1..Len(a) /\ DOMAIN b = 1..Len(b) /\ Len(a) \in Nat /\ Len(b) \in Nat
         /\ DOMAIN (a \o b) = 1..(Len(a) + Len(b))
         /\ \A s \in DOMAIN a : s \in DOMAIN (a \o b) /\ (a \o b)[s] = a[s]
         /\ \A s \in DOMAIN b : Len(a) + s \in DOMAIN (a \o b) /\ (a \o b)[Len(a) + s] = b[s]
         /\ \A s \in DOMAIN (a \o b) :
               s \in DOMAIN a \/ (s - Len(a) \in DOMAIN b /\ s = Len(a) + (s - Len(a)))
  OBVIOUS

LEMMA ConcatTexts ==
  ASSUME NEW a \in Seq(ReadSections), NEW b \in Seq(ReadSections)
  PROVE  /\ \A x : x \in TextsOf(a \o b) <=> x \in TextsOf(a) \/ x \in TextsOf(b)
         /\ \A p : Shown(a \o b, p) <=> Shown(a, p) \/ Shown(b, p)
<1> DEFINE c == a \o b
<1>1. /\ \A s \in DOMAIN a : s \in DOMAIN c /\ c[s] = a[s]
      /\ \A s \in DOMAIN b : Len(a) + s \in DOMAIN c /\ c[Len(a) + s] = b[s]
      /\ \A s \in DOMAIN c : s \in DOMAIN a \/ (s - Len(a) \in DOMAIN b /\ s = Len(a) + (s - Len(a)))
  BY ConcatIndex
<1> HIDE DEF c
<1>2. \A s \in DOMAIN c : (s \in DOMAIN a /\ c[s] = a[s]) \/ \E t \in DOMAIN b : c[s] = b[t]
  BY <1>1
<1>3. \A x : x \in TextsOf(c) <=> x \in TextsOf(a) \/ x \in TextsOf(b)
  BY <1>1, <1>2 DEF TextsOf
<1>4. \A p : Shown(c, p) <=> Shown(a, p) \/ Shown(b, p)
  BY <1>1, <1>2 DEF Shown
<1> QED
  BY <1>3, <1>4 DEF c

LEMMA ConcatAscends ==
  ASSUME NEW a \in Seq(ReadSections), NEW b \in Seq(ReadSections), Ascending(a), Ascending(b),
         \A x \in TextsOf(a), y \in TextsOf(b) : x < y
  PROVE  Ascending(a \o b)
<1> DEFINE c == a \o b
<1>1. /\ DOMAIN a = 1..Len(a) /\ DOMAIN b = 1..Len(b) /\ Len(a) \in Nat /\ Len(b) \in Nat
      /\ DOMAIN c = 1..(Len(a) + Len(b))
      /\ \A s \in DOMAIN a : c[s] = a[s]
      /\ \A s \in DOMAIN b : c[Len(a) + s] = b[s]
      /\ \A s \in DOMAIN c : s \in DOMAIN a \/ (s - Len(a) \in DOMAIN b /\ s = Len(a) + (s - Len(a)))
  BY ConcatIndex
<1> HIDE DEF c
<1> SUFFICES ASSUME NEW s \in DOMAIN c, NEW t \in DOMAIN c,
                    NEW j \in DOMAIN c[s].texts, NEW k \in DOMAIN c[t].texts,
                    s < t \/ (s = t /\ j < k)
             PROVE  c[s].texts[j] < c[t].texts[k]
  BY DEF Ascending, c
<1>2. CASE s \in DOMAIN a /\ t \in DOMAIN a
  BY <1>1, <1>2 DEF Ascending
<1>3. CASE s \in DOMAIN a /\ t \notin DOMAIN a
  <2>1. t - Len(a) \in DOMAIN b /\ c[t] = b[t - Len(a)] /\ c[s] = a[s]
    BY <1>1, <1>3
  <2>2. c[s].texts[j] \in TextsOf(a)
    BY <1>3, <2>1 DEF TextsOf, ToSet
  <2>3. c[t].texts[k] \in TextsOf(b)
    BY <2>1 DEF TextsOf, ToSet
  <2> QED
    BY <2>2, <2>3
<1>4. CASE s \notin DOMAIN a
  <2>1. /\ s - Len(a) \in DOMAIN b /\ c[s] = b[s - Len(a)]
        /\ t - Len(a) \in DOMAIN b /\ c[t] = b[t - Len(a)]
        /\ s \in Int /\ t \in Int
    BY <1>1, <1>4
  <2>2. s - Len(a) < t - Len(a) \/ (s - Len(a) = t - Len(a) /\ j < k)
    BY <1>1, <2>1
  <2> QED
    BY <2>1, <2>2 DEF Ascending
<1> QED
  BY <1>2, <1>3, <1>4

\* One section, or none.
LEMMA SectionedTexts ==
  ASSUME NEW type, NEW head, NEW page, NEW texts \in Seq(Nodes),
         \A j, k \in DOMAIN texts : j < k => texts[j] < texts[k]
  PROVE  /\ Ascending(Sectioned(type, head, page, texts))
         /\ TextsOf(Sectioned(type, head, page, texts)) = ToSet(texts)
         /\ \A p \in ToSet(texts) :
               (IF file.format \in {"pdf", "xlsx"} THEN page = Part(p).place
                ELSE head = HeadingAbove(p)) => Shown(Sectioned(type, head, page, texts), p)
<1> DEFINE r == Read(type, head, page, texts)
           secs == Sectioned(type, head, page, texts)
<1>1. r.texts = texts /\ r.page = page /\ r.heading = head
  BY DEF Read
<1>2. CASE texts = <<>>
  <2>1. DOMAIN secs = {} /\ ToSet(texts) = {}
    BY <1>2 DEF Sectioned, ToSet
  <2> QED
    BY <2>1 DEF Ascending, TextsOf
<1>3. CASE texts # <<>>
  <2>1. DOMAIN secs = {1} /\ secs[1] = r
    BY <1>3 DEF Sectioned
  <2> HIDE DEF r, secs
  <2>2. Ascending(secs)
    BY <1>1, <2>1 DEF Ascending
  <2>3. TextsOf(secs) = ToSet(texts)
    BY <1>1, <2>1 DEF TextsOf
  <2>4. ASSUME NEW p \in ToSet(texts),
               IF file.format \in {"pdf", "xlsx"} THEN page = Part(p).place
               ELSE head = HeadingAbove(p)
        PROVE  Shown(secs, p)
    BY <1>1, <2>1, <2>4 DEF Shown, Shows
  <2> QED
    BY <2>2, <2>3, <2>4 DEF secs
<1> QED
  BY <1>2, <1>3

\* Texts that ascend are read once, in their order.
LEMMA AscendingRead ==
  ASSUME ParsingTypeOK, Ascending(parsed),
         \A p \in Nodes : Cited(p) => Shown(parsed, p)
  PROVE  TextIsRead
<1>1. \A p, r : r \in Readings(p) <=>
         \E s \in DOMAIN parsed : \E k \in DOMAIN parsed[s].texts :
            r = <<s, k>> /\ parsed[s].texts[k] = p
  BY DEF Readings
<1>2. \A s \in DOMAIN parsed : /\ s \in Int
                               /\ \A k \in DOMAIN parsed[s].texts :
                                     k \in Int /\ parsed[s].texts[k] \in Nodes
  <2>1. \A s \in DOMAIN parsed : s \in Int /\ parsed[s].texts \in Seq(Nodes)
    BY DEF ParsingTypeOK, ReadSections
  <2> QED
    BY <2>1
<1>3. \A p \in Nodes : p \in Int
  BY FileType DEF ParsingTypeOK
<1>4. ASSUME NEW p \in Nodes, NEW q \in Nodes, q <= p,
             NEW r \in Readings(q), NEW t \in Readings(p)
      PROVE  r = t \/ Precedes(r, t)
  <2>1. PICK s \in DOMAIN parsed : \E k \in DOMAIN parsed[s].texts :
           r = <<s, k>> /\ parsed[s].texts[k] = q
    BY <1>1
  <2>2. PICK j \in DOMAIN parsed[s].texts : r = <<s, j>> /\ parsed[s].texts[j] = q
    BY <2>1
  <2>3. PICK u \in DOMAIN parsed : \E k \in DOMAIN parsed[u].texts :
           t = <<u, k>> /\ parsed[u].texts[k] = p
    BY <1>1
  <2>4. PICK k \in DOMAIN parsed[u].texts : t = <<u, k>> /\ parsed[u].texts[k] = p
    BY <2>3
  <2>5. ~(u < s \/ (u = s /\ k < j))
    <3>1. SUFFICES ASSUME u < s \/ (u = s /\ k < j) PROVE FALSE
      OBVIOUS
    <3>2. p < q
      BY <2>2, <2>4, <3>1 DEF Ascending
    <3> QED
      BY <1>3, <1>4, <3>2
  <2>6. s < u \/ (s = u /\ (j < k \/ j = k))
    BY <1>2, <2>5
  <2> QED
    BY <2>2, <2>4, <2>6 DEF Precedes
<1>5. ASSUME NEW r, NEW t, Precedes(r, t), Precedes(t, r),
             r[1] \in Int, r[2] \in Int, t[1] \in Int, t[2] \in Int
      PROVE  FALSE
  BY <1>5 DEF Precedes
<1>6. \A p : \A r \in Readings(p) : r[1] \in Int /\ r[2] \in Int
  BY <1>1, <1>2
<1>7. ASSUME NEW p \in Nodes, Cited(p)
      PROVE  /\ Cardinality(Readings(p)) = 1
             /\ \A q \in Nodes : Cited(q) /\ q < p =>
                   \A r \in Readings(q), t \in Readings(p) : Precedes(r, t)
             /\ Shown(parsed, p)
  <2>1. PICK s \in DOMAIN parsed : Shows(parsed[s], p)
    BY <1>7 DEF Shown
  <2>2. PICK k \in DOMAIN parsed[s].texts : parsed[s].texts[k] = p
    BY <2>1 DEF Shows, ToSet
  <2>3. <<s, k>> \in Readings(p)
    BY <1>1, <2>2
  <2>4. \A r \in Readings(p) : r = <<s, k>>
    <3> SUFFICES ASSUME NEW r \in Readings(p), r # <<s, k>> PROVE FALSE
      OBVIOUS
    <3>1. p <= p
      BY <1>3
    <3>2. Precedes(r, <<s, k>>) /\ Precedes(<<s, k>>, r)
      BY <1>4, <2>3, <3>1
    <3> QED
      BY <1>5, <1>6, <2>3, <3>2
  <2>5. Readings(p) = {<<s, k>>}
    BY <2>3, <2>4
  <2>6. Cardinality(Readings(p)) = 1
    BY <2>5, FS_Singleton
  <2>7. ASSUME NEW q \in Nodes, q < p, NEW r \in Readings(q), NEW t \in Readings(p)
        PROVE  Precedes(r, t)
    <3>1. r # t
      <4>1. \A u, v : \A x \in Readings(u) : x \in Readings(v) => u = v
        BY <1>1
      <4>2. q # p
        BY <1>3, <2>7
      <4> QED
        BY <4>1, <4>2
    <3>2. q <= p
      BY <1>3, <2>7
    <3> QED
      BY <1>4, <3>1, <3>2
  <2> QED
    BY <1>7, <2>6, <2>7
<1> QED
  BY <1>7 DEF TextIsRead, Nodes, Shown, Shows

-----------------------------------------------------------------------------
(* _parse_markdown, _parse_docx *)

\* The heading that a reader sees above the n-th part of a file that has no slides.
LastOf(above) ==
    LET last == CHOOSE h \in above : \A g \in above : g <= h
    IN  IF above = {} \/ ~HasText(last) THEN 0 ELSE last

HeadingAt(n) ==
    LET above == {h \in Nodes : Part(h).kind = "heading" /\ h < n}
        last  == CHOOSE h \in above : \A g \in above : g <= h
    IN  IF above = {} \/ ~HasText(last) THEN 0 ELSE last

LEMMA HeadingIsLast ==
  ASSUME NEW n
  PROVE  HeadingAt(n) = LastOf({h \in Nodes : Part(h).kind = "heading" /\ h < n})
BY DEF HeadingAt, LastOf

Gathering == reading = "parsing" /\ file.format \in {"markdown", "docx"}

\* All that is cited before the next part is in a section, or in the lines under the
\* present heading.
GatherInv ==
    Gathering =>
        /\ next <= Len(file.parts) + 1
        /\ Ascending(parsed) /\ \A j, k \in DOMAIN lines : j < k => lines[j] < lines[k]
        /\ \A x \in TextsOf(parsed) : x < next /\ \A y \in ToSet(lines) : x < y
        /\ \A y \in ToSet(lines) : y < next /\ HeadingAbove(y) = heading
        /\ heading = HeadingAt(next)
        /\ \A p \in Nodes : p < next /\ Cited(p) => Shown(parsed, p) \/ p \in ToSet(lines)

LEMMA HeadingAboveIs ==
  ASSUME file \in Files, file.format # "pptx", NEW p
  PROVE  HeadingAbove(p) = HeadingAt(p)
<1>1. \A h \in Nodes : Part(h).kind # "title"
  BY ParsingAssumption DEF Nodes, Part
<1>2. {h \in Nodes : \/ Part(h).kind = "heading" /\ h < p
                     \/ Part(h).kind = "title" /\ Part(h).place = Part(p).place}
       = {h \in Nodes : Part(h).kind = "heading" /\ h < p}
  BY <1>1
<1>3. HeadingAbove(p) =
         LastOf({h \in Nodes : \/ Part(h).kind = "heading" /\ h < p
                               \/ Part(h).kind = "title" /\ Part(h).place = Part(p).place})
  BY DEF HeadingAbove, LastOf, Nodes
<1> QED
  BY <1>2, <1>3, HeadingIsLast

\* Past a heading it is the one above; past anything else nothing changes.
LEMMA HeadingMoves ==
  ASSUME file \in Files, NEW n \in Nodes
  PROVE  /\ Part(n).kind # "heading" => HeadingAt(n + 1) = HeadingAt(n)
         /\ Part(n).kind = "heading" => HeadingAt(n + 1) = IF HasText(n) THEN n ELSE 0
<1> DEFINE A(m) == {h \in Nodes : Part(h).kind = "heading" /\ h < m}
<1>1. \A h \in Nodes : h \in Int
  BY FileType
<1>2. CASE Part(n).kind # "heading"
  <2>1. A(n + 1) = A(n)
    BY <1>1, <1>2
  <2> QED
    BY <1>2, <2>1, HeadingIsLast
<1>3. CASE Part(n).kind = "heading"
  <2> DEFINE last == CHOOSE h \in A(n + 1) : \A g \in A(n + 1) : g <= h
  <2>1. n \in A(n + 1) /\ \A g \in A(n + 1) : g <= n
    BY <1>1, <1>3
  <2>2. \A h \in A(n + 1) : h \in Int
    BY <1>1
  <2>3. HeadingAt(n + 1) = IF A(n + 1) = {} \/ ~HasText(last) THEN 0 ELSE last
    BY DEF HeadingAt, LastOf
  <2> HIDE DEF A
  <2>4. last \in A(n + 1) /\ \A g \in A(n + 1) : g <= last
    BY <2>1
  <2>5. last = n
    BY <2>1, <2>2, <2>4
  <2> QED
    BY <1>3, <2>1, <2>3, <2>5
<1> QED
  BY <1>2, <1>3

\* The lines become a section.
LEMMA FlushedTexts ==
  ASSUME ParsingTypeOK, GatherInv, Gathering
  PROVE  /\ Flushed \in Seq(ReadSections) /\ Ascending(Flushed)
         /\ \A x \in TextsOf(Flushed) : x < next
         /\ \A p \in Nodes : p < next /\ Cited(p) => Shown(Flushed, p)
<1> DEFINE new == Sectioned("text", heading, 0, lines)
<1>1. /\ parsed \in Seq(ReadSections) /\ lines \in Seq(Nodes) /\ heading \in Nat
      /\ Ascending(parsed) /\ \A j, k \in DOMAIN lines : j < k => lines[j] < lines[k]
      /\ \A x \in TextsOf(parsed) : x < next /\ \A y \in ToSet(lines) : x < y
      /\ \A y \in ToSet(lines) : y < next /\ HeadingAbove(y) = heading
      /\ \A p \in Nodes : p < next /\ Cited(p) => Shown(parsed, p) \/ p \in ToSet(lines)
      /\ file.format \notin {"pdf", "xlsx"}
  BY DEF ParsingTypeOK, GatherInv, Gathering
<1>2. /\ Ascending(new) /\ TextsOf(new) = ToSet(lines)
      /\ \A p \in ToSet(lines) : Shown(new, p)
  BY <1>1, SectionedTexts
<1>3. new \in Seq(ReadSections)
  BY <1>1, SectionedType
<1>4. Flushed = parsed \o new
  BY DEF Flushed
<1> HIDE DEF new
<1>5. Flushed \in Seq(ReadSections) /\ Ascending(Flushed)
  BY <1>1, <1>2, <1>3, <1>4, ConcatAscends
<1>6. \A x \in TextsOf(Flushed) : x < next
  BY <1>1, <1>2, <1>3, <1>4, ConcatTexts
<1>7. \A p \in Nodes : p < next /\ Cited(p) => Shown(Flushed, p)
  BY <1>1, <1>2, <1>3, <1>4, ConcatTexts
<1> QED
  BY <1>5, <1>6, <1>7

\* What is read of a file depends on the file, not on how far it was read.
LEMMA FileFixed ==
  ASSUME UNCHANGED file
  PROVE  /\ Nodes' = Nodes
         /\ \A n : HeadingAt(n)' = HeadingAt(n) /\ HeadingAbove(n)' = HeadingAbove(n)
         /\ \A p : Cited(p)' <=> Cited(p)
         /\ \A p : Part(p)' = Part(p) /\ (HasText(p)' <=> HasText(p))
BY DEF Nodes, HeadingAt, LastOf, HeadingAbove, Cited, Headings, Part, HasText, Rows, InOrder

LEMMA SectionsCarried ==
  ASSUME UNCHANGED file, NEW secs, parsed' = secs
  PROVE  /\ Ascending(secs) => Ascending(parsed)'
         /\ \A x : x \in TextsOf(parsed)' <=> x \in TextsOf(secs)
         /\ \A p : Shown(secs, p) => Shown(parsed, p)'
<1>1. Ascending(secs) => Ascending(parsed)'
  BY DEF Ascending
<1>2. \A x : x \in TextsOf(parsed)' <=> x \in TextsOf(secs)
  BY DEF TextsOf
<1>3. \A p : Shown(secs, p) => Shown(parsed, p)'
  BY FileFixed DEF Shown, Shows
<1> QED
  BY <1>1, <1>2, <1>3

\* What a step leaves behind it makes the invariant of the next.
LEMMA GatherTo ==
  ASSUME Gathering, UNCHANGED file, next' = next + 1, next \in DOMAIN file.parts, ParsingTypeOK,
         NEW secs, parsed' = secs, Ascending(secs),
         \A j, k \in DOMAIN lines' : j < k => lines'[j] < lines'[k],
         \A x \in TextsOf(secs) : x < next + 1 /\ \A y \in ToSet(lines') : x < y,
         \A y \in ToSet(lines') : y < next + 1 /\ HeadingAbove(y) = heading',
         heading' = HeadingAt(next + 1),
         \A p \in Nodes : p < next + 1 /\ Cited(p) => Shown(secs, p) \/ p \in ToSet(lines')
  PROVE  GatherInv'
<1>1. next + 1 <= Len(file.parts) + 1 /\ Nodes' = Nodes
  BY FileType DEF ParsingTypeOK, Nodes
<1>2. /\ Ascending(parsed)'
      /\ \A x : x \in TextsOf(parsed)' <=> x \in TextsOf(secs)
      /\ \A p : Shown(secs, p) => Shown(parsed, p)'
  BY SectionsCarried
<1>3. ToSet(lines)' = ToSet(lines')
  BY DEF ToSet
<1>4. \A x \in TextsOf(parsed)' : x < next' /\ \A y \in ToSet(lines)' : x < y
  BY <1>2, <1>3
<1>5. \A y \in ToSet(lines)' : y < next' /\ HeadingAbove(y)' = heading'
  BY <1>3, FileFixed
<1>6. heading' = HeadingAt(next)'
  <2>1. HeadingAt(next)' = HeadingAt(next + 1)
    BY FileFixed DEF HeadingAt
  <2> QED
    BY <2>1
<1>7. \A p \in Nodes' : p < next' /\ Cited(p)' => Shown(parsed, p)' \/ p \in ToSet(lines)'
  BY <1>1, <1>2, <1>3, FileFixed
<1> QED
  BY <1>1, <1>2, <1>4, <1>5, <1>6, <1>7 DEF GatherInv

LEMMA GatherStep ==
  ASSUME ParsingTypeOK, GatherInv, TakeHeading \/ TakeText \/ TakeTable \/ PassImage
  PROVE  GatherInv'
<1>1. /\ Gathering /\ UNCHANGED file /\ next' = next + 1 /\ next \in DOMAIN file.parts
      /\ next \in Nodes /\ file \in Files /\ file.format # "pptx"
      /\ parsed \in Seq(ReadSections) /\ lines \in Seq(Nodes) /\ heading \in Nat
  BY DEF TakeHeading, TakeText, TakeTable, PassImage, Gathers, Parses, Gathering, ParsingTypeOK, Nodes
<1>2. /\ Ascending(parsed) /\ \A j, k \in DOMAIN lines : j < k => lines[j] < lines[k]
      /\ \A x \in TextsOf(parsed) : x < next /\ \A y \in ToSet(lines) : x < y
      /\ \A y \in ToSet(lines) : y < next /\ HeadingAbove(y) = heading
      /\ heading = HeadingAt(next)
      /\ \A p \in Nodes : p < next /\ Cited(p) => Shown(parsed, p) \/ p \in ToSet(lines)
  BY <1>1 DEF GatherInv
<1>3. /\ \A p \in Nodes : p \in Int /\ (p < next + 1 <=> p < next \/ p = next)
      /\ \A s \in Seq(ReadSections) : \A x \in TextsOf(s) : x \in Nodes
      /\ ToSet(lines) \subseteq Nodes
  <2>1. \A p \in Nodes : p \in Int
    BY <1>1, FileType
  <2>2. ASSUME NEW s \in Seq(ReadSections), NEW x \in TextsOf(s) PROVE x \in Nodes
    <3>1. \A i \in DOMAIN s : s[i].texts \in Seq(Nodes)
      BY DEF ReadSections
    <3> QED
      BY <3>1 DEF TextsOf, ToSet
  <2>3. ToSet(lines) \subseteq Nodes
    BY <1>1 DEF ToSet
  <2>4. \A p \in Nodes : p < next + 1 <=> p < next \/ p = next
    BY <1>1, <2>1
  <2> QED
    BY <2>1, <2>2, <2>3, <2>4
<1>4. /\ Flushed \in Seq(ReadSections) /\ Ascending(Flushed)
      /\ \A x \in TextsOf(Flushed) : x < next
      /\ \A p \in Nodes : p < next /\ Cited(p) => Shown(Flushed, p)
  BY <1>1, FlushedTexts
<1>5. CASE TakeHeading
  <2>1. /\ Part(next).kind = "heading" /\ parsed' = Flushed /\ lines' = <<>>
        /\ heading' = IF HasText(next) THEN next ELSE 0
    BY <1>5 DEF TakeHeading, Gathers
  <2>2. ~Cited(next) /\ heading' = HeadingAt(next + 1)
    BY <1>1, <2>1, HeadingMoves DEF Cited
  <2>3. ToSet(lines') = {} /\ DOMAIN lines' = {}
    BY <2>1 DEF ToSet
  <2>4. \A p \in Nodes : p < next + 1 /\ Cited(p) => Shown(Flushed, p)
    BY <1>3, <1>4, <2>2
  <2>5. \A x \in TextsOf(Flushed) : x < next + 1
    BY <1>1, <1>3, <1>4
  <2> QED
    BY <1>1, <1>4, <2>1, <2>2, <2>3, <2>4, <2>5, GatherTo
<1>6. CASE TakeText
  <2> DEFINE more == WithText(<<next>>)
  <2>1. /\ Part(next).kind = "text" /\ parsed' = parsed /\ lines' = lines \o more
        /\ heading' = heading
    BY <1>6 DEF TakeText, Gathers
  <2>2. <<next>> \in Seq(Nodes) /\ ToSet(<<next>>) = {next}
    BY <1>1 DEF ToSet
  <2>3. /\ more \in Seq(Nodes)
        /\ \A i : i \in ToSet(more) <=> i = next /\ HasText(next)
        /\ \A j, k \in DOMAIN more : j < k => more[j] < more[k]
    BY <1>1, <2>2, WithTextSound
  <2> HIDE DEF more
  <2>4. \A y : y \in ToSet(lines') <=> y \in ToSet(lines) \/ (y = next /\ HasText(next))
    <3>1. \A y : y \in ToSet(lines \o more) <=> y \in ToSet(lines) \/ y \in ToSet(more)
      <4>1. /\ \A s \in DOMAIN lines : s \in DOMAIN (lines \o more) /\ (lines \o more)[s] = lines[s]
            /\ \A s \in DOMAIN more : /\ Len(lines) + s \in DOMAIN (lines \o more)
                                       /\ (lines \o more)[Len(lines) + s] = more[s]
            /\ \A s \in DOMAIN (lines \o more) :
                  s \in DOMAIN lines \/ (s - Len(lines) \in DOMAIN more /\ s = Len(lines) + (s - Len(lines)))
        BY <1>1, <2>3, ConcatIndex
      <4> QED
        BY <4>1 DEF ToSet
    <3> QED
      BY <2>1, <2>3, <3>1
  <2>5. \A j, k \in DOMAIN lines' : j < k => lines'[j] < lines'[k]
    <3> SUFFICES ASSUME NEW j \in DOMAIN lines', NEW k \in DOMAIN lines', j < k
                 PROVE  lines'[j] < lines'[k]
      OBVIOUS
    <3>1. /\ DOMAIN lines = 1..Len(lines) /\ Len(lines) \in Nat
          /\ DOMAIN lines' = 1..(Len(lines) + Len(more)) /\ Len(more) \in Nat
          /\ \A s \in DOMAIN lines : lines'[s] = lines[s]
          /\ \A s \in DOMAIN more : lines'[Len(lines) + s] = more[s]
          /\ \A s \in DOMAIN lines' :
                s \in DOMAIN lines \/ (s - Len(lines) \in DOMAIN more /\ s = Len(lines) + (s - Len(lines)))
      BY <1>1, <2>1, <2>3, ConcatIndex
    <3>2. CASE k \in DOMAIN lines
      BY <1>2, <3>1, <3>2
    <3>3. CASE k \notin DOMAIN lines /\ j \in DOMAIN lines
      <4>1. lines'[k] \in ToSet(more)
        BY <3>1, <3>3 DEF ToSet
      <4>2. lines'[k] = next
        BY <2>3, <4>1
      <4>3. lines'[j] \in ToSet(lines)
        BY <3>1, <3>3 DEF ToSet
      <4> QED
        BY <1>2, <4>2, <4>3
    <3>4. CASE j \notin DOMAIN lines
      <4>1. /\ j - Len(lines) \in DOMAIN more /\ lines'[j] = more[j - Len(lines)]
            /\ k - Len(lines) \in DOMAIN more /\ lines'[k] = more[k - Len(lines)]
            /\ j - Len(lines) < k - Len(lines)
        BY <3>1, <3>4
      <4> QED
        BY <2>3, <4>1
    <3> QED
      BY <3>2, <3>3, <3>4
  <2>6. heading' = HeadingAt(next + 1) /\ HeadingAbove(next) = heading
    BY <1>1, <1>2, <2>1, HeadingMoves, HeadingAboveIs
  <2>7. Cited(next) => HasText(next)
    BY DEF Cited
  <2>8. \A p \in Nodes : p < next + 1 /\ Cited(p) => Shown(parsed, p) \/ p \in ToSet(lines')
    BY <1>2, <1>3, <2>4, <2>7
  <2>9. \A x \in TextsOf(parsed) : x < next + 1 /\ \A y \in ToSet(lines') : x < y
    BY <1>1, <1>2, <1>3, <2>4
  <2>10. \A y \in ToSet(lines') : y < next + 1 /\ HeadingAbove(y) = heading'
    BY <1>1, <1>2, <1>3, <2>1, <2>4, <2>6
  <2> QED
    BY <1>1, <1>2, <2>1, <2>5, <2>6, <2>8, <2>9, <2>10, GatherTo
<1>7. CASE TakeTable
  <2>1. Part(next).kind = "table" /\ heading' = heading
    BY <1>7 DEF TakeTable, Gathers
  <2>2. heading' = HeadingAt(next + 1) /\ HeadingAbove(next) = heading
    BY <1>1, <1>2, <2>1, HeadingMoves, HeadingAboveIs
  <2>3. CASE HasText(next)
    <3> DEFINE new == Sectioned("table", heading, 0, <<next>>)
    <3>1. parsed' = Flushed \o new /\ lines' = <<>>
      BY <1>7, <2>3 DEF TakeTable
    <3>2. <<next>> \in Seq(Nodes) /\ ToSet(<<next>>) = {next}
          /\ \A j, k \in DOMAIN <<next>> : j < k => <<next>>[j] < <<next>>[k]
      BY <1>1 DEF ToSet
    <3>3. new \in Seq(ReadSections)
      BY <1>1, <2>1, <2>3, <3>2, SectionedType
    <3>4. Ascending(new) /\ TextsOf(new) = {next} /\ Shown(new, next)
      <4>1. file.format \notin {"pdf", "xlsx"}
        BY <1>1 DEF Gathering
      <4> QED
        BY <2>2, <3>2, <4>1, SectionedTexts
    <3> HIDE DEF new
    <3>5. Ascending(Flushed \o new)
      BY <1>4, <3>3, <3>4, ConcatAscends
    <3>6. \A x \in TextsOf(Flushed \o new) : x < next + 1
      BY <1>1, <1>3, <1>4, <3>3, <3>4, ConcatTexts
    <3>7. \A p \in Nodes : p < next + 1 /\ Cited(p) => Shown(Flushed \o new, p)
      BY <1>3, <1>4, <3>3, <3>4, ConcatTexts
    <3>8. ToSet(lines') = {} /\ DOMAIN lines' = {}
      BY <3>1 DEF ToSet
    <3> QED
      BY <1>1, <2>2, <3>1, <3>5, <3>6, <3>7, <3>8, GatherTo
  <2>4. CASE ~HasText(next)
    <3>1. parsed' = parsed /\ lines' = lines
      BY <1>7, <2>4 DEF TakeTable
    <3>2. ~Cited(next)
      BY <2>4 DEF Cited
    <3>3. \A p \in Nodes : p < next + 1 /\ Cited(p) => Shown(parsed, p) \/ p \in ToSet(lines)
      BY <1>2, <1>3, <3>2
    <3>4. \A x \in TextsOf(parsed) : x < next + 1 /\ \A y \in ToSet(lines) : x < y
      BY <1>1, <1>2, <1>3
    <3>5. \A y \in ToSet(lines) : y < next + 1 /\ HeadingAbove(y) = heading
      BY <1>1, <1>2, <1>3
    <3> QED
      BY <1>1, <1>2, <2>1, <2>2, <3>1, <3>3, <3>4, <3>5, GatherTo
  <2> QED
    BY <2>3, <2>4
<1>8. CASE PassImage
  <2>1. Part(next).kind = "image" /\ UNCHANGED <<heading, lines, parsed>>
    BY <1>8 DEF PassImage, Gathers
  <2>2. heading' = HeadingAt(next + 1) /\ ~Cited(next)
    BY <1>1, <1>2, <2>1, HeadingMoves DEF Cited
  <2>3. \A p \in Nodes : p < next + 1 /\ Cited(p) => Shown(parsed, p) \/ p \in ToSet(lines)
    BY <1>2, <1>3, <2>2
  <2>4. \A x \in TextsOf(parsed) : x < next + 1 /\ \A y \in ToSet(lines) : x < y
    BY <1>1, <1>2, <1>3
  <2>5. \A y \in ToSet(lines) : y < next + 1 /\ HeadingAbove(y) = heading
    BY <1>1, <1>2, <1>3
  <2> QED
    BY <1>1, <1>2, <2>1, <2>2, <2>3, <2>4, <2>5, GatherTo
<1> QED
  BY <1>5, <1>6, <1>7, <1>8

-----------------------------------------------------------------------------
(* _parse_pptx, _parse_xlsx, _parse_pdf *)

Placing == reading = "parsing" /\ file.format \in {"pptx", "xlsx", "pdf"}

\* All that is cited on a place before the next one is in a section.
PlacesInv ==
    Placing =>
        /\ Ascending(parsed)
        /\ \A x \in TextsOf(parsed) : Part(x).place < next
        /\ \A p \in Nodes : Part(p).place < next /\ Cited(p) => Shown(parsed, p)

LEMMA TextsAreParts ==
  ASSUME NEW secs \in Seq(ReadSections)
  PROVE  \A x \in TextsOf(secs) : x \in Nodes
<1>1. \A i \in DOMAIN secs : secs[i].texts \in Seq(Nodes)
  BY DEF ReadSections
<1> QED
  BY <1>1 DEF TextsOf, ToSet

LEMMA PlacesAscend ==
  ASSUME file \in Files, file.format \in {"pptx", "xlsx", "pdf"}
  PROVE  /\ \A x \in Nodes : x \in Int /\ Part(x).place \in 1..file.places
         /\ \A x, y \in Nodes : Part(x).place < Part(y).place => x < y
<1>1. \A x \in Nodes : x \in Int
  BY FileType
<1>2. file.places \in Nat
  BY FileType
<1>3. \A x \in Nodes : Part(x).place \in 1..file.places
  BY ParsingAssumption DEF Nodes, Part
<1>4. \A x, y \in Nodes : x < y => Part(x).place <= Part(y).place
  BY ParsingAssumption DEF Nodes, Part
<1>5. ASSUME NEW x \in Nodes, NEW y \in Nodes, Part(x).place < Part(y).place
      PROVE  x < y
  <2>1. Part(x).place \in Int /\ Part(y).place \in Int
    BY <1>2, <1>3
  <2>2. ~(y < x) /\ y # x
    BY <1>4, <1>5, <2>1
  <2> QED
    BY <1>1, <2>2
<1> QED
  BY <1>1, <1>3, <1>5

\* Reading one more place.
LEMMA PlaceStep ==
  ASSUME ParsingTypeOK, PlacesInv, Placing, UNCHANGED <<file, reading>>, next' = next + 1,
         NEW new \in Seq(ReadSections), parsed' = parsed \o new, Ascending(new),
         \A x \in TextsOf(new) : Part(x).place = next,
         \A p \in Nodes : Part(p).place = next /\ Cited(p) => Shown(new, p)
  PROVE  PlacesInv'
<1>1. /\ file \in Files /\ next \in Nat /\ parsed \in Seq(ReadSections) /\ file.places \in Nat
      /\ file.format \in {"pptx", "xlsx", "pdf"}
  BY FileType DEF ParsingTypeOK, Placing
<1>2. /\ \A x \in Nodes : x \in Int /\ Part(x).place \in 1..file.places
      /\ \A x, y \in Nodes : Part(x).place < Part(y).place => x < y
  BY <1>1, PlacesAscend
<1>3. \A x \in Nodes : Part(x).place \in Int /\ (Part(x).place < next + 1 <=>
                           Part(x).place < next \/ Part(x).place = next)
  BY <1>1, <1>2
<1>4. /\ Ascending(parsed)
      /\ \A x \in TextsOf(parsed) : Part(x).place < next
      /\ \A p \in Nodes : Part(p).place < next /\ Cited(p) => Shown(parsed, p)
  BY DEF PlacesInv
<1>5. /\ \A x \in TextsOf(parsed) : x \in Nodes
      /\ \A x \in TextsOf(new) : x \in Nodes
  BY <1>1, TextsAreParts
<1>6. \A x \in TextsOf(parsed), y \in TextsOf(new) : x < y
  BY <1>2, <1>4, <1>5
<1> DEFINE all == parsed \o new
<1>7. Ascending(all)
  BY <1>1, <1>4, <1>6, ConcatAscends
<1>8. /\ \A x : x \in TextsOf(all) <=> x \in TextsOf(parsed) \/ x \in TextsOf(new)
      /\ \A p : Shown(all, p) <=> Shown(parsed, p) \/ Shown(new, p)
  BY <1>1, ConcatTexts
<1>9. parsed' = all
  OBVIOUS
<1> HIDE DEF all
<1>10. PICK secs : secs = all
  OBVIOUS
<1>11. /\ Ascending(parsed)'
       /\ \A x : x \in TextsOf(parsed)' <=> x \in TextsOf(secs)
       /\ \A p : Shown(secs, p) => Shown(parsed, p)'
  BY <1>7, <1>9, <1>10, SectionsCarried
<1>12. \A x \in TextsOf(parsed)' : Part(x)' = Part(x) /\ Part(x).place < next'
  BY <1>3, <1>4, <1>5, <1>8, <1>10, <1>11, FileFixed
<1>13. \A p \in Nodes' : Part(p)'.place < next' /\ Cited(p)' => Shown(parsed, p)'
  BY <1>3, <1>4, <1>8, <1>10, <1>11, FileFixed
<1> QED
  BY <1>11, <1>12, <1>13 DEF PlacesInv

LEMMA SlideTexts ==
  ASSUME ParsingTypeOK, PlacesInv, TakeSlide
  PROVE  PlacesInv'
<1> DEFINE title == WithText(At("title", next))
           texts == WithText(At("text", next))
           head == IF title = <<>> THEN 0 ELSE title[1]
           read == IF texts = <<>> THEN title ELSE texts
           new == Sectioned("text", head, next, read)
<1>1. /\ file \in Files /\ next \in Nat /\ parsed \in Seq(ReadSections)
      /\ Placing /\ UNCHANGED <<file, reading>> /\ next' = next + 1 /\ file.format = "pptx"
      /\ parsed' = parsed \o new
  BY DEF TakeSlide, Takes, Parses, Placing, ParsingTypeOK
<1>2. /\ title \in Seq(Nodes)
      /\ \A i : i \in ToSet(title) <=> /\ i \in Nodes /\ HasText(i)
                                       /\ Part(i).kind = "title" /\ Part(i).place = next
      /\ \A j, k \in DOMAIN title : j < k => title[j] < title[k]
  BY <1>1, AtSound, WithTextSound
<1>3. /\ texts \in Seq(Nodes)
      /\ \A i : i \in ToSet(texts) <=> /\ i \in Nodes /\ HasText(i)
                                       /\ Part(i).kind = "text" /\ Part(i).place = next
      /\ \A j, k \in DOMAIN texts : j < k => texts[j] < texts[k]
  BY <1>1, AtSound, WithTextSound
<1> HIDE DEF title, texts
<1>4. head \in Nat
  <2>1. title # <<>> => title[1] \in Nodes
    BY <1>2
  <2> QED
    BY <1>1, <2>1, FileType
<1>5. /\ read \in Seq(Nodes)
      /\ \A i \in ToSet(read) : Part(i).place = next
      /\ \A j, k \in DOMAIN read : j < k => read[j] < read[k]
  BY <1>2, <1>3
<1>6. ASSUME NEW p \in Nodes, Part(p).place = next, Cited(p)
      PROVE  p \in ToSet(read) /\ head = HeadingAbove(p)
  <2>1. Part(p).kind = "text" /\ HasText(p)
    BY <1>1, <1>6 DEF Cited
  <2>2. p \in ToSet(texts)
    BY <1>3, <1>6, <2>1
  <2>3. texts # <<>>
    BY <2>2 DEF ToSet
  <2>4. p \in ToSet(read)
    BY <2>2, <2>3
  <2> DEFINE above == {h \in Nodes : Part(h).kind = "title" /\ Part(h).place = next}
             last == CHOOSE h \in above : \A g \in above : g <= h
  <2>5. HeadingAbove(p) = LastOf(above)
    <3>1. \A h \in Nodes : Part(h).kind # "heading"
      BY <1>1, ParsingAssumption DEF Nodes, Part
    <3>2. {h \in Nodes : \/ Part(h).kind = "heading" /\ h < p
                         \/ Part(h).kind = "title" /\ Part(h).place = Part(p).place} = above
      BY <1>6, <3>1
    <3>3. HeadingAbove(p) =
             LastOf({h \in Nodes : \/ Part(h).kind = "heading" /\ h < p
                                   \/ Part(h).kind = "title" /\ Part(h).place = Part(p).place})
      BY DEF HeadingAbove, LastOf, Nodes
    <3> QED
      BY <3>2, <3>3
  <2>6. \A g, h \in above : g = h
    <3>1. \A g, h \in Nodes : g < h /\ Part(g).place = Part(h).place =>
             ~(Part(g).kind = "title" /\ Part(h).kind = "title")
      BY <1>1, ParsingAssumption DEF Nodes, Part
    <3>2. \A i \in above : i \in Int /\ i \in Nodes /\ Part(i).kind = "title" /\ Part(i).place = next
      BY <1>1, FileType
    <3> HIDE DEF above
    <3> QED
      BY <3>1, <3>2
  <2>7. \A i : i \in ToSet(title) <=> i \in above /\ HasText(i)
    BY <1>2
  <2>8. \A i \in above : i \in Int
    BY <1>1, FileType
  <2> HIDE DEF above
  <2>9. CASE title = <<>>
    <3>1. \A i \in above : ~HasText(i)
      BY <2>7, <2>9 DEF ToSet
    <3>2. above # {} => last \in above
      BY <2>6, <2>8
    <3> QED
      BY <2>4, <2>5, <2>9, <3>1, <3>2 DEF LastOf
  <2>10. CASE title # <<>>
    <3>1. title[1] \in above /\ HasText(title[1])
      BY <1>2, <2>7, <2>10 DEF ToSet
    <3>2. last \in above
      BY <2>6, <2>8, <3>1
    <3>3. last = title[1]
      BY <2>6, <3>1, <3>2
    <3> QED
      BY <2>4, <2>5, <2>10, <3>1, <3>3 DEF LastOf
  <2> QED
    BY <2>9, <2>10
<1> HIDE DEF head, read
<1>7. new \in Seq(ReadSections)
  BY <1>1, <1>4, <1>5, SectionedType
<1>8. /\ Ascending(new) /\ TextsOf(new) = ToSet(read)
      /\ \A p \in ToSet(read) : head = HeadingAbove(p) => Shown(new, p)
  <2>1. file.format \notin {"pdf", "xlsx"}
    BY <1>1
  <2> QED
    BY <1>5, <2>1, SectionedTexts
<1> HIDE DEF new
<1> QED
  BY <1>1, <1>5, <1>6, <1>7, <1>8, PlaceStep

LEMMA SheetTexts ==
  ASSUME ParsingTypeOK, PlacesInv, TakeSheet
  PROVE  PlacesInv'
<1> DEFINE tables == WithText(At("table", next))
           new == Sectioned("table", 0, next, tables)
<1>1. /\ file \in Files /\ next \in Nat /\ parsed \in Seq(ReadSections)
      /\ Placing /\ UNCHANGED <<file, reading>> /\ next' = next + 1 /\ file.format = "xlsx"
      /\ parsed' = parsed \o new
  BY DEF TakeSheet, Takes, Parses, Placing, ParsingTypeOK
<1>2. /\ tables \in Seq(Nodes)
      /\ \A i : i \in ToSet(tables) <=> /\ i \in Nodes /\ HasText(i)
                                        /\ Part(i).kind = "table" /\ Part(i).place = next
      /\ \A j, k \in DOMAIN tables : j < k => tables[j] < tables[k]
  BY <1>1, AtSound, WithTextSound
<1> HIDE DEF tables
<1>3. \A p \in Nodes : Part(p).place = next /\ Cited(p) => p \in ToSet(tables)
  <2>1. \A p \in Nodes : Part(p).kind = "table"
    BY <1>1, ParsingAssumption DEF Nodes, Part
  <2> QED
    BY <1>2, <2>1 DEF Cited
<1>4. new \in Seq(ReadSections)
  BY <1>1, <1>2, SectionedType
<1>5. /\ Ascending(new) /\ TextsOf(new) = ToSet(tables)
      /\ \A p \in ToSet(tables) : Shown(new, p)
  BY <1>1, <1>2, SectionedTexts
<1> HIDE DEF new
<1> QED
  BY <1>1, <1>2, <1>3, <1>4, <1>5, PlaceStep

LEMMA OnPage ==
  ASSUME ParsingTypeOK, Takes("pdf")
  PROVE  /\ file \in Files /\ next \in Nat /\ parsed \in Seq(ReadSections) /\ budget \in Nat
         /\ Placing /\ UNCHANGED <<file, reading>> /\ next' = next + 1 /\ file.format = "pdf"
         /\ Prose \in Seq(Nodes)
         /\ \A i : i \in ToSet(Prose) <=> /\ i \in Nodes /\ HasText(i)
                                          /\ Part(i).kind = "text" /\ Part(i).place = next
         /\ \A j, k \in DOMAIN Prose : j < k => Prose[j] < Prose[k]
         /\ \A p : Cited(p) => /\ HasText(p)
                               /\ Part(p).kind = "text" \/ Part(p).kind = "table"
<1>1. /\ file \in Files /\ next \in Nat /\ parsed \in Seq(ReadSections) /\ budget \in Nat
      /\ Placing /\ UNCHANGED <<file, reading>> /\ next' = next + 1 /\ file.format = "pdf"
  BY DEF Takes, Parses, Placing, ParsingTypeOK
<1>2. /\ Prose \in Seq(Nodes)
      /\ \A i : i \in ToSet(Prose) <=> /\ i \in Nodes /\ HasText(i)
                                       /\ Part(i).kind = "text" /\ Part(i).place = next
      /\ \A j, k \in DOMAIN Prose : j < k => Prose[j] < Prose[k]
  BY <1>1, AtSound, WithTextSound DEF Prose
<1>3. \A p : Cited(p) => HasText(p) /\ (Part(p).kind = "text" \/ Part(p).kind = "table")
  BY DEF Cited
<1> QED
  BY <1>1, <1>2, <1>3

\* On a page that shows neither text nor a table there is nothing to cite.
LEMMA BlankPage ==
  ASSUME ParsingTypeOK, Takes("pdf"), Prose = <<>>, At("table", next) = <<>>
  PROVE  \A p \in Nodes : ~(Part(p).place = next /\ Cited(p))
<1>1. file \in Files
  BY OnPage
<1>2. {i \in Nodes : Part(i).kind = "table" /\ Part(i).place = next} = ToSet(At("table", next))
  BY <1>1, AtSound
<1>3. ToSet(At("table", next)) = {} /\ ToSet(Prose) = {}
  BY DEF ToSet
<1>4. \A p \in Nodes : Part(p).place = next => Part(p).kind # "table"
  BY <1>2, <1>3
<1>5. \A p \in Nodes : Part(p).place = next => ~(Part(p).kind = "text" /\ HasText(p))
  BY <1>3, OnPage
<1> QED
  BY <1>4, <1>5, OnPage

LEMMA OcrTexts ==
  ASSUME ParsingTypeOK, PlacesInv, OcrPage
  PROVE  PlacesInv'
<1> DEFINE images == At("image", next)
           n == IF budget < Len(images) THEN budget ELSE Len(images)
           taken == SubSeq(images, 1, n)
           texts == WithText(taken)
           new == Sectioned("ocr", 0, next, texts)
<1>1. /\ file \in Files /\ next \in Nat /\ parsed \in Seq(ReadSections) /\ budget \in Nat
      /\ Placing /\ UNCHANGED <<file, reading>> /\ next' = next + 1 /\ file.format = "pdf"
  BY OnPage DEF OcrPage
<1>2. parsed' = parsed \o new
  BY DEF OcrPage, Recognized
<1>3. \A p \in Nodes : ~(Part(p).place = next /\ Cited(p))
  BY BlankPage DEF OcrPage
<1>4. images \in Seq(Nodes) /\ \A i \in ToSet(images) : Part(i).place = next
  BY <1>1, AtSound
<1> HIDE DEF images
<1>5. taken \in Seq(Nodes) /\ \A i \in ToSet(taken) : Part(i).place = next
  <2>1. taken \in Seq(Nodes)
    BY <1>1, <1>4, TakenType
  <2>2. n \in Nat /\ n <= Len(images)
    BY <1>1, <1>4
  <2> HIDE DEF n
  <2>3. taken = [k \in 1..n |-> images[k]]
    BY <1>4, <2>2
  <2>4. \A k \in 1..n : k \in DOMAIN images
    BY <1>4, <2>2
  <2> QED
    BY <1>4, <2>1, <2>3, <2>4 DEF ToSet
<1> HIDE DEF taken
<1>6. /\ texts \in Seq(Nodes) /\ \A i \in ToSet(texts) : Part(i).place = next
      /\ \A j, k \in DOMAIN texts : j < k => texts[j] < texts[k]
  BY <1>1, <1>5, WithTextSound
<1> HIDE DEF texts
<1>7. new \in Seq(ReadSections)
  BY <1>1, <1>6, SectionedType
<1>8. Ascending(new) /\ TextsOf(new) = ToSet(texts)
  BY <1>6, SectionedTexts
<1> HIDE DEF new
<1> QED
  BY <1>1, <1>2, <1>3, <1>6, <1>7, <1>8, PlaceStep

LEMMA SkipTexts ==
  ASSUME ParsingTypeOK, PlacesInv, SkipPage
  PROVE  PlacesInv'
<1> DEFINE new == SubSeq(parsed, 1, 0)
<1>1. /\ next \in Nat /\ parsed \in Seq(ReadSections)
      /\ Placing /\ UNCHANGED <<file, reading>> /\ next' = next + 1
  BY OnPage DEF SkipPage
<1>2. \A p \in Nodes : ~(Part(p).place = next /\ Cited(p))
  BY BlankPage DEF SkipPage
<1>3. new \in Seq(ReadSections) /\ DOMAIN new = {} /\ parsed \o new = parsed
  BY <1>1
<1>4. parsed' = parsed
  BY DEF SkipPage
<1> HIDE DEF new
<1>5. Ascending(new) /\ TextsOf(new) = {}
  BY <1>3 DEF Ascending, TextsOf
<1>6. parsed' = parsed \o new
  BY <1>3, <1>4
<1> QED
  BY <1>1, <1>2, <1>3, <1>5, <1>6, PlaceStep

LEMMA PageTexts ==
  ASSUME ParsingTypeOK, PlacesInv, TakePage
  PROVE  PlacesInv'
<1> DEFINE tables == WithText(At("table", next))
           read(i) == Read("table", 0, next, <<tables[i]>>)
           text == Sectioned("text", 0, next, Prose)
           rest == [i \in DOMAIN tables |-> read(i)]
           new == text \o rest
<1>1. /\ file \in Files /\ next \in Nat /\ parsed \in Seq(ReadSections)
      /\ Placing /\ UNCHANGED <<file, reading>> /\ next' = next + 1 /\ file.format = "pdf"
      /\ Prose \in Seq(Nodes)
      /\ \A i : i \in ToSet(Prose) <=> /\ i \in Nodes /\ HasText(i)
                                       /\ Part(i).kind = "text" /\ Part(i).place = next
      /\ \A j, k \in DOMAIN Prose : j < k => Prose[j] < Prose[k]
      /\ \A p : Cited(p) => HasText(p) /\ (Part(p).kind = "text" \/ Part(p).kind = "table")
  BY OnPage DEF TakePage
<1>2. /\ tables \in Seq(Nodes)
      /\ \A i : i \in ToSet(tables) <=> /\ i \in Nodes /\ HasText(i)
                                        /\ Part(i).kind = "table" /\ Part(i).place = next
      /\ \A j, k \in DOMAIN tables : j < k => tables[j] < tables[k]
  BY <1>1, AtSound, WithTextSound
<1>3. parsed' = parsed \o text \o rest
  BY DEF TakePage
<1>4. \A i \in DOMAIN tables : tables[i] \in ToSet(tables)
  BY DEF ToSet
<1> HIDE DEF tables
<1>5. \A i \in DOMAIN tables : /\ read(i) \in ReadSections
                               /\ read(i).texts = <<tables[i]>> /\ read(i).page = next
  <2> SUFFICES ASSUME NEW i \in DOMAIN tables
               PROVE  /\ read(i) \in ReadSections
                      /\ read(i).texts = <<tables[i]>> /\ read(i).page = next
    OBVIOUS
  <2>1. tables[i] \in Nodes /\ Part(tables[i]).kind = "table" /\ HasText(tables[i])
    BY <1>2, <1>4
  <2>2. <<tables[i]>> \in Seq(Nodes) /\ <<tables[i]>> # <<>> /\ <<tables[i]>>[1] = tables[i]
    BY <2>1
  <2>3. read(i) \in ReadSections
    BY <1>1, <2>1, <2>2, ReadType
  <2> QED
    BY <2>3 DEF Read
<1> HIDE DEF read
<1>6. rest \in Seq(ReadSections) /\ DOMAIN rest = DOMAIN tables
  BY <1>2, <1>5
<1>7. text \in Seq(ReadSections)
  BY <1>1, SectionedType
<1>8. Ascending(text) /\ TextsOf(text) = ToSet(Prose) /\ \A p \in ToSet(Prose) : Shown(text, p)
  BY <1>1, SectionedTexts
<1>9. \A i \in DOMAIN tables : rest[i].texts = <<tables[i]>> /\ rest[i].page = next
  BY <1>5
<1> HIDE DEF text, rest
<1>10. Ascending(rest)
  <2> SUFFICES ASSUME NEW s \in DOMAIN rest, NEW t \in DOMAIN rest,
                      NEW j \in DOMAIN rest[s].texts, NEW k \in DOMAIN rest[t].texts,
                      s < t \/ (s = t /\ j < k)
               PROVE  rest[s].texts[j] < rest[t].texts[k]
    BY DEF Ascending
  <2>1. rest[s].texts = <<tables[s]>> /\ rest[t].texts = <<tables[t]>>
    BY <1>6, <1>9
  <2>2. j = 1 /\ k = 1
    BY <2>1
  <2> QED
    BY <1>2, <1>6, <2>1, <2>2
<1>11. \A x : x \in TextsOf(rest) <=> x \in ToSet(tables)
  <2>1. \A i \in DOMAIN tables : ToSet(rest[i].texts) = {tables[i]}
    BY <1>9 DEF ToSet
  <2>2. \A x : x \in ToSet(tables) <=> \E i \in DOMAIN tables : x = tables[i]
    BY DEF ToSet
  <2>3. \A x : x \in TextsOf(rest) <=> \E i \in DOMAIN rest : x \in ToSet(rest[i].texts)
    BY DEF TextsOf
  <2> QED
    <3>1. DOMAIN rest = DOMAIN tables
      BY <1>6
    <3>2. \A i \in DOMAIN tables : \A x : x \in ToSet(rest[i].texts) <=> x = tables[i]
      BY <2>1
    <3>3. \A x : x \in TextsOf(rest) <=> \E i \in DOMAIN tables : x \in ToSet(rest[i].texts)
      BY <2>3, <3>1
    <3>4. ASSUME NEW x \in ToSet(tables) PROVE x \in TextsOf(rest)
      <4>1. PICK i \in DOMAIN tables : x = tables[i]
        BY <2>2
      <4> QED
        BY <3>2, <3>3, <4>1
    <3>5. ASSUME NEW x \in TextsOf(rest) PROVE x \in ToSet(tables)
      <4>1. PICK i \in DOMAIN tables : x \in ToSet(rest[i].texts)
        BY <3>3
      <4>2. x = tables[i]
        BY <3>2, <4>1
      <4> QED
        BY <2>2, <4>2
    <3> QED
      BY <3>4, <3>5
<1>12. \A p \in ToSet(tables) : Shown(rest, p)
  <2> SUFFICES ASSUME NEW p \in ToSet(tables) PROVE Shown(rest, p)
    OBVIOUS
  <2>1. PICK i \in DOMAIN tables : tables[i] = p
    BY DEF ToSet
  <2>2. i \in DOMAIN rest /\ rest[i].texts = <<p>> /\ rest[i].page = next
    BY <1>6, <1>9, <2>1
  <2>3. p \in ToSet(rest[i].texts)
    BY <2>2 DEF ToSet
  <2> QED
    BY <1>1, <1>2, <2>2, <2>3 DEF Shown, Shows
<1>13. \A x \in TextsOf(text), y \in TextsOf(rest) : x < y
  <2> SUFFICES ASSUME NEW x \in ToSet(Prose), NEW y \in ToSet(tables) PROVE x < y
    BY <1>8, <1>11
  <2>1. /\ x \in Nodes /\ Part(x).kind = "text" /\ Part(x).place = next
        /\ y \in Nodes /\ Part(y).kind = "table" /\ Part(y).place = next
    BY <1>1, <1>2
  <2>2. ~(y < x)
    BY <1>1, <2>1, ParsingAssumption DEF Nodes, Part
  <2>3. x \in Int /\ y \in Int /\ x # y
    BY <1>1, <2>1, FileType
  <2> QED
    BY <2>2, <2>3
<1>14. /\ Ascending(new) /\ new \in Seq(ReadSections)
       /\ \A x : x \in TextsOf(new) <=> x \in TextsOf(text) \/ x \in TextsOf(rest)
       /\ \A p : Shown(new, p) <=> Shown(text, p) \/ Shown(rest, p)
  BY <1>6, <1>7, <1>8, <1>10, <1>13, ConcatAscends, ConcatTexts
<1>15. parsed' = parsed \o new
  BY <1>1, <1>3, <1>6, <1>7
<1> HIDE DEF new
<1>16. \A x \in TextsOf(new) : Part(x).place = next
  BY <1>1, <1>2, <1>8, <1>11, <1>14
<1>17. \A p \in Nodes : Part(p).place = next /\ Cited(p) => Shown(new, p)
  BY <1>1, <1>2, <1>8, <1>12, <1>14
<1> QED
  BY <1>1, <1>14, <1>15, <1>16, <1>17, PlaceStep

-----------------------------------------------------------------------------
(* _parse_html *)

Flat == \A q \in Nodes : Part(q).place = 0

\* In a document without elements around others a node stands only in itself.
LEMMA UnderItself ==
  ASSUME file \in Files, Flat, NEW i \in Nodes, NEW j \in Nodes
  PROVE  Under(i, j) <=> i = j
<1> DEFINE n == Len(file.parts)
           Solves(f) == f = [k \in 0..n |-> k = i \/ (k > 0 /\ f[Part(k).place])]
           itself == [k \in 0..n |-> k = i]
           in == CHOOSE f : Solves(f)
<1>1. n \in Nat /\ Nodes = 1..n /\ \A k \in Nodes : Part(k).place = 0
  BY FileType DEF Flat
<1>2. Solves(itself)
  <2>1. itself[0] = FALSE
    <3>1. 0 \in 0..n /\ ~(0 = i)
      BY <1>1
    <3>2. itself[0] = (0 = i)
      BY <3>1
    <3> QED
      BY <3>1, <3>2
  <2>2. \A k \in 0..n : k > 0 => itself[Part(k).place] = FALSE
    <3>1. \A k \in 0..n : k > 0 => Part(k).place = 0
      <4> SUFFICES ASSUME NEW k \in 0..n, k > 0 PROVE Part(k).place = 0
        OBVIOUS
      <4>1. k \in 1..n
        BY <1>1
      <4> QED
        BY <1>1, <4>1
    <3> HIDE DEF itself
    <3> QED
      BY <2>1, <3>1
  <2>3. \A k \in 0..n : (k = i) = (k = i \/ (k > 0 /\ itself[Part(k).place]))
    BY <2>2
  <2> QED
    BY <2>3
<1>3. Under(i, j) = in[j]
  BY DEF Under
<1> HIDE DEF itself
<1>4. Solves(in)
  <2> HIDE DEF Solves
  <2> QED
    BY <1>2
<1> HIDE DEF in
<1>5. \A k \in 0..n : in[k] = (k = i \/ (k > 0 /\ in[Part(k).place]))
  BY <1>4
<1>6. in[0] = FALSE
  <2>1. 0 \in 0..n /\ ~(0 = i \/ (0 > 0 /\ in[Part(0).place]))
    BY <1>1
  <2> QED
    BY <1>5, <2>1
<1>7. j \in 0..n /\ j > 0 /\ in[Part(j).place] = FALSE
  BY <1>1, <1>6
<1> QED
  BY <1>3, <1>5, <1>7

\* The body of a heading is the text up to the next heading.
LEMMA BodySound ==
  ASSUME file \in Files, Flat, NEW h \in Headings
  PROVE  /\ Body(h) \in Seq(Nodes)
         /\ \A p : p \in ToSet(Body(h)) <=>
               /\ p \in Nodes /\ HasText(p) /\ h < p /\ Part(p).kind \notin {"bare", "heading"}
               /\ \A g \in Headings : ~(h < g /\ g < p)
         /\ \A j, k \in DOMAIN Body(h) : j < k => Body(h)[j] < Body(h)[k]
<1> DEFINE S == {j \in Nodes : HasText(j) /\ \E i \in Following(h) : Under(i, j)}
<1>1. S \in SUBSET Nodes /\ Body(h) = InOrder(S)
  BY DEF Body
<1>2. \A p : p \in Following(h) <=>
         /\ p \in Nodes /\ h < p /\ Part(p).kind \notin {"bare", "heading"}
         /\ \A g \in Headings : ~(h < g /\ g < p)
  <2>1. h \in Nodes
    BY DEF Headings
  <2>2. \A p \in Nodes : Part(p).place = Part(h).place
    BY <2>1 DEF Flat
  <2>3. \A g \in Headings : Part(g).place = Part(h).place
    BY <2>2 DEF Headings
  <2>4. \A p \in Nodes : \A u \in Int : u \in Nodes => (p > u <=> u < p)
    BY FileType
  <2>5. h \in Int
    BY <2>1, FileType
  <2> QED
    BY <2>1, <2>2, <2>3, <2>4, <2>5 DEF Following
<1>3. \A j \in Nodes : (\E i \in Following(h) : Under(i, j)) <=> j \in Following(h)
  <2>1. Following(h) \subseteq Nodes
    BY <1>2
  <2> QED
    BY <2>1, UnderItself
<1>4. \A p : p \in S <=> p \in Nodes /\ HasText(p) /\ p \in Following(h)
  BY <1>2, <1>3
<1> HIDE DEF S
<1>5. /\ Body(h) \in Seq(Nodes) /\ ToSet(Body(h)) = S
      /\ \A j, k \in DOMAIN Body(h) : j < k => Body(h)[j] < Body(h)[k]
  BY <1>1, NodesInOrder
<1> QED
  BY <1>2, <1>4, <1>5

\* All that is cited is in a section.
ReadAll == Ascending(parsed) /\ \A p \in Nodes : Cited(p) => Shown(parsed, p)

NoneCited == \A p \in Nodes : ~Cited(p)

LEMMA ReadAllShows == ParsingTypeOK /\ (ReadAll \/ NoneCited) => TextIsRead
<1>1. NoneCited => TextIsRead
  BY DEF NoneCited, TextIsRead, Nodes
<1>2. ParsingTypeOK /\ ReadAll => TextIsRead
  BY AscendingRead DEF ReadAll
<1> QED
  BY <1>1, <1>2

LEMMA EndsRead ==
  ASSUME UNCHANGED file, NEW secs, parsed' = secs, Ascending(secs),
         \A p \in Nodes : Cited(p) => Shown(secs, p)
  PROVE  ReadAll'
<1>1. Ascending(parsed)' /\ \A p : Shown(secs, p) => Shown(parsed, p)'
  BY SectionsCarried
<1> QED
  BY <1>1, FileFixed DEF ReadAll

LEMMA NoneStays == UNCHANGED file /\ NoneCited => NoneCited'
BY FileFixed DEF NoneCited

\* Of some numbers there is a last one.
LEMMA LastThere ==
  ASSUME NEW S, IsFiniteSet(S), S \subseteq Int, S # {}
  PROVE  LET last == CHOOSE h \in S : \A g \in S : g <= h
         IN  last \in S /\ \A g \in S : g <= last
<1> DEFINE order == InOrder(S)
           n == Len(order)
<1>1. /\ order \in Seq(S) /\ n = Cardinality(S)
      /\ \A i \in S : \E p \in DOMAIN order : order[p] = i
      /\ \A p, q \in DOMAIN order : p < q => order[p] < order[q]
  BY InOrderSound
<1> HIDE DEF order
<1>2. n \in Nat /\ DOMAIN order = 1..n /\ n \in DOMAIN order
  <2>1. PICK i \in S : TRUE
    OBVIOUS
  <2>2. PICK p \in DOMAIN order : order[p] = i
    BY <1>1
  <2> QED
    BY <1>1, <2>2
<1>3. order[n] \in S
  BY <1>1, <1>2
<1>4. \A g \in S : g <= order[n]
  <2> SUFFICES ASSUME NEW g \in S PROVE g <= order[n]
    OBVIOUS
  <2>1. PICK p \in DOMAIN order : order[p] = g
    BY <1>1
  <2>2. p = n \/ p < n
    BY <1>2
  <2>3. g \in Int /\ order[n] \in Int
    BY <1>3
  <2>4. order[p] = order[n] \/ order[p] < order[n]
    BY <1>1, <1>2, <2>2
  <2> QED
    BY <2>1, <2>3, <2>4
<1>5. \E h \in S : \A g \in S : g <= h
  BY <1>3, <1>4
<1> QED
  BY <1>5

LEMMA HtmlRead ==
  ASSUME ParsingTypeOK, ReadHtml
  PROVE  ReadAll' \/ NoneCited'
<1> DEFINE S == {h \in Headings : Body(h) # <<>>}
           order == InOrder(S)
           headed(h) == Read("text", IF HasText(h) THEN h ELSE 0, 0, Body(h))
           secs == [i \in DOMAIN order |-> headed(order[i])]
           all == WithText(InOrder(Nodes))
           whole == Sectioned("text", 0, 0, all)
<1>1. file \in Files /\ UNCHANGED file /\ file.format = "html"
  BY DEF ReadHtml, Parses, Ends, ParsingTypeOK
<1>2. CASE ~Flat
  <2>1. NoneCited
    BY <1>1, <1>2 DEF NoneCited, Cited, Flat, Nodes
  <2> QED
    BY <1>1, <2>1, NoneStays
<1>3. CASE Flat /\ Headings = {}
  <2>1. parsed' = whole
    BY <1>3 DEF ReadHtml, Ends
  <2>2. InOrder(Nodes) \in Seq(Nodes) /\ ToSet(InOrder(Nodes)) = Nodes
    BY <1>1, NodesInOrder
  <2>3. /\ all \in Seq(Nodes) /\ \A p \in Nodes : HasText(p) => p \in ToSet(all)
        /\ \A j, k \in DOMAIN all : j < k => all[j] < all[k]
    BY <1>1, <2>2, WithTextSound
  <2> HIDE DEF all
  <2>4. Ascending(whole)
    BY <2>3, SectionedTexts
  <2>5. \A p \in ToSet(all) : 0 = HeadingAbove(p) => Shown(whole, p)
    BY <1>1, <2>3, SectionedTexts
  <2>6. ASSUME NEW p \in Nodes PROVE HeadingAbove(p) = 0
    <3>1. {h \in Nodes : Part(h).kind = "heading" /\ h < p} = {}
      BY <1>3 DEF Headings
    <3>2. HeadingAbove(p) = HeadingAt(p)
      BY <1>1, HeadingAboveIs
    <3>3. HeadingAt(p) = LastOf({h \in Nodes : Part(h).kind = "heading" /\ h < p})
      BY HeadingIsLast
    <3> QED
      BY <3>1, <3>2, <3>3 DEF LastOf
  <2> HIDE DEF whole
  <2>7. \A p \in Nodes : Cited(p) => Shown(whole, p)
    BY <2>3, <2>5, <2>6 DEF Cited
  <2> QED
    BY <1>1, <2>1, <2>4, <2>7, EndsRead
<1>4. CASE Flat /\ Headings # {}
  <2>1. parsed' = secs
    BY <1>4 DEF ReadHtml, Ends
  <2>2. Headings \subseteq Nodes /\ \A h \in Headings : Part(h).kind = "heading"
    BY DEF Headings
  <2>3. /\ order \in Seq(S) /\ \A h \in S : \E k \in DOMAIN order : order[k] = h
        /\ \A j, k \in DOMAIN order : j < k => order[j] < order[k]
        /\ DOMAIN order \subseteq Int
    <3>1. S \in SUBSET Nodes
      BY <2>2
    <3> HIDE DEF S
    <3>2. /\ order \in Seq(S) /\ ToSet(order) = S
          /\ \A j, k \in DOMAIN order : j < k => order[j] < order[k]
      BY <1>1, <3>1, NodesInOrder
    <3> HIDE DEF order
    <3> QED
      BY <3>2 DEF ToSet
  <2>4. \A k \in DOMAIN order : order[k] \in Headings /\ Body(order[k]) # <<>>
    BY <2>3
  <2>5. \A h \in Headings : Body(h) # <<>> => \E k \in DOMAIN order : order[k] = h
    BY <2>3
  <2>6. \A k \in DOMAIN order : /\ secs[k].texts = Body(order[k])
                                /\ HasText(order[k]) => secs[k].heading = order[k]
    BY DEF Read
  <2>7. DOMAIN secs = DOMAIN order
    OBVIOUS
  <2> HIDE DEF order, secs, S
  <2>8. \A p \in Nodes : p \in Int
    BY <1>1, FileType
  <2>9. Ascending(secs)
    <3> SUFFICES ASSUME NEW s \in DOMAIN order, NEW t \in DOMAIN order,
                        NEW j \in DOMAIN Body(order[s]), NEW k \in DOMAIN Body(order[t]),
                        s < t \/ (s = t /\ j < k)
                 PROVE  Body(order[s])[j] < Body(order[t])[k]
      BY <2>6, <2>7 DEF Ascending
    <3>1. CASE s < t
      <4> DEFINE x == Body(order[s])[j]
                 y == Body(order[t])[k]
      <4>1. order[s] \in Headings /\ order[t] \in Headings /\ order[s] < order[t]
        BY <2>3, <2>4, <3>1
      <4>2. x \in ToSet(Body(order[s])) /\ y \in ToSet(Body(order[t]))
        BY DEF ToSet
      <4>3. x \in Nodes /\ Part(x).kind # "heading" /\ ~(order[s] < order[t] /\ order[t] < x)
        BY <1>1, <1>4, <4>1, <4>2, BodySound
      <4>4. y \in Nodes /\ order[t] < y
        BY <1>1, <1>4, <4>1, <4>2, BodySound
      <4>5. x # order[t]
        BY <2>2, <4>1, <4>3
      <4>6. x \in Int /\ y \in Int /\ order[t] \in Int
        BY <2>2, <2>8, <4>1, <4>3, <4>4
      <4> HIDE DEF x, y
      <4>7. x < y
        BY <4>1, <4>3, <4>4, <4>5, <4>6
      <4> QED
        BY <4>7 DEF x, y
    <3>2. CASE s = t /\ j < k
      <4>1. order[s] \in Headings
        BY <2>4
      <4> QED
        BY <1>1, <1>4, <3>2, <4>1, BodySound
    <3> QED
      BY <3>1, <3>2
  <2>10. ASSUME NEW p \in Nodes, Cited(p) PROVE Shown(secs, p)
    <3> DEFINE above == {h \in Nodes : Part(h).kind = "heading" /\ h < p}
               last == CHOOSE h \in above : \A g \in above : g <= h
    <3>1. /\ Part(p).kind \in {"text", "table"} /\ HasText(p) /\ HeadingAbove(p) # 0
      BY <1>1, <1>4, <2>10 DEF Cited
    <3>2. HeadingAbove(p) = LastOf(above)
      BY <1>1, HeadingAboveIs, HeadingIsLast
    <3>3. IsFiniteSet(above) /\ above \subseteq Int
      BY <1>1, <2>8, FileType, FS_Subset
    <3>4. above # {} => last \in above /\ \A g \in above : g <= last
      <4> HIDE DEF above
      <4> QED
        BY <3>3, LastThere
    <3>5. \A h : h \in above <=> h \in Headings /\ h < p
      BY DEF Headings
    <3> HIDE DEF above
    <3>6. last \in above /\ HasText(last) /\ HeadingAbove(p) = last
      BY <3>1, <3>2, <3>4 DEF LastOf
    <3> HIDE DEF last
    <3>7. last \in Headings /\ last < p /\ \A g \in Headings : ~(last < g /\ g < p)
      <4>1. \A g \in Headings : g < p => g <= last
        BY <3>4, <3>5, <3>6
      <4>2. \A g \in Headings : g \in Int
        BY <2>2, <2>8
      <4>3. last \in Headings /\ last < p
        BY <3>5, <3>6
      <4> QED
        BY <4>1, <4>2, <4>3
    <3>8. p \in ToSet(Body(last))
      BY <1>1, <1>4, <3>1, <3>7, BodySound
    <3>9. PICK k \in DOMAIN order : order[k] = last
      <4>1. Body(last) # <<>>
        BY <3>8 DEF ToSet
      <4> QED
        BY <2>5, <3>7, <4>1
    <3>10. secs[k].texts = Body(last) /\ secs[k].heading = last
      BY <2>6, <3>6, <3>9
    <3> QED
      BY <1>1, <2>7, <3>6, <3>8, <3>9, <3>10 DEF Shown, Shows
  <2> QED
    BY <1>1, <2>1, <2>9, <2>10, EndsRead
<1> QED
  BY <1>2, <1>3, <1>4

-----------------------------------------------------------------------------
(* TextIsRead *)

TextsInv == GatherInv /\ PlacesInv

LEMMA TextsStart == ParsingInit => TextsInv
<1> SUFFICES ASSUME ParsingInit PROVE TextsInv
  OBVIOUS
<1>1. /\ file \in Files /\ next = 1 /\ heading = 0
      /\ DOMAIN parsed = {} /\ DOMAIN lines = {} /\ lines = <<>>
  BY DEF ParsingInit
<1>2. \A p \in Nodes : p \in Int /\ ~(p < 1)
  BY <1>1, FileType
<1>3. Len(file.parts) \in Nat
  BY <1>1, FileType
<1>4. Ascending(parsed) /\ TextsOf(parsed) = {} /\ ToSet(lines) = {}
  BY <1>1 DEF Ascending, TextsOf, ToSet
<1>5. HeadingAt(next) = 0
  <2>1. {h \in Nodes : Part(h).kind = "heading" /\ h < next} = {}
    BY <1>1, <1>2
  <2> QED
    BY <2>1, HeadingIsLast DEF LastOf
<1>6. GatherInv
  BY <1>1, <1>2, <1>3, <1>4, <1>5 DEF GatherInv
<1>7. PlacesInv
  <2>1. Placing => \A p \in Nodes : ~(Part(p).place < next)
    <3> SUFFICES ASSUME Placing, NEW p \in Nodes PROVE ~(Part(p).place < next)
      OBVIOUS
    <3>1. Part(p).place \in 1..file.places /\ file.places \in Nat
      BY <1>1, PlacesAscend, FileType DEF Placing
    <3> QED
      BY <1>1, <3>1
  <2> QED
    BY <1>4, <2>1 DEF PlacesInv
<1> QED
  BY <1>6, <1>7 DEF TextsInv

LEMMA TextsStutter == TextsInv /\ UNCHANGED rvars => TextsInv'
<1> SUFFICES ASSUME TextsInv, UNCHANGED rvars PROVE TextsInv'
  OBVIOUS
<1>1. UNCHANGED <<reading, file, next, heading, lines>> /\ parsed' = parsed
  BY DEF rvars
<1>2. PICK secs : secs = parsed
  OBVIOUS
<1>3. parsed' = secs
  BY <1>1, <1>2
<1>4. /\ Ascending(secs) => Ascending(parsed)'
      /\ \A x : x \in TextsOf(parsed)' <=> x \in TextsOf(secs)
      /\ \A p : Shown(secs, p) => Shown(parsed, p)'
  BY <1>1, <1>3, SectionsCarried
<1>5. /\ Nodes' = Nodes
      /\ \A n : HeadingAt(n)' = HeadingAt(n) /\ HeadingAbove(n)' = HeadingAbove(n)
      /\ \A p : Cited(p)' <=> Cited(p)
      /\ \A p : Part(p)' = Part(p)
  BY <1>1, FileFixed
<1>6. HeadingAt(next)' = HeadingAt(next) /\ ToSet(lines)' = ToSet(lines)
  <2>1. ToSet(lines)' = ToSet(lines)
    BY <1>1 DEF ToSet
  <2>2. HeadingAt(next)' = HeadingAt(next)
    BY <1>1 DEF HeadingAt, Nodes, Part, HasText, Rows, InOrder
  <2> QED
    BY <2>1, <2>2
<1>7. GatherInv'
  <2> SUFFICES ASSUME Gathering' PROVE GatherInv'
    BY DEF GatherInv
  <2>1. Gathering
    BY <1>1 DEF Gathering
  <2>2. /\ next <= Len(file.parts) + 1
        /\ Ascending(secs) /\ \A j, k \in DOMAIN lines : j < k => lines[j] < lines[k]
        /\ \A x \in TextsOf(secs) : x < next /\ \A y \in ToSet(lines) : x < y
        /\ \A y \in ToSet(lines) : y < next /\ HeadingAbove(y) = heading
        /\ heading = HeadingAt(next)
        /\ \A p \in Nodes : p < next /\ Cited(p) => Shown(secs, p) \/ p \in ToSet(lines)
    BY <1>2, <2>1 DEF TextsInv, GatherInv
  <2>3. /\ (next <= Len(file.parts) + 1)'
        /\ \A j, k \in DOMAIN lines' : j < k => lines'[j] < lines'[k]
    BY <1>1, <2>2
  <2>4. /\ Ascending(parsed)'
        /\ \A x \in TextsOf(parsed)' : x < next' /\ \A y \in ToSet(lines)' : x < y
        /\ \A y \in ToSet(lines)' : y < next' /\ HeadingAbove(y)' = heading'
        /\ heading' = HeadingAt(next)'
        /\ \A p \in Nodes' : p < next' /\ Cited(p)' => Shown(parsed, p)' \/ p \in ToSet(lines)'
    BY <1>1, <1>4, <1>5, <1>6, <2>2
  <2> QED
    BY <2>3, <2>4 DEF GatherInv
<1>8. PlacesInv'
  <2> SUFFICES ASSUME Placing' PROVE PlacesInv'
    BY DEF PlacesInv
  <2>1. Placing
    BY <1>1 DEF Placing
  <2>2. /\ Ascending(secs)
        /\ \A x \in TextsOf(secs) : Part(x).place < next
        /\ \A p \in Nodes : Part(p).place < next /\ Cited(p) => Shown(secs, p)
    BY <1>2, <2>1 DEF TextsInv, PlacesInv
  <2>3. /\ Ascending(parsed)'
        /\ \A x \in TextsOf(parsed)' : Part(x)'.place < next'
        /\ \A p \in Nodes' : Part(p)'.place < next' /\ Cited(p)' => Shown(parsed, p)'
    BY <1>1, <1>4, <1>5, <2>2
  <2> QED
    BY <2>3 DEF PlacesInv
<1> QED
  BY <1>7, <1>8 DEF TextsInv

LEMMA TextsStep == ParsingTypeOK /\ TextsInv /\ [ParsingNext]_rvars => TextsInv'
<1> SUFFICES ASSUME ParsingTypeOK, TextsInv, [ParsingNext]_rvars PROVE TextsInv'
  OBVIOUS
<1> USE DEF TextsInv
<1>1. CASE TakeHeading \/ TakeText \/ TakeTable \/ PassImage
  <2>1. GatherInv'
    BY <1>1, GatherStep
  <2>2. file'.format \in {"markdown", "docx"}
    BY <1>1 DEF TakeHeading, TakeText, TakeTable, PassImage, Gathers, Parses
  <2> QED
    BY <2>1, <2>2 DEF PlacesInv, Placing
<1>2. CASE TakeSlide \/ TakeSheet \/ OcrPage \/ SkipPage \/ TakePage
  <2>1. PlacesInv'
    BY <1>2, SlideTexts, SheetTexts, OcrTexts, SkipTexts, PageTexts
  <2>2. file'.format \in {"pptx", "xlsx", "pdf"}
    BY <1>2 DEF TakeSlide, TakeSheet, OcrPage, SkipPage, TakePage, Takes, Parses
  <2> QED
    BY <2>1, <2>2 DEF GatherInv, Gathering
<1>3. CASE reading' # "parsing"
  BY <1>3 DEF GatherInv, Gathering, PlacesInv, Placing
<1>4. CASE UNCHANGED rvars
  BY <1>4, TextsStutter
<1>5. CASE \/ Refuse \/ ReadWhole \/ EndOfLines \/ ReadHtml \/ EndOfPlaces
           \/ FindFigures \/ Caption \/ EndOfCaptions
  <2>1. reading' # "parsing"
    BY <1>5 DEF Refuse, ReadWhole, EndOfLines, ReadHtml, EndOfPlaces, Ends, FindFigures, Caption,
                EndOfCaptions
  <2> QED
    BY <1>3, <2>1
<1> QED
  BY <1>1, <1>2, <1>4, <1>5 DEF ParsingNext

\* The last step of every loop.
LEMMA LoopsEnd ==
  ASSUME ParsingTypeOK, TextsInv, ReadWhole \/ EndOfLines \/ EndOfPlaces
  PROVE  ReadAll' \/ NoneCited'
<1>1. file \in Files /\ next \in Nat /\ parsed \in Seq(ReadSections)
  BY DEF ParsingTypeOK
<1>2. /\ \A p \in Nodes : p \in Int
      /\ Nodes = 1..Len(file.parts) /\ Len(file.parts) \in Nat /\ file.places \in Nat
  BY <1>1, FileType
<1>3. CASE ReadWhole
  <2> DEFINE type == IF file.format = "txt" THEN "text" ELSE "ocr"
             secs == <<Read(type, 0, 0, <<1>>)>>
  <2>1. UNCHANGED file /\ file.format \in {"txt", "image"} /\ parsed' = secs
    BY <1>3 DEF ReadWhole, Parses, Ends
  <2>2. Len(file.parts) = 1
    BY <1>1, <2>1, ParsingAssumption
  <2>3. /\ DOMAIN secs = {1} /\ secs[1].texts = <<1>> /\ secs[1].heading = 0
    BY DEF Read
  <2> HIDE DEF secs
  <2>4. Ascending(secs)
    BY <2>3 DEF Ascending
  <2>5. ASSUME NEW p \in Nodes PROVE Shown(secs, p)
    <3>1. p = 1 /\ p \in ToSet(secs[1].texts)
      BY <1>2, <2>2, <2>3 DEF ToSet
    <3>2. {h \in Nodes : Part(h).kind = "heading" /\ h < p} = {}
      BY <1>2, <2>2, <3>1
    <3>3. HeadingAbove(p) = 0
      BY <1>1, <2>1, <3>2, HeadingAboveIs, HeadingIsLast DEF LastOf
    <3> QED
      BY <2>1, <2>3, <3>1, <3>3 DEF Shown, Shows
  <2> QED
    BY <2>1, <2>4, <2>5, EndsRead
<1>4. CASE EndOfLines
  <2>1. /\ Gathering /\ UNCHANGED file /\ next > Len(file.parts)
        /\ parsed' = IF Flushed = <<>> /\ file.format = "markdown"
                        THEN <<Read("text", 0, 0, InOrder(Nodes))>> ELSE Flushed
    BY <1>4 DEF EndOfLines, Parses, Gathering, Ends
  <2>2. Ascending(Flushed) /\ \A p \in Nodes : Cited(p) => Shown(Flushed, p)
    <3>1. \A p \in Nodes : p < next
      BY <1>1, <1>2, <2>1
    <3> QED
      BY <2>1, <3>1, FlushedTexts DEF TextsInv
  <2>3. CASE Flushed = <<>>
    <3>1. \A p : ~Shown(Flushed, p)
      BY <2>3 DEF Shown
    <3> QED
      BY <2>1, <2>2, <3>1, NoneStays DEF NoneCited
  <2>4. CASE Flushed # <<>>
    <3>1. PICK secs : secs = Flushed
      OBVIOUS
    <3>2. parsed' = secs /\ Ascending(secs) /\ \A p \in Nodes : Cited(p) => Shown(secs, p)
      BY <2>1, <2>2, <2>4, <3>1
    <3> QED
      BY <2>1, <3>2, EndsRead
  <2> QED
    BY <2>3, <2>4
<1>5. CASE EndOfPlaces
  <2>1. Placing /\ UNCHANGED file /\ next > file.places /\ parsed' = parsed
    BY <1>5 DEF EndOfPlaces, Parses, Placing, Ends
  <2>2. \A p \in Nodes : Part(p).place < next
    <3> SUFFICES ASSUME NEW p \in Nodes PROVE Part(p).place < next
      OBVIOUS
    <3>1. Part(p).place \in 1..file.places
      BY <1>1, <2>1, PlacesAscend DEF Placing
    <3> QED
      BY <1>1, <1>2, <2>1, <3>1
  <2>3. Ascending(parsed) /\ \A p \in Nodes : Cited(p) => Shown(parsed, p)
    BY <2>1, <2>2 DEF TextsInv, PlacesInv
  <2>4. PICK secs : secs = parsed
    OBVIOUS
  <2>5. parsed' = secs /\ Ascending(secs) /\ \A p \in Nodes : Cited(p) => Shown(secs, p)
    BY <2>1, <2>3, <2>4
  <2> QED
    BY <2>1, <2>5, EndsRead
<1> QED
  BY <1>3, <1>4, <1>5

LEMMA TextsEnd == ParsingTypeOK /\ TextsInv /\ TextIsRead /\ [ParsingNext]_rvars => TextIsRead'
<1>1. ASSUME ParsingTypeOK, TextsInv, TextIsRead, [ParsingNext]_rvars, reading' = "parsed"
      PROVE  (ReadAll \/ NoneCited)' \/ UNCHANGED rvars
  <2>1. CASE ReadWhole \/ EndOfLines \/ EndOfPlaces
    BY <1>1, <2>1, LoopsEnd
  <2>2. CASE ReadHtml
    BY <1>1, <2>2, HtmlRead
  <2>3. CASE \/ Refuse \/ TakeHeading \/ TakeText \/ TakeTable \/ PassImage
             \/ TakeSlide \/ TakeSheet \/ OcrPage \/ SkipPage \/ TakePage
             \/ FindFigures \/ Caption \/ EndOfCaptions
    <3>1. reading' # "parsed"
      BY <2>3 DEF Refuse, TakeHeading, TakeText, TakeTable, PassImage, Gathers, Parses, TakeSlide,
                  TakeSheet, OcrPage, SkipPage, TakePage, Takes, FindFigures, Caption, EndOfCaptions
    <3> QED
      BY <1>1, <3>1
  <2> QED
    BY <1>1, <2>1, <2>2, <2>3 DEF ParsingNext
<1>2. TextIsRead /\ UNCHANGED rvars => TextIsRead'
  <2> SUFFICES ASSUME TextIsRead, UNCHANGED rvars PROVE TextIsRead'
    OBVIOUS
  <2>1. reading' = reading /\ file' = file /\ parsed' = parsed
    BY DEF rvars
  <2>2. \A p : Readings(p)' = Readings(p)
    BY <2>1 DEF Readings
  <2>3. /\ \A p : (Cited(p)' <=> Cited(p)) /\ HeadingAbove(p)' = HeadingAbove(p)
        /\ \A p : Part(p)' = Part(p)
    BY <2>1, FileFixed
  <2> QED
    BY <2>1, <2>2, <2>3 DEF TextIsRead, Precedes
<1>3. (reading # "parsed" => TextIsRead)'
  BY DEF TextIsRead
<1>4. ParsingTypeOK /\ (ReadAll \/ NoneCited) => TextIsRead
  BY ReadAllShows
<1>5. ParsingTypeOK /\ [ParsingNext]_rvars => ParsingTypeOK'
  BY ParsingTypeStep
<1>6. ParsingTypeOK /\ TextsInv /\ TextIsRead /\ [ParsingNext]_rvars /\ (reading = "parsed")'
         => (ReadAll \/ NoneCited)' \/ UNCHANGED rvars
  BY <1>1
<1>7. (reading = "parsed" \/ reading # "parsed")'
  OBVIOUS
<1> QED
  BY <1>2, <1>3, <1>4, <1>5, <1>6, <1>7, PTL

-----------------------------------------------------------------------------
(* From the file to the answer *)

Before == reading \in {"parsing", "parsed", "captioning", "read"}

IndexingInv ==
    /\ RankingInv /\ InDocument
    /\ PagesAreAccountedFor /\ TextIsRead
    /\ Before => ParsingTypeOK /\ PagesInv /\ TextsInv /\ Unranked

LEMMA ParsingStepFrom == ParsingNext => Before
BY DEF ParsingNext, Before, Refuse, ReadWhole, TakeHeading, TakeText, TakeTable, PassImage,
       EndOfLines, ReadHtml, TakeSlide, TakeSheet, OcrPage, SkipPage, TakePage, EndOfPlaces,
       FindFigures, Caption, EndOfCaptions, Gathers, Takes, Parses

LEMMA IndexingStarts == IndexingInit => IndexingInv
<1>1. IndexingInit => ParsingInit /\ RankingInit
  BY DEF IndexingInit
<1>2. ParsingInit => PagesInv /\ PagesAreAccountedFor /\ TextIsRead
  <2> SUFFICES ASSUME ParsingInit PROVE PagesInv /\ PagesAreAccountedFor /\ TextIsRead
    OBVIOUS
  <2>1. next = 1 /\ parsed = <<>> /\ skipped = {} /\ reading = "parsing"
    BY DEF ParsingInit
  <2> QED
    BY <2>1 DEF PagesInv, PagesAreAccountedFor, TextIsRead
<1> QED
  BY <1>1, <1>2, ParsingStarts, TextsStart, RankingStarts, UnrankedStarts, InDocumentStarts
  DEF IndexingInv

LEMMA UnrankedStays == Unranked /\ UNCHANGED pvars => Unranked'
BY DEF Unranked, Uncut, Weighted, pvars, cvars, kvars

LEMMA HandedOver ==
  ASSUME ParsingTypeOK, Unranked, HandOver
  PROVE  Unranked'
<1>1. parsed \in Seq(ReadSections)
  BY DEF ParsingTypeOK
<1>2. \A i \in DOMAIN parsed : Measured(parsed[i]) \in Sections
  BY <1>1, MeasuredType
<1>3. sections' = [i \in DOMAIN parsed |-> Measured(parsed[i])]
  BY DEF HandOver
<1>4. sections' \in Seq(Sections)
  BY <1>1, <1>2, <1>3
<1>5. UNCHANGED <<at, from, to, chunks>> /\ UNCHANGED kvars
  BY DEF HandOver
<1> QED
  BY <1>4, <1>5 DEF Unranked, Uncut, Weighted, kvars

LEMMA IndexingStep == IndexingInv /\ [IndexingNext]_<<rvars, pvars>> => IndexingInv'
<1>1. IndexingInv /\ ParsingNext /\ UNCHANGED pvars => IndexingInv'
  <2>1. IndexingInv /\ ParsingNext /\ UNCHANGED pvars =>
           /\ RankingInv /\ InDocument /\ [RankingNext]_pvars
           /\ PagesAreAccountedFor /\ TextIsRead
           /\ ParsingTypeOK /\ PagesInv /\ TextsInv /\ Unranked /\ [ParsingNext]_rvars
    BY ParsingStepFrom DEF IndexingInv
  <2>2. RankingInv /\ InDocument /\ [RankingNext]_pvars => RankingInv' /\ InDocument'
    BY RankingStep, InDocumentStays
  <2>3. PagesAreAccountedFor /\ TextIsRead /\ ParsingTypeOK /\ PagesInv /\ TextsInv
           /\ [ParsingNext]_rvars
           => (PagesAreAccountedFor /\ TextIsRead /\ ParsingTypeOK /\ PagesInv /\ TextsInv)'
    BY ParsingTypeStep, PagesStep, PagesEnd, TextsStep, TextsEnd
  <2> QED
    BY <2>1, <2>2, <2>3, UnrankedStays DEF IndexingInv
<1>2. IndexingInv /\ HandOver => IndexingInv'
  <2>1. IndexingInv /\ HandOver => Unranked'
    BY HandedOver DEF IndexingInv, Before, HandOver
  <2>2. HandOver => (PagesAreAccountedFor /\ TextIsRead /\ ~Before)'
    BY DEF HandOver, PagesAreAccountedFor, TextIsRead, Before
  <2>3. (Unranked => RankingInv /\ InDocument)'
    BY UnrankedStarts, InDocumentStarts, PTL
  <2> QED
    BY <2>1, <2>2, <2>3 DEF IndexingInv
<1>3. IndexingInv /\ RefuseEmpty => IndexingInv'
  <2>1. IndexingInv /\ RefuseEmpty => RankingInv' /\ InDocument'
    BY RankingStep, InDocumentStays DEF IndexingInv, RefuseEmpty
  <2>2. RefuseEmpty => (PagesAreAccountedFor /\ TextIsRead /\ ~Before)'
    BY DEF RefuseEmpty, PagesAreAccountedFor, TextIsRead, Before
  <2> QED
    BY <2>1, <2>2 DEF IndexingInv
<1>4. IndexingInv /\ reading = "chunking" /\ RankingNext /\ UNCHANGED rvars => IndexingInv'
  <2>1. IndexingInv /\ RankingNext => RankingInv' /\ InDocument'
    BY RankingStep, InDocumentStays DEF IndexingInv
  <2>2. reading = "chunking" /\ UNCHANGED rvars => (PagesAreAccountedFor /\ TextIsRead /\ ~Before)'
    BY DEF rvars, PagesAreAccountedFor, TextIsRead, Before
  <2> QED
    BY <2>1, <2>2 DEF IndexingInv
<1>5. IndexingInv /\ UNCHANGED <<rvars, pvars>> => IndexingInv'
  <2>1. UNCHANGED <<rvars, pvars>> => UNCHANGED rvars /\ UNCHANGED pvars
    OBVIOUS
  <2>2. IndexingInv /\ UNCHANGED pvars => RankingInv' /\ InDocument'
    BY RankingStep, InDocumentStays DEF IndexingInv
  <2>3. ~Before /\ UNCHANGED rvars => (PagesAreAccountedFor /\ TextIsRead /\ ~Before)'
    BY DEF rvars, PagesAreAccountedFor, TextIsRead, Before
  <2>4. IndexingInv /\ Before /\ UNCHANGED rvars /\ UNCHANGED pvars =>
           (ParsingTypeOK /\ PagesInv /\ TextsInv /\ Unranked /\ PagesAreAccountedFor /\ TextIsRead)'
    BY ParsingTypeStep, PagesStep, PagesEnd, TextsStep, TextsEnd, UnrankedStays DEF IndexingInv
  <2> QED
    BY <2>1, <2>2, <2>3, <2>4 DEF IndexingInv
<1> QED
  BY <1>1, <1>2, <1>3, <1>4, <1>5 DEF IndexingNext

LEMMA IndexingHolds == IndexingSpec => []IndexingInv
BY IndexingStarts, IndexingStep, PTL DEF IndexingSpec

\* PagesAreAccountedFor: of every PDF and under every budget of images, each page without a
\* table is either read into one section or told to the curator once, and not both.
THEOREM EveryPageIsAccountedFor == IndexingSpec => []PagesAreAccountedFor
BY IndexingHolds, PTL DEF IndexingInv

\* TextIsRead: of every file, what is cited is read once, in the order of the document, into
\* a section with the heading above it or the page it is on.
THEOREM EveryTextIsRead == IndexingSpec => []TextIsRead
BY IndexingHolds, PTL DEF IndexingInv

\* PassagesKept, NothingTwice, ChunksFit: what was proved of the cutting of any document is so
\* of every document the parser can make of a file.
THEOREM FilesAreCutWhole == IndexingSpec => [](PassagesKept /\ NothingTwice /\ ChunksFit)
BY IndexingHolds, PTL DEF IndexingInv, RankingInv, ChunkingInv

\* NothingElseIsDropped, NoTextTwice, TailIsScored: and what was proved of the ranking of any
\* chunks is so of those cut from a file.
THEOREM FilesAreRanked == IndexingSpec => [](NothingElseIsDropped /\ NoTextTwice /\ TailIsScored)
BY IndexingHolds, DroppedOnlySo, KeptShareNothing, WindowsCoverAll, PTL DEF IndexingInv

=============================================================================
