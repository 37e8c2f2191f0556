------------------------------- MODULE Parsing -------------------------------
(***************************************************************************)
(* Parsing: how the worker reads a file into sections (FR-3), between the  *)
(* fetch of the original and the cut into chunks (module Chunking).  Each  *)
(* format has a loop of its own.  A page of a PDF that shows no text is    *)
(* given to OCR, within a budget of images for the whole document, and a   *)
(* page that stays unread is recorded for the curator (#306).  When a      *)
(* vision model is set, the figures of a document are captioned at the     *)
(* end, and whatever fails there costs captions only.                      *)
(*                                                                         *)
(* A file is the sequence of its parts in document order.  The place of a  *)
(* part is its page, slide or sheet; in HTML it is the number of the node  *)
(* it stands in, 0 for the body.  A section names the parts it was read    *)
(* from, and the part that is its heading, 0 for none.                     *)
(***************************************************************************)
EXTENDS Integers, Sequences, FiniteSets, SequencesExt

CONSTANTS
    Files,         \* the files that are uploaded
    Hosts,         \* what a deployment has: OCR, a vision model
    MaxPages,      \* MAX_PDF_PAGES
    MaxOcrImages,  \* MAX_OCR_IMAGES_PER_DOCUMENT
    MaxImages      \* MAX_IMAGES_PER_DOCUMENT

\* kind: "heading", "text", "table", "image"; in HTML also "box", an element around
\* others, and "bare", text in no element of its own; on a slide "title".
\* words: those of a text, and those that OCR recognizes in an image. rows: the cells of
\* a table, each the number of its words. figure: the content of an image; small: under
\* the size that is worth a caption.
Parts == [kind : STRING, place : Nat, words : Nat, rows : Seq(Seq(Nat)),
          figure : Nat, small : BOOLEAN]

\* A page of a PDF is read text first, then its tables.
ASSUME ParsingAssumption ==
    /\ \A f \in Files :
          /\ f.parts \in Seq(Parts) /\ f.places \in Nat
          /\ f.format \in {"txt", "image"} => Len(f.parts) = 1
          /\ \A i \in DOMAIN f.parts :
                /\ f.format \in {"pdf", "pptx", "xlsx"} => f.parts[i].place \in 1..f.places
                /\ f.format = "xlsx" => f.parts[i].kind = "table"
                /\ f.parts[i].kind = "title" => f.format = "pptx"
                /\ f.parts[i].kind = "heading" => f.format \in {"markdown", "docx", "html"}
          /\ \A i, j \in DOMAIN f.parts :
                i < j /\ f.format \in {"pdf", "pptx", "xlsx"} =>
                    /\ f.parts[i].place <= f.parts[j].place
                    /\ f.parts[i].place = f.parts[j].place =>
                           /\ f.format = "pdf" =>
                                  ~(f.parts[i].kind = "table" /\ f.parts[j].kind = "text")
                           /\ ~(f.parts[i].kind = "title" /\ f.parts[j].kind = "title")
    /\ Hosts \subseteq [ocr : BOOLEAN, vision : BOOLEAN]
    /\ MaxPages \in Nat /\ MaxOcrImages \in Nat /\ MaxImages \in Nat

VARIABLES
    reading,  \* "parsing", "parsed", "captioning", "read" or "refused"
    host, file,
    next,     \* the part, or the place, that the loop of the format takes next
    heading,  \* current_heading
    lines,    \* current_lines: the parts read and not yet in a section
    parsed,   \* the sections
    budget,   \* images that may still be given to OCR
    skipped,  \* OcrStatus: the pages recorded, each with its reason
    figures   \* the images still to be captioned

rvars == <<reading, host, file, next, heading, lines, parsed, budget, skipped, figures>>

ParsingInit ==
    /\ reading = "parsing"
    /\ host \in Hosts /\ file \in Files
    /\ next = 1 /\ heading = 0 /\ lines = <<>> /\ parsed = <<>>
    /\ budget = MaxOcrImages /\ skipped = {} /\ figures = <<>>

-----------------------------------------------------------------------------
Part(i) == file.parts[i]
Nodes   == DOMAIN file.parts

\* Some of the parts, in document order.
InOrder(S) ==
    [k \in 1..Cardinality(S) |-> CHOOSE i \in S : Cardinality({j \in S : j < i}) = k - 1]

\* The parts of one kind at one place.
At(kind, place) == InOrder({i \in Nodes : Part(i).kind = kind /\ Part(i).place = place})

\* _table_to_markdown drops the rows that have only empty cells.
Rows(i) ==
    LET rows == Part(i).rows
        full == InOrder({r \in DOMAIN rows : \E c \in DOMAIN rows[r] : rows[r][c] > 0})
    IN  [k \in DOMAIN full |-> rows[full[k]]]

HasText(i) == IF Part(i).kind = "table" THEN Rows(i) # <<>> ELSE Part(i).words > 0

WithText(s) == InOrder({i \in ToSet(s) : HasText(i)})

Read(type, head, page, texts) ==
    [type |-> type, heading |-> head, page |-> page, texts |-> texts]

\* The section of `texts`, if there is any text in them.
Sectioned(type, head, page, texts) ==
    IF texts = <<>> THEN <<>> ELSE <<Read(type, head, page, texts)>>

Ends(sections) ==
    /\ reading' = "parsed"
    /\ parsed' = sections
    /\ UNCHANGED <<host, file, heading, budget, skipped, figures>>

-----------------------------------------------------------------------------
(* parse_document: what is refused before anything is read *)

Zipped == {"docx", "pptx", "xlsx"}

\* A text file with bytes that are no text is read all the same.
Unreadable ==
    \/ file.flaw = "empty" \/ file.format = "other"
    \/ file.format \in Zipped /\ file.flaw \in {"bomb", "corrupt"}
    \/ file.format = "pdf" /\ (file.flaw \in {"corrupt", "locked"} \/ file.places > MaxPages)
    \/ file.format = "image" /\ ~(host.ocr /\ HasText(1))

Parses(formats) == reading = "parsing" /\ ~Unreadable /\ file.format \in formats

Refuse ==
    /\ reading = "parsing" /\ Unreadable
    /\ reading' = "refused"
    /\ UNCHANGED <<host, file, next, heading, lines, parsed, budget, skipped, figures>>

\* _parse_txt, _parse_image: all there is, in one section.
ReadWhole ==
    /\ Parses({"txt", "image"})
    /\ Ends(<<Read(IF file.format = "txt" THEN "text" ELSE "ocr", 0, 0, <<1>>)>>)
    /\ UNCHANGED <<next, lines>>

-----------------------------------------------------------------------------
(* _parse_markdown, _parse_docx: lines are gathered until a heading or a table comes *)

Gathers(kind) ==
    /\ Parses({"markdown", "docx"})
    /\ next \in DOMAIN file.parts /\ Part(next).kind = kind
    /\ next' = next + 1
    /\ UNCHANGED <<reading, host, file, budget, skipped, figures>>

Flushed == parsed \o Sectioned("text", heading, 0, lines)

TakeHeading ==
    /\ Gathers("heading")
    /\ parsed' = Flushed
    /\ heading' = IF HasText(next) THEN next ELSE 0
    /\ lines' = <<>>

TakeText ==
    /\ Gathers("text")
    /\ lines' = lines \o WithText(<<next>>)
    /\ UNCHANGED <<heading, parsed>>

\* Mutant of TakeTable: the lines before the table are left to those after it.
TakeTableFirst ==
    /\ Gathers("table")
    /\ parsed' = parsed \o Sectioned("table", heading, 0, WithText(<<next>>))
    /\ UNCHANGED <<heading, lines>>

TakeTable ==
    /\ Gathers("table")
    /\ IF HasText(next)
          THEN parsed' = Flushed \o Sectioned("table", heading, 0, <<next>>) /\ lines' = <<>>
          ELSE UNCHANGED <<parsed, lines>>
    /\ UNCHANGED heading

\* A picture is in no paragraph that has text.
PassImage == Gathers("image") /\ UNCHANGED <<heading, lines, parsed>>

\* A markdown file of which no section was made is one section, its headings included.
EndOfLines ==
    /\ Parses({"markdown", "docx"}) /\ next > Len(file.parts)
    /\ Ends(IF Flushed = <<>> /\ file.format = "markdown"
               THEN <<Read("text", 0, 0, InOrder(Nodes))>> ELSE Flushed)
    /\ lines' = <<>>
    /\ UNCHANGED next

-----------------------------------------------------------------------------
(* _parse_html *)

\* Node j is node i or stands somewhere in it.
Under(i, j) ==
    LET in[k \in 0..Len(file.parts)] == k = i \/ (k > 0 /\ in[Part(k).place]) IN in[j]

Headings == {h \in Nodes : Part(h).kind = "heading"}

\* The elements after a heading that have the same parent, up to the next heading there.
Following(h) ==
    {j \in Nodes :
        /\ j > h /\ Part(j).place = Part(h).place /\ Part(j).kind \notin {"bare", "heading"}
        /\ \A g \in Headings : h < g /\ g < j => Part(g).place # Part(h).place}

Body(h) == InOrder({j \in Nodes : HasText(j) /\ \E i \in Following(h) : Under(i, j)})

ReadHtml ==
    /\ Parses({"html"})
    /\ LET headed(h) == Read("text", IF HasText(h) THEN h ELSE 0, 0, Body(h))
           order == InOrder({h \in Headings : Body(h) # <<>>})
       IN  Ends(IF Headings = {} THEN Sectioned("text", 0, 0, WithText(InOrder(Nodes)))
                ELSE [i \in DOMAIN order |-> headed(order[i])])
    /\ UNCHANGED <<next, lines>>

-----------------------------------------------------------------------------
(* _parse_pptx, _parse_xlsx, _parse_pdf: one place after the other *)

Takes(format) ==
    /\ Parses({format}) /\ next <= file.places
    /\ next' = next + 1
    /\ UNCHANGED <<reading, host, file, heading, lines, figures>>

\* Only shapes with a text frame are read; a slide with a title alone has it as its text.
TakeSlide ==
    /\ Takes("pptx")
    /\ LET title == WithText(At("title", next))
           texts == WithText(At("text", next))
       IN  parsed' = parsed \o Sectioned("text", IF title = <<>> THEN 0 ELSE title[1], next,
                                         IF texts = <<>> THEN title ELSE texts)
    /\ UNCHANGED <<budget, skipped>>

TakeSheet ==
    /\ Takes("xlsx")
    /\ parsed' = parsed \o Sectioned("table", 0, next, WithText(At("table", next)))
    /\ UNCHANGED <<budget, skipped>>

Prose == WithText(At("text", next))

Recognized(images) == Sectioned("ocr", 0, next, WithText(images))

\* Mutant of OcrStatus: a page of which no image was tried is not recorded.
OcrStatusUnlessExhausted(images) ==
    skipped' = IF images = <<>> \/ Recognized(images) # <<>> THEN skipped
               ELSE skipped \cup {[page |-> next, reason |-> "no_text_recognized"]}

\* A page of which an image was recognized is not recorded, even if the budget left
\* others of its images out.
OcrStatus(images) ==
    skipped' = IF Recognized(images) # <<>> THEN skipped
               ELSE skipped \cup {[page |-> next, reason |->
                                      IF Len(images) < Len(At("image", next))
                                         THEN "budget_exhausted" ELSE "no_text_recognized"]}

\* _ocr_pdf_page, when there is OCR and the page's images can be listed.
OcrPage ==
    /\ Takes("pdf") /\ host.ocr
    /\ Prose = <<>> /\ At("table", next) = <<>>
    /\ LET images == At("image", next)
           taken  == SubSeq(images, 1, IF budget < Len(images) THEN budget ELSE Len(images))
       IN  /\ parsed' = parsed \o Recognized(taken)
           /\ budget' = budget - Len(taken)
           /\ OcrStatus(taken)

SkipPage ==
    /\ Takes("pdf")
    /\ Prose = <<>> /\ At("table", next) = <<>>
    /\ \E reason \in IF host.ocr THEN {"unreadable_images"} ELSE {"ocr_unavailable"} :
          skipped' = skipped \cup {[page |-> next, reason |-> reason]}
    /\ UNCHANGED <<parsed, budget>>

\* A table that pdfplumber finds keeps the page from OCR even if all its cells are empty.
TakePage ==
    /\ Takes("pdf")
    /\ Prose # <<>> \/ At("table", next) # <<>>
    /\ LET tables == WithText(At("table", next)) IN
          parsed' = parsed \o Sectioned("text", 0, next, Prose)
                           \o [i \in DOMAIN tables |-> Read("table", 0, next, <<tables[i]>>)]
    /\ UNCHANGED <<budget, skipped>>

EndOfPlaces ==
    /\ Parses({"pptx", "xlsx", "pdf"}) /\ next > file.places
    /\ Ends(parsed)
    /\ UNCHANGED <<next, lines>>

-----------------------------------------------------------------------------
(* captioning.py *)

Images(lost) ==
    {i \in Nodes : Part(i).kind = "image" /\ ~Part(i).small /\ i \notin lost}

\* extract_images: the first of those with the same content, up to the limit.
Chosen(images) ==
    LET distinct == InOrder({i \in images :
                        \A j \in images : j < i => Part(j).figure # Part(i).figure})
    IN  SubSeq(distinct, 1, IF MaxImages < Len(distinct) THEN MaxImages ELSE Len(distinct))

\* A picture, or all of a page, may not be readable; in a DOCX it is all or none.
FindFigures ==
    /\ reading = "parsed"
    /\ LET images == {i \in DOMAIN file.parts : Part(i).kind = "image"} IN
       \E lost \in CASE file.format \in {"pdf", "pptx"} -> SUBSET images
                     [] file.format = "docx" -> {{}, images}
                     [] OTHER -> {images} :
          LET found == IF host.vision THEN Chosen(Images(lost)) ELSE <<>> IN
          /\ figures' = found
          /\ reading' = IF found = <<>> THEN "read" ELSE "captioning"
    /\ UNCHANGED <<host, file, next, heading, lines, parsed, budget, skipped>>

\* The model describes the figure, or answers nothing or not at all.
Caption ==
    /\ reading = "captioning" /\ figures # <<>>
    /\ \E captions \in {<<>>, <<Read("image", 0, Part(figures[1]).place, <<figures[1]>>)>>} :
          parsed' = parsed \o captions
    /\ figures' = Tail(figures)
    /\ UNCHANGED <<reading, host, file, next, heading, lines, budget, skipped>>

\* All have been tried, or the pass has hit its time limit.
EndOfCaptions ==
    /\ reading = "captioning"
    /\ reading' = "read"
    /\ UNCHANGED <<host, file, next, heading, lines, parsed, budget, skipped, figures>>

ParsingNext ==
    \/ Refuse \/ ReadWhole
    \/ TakeHeading \/ TakeText \/ TakeTable \/ PassImage \/ EndOfLines
    \/ ReadHtml
    \/ TakeSlide \/ TakeSheet \/ OcrPage \/ SkipPage \/ TakePage \/ EndOfPlaces
    \/ FindFigures \/ Caption \/ EndOfCaptions

-----------------------------------------------------------------------------
\* The heading a reader sees above part p.
HeadingAbove(p) ==
    LET above == {h \in DOMAIN file.parts :
                     \/ Part(h).kind = "heading" /\ h < p
                     \/ Part(h).kind = "title" /\ Part(h).place = Part(p).place}
        last  == CHOOSE h \in above : \A g \in above : g <= h
    IN  IF above = {} \/ ~HasText(last) THEN 0 ELSE last

\* Text whose place in the document a citation must show. Of HTML only what is beside the
\* headings, and not before the first, is read at all.
Cited(p) ==
    /\ Part(p).kind \in {"text", "table"} /\ HasText(p)
    /\ file.format = "pptx" => Part(p).kind = "text"
    /\ file.format = "html" => (\A q \in DOMAIN file.parts : Part(q).place = 0)
                                  /\ (Headings = {} \/ HeadingAbove(p) # 0)

\* Where a part was read: the section and the place in it.
Readings(p) ==
    UNION {{<<s, k>> : k \in {k \in DOMAIN parsed[s].texts : parsed[s].texts[k] = p}} :
              s \in DOMAIN parsed}

Precedes(r, t) == r[1] < t[1] \/ (r[1] = t[1] /\ r[2] < t[2])

\* FR-3, FR-27: what is read is read once, in the order of the document, and a citation
\* of it shows the heading it stands under or the page it is on.
TextIsRead ==
    reading = "parsed" =>
        \A p \in DOMAIN file.parts : Cited(p) =>
            /\ Cardinality(Readings(p)) = 1
            /\ \A q \in DOMAIN file.parts : Cited(q) /\ q < p =>
                   \A r \in Readings(q), t \in Readings(p) : Precedes(r, t)
            /\ \E s \in DOMAIN parsed :
                  /\ p \in ToSet(parsed[s].texts)
                  /\ IF file.format \in {"pdf", "xlsx"} THEN parsed[s].page = Part(p).place
                     ELSE parsed[s].heading = HeadingAbove(p)

\* #306: the curator is told of a page that no section was read from, whatever kept it
\* from being read and wherever the budget ran out, and of no page that was read. (A page
\* on which a table was found that turned out empty is not told of.)
PagesAreAccountedFor ==
    reading = "parsed" /\ file.format = "pdf" =>
        \A page \in 1..file.places :
            At("table", page) = <<>> =>
                Cardinality({s \in DOMAIN parsed : parsed[s].page = page})
                    + Cardinality({r \in skipped : r.page = page}) = 1

=============================================================================
