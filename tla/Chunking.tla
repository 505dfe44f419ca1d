------------------------------ MODULE Chunking ------------------------------
(* What becomes of a file before it is indexed: the blocks the extractors     *)
(* make of it (services/ingestion/extractors.py) and the chunks the chunker   *)
(* makes of the blocks (services/ingestion/chunker.py).                       *)
(*                                                                          *)
(* A file is a sequence of parts (pages, headed passages, sheets, or what a   *)
(* model said of an image or a recording), a part a sequence of paragraphs, a  *)
(* paragraph a sequence of sentences, and of a sentence only its length        *)
(* counts.  Every character knows its place, so that a chunk can be asked      *)
(* where its text comes from.                                                 *)
EXTENDS Integers, SequencesExt

CONSTANTS
    ChunkChars,    \* chunk size in characters: CHUNK_SIZE_TOKENS * _CHARS_PER_TOKEN
    OverlapChars   \* CHUNK_OVERLAP_TOKENS * _CHARS_PER_TOKEN

\* chunk_blocks refuses an overlap that is not smaller than the chunk.
ASSUME ChunkAssumption == /\ ChunkChars \in Nat /\ OverlapChars \in Nat
                          /\ OverlapChars < ChunkChars

Blank == <<>>
Blanks(n) == [i \in 1..n |-> Blank]
Characters(part, paragraph, sentence, length) ==
    [i \in 1..length |-> <<part, paragraph, sentence, i>>]

Concatenated(seqs) == FoldLeft(LAMBDA all, s : all \o s, <<>>, seqs)
When(wanted, x) == IF wanted THEN <<x>> ELSE <<>>

\* str.strip
Strip(text) ==
    LET ink == {i \in DOMAIN text : text[i] # Blank} IN
    IF ink = {} THEN <<>> ELSE SubSeq(text, Min(ink), Max(ink))

\* The next text behind the buffer, n blanks apart.
Joined(buffer, n, text) == IF buffer = <<>> THEN text ELSE Strip(buffer \o Blanks(n) \o text)

----------------------------------------------------------------------------
(* Extractors                                                               *)

NoTitle == ""

\* What is in a file, or what a model says is in it: lengths of sentences.
File == [modality : {"text", "image", "media"}, kind : {"pdf", "headed", "sheets", "said"},
         parts : Seq([title : STRING, text : Seq(Seq(Nat)), readable : BOOLEAN])]

Sentences(file, i, p) ==
    [s \in DOMAIN file.parts[i].text[p] |-> Characters(i, p, s, file.parts[i].text[p][s])]

\* The texts that are not empty, n blanks apart.
Between(texts, n) ==
    FoldLeft(LAMBDA all, text : IF text = <<>> THEN all ELSE Joined(all, n, text), <<>>, texts)

\* _serialize_rows: every value behind the name of its column, in one text without sentences. The
\* first row holds the names; a value without a column is left out, and so is an empty one.
Serialized(sheet) ==
    LET Pair(r, c) == IF sheet[r][c] = <<>> THEN <<>> ELSE Joined(sheet[1][c], 2, sheet[r][c])
        Line(r) == Between([c \in 1..Min({Len(sheet[1]), Len(sheet[r])}) |-> Pair(r, c)], 3)
        lines == Between([r \in 1..(Len(sheet) - 1) |-> Line(r + 1)], 1)
    IN IF lines = <<>> THEN Between(sheet[1], 3) ELSE lines

\* A page that cannot be read is an empty page; so are blank pages, passages and sheets.
Paragraphs(file, i) ==
    LET text == [p \in DOMAIN file.parts[i].text |-> Sentences(file, i, p)] IN
    IF ~file.parts[i].readable \/ text = <<>> THEN <<>>
    ELSE IF file.kind = "sheets" THEN <<<<Serialized(text)>>>> ELSE text

\* The names of columns and the values without one are no content of a sheet.
Said(file, i, p, s) == file.kind = "sheets" => p > 1 /\ s \in DOMAIN file.parts[i].text[1]

\* Variant: pages are counted after the empty ones are dropped.
PageOfKept(file, i) ==
    IF file.kind = "pdf" THEN Cardinality({j \in 1..i : Paragraphs(file, j) # <<>>}) ELSE 0

\* extract_pdf: the page's place in the file, also behind pages that were skipped.
PageOf(file, i) == IF file.kind = "pdf" THEN i ELSE 0

\* extract_markdown and extract_docx: an empty heading keeps the section before it.
HeadingOf(file, i) ==
    LET titled == {j \in 1..i : file.parts[j].title # NoTitle} IN
    IF titled = {} THEN NoTitle ELSE file.parts[Max(titled)].title

SectionOf(file, i) == CASE file.kind = "headed" -> HeadingOf(file, i)
                        [] file.kind = "sheets" -> file.parts[i].title
                        [] OTHER                -> NoTitle

\* The stream of non-empty blocks.
Extracted(file) ==
    Concatenated([i \in DOMAIN file.parts |->
        When(Paragraphs(file, i) # <<>>, [paragraphs |-> Paragraphs(file, i),
                                          page |-> PageOf(file, i),
                                          section |-> SectionOf(file, i)])])

----------------------------------------------------------------------------
(* Chunker                                                                  *)

Windows(sentence) ==
    [k \in 1..((Len(sentence) + ChunkChars - 1) \div ChunkChars) |->
        SubSeq(sentence, (k - 1) * ChunkChars + 1, Min({k * ChunkChars, Len(sentence)}))]

Flushed(acc) == IF acc.buffer = <<>> THEN acc.done ELSE Append(acc.done, acc.buffer)

SplitStep(acc, sentence) ==
    LET candidate == Joined(acc.buffer, 1, sentence) IN
    IF Len(candidate) <= ChunkChars THEN [acc EXCEPT !.buffer = candidate]
    ELSE IF Len(sentence) <= ChunkChars THEN [done |-> Flushed(acc), buffer |-> sentence]
    ELSE [done |-> Flushed(acc) \o Windows(sentence), buffer |-> <<>>]

\* Variant: what is left in the buffer behind the last sentence is dropped.
SplitLongUnflushed(sentences) ==
    FoldLeft(SplitStep, [done |-> <<>>, buffer |-> <<>>], sentences).done

\* _split_long: sentences fill a piece; a sentence that fits nowhere is cut.
SplitLong(sentences) == Flushed(FoldLeft(SplitStep, [done |-> <<>>, buffer |-> <<>>], sentences))

Segments(paragraph) ==
    LET whole == Between(paragraph, 1) IN
    IF Len(whole) <= ChunkChars THEN <<whole>> ELSE SplitLong(paragraph)

\* Variant: one character more is carried over.
OverlapInclusive(buffer) == SubSeq(buffer, Max({1, Len(buffer) - OverlapChars}), Len(buffer))

Overlap(buffer) == SubSeq(buffer, Max({1, Len(buffer) - OverlapChars + 1}), Len(buffer))

PackStep(acc, segment) ==
    LET candidate == Joined(acc.buffer, 2, segment) IN
    IF Len(candidate) <= ChunkChars THEN [acc EXCEPT !.buffer = candidate]
    ELSE IF acc.buffer = <<>> THEN [acc EXCEPT !.buffer = segment]
    ELSE [done |-> Append(acc.done, acc.buffer), buffer |-> Joined(Overlap(acc.buffer), 2, segment)]

\* The chunks of one block: segments are packed up to the size, then the tail of the full chunk
\* begins the next one.
Packed(block) ==
    LET segments == Concatenated([p \in DOMAIN block.paragraphs |-> Segments(block.paragraphs[p])])
        end == FoldLeft(PackStep, [done |-> <<>>, buffer |-> <<>>], segments)
    IN Flushed([end EXCEPT !.buffer = Strip(@)])

\* No chunk is to be longer: the overlap, a blank line and a segment that fills a chunk.
Longest == ChunkChars + IF OverlapChars = 0 THEN 0 ELSE OverlapChars + 2

ChunkBlocks(blocks) ==
    Concatenated([b \in DOMAIN blocks |->
        LET texts == Packed(blocks[b]) IN
        [k \in DOMAIN texts |-> [text |-> texts[k], page |-> blocks[b].page,
                                 section |-> blocks[b].section]]])
=============================================================================
