------------------------------ MODULE Chunking ------------------------------
(***************************************************************************)
(* From a file to the chunks that are embedded: a conversion into blocks,  *)
(* a second one with OCR where the first found too little, and the four    *)
(* ways to cut the blocks into chunks.                                     *)
(*                                                                         *)
(* The characters of a document are numbered in reading order; a text is   *)
(* the sequence of its characters, with Space and Break (two characters    *)
(* that join paragraphs) between words.  A word is the numbers of its      *)
(* characters.                                                             *)
(***************************************************************************)
EXTENDS Integers, FiniteSets, Sequences, SequencesExt

CONSTANTS
    Shapes,       \* the blocks of documents: sequences of [kind, level, page, words],
                  \* words being the lengths of the words
    Scans,        \* what OCR may find, <<>> being nothing
    Methods,      \* chunk_method
    Target,       \* target_chars
    Overlap,      \* int(target_chars * overlap_ratio)
    MinPerPage    \* ocr_min_chars_per_page

VARIABLES
    shape,    \* what the converter finds without OCR
    scanned,  \* what it finds with OCR
    method,
    blocks,   \* the document in hand
    at,       \* blocks taken so far
    work,     \* the chunker: chunks, buffer, its page and section, heading trail
    phase

chunkingVars == <<shape, scanned, method, blocks, at, work, phase>>

Space == 0
Break == -1
NoPage == 0

Sum(lengths) == FoldLeft(LAMBDA a, n : a + n, 0, lengths)
Chars(b) == Sum(b.words)

\* The blocks with their characters numbered through the document.
Numbered(bs) ==
    LET before(i) == Sum([j \in 1..(i - 1) |-> Chars(bs[j])])
        word(i, w) == LET first == before(i) + Sum(SubSeq(bs[i].words, 1, w - 1))
                      IN  [c \in 1..bs[i].words[w] |-> first + c]
    IN  [i \in DOMAIN bs |-> [kind |-> bs[i].kind, level |-> bs[i].level, page |-> bs[i].page,
                              words |-> [w \in DOMAIN bs[i].words |-> word(i, w)]]]

\* " ".join and "\n\n".join
Joined(parts, glue) ==
    FoldLeft(LAMBDA text, part : IF text = <<>> THEN part ELSE text \o glue \o part, <<>>, parts)
Line(words) == Joined(words, <<Space>>)
Paragraphs(parts) == Joined(parts, <<Break, Break>>)

Fresh == [chunks |-> <<>>, buf |-> <<>>, page |-> NoPage, section |-> <<>>, trail |-> <<>>]

TypeOK ==
    /\ shape \in Shapes /\ scanned \in Scans \union {<<>>} /\ method \in Methods
    /\ at \in 0..Len(blocks) /\ phase \in {"parse", "chunk", "done", "failed"}
    /\ \A i \in DOMAIN work.chunks : work.chunks[i].page \in Nat

Init ==
    /\ shape \in Shapes /\ method \in Methods
    /\ scanned = <<>> /\ blocks = <<>> /\ at = 0 /\ work = Fresh /\ phase = "parse"

-----------------------------------------------------------------------------
\* needs_ocr: too few characters a page.
NeedsOcr(bs) ==
    \/ bs = <<>>
    \/ LET pages == bs[Len(bs)].page
       IN  Sum([i \in DOMAIN bs |-> Chars(bs[i])]) < MinPerPage * pages

\* parse_bytes: the OCR pass replaces what the first found.
Parse ==
    /\ phase = "parse"
    /\ \E found \in IF NeedsOcr(shape) THEN Scans ELSE {shape} :
          /\ scanned' = IF NeedsOcr(shape) THEN found ELSE <<>>
          /\ blocks' = Numbered(found)
          /\ phase' = IF found = <<>> THEN "failed" ELSE "chunk"
    /\ UNCHANGED <<shape, method, at, work>>

\* _trail_push: a heading closes the headings at its level and below.
Pushed(trail, level, i) ==
    LET open == {n \in 0..Len(trail) : n = 0 \/ trail[n].level < level}
    IN  Append(SubSeq(trail, 1, CHOOSE n \in open : \A m \in open : m <= n), [level |-> level, block |-> i])

\* _trail_section: the innermost headings.
Levels == 3
Trail(trail) ==
    LET inner == IF Len(trail) > Levels THEN SubSeq(trail, Len(trail) - Levels + 1, Len(trail)) ELSE trail
    IN  [n \in DOMAIN inner |-> inner[n].block]

\* _split_text: words into pieces of less than Target characters, one word
\* longer than that being a piece of its own.
Split(words) ==
    LET add(s, w) ==
            IF s.buf # <<>> /\ Len(Line(s.buf)) + 1 + Len(w) + 1 > Target
            THEN [pieces |-> Append(s.pieces, Line(s.buf)), buf |-> <<w>>]
            ELSE [s EXCEPT !.buf = Append(@, w)]
        end == FoldLeft(add, [pieces |-> <<>>, buf |-> <<>>], words)
    IN  IF end.buf = <<>> THEN end.pieces ELSE Append(end.pieces, Line(end.buf))

\* The overlap of a chunk with the next: its last characters, from the first
\* word that begins there.
OverlapOf(text) ==
    LET tail == IF Len(text) <= Overlap THEN text ELSE SubSeq(text, Len(text) - Overlap + 1, Len(text))
        spaces == {i \in 1..(Len(tail) - 1) : tail[i] = Space /\ \A j \in 1..(i - 1) : tail[j] # Space}
    IN  IF \E i \in spaces : TRUE THEN SubSeq(tail, (CHOOSE i \in spaces : TRUE) + 1, Len(tail)) ELSE tail

Chunk(s, text, page, section) ==
    Append(s.chunks, [text |-> text, page |-> IF page = NoPage THEN 1 ELSE page,
                      index |-> Len(s.chunks), section |-> section])

Flush(s, carry) ==
    LET text == Paragraphs(s.buf)
        kept == [s EXCEPT !.chunks = Chunk(s, text, s.page, s.section)]
    IN  IF s.buf = <<>> THEN s
        ELSE IF carry /\ Overlap > 0 THEN [kept EXCEPT !.buf = <<OverlapOf(text)>>]
        ELSE [kept EXCEPT !.buf = <<>>, !.page = NoPage, !.section = <<>>]

\* Mutant: a heading that follows text joins the buffer.
HeadingJoins(s, b, i) == [s EXCEPT !.trail = Pushed(s.trail, b.level, i)]

\* A heading is a new section.
Heading(s, b, i) == Flush([s EXCEPT !.trail = Pushed(s.trail, b.level, i)], FALSE)

\* Pieces of a block of chunk_blocks, flushed before they would overflow.
Add(s, piece, page) ==
    LET f == IF s.buf # <<>> /\ Len(Paragraphs(s.buf)) + Len(piece) > Target THEN Flush(s, TRUE) ELSE s
    IN  [f EXCEPT !.buf = Append(@, piece),
                  !.page = IF f.page = NoPage THEN page ELSE @,
                  !.section = IF f.page = NoPage THEN Trail(f.trail) ELSE @]

Table(s, b) ==
    LET f == Flush(s, FALSE)
    IN  [f EXCEPT !.chunks = Chunk(f, Line(b.words), b.page, Trail(f.trail))]

\* chunk_blocks
ByHeading(s, b, i) ==
    IF b.kind = "table" THEN Table(s, b)
    ELSE FoldLeft(LAMBDA a, piece : Add(a, piece, b.page),
                  IF b.kind = "heading" THEN Heading(s, b, i) ELSE s, Split(b.words))

\* _chunk_table_qa: the section is the trail when the run is flushed.
FlushRun(s) == Flush([s EXCEPT !.section = Trail(s.trail)], FALSE)
ByTable(s, b, i) ==
    CASE b.kind = "table" -> Table([s EXCEPT !.section = Trail(s.trail)], b)
      [] b.kind = "heading" -> LET f == FlushRun(s) IN [f EXCEPT !.trail = Pushed(f.trail, b.level, i)]
      [] OTHER -> [s EXCEPT !.buf = Append(@, Line(b.words)), !.page = IF @ = NoPage THEN b.page ELSE @]

Take ==
    /\ phase = "chunk" /\ method \in {"heading", "table_qa"} /\ at < Len(blocks)
    /\ at' = at + 1
    /\ work' = IF method = "heading" THEN ByHeading(work, blocks[at + 1], at + 1)
               ELSE ByTable(work, blocks[at + 1], at + 1)
    /\ UNCHANGED <<shape, scanned, method, blocks, phase>>

LastFlush ==
    /\ phase = "chunk" /\ method \in {"heading", "table_qa"} /\ at = Len(blocks)
    /\ work' = IF method = "heading" THEN Flush(work, FALSE) ELSE FlushRun(work)
    /\ phase' = "done"
    /\ UNCHANGED <<shape, scanned, method, blocks, at>>

\* strip: no space or break at either end.
Stripped(text) ==
    LET inner == {i \in DOMAIN text : text[i] > 0}
    IN  IF inner = {} THEN <<>>
        ELSE SubSeq(text, CHOOSE i \in inner : \A j \in inner : i <= j,
                          CHOOSE i \in inner : \A j \in inner : j <= i)

\* _chunk_fixed: windows of Target characters until one reaches the end; the
\* empty ones go after they were numbered.
Fixed ==
    LET text == Paragraphs([i \in DOMAIN blocks |-> Line(blocks[i].words)])
        step == IF Target > Overlap THEN Target - Overlap ELSE 1
        last == CHOOSE n \in 0..Len(text) : /\ n * step + Target >= Len(text)
                                            /\ \A m \in 0..(n - 1) : m * step + Target < Len(text)
        window(n) == SubSeq(text, n * step + 1, IF n * step + Target < Len(text) THEN n * step + Target
                                                ELSE Len(text))
        chunk(n) == [text |-> Stripped(window(n)), page |-> blocks[1].page, index |-> n, section |-> <<>>]
    IN  SelectSeq([n \in 1..(last + 1) |-> chunk(n - 1)], LAMBDA c : c.text # <<>>)

\* _chunk_by_page
Pages ==
    LET texts == [i \in DOMAIN blocks |-> Line(blocks[i].words)]
        of(p) == SelectSeq([i \in DOMAIN blocks |-> [page |-> blocks[i].page, text |-> texts[i]]],
                           LAMBDA b : b.page = p)
        onPage(p) == Paragraphs([i \in DOMAIN of(p) |-> of(p)[i].text])
        pages == SetToSortSeq({blocks[i].page : i \in DOMAIN blocks}, <)
    IN  [n \in DOMAIN pages |-> [text |-> onPage(pages[n]), page |-> pages[n], index |-> n - 1, section |-> <<>>]]

Whole ==
    /\ phase = "chunk" /\ method \in {"fixed", "page"}
    /\ work' = [work EXCEPT !.chunks = IF method = "fixed" THEN Fixed ELSE Pages]
    /\ phase' = "done"
    /\ UNCHANGED <<shape, scanned, method, blocks, at>>

Next == Parse \/ Take \/ LastFlush \/ Whole
Spec == Init /\ [][Next]_chunkingVars

-----------------------------------------------------------------------------
In(text) == {text[i] : i \in DOMAIN text} \ {Space, Break}
Of(b) == UNION {In(b.words[w]) : w \in DOMAIN b.words}
BlockOf(c) == CHOOSE i \in DOMAIN blocks : c \in Of(blocks[i])

\* The trail of headings above a block, the block itself included if it is one.
Above(i) ==
    Trail(FoldLeft(LAMBDA t, j : IF blocks[j].kind = "heading" THEN Pushed(t, blocks[j].level, j) ELSE t,
                   <<>>, [j \in 1..i |-> j]))

\* Whatever the method, the chunks of a document leave out no character of it
\* (table_qa keeps headings as sections), each in its order and under an index of its
\* own, on a page no later than its text; with the methods that
\* follow headings, all text of a chunk is under the chunk's section; and no
\* chunk but a table or an overlong word exceeds the target by more than the
\* overlap.  chunk_document.
ChunksCoverTheText ==
    phase = "done" =>
        LET cs == work.chunks
            kept == {i \in DOMAIN blocks : ~(method = "table_qa" /\ blocks[i].kind = "heading")}
            numbers(c) == SelectSeq(c.text, LAMBDA x : x > 0)
            tables == {i \in DOMAIN blocks : blocks[i].kind = "table"}
            words == UNION {ToSet(blocks[i].words) : i \in DOMAIN blocks}
        IN  /\ UNION {Of(blocks[i]) : i \in kept} = UNION {In(cs[k].text) : k \in DOMAIN cs}
            /\ \A k, l \in DOMAIN cs : k # l => cs[k].index # cs[l].index
            /\ \A k \in DOMAIN cs :
                  LET n == numbers(cs[k])
                  IN  /\ \A x, y \in DOMAIN n : x < y => n[x] < n[y]
                      /\ \A x \in DOMAIN n : cs[k].page <= blocks[BlockOf(n[x])].page
                      /\ method \in {"heading", "table_qa"} =>
                            \A x \in DOMAIN n : cs[k].section = Above(BlockOf(n[x]))
                      /\ method = "heading" /\ (\A w \in words : Len(w) <= Target)
                            /\ (\A i \in tables : In(cs[k].text) \intersect Of(blocks[i]) = {})
                            => Len(cs[k].text) <= Target + Overlap + 2
=============================================================================
