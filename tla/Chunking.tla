------------------------------ MODULE Chunking ------------------------------
(***************************************************************************)
(* How the indexer cuts a document into chunks and places them             *)
(* (parser/semantic_chunker.py, parser/preprocessing/pdf_page_merger.py,   *)
(* chunking_pipeline.py), as pure operators.  A text is a sequence of      *)
(* three kinds of characters: a space, a mark that may end a sentence, and *)
(* any other.  The sentences of a document are given, and so are the pairs *)
(* of neighbours whose embeddings are far apart.                           *)
(***************************************************************************)
EXTENDS Integers, Sequences, SequencesExt, FiniteSetsExt

CONSTANTS MaxChars,     \* MAX_CHUNK_CHARS
          Soft,         \* SOFT_THRESHOLD
          SearchWindow, \* SENTENCE_SEARCH_WINDOW
          MinSentences, \* MIN_CHUNK_SENTENCES
          WordLen       \* AVG_WORD_LEN_CHARS

ASSUME ChunkingAssumption ==
  MaxChars \in Nat \ {0} /\ Soft \in Nat /\ SearchWindow \in Nat /\ MinSentences \in Nat /\ WordLen \in Nat

Character == {" ", ".", "x"}
Sentence(text, heading) == [text |-> text, heading |-> heading]

-----------------------------------------------------------------------------
(* Cutting a text that is too long. *)

Strip(text) ==
  LET solid == {i \in DOMAIN text : text[i] # " "}
  IN IF solid = {} THEN <<>> ELSE SubSeq(text, Min(solid), Max(solid))

\* Where sentences end in the window.  The search sees nothing beyond the window,
\* so a mark that is its last character ends a sentence whatever follows it.
SentenceEnds(text) ==
  LET first == Max({0, Soft - SearchWindow}) + 1
      last == Min({MaxChars, Soft + SearchWindow})
  IN {i \in first .. last : text[i] = "." /\ (i = last \/ text[i + 1] = " ")}

\* The last sentence's end, or before the last space, or in the middle of a word.
SplitAt(text) ==
  LET spaces == {i \in 1 .. MaxChars : text[i] = " "}
  IN IF SentenceEnds(text) # {} THEN Max(SentenceEnds(text))
     ELSE IF spaces # {} THEN Max(spaces) - 1
     ELSE MaxChars

RECURSIVE SoftSplit(_)
SoftSplit(text) ==
  IF Len(text) <= MaxChars THEN <<text>>
  ELSE LET at == SplitAt(text)
           rest == Strip(SubSeq(text, at + 1, Len(text)))
       IN <<Strip(SubSeq(text, 1, at))>> \o (IF rest = <<>> THEN <<>> ELSE SoftSplit(rest))

-----------------------------------------------------------------------------
(* From sentences to chunks. *)

\* A block ends where the next sentence is far, is a heading, or does not exist.
RawBlocks(sentences, far) ==
  LET n == Len(sentences)
      ends == {i \in 1 .. n : i = n \/ i \in far \/ sentences[i + 1].heading}
      end == SetToSortSeq(ends, <)
  IN [b \in DOMAIN end |-> SubSeq(sentences, IF b = 1 THEN 1 ELSE end[b - 1] + 1, end[b])]

\* Blocks that do not open a chunk join the one before.
Joined(blocks, Opens(_)) ==
  FoldLeft(LAMBDA done, b : IF done = <<>> \/ Opens(b) THEN Append(done, b)
                            ELSE Append(Front(done), Last(done) \o b),
           <<>>, blocks)
ApplyHeadingGuard(blocks) == Joined(blocks, LAMBDA b : b[1].heading)
ApplyMinGuard(blocks) == Joined(blocks, LAMBDA b : Len(b) >= MinSentences)

Text(block) ==
  FoldLeft(LAMBDA t, s : IF t = <<>> THEN s.text ELSE t \o <<" ">> \o s.text, <<>>, block)

Split(sentences, far) ==
  LET raw == RawBlocks(sentences, far)
      blocks == IF \E i \in DOMAIN sentences : sentences[i].heading
                THEN ApplyHeadingGuard(raw) ELSE ApplyMinGuard(raw)
      whole == [b \in DOMAIN blocks |-> Strip(Text(blocks[b]))]
      kept == SelectSeq(whole, LAMBDA t : t # <<>>)
  IN IF Len(sentences) = 1 THEN SoftSplit(sentences[1].text)
     ELSE FlattenSeq([c \in DOMAIN kept |-> SoftSplit(kept[c])])

-----------------------------------------------------------------------------
(* Where a chunk comes from. *)

Words(text) ==
  Cardinality({i \in DOMAIN text : text[i] # " " /\ (i = 1 \/ text[i - 1] = " ")})

\* Each chunk's first word and the one after its last, counted through the document.
ChunkRecords(chunks) ==
  LET before == [c \in 0 .. Len(chunks) |->
                   FoldLeft(LAMBDA n, t : n + Words(t), 0, SubSeq(chunks, 1, c))]
  IN [c \in DOMAIN chunks |->
        [text |-> chunks[c], wordStart |-> before[c - 1], wordEnd |-> before[c]]]

\* The lines that open, or that close, three of five pages: unless they read like a
\* real heading, they are dropped wherever they stand.
HeadersFooters(pages, realHeaders) ==
  LET full == {p \in DOMAIN pages : pages[p] # <<>>}
      often(At(_), l) == 10 * Cardinality({p \in full : At(pages[p]) = l}) >= 6 * Len(pages)
  IN IF Len(pages) < 3 THEN {}
     ELSE {l \in UNION {ToSet(pages[p]) : p \in full} :
             l \notin realHeaders /\ (often(Head, l) \/ often(Last, l))}
StripHeadersFooters(page, lines) == SelectSeq(page, LAMBDA l : l \notin lines)

\* A page is its marker, its headings and its text; the offsets are where pages begin
\* in the merged text.  A page is given by the length of each of the three.
PageOffsets(pages) ==
  [p \in DOMAIN pages |->
     FoldLeft(LAMBDA n, q : n + q.marker + q.headings + q.text, 0, SubSeq(pages, 1, p - 1))]

\* bisect_right(offsets, offset) - 1, and the first page for what is before them all.
PageNumberForOffset(offsets, offset) ==
  LET begun == {p \in DOMAIN offsets : offsets[p] <= offset}
  IN Max(begun \cup {1})

\* The position is guessed from the number of words, six characters each.
PageOf(record, offsets) == PageNumberForOffset(offsets, record.wordStart * WordLen)
=============================================================================
