---------------------------- MODULE MCVaultIndex ----------------------------
(***************************************************************************)
(* Small instances of VaultIndex: up to two files, texts of two, one and   *)
(* no chunks.  The operators of Chunking, which cut one text into chunks,  *)
(* are compared with what they promise on all small documents.             *)
(***************************************************************************)
EXTENDS VaultIndex, Chunking, TLC

CONSTANTS f1, f2, d1, d2, k1, k2

Shrinking  == <<2, 1, 1>>
Emptied    == <<1, 0>>
Users      == {[forced |-> FALSE, only |-> {}]}
\* After an apply.  Nothing in it differs from a forced task: that works on
\* unchanged files too, as a task after Touch does.
Applier    == {[forced |-> FALSE, only |-> {f1}]}

-----------------------------------------------------------------------------
Upto(S, n) == UNION {[1 .. k -> S] : k \in 0 .. n}
AllTexts == {t \in Upto(Character, 2 * MaxChars) : t = Strip(t)}
Sentences == {Sentence(<<"x">>, TRUE), Sentence(<<"x", "x", ".">>, FALSE),
              Sentence(<<"x", " ", ".">>, FALSE), Sentence([i \in 1 .. MaxChars + 2 |-> "x"], FALSE)}
Documents == Upto(Sentences, 4)
Solid(text) == SelectSeq(text, LAMBDA c : c # " ")

\* A piece is never empty or too long, and the pieces hold the text.
ASSUME PiecesFit ==
  \A t \in AllTexts \ {<<>>} :
    LET pieces == SoftSplit(t) IN
    /\ \A p \in Range(pieces) : Len(p) \in 1 .. MaxChars /\ p = Strip(p)
    /\ Solid(FlattenSeq(pieces)) = Solid(t)

\* Nor do the chunks of a document, whose words are counted without a gap.
ASSUME ChunksHoldTheDocument ==
  \A doc \in Documents : \A far \in SUBSET (1 .. Len(doc) - 1) :
    LET cut == Split(doc, far)
        records == ChunkRecords(cut) IN
    /\ Solid(FlattenSeq(cut)) = Solid(FlattenSeq([i \in DOMAIN doc |-> doc[i].text]))
    /\ \A c \in DOMAIN cut : Len(cut[c]) \in 1 .. MaxChars
    /\ \A c \in DOMAIN records :
         /\ records[c].wordStart < records[c].wordEnd
         /\ c > 1 => records[c].wordStart = records[c - 1].wordEnd

\* With headings a chunk before the last cut is one section, whatever the embeddings
\* say: from a heading to the next.  Without, only the first may be too short.
ASSUME SectionsAreChunks ==
  \A doc \in Documents \ {<<>>} : \A far \in SUBSET (1 .. Len(doc) - 1) :
    LET blocks == ApplyHeadingGuard(RawBlocks(doc, far))
        short == ApplyMinGuard(RawBlocks(doc, far)) IN
    /\ FlattenSeq(blocks) = doc /\ FlattenSeq(short) = doc
    /\ \A b \in DOMAIN blocks, i \in 1 .. Len(doc) :
         i \in DOMAIN blocks[b] /\ blocks[b][i].heading => i = 1
    /\ \A b \in DOMAIN blocks : b > 1 => blocks[b][1].heading
    /\ \A b \in DOMAIN short : b > 1 => Len(short[b]) >= MinSentences

\* A position is on the page whose part of the merged text holds it.
ASSUME PagesAreFound ==
  \A pages \in Upto([marker : {1}, headings : 0 .. 1, text : 0 .. 2], 3) \ {<<>>} :
    LET offsets == PageOffsets(pages)
        size(p) == pages[p].marker + pages[p].headings + pages[p].text IN
    \A p \in DOMAIN pages : \A o \in offsets[p] .. offsets[p] + size(p) - 1 :
      PageNumberForOffset(offsets, o) = p

\* What is dropped as a running head stays in no page, and nothing else goes.
ASSUME HeadsAreDropped ==
  \A pages \in Upto(Upto({"head", "text", "chapter"}, 2), 3) :
    LET heads == HeadersFooters(pages, {"chapter"}) IN
    /\ "chapter" \notin heads /\ (Len(pages) < 3 => heads = {})
    /\ \A p \in DOMAIN pages :
         Range(StripHeadersFooters(pages[p], heads)) = Range(pages[p]) \ heads
=============================================================================
