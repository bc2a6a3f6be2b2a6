--------------------------- MODULE MCIndexerApply ---------------------------
(***************************************************************************)
(* Small instances of IndexerApply.                                        *)
(*   One: a single apply, sent three times, that replaces and appends in an *)
(*        existing file (changes 0, 1) and creates another (change 2).      *)
(*   Two: two applies, of two chats, on one vault; both replace text in the *)
(*        same file, the first also appends to a second one.                *)
(* The operators of TextOps are compared with what they promise on all      *)
(* small texts.                                                             *)
(***************************************************************************)
EXTENDS IndexerApply, TextOps, TLC

CONSTANTS r1, r2, r3, a1, a2, v1, v2, f1, f2, e1, e2

Triple     == [r \in {r1, r2, r3} |-> a1]
AnyOrder3  == Permutations({r1, r2, r3})
OneVault   == [f \in {f1, f2} |-> v1]

OneOps     == 0..2
OneOpApply == [o \in OneOps |-> a1]
OneOpFile  == [o \in OneOps |-> IF o = 2 THEN f2 ELSE f1]
OneRank    == [o \in OneOps |-> <<1, 2, 3>>[o + 1]]
EditBreaks == {<<e2, 0>>}
EditEach   == [e \in {e1, e2} |-> f1]

ChatsAndRetry == [r \in {r1, r2, r3} |-> IF r = r2 THEN a2 ELSE a1]
TwoOps     == 0..2
TwoOpApply == [o \in TwoOps |-> IF o < 2 THEN a1 ELSE a2]
TwoOpFile  == [o \in TwoOps |-> IF o = 1 THEN f2 ELSE f1]
TwoRank    == [o \in TwoOps |-> IF o = 1 THEN 2 ELSE 1]
TwoBreaks  == {<<0, 0>>, <<2, 2>>}
NoEdit     == [e \in {} |-> f1]

-----------------------------------------------------------------------------
Upto(S, n) == UNION {[1 .. k -> S] : k \in 0 .. n}
A == Word(0, <<"a">>, "plain")
B == Word(0, <<"b">>, "plain")
Mark(level) == Word(level, <<>>, "plain")
Tag == <<Word(1, <<"a">>, "plain")>>
Headings == {<<Mark(1), A>>, <<Mark(2), A>>, <<Mark(1), B>>, <<Mark(2), B>>}
Outlines == {File(lines, open) : lines \in Upto(Headings \union {Blank, <<A>>}, 4), open \in {FALSE}}
              \union {File(lines, TRUE) : lines \in Upto(Headings \union {<<A>>}, 3) \ {<<>>}}
NewText == File(<<<<Word(0, <<"new">>, "plain")>>>>, TRUE)
Op(kind, anchor, content) == [kind |-> kind, anchor |-> anchor, content |-> content]
Solid(lines) == SelectSeq(lines, LAMBDA l : l # Blank)

\* The lines under a heading: up to the next that is no deeper.
Section(lines, at) ==
  {i \in at .. Len(lines) : \A j \in at + 1 .. i : Hashes(lines[j]) \notin 1 .. Hashes(lines[at])}

\* What is appended to a section goes where its deletion takes it again: deleting
\* the section gives the same lines before and after.
ASSUME AppendedIsInTheSection ==
  \A file \in Outlines : \A heading \in {<<<<A>>>>, <<<<Mark(2), B>>>>} :
    LET appended == AppendAfterSection(file, heading, NewText)
        with == DeleteSection(appended.file, heading)
        without == DeleteSection(file, heading) IN
    /\ (appended.status = "ok") = (HeadingsAt(file.lines, heading) # {})
    /\ without.status = "ok" => /\ appended.status = "ok"
                                 /\ with.status = "ok"
                                 /\ Solid(with.file.lines) = Solid(without.file.lines)

\* A tag between the heading and the end makes the two disagree: what is appended
\* goes before the tag, the deletion takes the tag and what follows.
ASSUME TagEndsNoSection ==
  LET text(lines) == File(<<<<Mark(1), B>>>> \o lines, FALSE)
      tagged == text(<<Tag, <<A>>>>)
      appended == AppendAfterSection(tagged, <<<<B>>>>, NewText) IN
  /\ appended.file.lines = text(<<Blank>> \o NewText.lines \o <<Tag, <<A>>>>).lines
  /\ DeleteSection(tagged, <<<<B>>>>).file.lines = <<>>
  /\ DeleteSection(tagged, <<<<A>>>>).status = "anchor_not_found"

\* A deletion takes one section, or one line, and nothing else but blank lines.
ASSUME DeletionKeepsTheRest ==
  \A file \in Outlines : \A anchor \in {<<<<A>>>>, <<<<Mark(2), B>>>>} :
    LET lines == file.lines
        section == DeleteSection(file, anchor)
        line == DeleteUniqueText(file, anchor)
        kept(gone) == Solid([i \in DOMAIN lines |-> IF i \in gone THEN Blank ELSE lines[i]]) IN
    /\ section.status = "ok" =>
         Solid(section.file.lines) = kept(Section(lines, CHOOSE i \in HeadingsAt(lines, anchor) : TRUE))
    /\ line.status = "ok" =>
         Solid(line.file.lines) = kept({i \in DOMAIN lines : lines[i] = anchor[1]})

-----------------------------------------------------------------------------
Accented == <<Word(0, <<"b">>, "split")>>
Spelling == {<<A>>, <<B, A>>, <<Word(0, <<"a">>, "mapped"), B>>, <<Word(0, <<"c">>, "hyphen")>>,
             <<Word(0, <<"7">>, "number")>>, Accented, Blank}
Spelt == {File(lines, FALSE) : lines \in Upto(Spelling, 4) \ {<<>>}}
Read(lines) == LET normal == Normalised(lines) IN [i \in DOMAIN normal |-> normal[i].word]
SomeOf(seq) == {SubSeq(seq, i, j) : i, j \in DOMAIN seq} \ {<<>>}
Changed(words, anchor, at) ==
  SubSeq(words, 1, at - 1) \o NewText.lines[1] \o SubSeq(words, at + Len(anchor), Len(words))

\* Wherever the words stand in the file, a word the language model read begins.
BeginsWords(wanted, lines) ==
  LET words == Words(lines)
      found == Matches(wanted, [i \in DOMAIN words |-> words[i].word])
  IN {words[i].at : i \in found} \subseteq {w.from : w \in ToSet(Normalised(lines))}

\* A replacement changes, in what the language model reads, the one place it asked
\* for, or the first of several if that is spelt as no other, unless it ends in a
\* letter of two parts or its words begin somewhere in the middle of a hyphenated word.
ASSUME ReplacementIsWhatWasRead ==
  \A file \in Spelt : LET read == Read(file.lines) IN
    \A anchor \in SomeOf(read) :
      LET tried == Tried(file, Op("replace_unique_text", <<anchor>>, NewText)) IN
      /\ tried.status = "ok"
      /\ Accented \notin ToSet(file.lines)
      /\ BeginsWords(anchor, file.lines)
      /\ BeginsWords(FlattenSeq(AnchorInRaw(<<anchor>>, file.lines)), file.lines)
      =>
        \E at \in Matches(anchor, read) :
          Read(tried.file.lines) = Changed(read, anchor, at)

\* Those two are real: the mark stays and changes the new text; the half of a word
\* is replaced, since it is the only place where the anchor is spelt as it was read.
\* And of two places one is replaced, which the intent did not tell apart.
ASSUME ReplacementThatWasNotRead ==
  LET anchor == <<<<Word(0, <<"b">>, "plain")>>>>
      op == Op("replace_unique_text", anchor, NewText)
      marked == Tried(File(<<Accented>>, FALSE), op)
      halved == Tried(File(<<<<Word(0, <<"c">>, "hyphen")>>, <<B>>, Accented>>, FALSE), op)
      again == Tried(File(<<<<Word(0, <<"a">>, "mapped"), B>>, <<A>>, <<A>>>>, FALSE),
                     Op("replace_unique_text", <<<<A>>>>, NewText)) IN
  /\ Read(marked.file.lines) = <<Word(0, <<"new", "mark">>, "plain")>>
  /\ Read(halved.file.lines) = <<Word(0, <<"c", "new">>, "plain"), B>>
  /\ Read(again.file.lines) = NewText.lines[1] \o <<B, A, A>>

\* What was reviewed is what apply makes of the reviewed text, unless the anchor was
\* found by its fragment: then apply, which looks for the anchor, does not find it.
ASSUME ReviewedIsApplied ==
  \A file \in Spelt : \A anchor \in SomeOf(Read(file.lines)) : \A kind \in FallbackOps :
    LET pending == PendingChange(file, Op(kind, <<anchor>>, NewText))
        applied == ApplyOps(file, <<pending.op>>) IN
    pending.result.status = "ok" =>
      IF ApplyOp(file, pending.op).status = "ok" THEN applied = pending.result
      ELSE applied.status = "anchor_not_found"

\* Two changes of one text, each of which can be applied, can be applied together in
\* the order of the operations unless one takes the other's anchor: and an append
\* takes none.
ASSUME AppendsGoLast ==
  \A file \in Outlines : \A anchor \in {<<<<A>>>>, <<<<Mark(2), B>>>>} :
    LET append == Op("append_to_file", <<>>, NewText)
        delete == Op("delete_section", anchor, NewText) IN
    ApplyOps(file, <<append, delete>>) = ApplyOps(file, <<delete, append>>)
=============================================================================
