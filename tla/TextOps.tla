------------------------------ MODULE TextOps ------------------------------
(***************************************************************************)
(* What an update-mode operation does to the text of a file (update_mode/  *)
(* text_ops.py), and how /resolve looks for an anchor the text spells      *)
(* otherwise (resolver.py, token_anchor.py), as pure operators.            *)
(*                                                                         *)
(* A text is a sequence of lines and whether the last one lacks its        *)
(* newline; a line is a sequence of words, whatever space is between them. *)
(* A word is the hashes before it, the syllables after them and how it is  *)
(* written.  An anchor is found where its words are: that it may begin or   *)
(* end inside a word, and the case of headings, are left out.              *)
(***************************************************************************)
EXTENDS Integers, Sequences, SequencesExt, FiniteSetsExt

Word(hashes, name, form) == [hashes |-> hashes, name |-> name, form |-> form]
Form == {"plain",
         "mapped", \* a character CHAR_MAP replaces
         "split",  \* the last letter is a base and a combining mark
         "bare",   \* such a word without the mark
         "hyphen", \* ends with a hyphen
         "number"} \* digits only
Blank == <<>>
File(lines, open) == [lines |-> lines, open |-> open]

Ok(file) == [status |-> "ok", file |-> file]
Failed(status) == [status |-> status]

-----------------------------------------------------------------------------
(* Sections and lines. *)

\* To _append_after_section and to the search for a heading, a line that starts
\* with a hash is a heading: a tag is one too.  The end of a deleted section is
\* found more strictly: up to six hashes and a space.
Hashes(line) == IF line = Blank THEN 0 ELSE line[1].hashes
HeadingLevel(line) ==
  IF Hashes(line) \in 1 .. 6 /\ line[1].name = <<>> THEN Hashes(line) ELSE 0

HeadingText(line) ==
  IF line = Blank THEN Blank
  ELSE IF line[1].name = <<>> THEN Tail(line)
  ELSE <<[line[1] EXCEPT !.hashes = 0]>> \o Tail(line)

\* An anchor is a sequence of lines; a heading's has one.
HeadingsAt(lines, anchor) ==
  {i \in DOMAIN lines : /\ Hashes(lines[i]) > 0
                        /\ Len(anchor) = 1
                        /\ HeadingText(lines[i]) = HeadingText(anchor[1])}

\* Without the blank lines at both ends.
Stripped(lines) ==
  LET solid == {i \in DOMAIN lines : lines[i] # Blank}
  IN IF solid = {} THEN <<Blank>> ELSE SubSeq(lines, Min(solid), Max(solid))

\* The first line of S, or the one after the last.
FirstOr(S, lines) == IF S = {} THEN Len(lines) + 1 ELSE Min(S)

CollapseBlankLines(lines) ==
  LET kept == {i \in DOMAIN lines : i > 2 => \E j \in i - 2 .. i : lines[j] # Blank}
  IN [k \in 1 .. Cardinality(kept) |-> lines[SetToSortSeq(kept, <)[k]]]

WithoutLines(file, from, to) ==
  File(CollapseBlankLines(SubSeq(file.lines, 1, from - 1)
                            \o SubSeq(file.lines, to + 1, Len(file.lines))),
       file.open /\ to < Len(file.lines))

AppendToFile(file, content) ==
  LET from == SelectInSeq(content.lines, LAMBDA l : l # Blank)
      text == IF from = 0 THEN <<>> ELSE SubSeq(content.lines, from, Len(content.lines))
  IN File((IF file.lines = <<>> THEN <<>> ELSE Append(file.lines, Blank)) \o text,
          text # <<>> /\ content.open)

AppendAfterSection(file, anchor, content) ==
  LET lines == file.lines
      at == Min(HeadingsAt(lines, anchor))
      end == FirstOr({j \in at + 1 .. Len(lines) : Hashes(lines[j]) \in 1 .. Hashes(lines[at])},
                     lines)
      last == end > Len(lines)
      gap == IF last /\ file.open THEN <<>> ELSE <<Blank>>
  IN IF HeadingsAt(lines, anchor) = {} THEN Failed("anchor_not_found")
     ELSE Ok(File(SubSeq(lines, 1, end - 1) \o gap \o Stripped(content.lines)
                    \o SubSeq(lines, end, Len(lines)),
                  file.open /\ ~last))

DeleteSection(file, anchor) ==
  LET lines == file.lines
      found == HeadingsAt(lines, anchor)
      at == Min(found)
      end == FirstOr({j \in at + 1 .. Len(lines) : HeadingLevel(lines[j]) \in 1 .. HeadingLevel(lines[at])},
                     lines)
  IN IF Cardinality(found) > 1 THEN Failed("anchor_ambiguous")
     ELSE IF found = {} \/ HeadingLevel(lines[at]) = 0 THEN Failed("anchor_not_found")
     ELSE Ok(WithoutLines(file, at, Max({i \in at .. end - 1 : lines[i] # Blank})))

DeleteUniqueText(file, anchor) ==
  LET found == {i \in DOMAIN file.lines : anchor = <<file.lines[i]>>}
  IN CASE found = {} -> Failed("anchor_not_found")
       [] Cardinality(found) > 1 -> Failed("anchor_ambiguous")
       [] OTHER -> Ok(WithoutLines(file, Min(found), Min(found)))

-----------------------------------------------------------------------------
(* Words.  Where a word stands is the pair of its line and its place in it. *)

Words(lines) ==
  FlattenSeq([i \in DOMAIN lines |->
    [j \in DOMAIN lines[i] |-> [word |-> lines[i][j], at |-> <<i, j>>]]])

Between(lines, from, to) ==
  [k \in 1 .. to[1] - from[1] + 1 |->
     LET line == lines[from[1] + k - 1] IN
     SubSeq(line, IF k = 1 THEN from[2] ELSE 1,
                  IF from[1] + k - 1 = to[1] THEN to[2] ELSE Len(line))]

\* A word without its mark is also the beginning of the word.
Spells(anchored, word) ==
  anchored = word \/ (anchored.form = "bare" /\ [anchored EXCEPT !.form = "split"] = word)

\* Where the words of an anchor stand, and whether they stand there once, as
\* Python counts: without overlaps, from the left.
Matches(anchor, words) ==
  {i \in 1 .. Len(words) - Len(anchor) + 1 :
     \A k \in DOMAIN anchor : Spells(anchor[k], words[i + k - 1])}
IsUnique(S, length) == S # {} /\ \A i \in S : i < Min(S) + length

\* The content takes the place of the words; a mark that was left behind joins its
\* last letter.
Spliced(file, from, to, content, marked) ==
  LET lines == file.lines
      put == IF content.open THEN content.lines ELSE Append(content.lines, Blank)
      before == SubSeq(lines[from[1]], 1, from[2] - 1)
      after == SubSeq(lines[to[1]], to[2] + 1, Len(lines[to[1]]))
      mark(line) == IF marked /\ line # Blank
                    THEN Append(Front(line), [Last(line) EXCEPT !.name = Append(@, "mark")]) ELSE line
  IN File(SubSeq(lines, 1, from[1] - 1)
            \o [k \in DOMAIN put |-> (IF k = 1 THEN before ELSE <<>>)
                                     \o (IF k = Len(put) THEN mark(put[k]) \o after ELSE put[k])]
            \o SubSeq(lines, to[1] + 1, Len(lines)),
          file.open)

\* Words that are found twice, whatever the line breaks, may be unique with them.
ReplaceUniqueText(file, anchor, content) ==
  LET words == Words(file.lines)
      wanted == FlattenSeq(anchor)
      length == Len(wanted)
      plain == [i \in DOMAIN words |-> words[i].word]
      found == Matches(wanted, plain)
      from(i) == words[i].at
      to(i) == words[i + length - 1].at
      exact == {i \in found : /\ to(i)[1] - from(i)[1] + 1 = Len(anchor)
                              /\ \A k \in DOMAIN anchor :
                                   Len(Between(file.lines, from(i), to(i))[k]) = Len(anchor[k])}
      at == IF IsUnique(found, length) THEN Min(found) ELSE Min(exact)
      marked == Last(wanted) # plain[at + length - 1]
  IN IF ~IsUnique(found, length) /\ ~IsUnique(exact, length) THEN Failed("anchor_not_found")
     ELSE Ok(Spliced(file, from(at), to(at), content, marked))

ApplyOp(file, op) ==
  CASE op.kind = "append_to_file"       -> Ok(AppendToFile(file, op.content))
    [] op.kind = "append_after_section" -> AppendAfterSection(file, op.anchor, op.content)
    [] op.kind = "replace_unique_text"  -> ReplaceUniqueText(file, op.anchor, op.content)
    [] op.kind = "delete_section"       -> DeleteSection(file, op.anchor)
    [] op.kind = "delete_unique_text"   -> DeleteUniqueText(file, op.anchor)
    [] op.kind = "create_file"          -> Ok(AppendToFile(file, op.content))

-----------------------------------------------------------------------------
(* The text as the indexer, and so the language model, reads it. *)

Plain(word) ==
  IF word.form \in {"mapped", "split"} THEN [word EXCEPT !.form = "plain"] ELSE word

\* preprocess, and the map from each word of its result to the words it comes
\* from.  A line with a number only is dropped; a hyphen before a space or a
\* newline, be there blank lines too, joins the word with the next.
Normalised(lines) ==
  LET isNumber(i) == Len(lines[i]) = 1 /\ lines[i][1].form = "number"
      kept == SelectSeq(Words(lines), LAMBDA w : ~isNumber(w.at[1]))
      joins(done, w) == done # <<>> /\ Last(done).word.form = "hyphen" /\ w.word.hashes = 0
  IN FoldLeft(
       LAMBDA done, w :
         IF joins(done, w)
         THEN LET first == Last(done) IN
              Append(Front(done),
                     [first EXCEPT !.word.name = @ \o w.word.name,
                                   !.word.form = IF w.word.form = "hyphen" THEN @ ELSE "plain",
                                   !.to = w.at])
         ELSE Append(done, [word |-> Plain(w.word), from |-> w.at, to |-> w.at]),
       <<>>, kept)

\* The raw text from the first place the anchor is found to its end, all between
\* included.  Of a last letter in two parts the map knows the first.
RawFragment(lines, from, to) ==
  LET fragment == Between(lines, from, to)
      cut(word) == IF word.form = "split" THEN [word EXCEPT !.form = "bare"] ELSE word
  IN Append(Front(fragment), Append(Front(Last(fragment)), cut(Last(Last(fragment)))))

NotInText == <<>>
AnchorInRaw(anchor, lines) ==
  LET normal == Normalised(lines)
      wanted == FlattenSeq(anchor)
      found == Matches(wanted, [i \in DOMAIN normal |-> normal[i].word])
  IN IF found = {} THEN NotInText
     ELSE RawFragment(lines, normal[Min(found)].from, normal[Min(found) + Len(wanted) - 1].to)

FallbackOps == {"replace_unique_text", "delete_unique_text", "append_after_section", "delete_section"}

\* What /resolve tries, and what it proposes: the change keeps the anchor of the
\* intent also when another one was found for it.
Tried(file, op) ==
  LET direct == ApplyOp(file, op)
      fragment == AnchorInRaw(op.anchor, file.lines)
  IN IF direct.status = "anchor_not_found" /\ op.kind \in FallbackOps /\ fragment # NotInText
     THEN ApplyOp(file, [op EXCEPT !.anchor = fragment])
     ELSE direct
PendingChange(file, op) == [result |-> Tried(file, op), op |-> op]

\* _apply_vault: deletes first, then replacements, appends, creations.
OperationOrder(op) ==
  CASE op.kind \in {"delete_section", "delete_unique_text"} -> 0
    [] op.kind = "replace_unique_text" -> 1
    [] op.kind \in {"append_after_section", "append_to_file"} -> 2
    [] op.kind = "create_file" -> 3
ApplyOps(file, ops) ==
  LET place == SetToSortSeq(DOMAIN ops,
                 LAMBDA i, j : \/ OperationOrder(ops[i]) < OperationOrder(ops[j])
                               \/ OperationOrder(ops[i]) = OperationOrder(ops[j]) /\ i < j)
  IN FoldLeft(LAMBDA done, i : IF done.status = "ok" THEN ApplyOp(done.file, ops[i]) ELSE done,
              Ok(file), place)
=============================================================================
