----------------------------- MODULE TokenWindow -----------------------------
(***************************************************************************)
(* How the sidecar's drift model is kept within its context window         *)
(* (pdf-sidecar/drift.py), as pure operators.  A prompt is a system prompt *)
(* and lines of a user prompt; a line is its number of tokens with a label, *)
(* and joining lines adds nothing.  A text that is cut ends in a marker,   *)
(* which is not counted when it is cut.                                    *)
(***************************************************************************)
EXTENDS Integers, Sequences, SequencesExt, FiniteSetsExt

CONSTANTS NCtx,       \* the model's window
          MaxOutput,  \* max_output_tokens of both routes
          Margin,     \* safety_margin
          Marker,     \* tokens of a "truncated" marker
          System,     \* tokens of the system prompt
          Header,     \* tokens of the line "## NEW MESSAGES:"
          Reply       \* tokens of the summary the model returns

ASSUME WindowAssumption ==
  {NCtx, MaxOutput, Margin, Marker, System, Header, Reply} \subseteq Nat
  /\ 2 * Marker <= Margin

\* The label of a message is its number; the summary and the title have their own.
SoFar == -1
Title == 0
Line(label, tokens) == [label |-> label, tokens |-> tokens]
TokensOf(lines) == FoldSeq(LAMBDA l, n : l.tokens + n, 0, lines)

EffectiveMaxOutput == Min({MaxOutput, NCtx \div 2})
Available(margin) == Max({0, NCtx - EffectiveMaxOutput - margin})

\* The binary search for the longest prefix that fits: chars characters, of which a
\* token takes perToken.  The result is the prefix's length.
RECURSIVE LongestFit(_, _, _, _)
LongestFit(lo, hi, perToken, room) ==
  LET mid == (lo + hi + 1) \div 2
      tokens == (mid + perToken - 1) \div perToken
  IN IF lo >= hi THEN lo
     ELSE IF tokens <= room THEN LongestFit(mid, hi, perToken, room)
     ELSE LongestFit(lo, mid - 1, perToken, room)

\* _fit_text_to_budget, for which it does not matter how a token is spelt.
FitTokens(tokens, room) ==
  IF tokens <= room THEN tokens ELSE LongestFit(0, tokens, 1, room) + Marker

\* _run_within_budget: the lines and the system prompt that go to the model.  Lines are
\* dropped from the head; when not even the last one fits both are cut.
Kept(lines) ==
  LET fits == {n \in 0 .. Len(lines) :
                 \A k \in 1 .. n :
                   System + TokensOf(SubSeq(lines, Len(lines) - k + 1, Len(lines))) <= Available(Margin)}
  IN SubSeq(lines, Len(lines) - Max(fits) + 1, Len(lines))

Prompt(lines) ==
  LET system == FitTokens(System, Available(Margin))
      line == Last(lines)
  IN IF System + TokensOf(lines) <= Available(Margin) THEN [system |-> System, lines |-> lines]
     ELSE IF Kept(lines) # <<>> THEN [system |-> System, lines |-> Kept(lines)]
     ELSE [system |-> system,
           lines |-> <<Line(line.label, FitTokens(line.tokens, Available(Margin + system)))>>]

-----------------------------------------------------------------------------
(* /drift/summarize: the messages are added to the summary from the last to the first, *)
(* as many at a time as fit beside the summary so far.                                *)

\* What _summarize_once sends: the summary, a header, the messages.
SummaryLines(prev, chunk) ==
  (IF prev = 0 THEN <<>> ELSE <<Line(SoFar, prev)>>) \o <<Line(Title, Header)>> \o chunk

Room(prev) == Max({1, Available(Margin) - prev})

\* The longest end of the pending messages that fits; a message that does not is cut.
NextChunk(pending, prev) ==
  LET fits == {n \in 0 .. Len(pending) :
                 TokensOf(SubSeq(pending, Len(pending) - n + 1, Len(pending))) <= Room(prev)}
      biggest == Last(pending)
  IN IF Max(fits) > 0 THEN SubSeq(pending, Len(pending) - Max(fits) + 1, Len(pending))
     ELSE <<Line(biggest.label, FitTokens(biggest.tokens, Available(Margin + prev)))>>

\* The prompts of one call, in order.
RECURSIVE SummarizeChunked(_, _)
SummarizeChunked(pending, prev) ==
  IF pending = <<>> THEN <<>>
  ELSE LET chunk == NextChunk(pending, prev)
           rest == SubSeq(pending, 1, Len(pending) - Len(chunk))
       IN <<Prompt(SummaryLines(prev, chunk))>> \o SummarizeChunked(rest, Reply)
=============================================================================
