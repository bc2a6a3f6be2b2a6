--------------------------- MODULE MCContextDrift ---------------------------
(***************************************************************************)
(* Instances of ContextDrift for TLC.  The operators of TokenWindow, which *)
(* keep the prompts of the sidecar's model within its window, are compared *)
(* with what they promise for all short chats.                             *)
(***************************************************************************)
EXTENDS ContextDrift, TokenWindow

\* A fault beside two tasks, or beside a task and a request; without one, a second draft
\* of other hints that takes the place of the first beside a request, or two requests.
TasksOrDrafts ==
  {[tasks |-> 2, requests |-> 0, drafts |-> 1, faults |-> 1, hints |-> {"h1"}],
   [tasks |-> 1, requests |-> 1, drafts |-> 1, faults |-> 1, hints |-> {"h1"}],
   [tasks |-> 2, requests |-> 1, drafts |-> 2, faults |-> 0, hints |-> Hint],
   [tasks |-> 1, requests |-> 2, drafts |-> 1, faults |-> 0, hints |-> {"h1"}]}

Chats == UNION {[1 .. n -> {1, 3, 6, 9}] : n \in 0 .. 4}
Messages(chat) == [i \in DOMAIN chat |-> Line(i, chat[i])]
Prompts(chat, before) == SummarizeChunked(Messages(chat), before)
Labels(sent) == {l.label : l \in ToSet(sent.lines)}
Taken(sent) == Labels(sent) \ {SoFar, Title}

\* The binary search finds the longest prefix that fits, and not more.
ASSUME LongestFitIsLongest ==
  \A chars \in 0 .. 12, perToken \in 1 .. 3, room \in 0 .. 6 :
    LET n == LongestFit(0, chars, perToken, room) IN
    n <= perToken * room /\ (n = chars \/ n + 1 > perToken * room)

\* However long the messages and the summary are, no prompt and its answer exceed the
\* window.
ASSUME PromptsFit ==
  \A chat \in Chats, before \in 0 .. 9 :
    \A sent \in ToSet(Prompts(chat, before)) :
      sent.system + TokensOf(sent.lines) + EffectiveMaxOutput <= NCtx

\* The newest message is read first and every prompt reads on from the one before,
\* towards the oldest: none reads nothing, and no message is read twice.
ASSUME ReadsBackwards ==
  \A chat \in Chats \ {<<>>}, before \in 0 .. 9 :
    LET sent == Prompts(chat, before) IN
    /\ Len(chat) \in Taken(sent[1])
    /\ \A i \in DOMAIN sent : Taken(sent[i]) # {}
    /\ \A i, j \in DOMAIN sent : i < j => \A m \in Taken(sent[i]), k \in Taken(sent[j]) : m > k

\* The room for messages does not count the system prompt, so the prompt is too long
\* and loses its head: the summary so far, and sometimes the oldest messages.
ASSUME HeadIsLost ==
  /\ \E chat \in Chats \ {<<>>}, before \in 1 .. 4 : SoFar \notin Labels(Prompts(chat, before)[1])
  /\ \E chat \in Chats :
       DOMAIN chat # UNION {Taken(sent) : sent \in ToSet(Prompts(chat, 0))}
=============================================================================
