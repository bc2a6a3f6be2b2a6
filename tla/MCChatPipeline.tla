--------------------------- MODULE MCChatPipeline ---------------------------
(* Instances of ChatPipeline for TLC. *)
EXTENDS ChatPipeline

\* A search, a validation step and beside it a step that sends whole documents,
\* and a search behind both.
Steps == {"find", "check", "more", "last"}
Kinds == [s \in Steps |-> CASE s = "check" -> "validation" [] s = "more" -> "full" [] OTHER -> "retrieval"]
Afters == [s \in Steps |-> CASE s = "find" -> {} [] s = "last" -> {"check", "more"} [] OTHER -> {"find"}]

\* A step's level is the length of the longest chain of steps that leads to it, and
\* a step is in no level exactly when such chains have no end: checked for every
\* graph of three steps.
Graphs3 == [1 .. 3 -> SUBSET (1 .. 3)]
ChainsTo(g, s) ==
  {c \in UNION {[1 .. n -> 1 .. 3] : n \in 1 .. 4} :
     c[Len(c)] = s /\ \A i \in 2 .. Len(c) : c[i - 1] \in g[c[i]]}
Longest(g, s) == CHOOSE n \in 1 .. 4 :
  /\ \E c \in ChainsTo(g, s) : Len(c) = n
  /\ \A c \in ChainsTo(g, s) : Len(c) <= n
ASSUME LevelsAreLongestChains ==
  \A g \in Graphs3, s \in 1 .. 3 :
    LET levels == LevelsOf(1 .. 3, g)
        longest == Longest(g, s)
    IN IF longest = 4 THEN \A i \in 0 .. 3 : s \notin levels[i]
       ELSE \A i \in 0 .. 3 : s \in levels[i] <=> i = longest - 1

Symmetry == Permutations(Req)
=============================================================================
