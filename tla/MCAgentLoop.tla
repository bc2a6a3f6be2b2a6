----------------------------- MODULE MCAgentLoop -----------------------------
(* Instances of AgentLoop for TLC. *)
EXTENDS AgentLoop

\* Two vaults, a tag for each document.
Docs == {"a", "b"}
Vaults == <<"v1", "v2">>
LabelledDocs == [t \in {"t1", "t2"} |-> IF t = "t1" THEN {"a"} ELSE {"b"}]
VaultOfDoc == [d \in Docs |-> IF d = "b" THEN "v2" ELSE "v1"]
SimilarDocs ==
  [q \in {"q1", "q2"} |-> [d \in Docs |-> IF q = "q1" /\ d = "b" THEN 300000 ELSE 900000]]
SimilarPlace == [q \in {"q1", "q2"} |-> [d \in Docs |-> IF d = "a" THEN 1 ELSE 2]]
MentionedDocs == [q \in {"q1", "q2"} |-> IF q = "q1" THEN <<"b", "a">> ELSE <<>>]
Sizes == [d \in Docs |-> IF d = "b" THEN 3 ELSE 2]

-----------------------------------------------------------------------------
(* The pure parts of a search against what they are for, on all small inputs. *)

Rankings == {s \in UNION {[1 .. n -> 1 .. 3] : n \in 0 .. 3} : IsInjective(s)}
Hits(s) == [i \in DOMAIN s |-> Hit(s[i], Scale - i)]
Ahead(s, d, e) ==
  /\ \E i \in DOMAIN s : s[i] = d
  /\ \A i, j \in DOMAIN s : s[i] = d /\ s[j] = e => i < j

\* What both searches rank ahead, the fusion ranks ahead, and it loses nothing.
ASSUME FusionAgrees ==
  \A v, t \in Rankings :
    LET fused == RrfMerge(Hits(v), Hits(t), 6)
        docs == [i \in DOMAIN fused |-> fused[i].doc]
    IN /\ Range(docs) = Range(v) \cup Range(t) /\ IsInjective(docs)
       /\ \A d, e \in Range(docs) : d # e /\ Ahead(v, d, e) /\ Ahead(t, d, e) => Ahead(docs, d, e)

\* A cut is a prefix that fits the budget, or one hit, and one more would not fit.
ASSUME CutFits ==
  \A s \in {r \in UNION {[1 .. n -> Docs] : n \in 0 .. 2} : IsInjective(r)}, budget \in 1 .. 6 :
    LET hits == Hits(s)
        cut == TruncateToBudget(hits, budget)
    IN /\ cut = SubSeq(hits, 1, Len(cut))
       /\ Len(cut) <= 1 \/ Tokens(cut) <= budget
       /\ cut = hits \/ (cut # <<>> /\ Tokens(SubSeq(hits, 1, Len(cut) + 1)) > budget)
=============================================================================
