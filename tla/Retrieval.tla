------------------------------ MODULE Retrieval ------------------------------
(***************************************************************************)
(* What a search in the vaults returns (services/retrieval.py,             *)
(* services/search_knowledge_service.py): the documents a campaign's tags  *)
(* allow, the two searches of a vault and their fusion, the merge over     *)
(* vaults and queries, and the cut to the token budget.  A document has    *)
(* one chunk; a score, a float in the code, is an integer out of Scale.    *)
(***************************************************************************)
EXTENDS Naturals, Sequences, FiniteSets, SequencesExt, FiniteSetsExt

CONSTANTS Doc,      \* documents of the domain
          Tag,      \* tags a campaign may have
          Vault,    \* the vaults, in the order they are searched
          Query,    \* search queries
          Labelled, \* the documents of each tag
          VaultOf,  \* the vault of each document
          Similar,  \* cosine of each query and document, out of Scale
          Place,    \* the store's order of a query's equally similar documents
          Mentions, \* the documents a full text search of a query finds, best first
          Size,     \* tokens of each document's chunk
          TopK      \* retrieval.top_k

Scale == 1000000
Overfetch == 10

ASSUME RetrievalAssumption ==
  /\ IsFiniteSet(Doc) /\ TopK \in Nat \ {0} /\ Vault \in Seq(Range(Vault))
  /\ Labelled \in [Tag -> SUBSET Doc] /\ VaultOf \in [Doc -> Range(Vault)]
  /\ Similar \in [Query -> [Doc -> 0 .. Scale]]
  /\ Place \in [Query -> [Doc -> Nat]] /\ \A q \in Query : IsInjective(Place[q])
  /\ Mentions \in [Query -> Seq(Doc)] /\ Size \in [Doc -> Nat]

-----------------------------------------------------------------------------
\* document_ids: None is no filter, a list (an empty one too) is a filter.
NoFilter == [on |-> FALSE, docs |-> {}]
Only(docs) == [on |-> TRUE, docs |-> docs]
Passes(ids, d) == ids.on => d \in ids.docs

DocumentIdsByTags(tags, indexed) == {d \in indexed : \E t \in tags : d \in Labelled[t]}

Hit(d, score) == [doc |-> d, score |-> score]
DocsOf(hits) == {hits[i].doc : i \in DOMAIN hits}
Top(s, k) == SubSeq(s, 1, IF Len(s) < k THEN Len(s) ELSE k)

\* A finite set in an order, and the elements of a sequence that are in a set.  (The
\* provers have no definition of SortSeq and SelectSeq.)
Ordered(S, Before(_, _)) ==
  CHOOSE s \in [1 .. Cardinality(S) -> S] : \A i, j \in DOMAIN s : i < j => Before(s[i], s[j])
Among(s, S) ==
  LET among[n \in 0 .. Len(s)] ==
        IF n = 0 THEN <<>>
        ELSE IF s[n] \in S THEN Append(among[n - 1], s[n]) ELSE among[n - 1]
  IN among[Len(s)]

\* sorted(..., reverse=True): by score, equal ones in the order they had.
ByScore(hits) ==
  LET placed == {[hit |-> hits[i], at |-> i] : i \in DOMAIN hits}
      Before(a, b) == a.hit.score > b.hit.score \/ (a.hit.score = b.hit.score /\ a.at < b.at)
      order == Ordered(placed, Before)
  IN [n \in DOMAIN order |-> order[n].hit]

\* Both searches are cut before they are filtered: the vector search, by the store,
\* to ten times as many hits as it returns, the text search, by its caller, to as many.
VectorSearch(q, v, ids, stored) ==
  LET found == {d \in stored : VaultOf[d] = v}
      Before(d, e) == \/ Similar[q][d] > Similar[q][e]
                      \/ Similar[q][d] = Similar[q][e] /\ Place[q][d] < Place[q][e]
      ranked == Ordered(found, Before)
      fetched == Top(ranked, IF ids.on THEN Overfetch * TopK ELSE TopK)
      kept == Top(Among(fetched, {d \in stored : Passes(ids, d)}), TopK)
  IN [i \in DOMAIN kept |-> Hit(kept[i], Similar[q][kept[i]])]

TextSearch(q, v, ids, stored) ==
  LET found == Top(Among(Mentions[q], {d \in stored : VaultOf[d] = v}), TopK)
      kept == Among(found, {d \in stored : Passes(ids, d)})
  IN [i \in DOMAIN kept |-> Hit(kept[i], Scale)]

\* Reciprocal rank fusion; the vector's hits come first among equals.
Share(hits, d) ==
  LET share[n \in 0 .. Len(hits)] ==
        IF n = 0 THEN 0
        ELSE share[n - 1] + (IF hits[n].doc = d THEN Scale \div (60 + n) ELSE 0)
  IN share[Len(hits)]
RrfMerge(vector, text, k) ==
  LET all == vector \o Among(text, {h \in Range(text) : h.doc \notin DocsOf(vector)})
      scored == [i \in DOMAIN all |->
                   Hit(all[i].doc, Share(vector, all[i].doc) + Share(text, all[i].doc))]
  IN Top(ByScore(scored), k)

\* textUp: the text search answers; when it fails the vector's hits stand alone.
Retrieve(q, v, ids, stored, textUp) ==
  LET vector == VectorSearch(q, v, ids, stored)
      text == IF textUp THEN TextSearch(q, v, ids, stored) ELSE <<>>
  IN IF ids.on /\ ids.docs = {} THEN <<>>
     ELSE IF text = <<>> THEN vector ELSE RrfMerge(vector, text, TopK)

RetrieveMultiVault(q, vaults, ids, stored, textUp) ==
  LET each == [i \in DOMAIN vaults |-> Retrieve(q, vaults[i], ids, stored, textUp)]
  IN Top(ByScore(FlattenSeq(each)), TopK)

\* The hits of all queries, each document with the best of its scores.
MergeQueries(queries, vaults, ids, stored, textUp) ==
  LET hits == UNION {Range(RetrieveMultiVault(q, vaults, ids, stored, textUp)) : q \in queries}
      best == {h \in hits : \A g \in hits : g.doc = h.doc => g.score <= h.score}
  IN ByScore(SetToSeq(best))

\* The longest prefix that fits the budget, and the first hit whatever its size.
Tokens(hits) == FoldSeq(LAMBDA h, n : n + Size[h.doc], 0, hits)
TruncateToBudget(hits, budget) ==
  LET fits == {n \in 0 .. Len(hits) : n = 1 \/ Tokens(SubSeq(hits, 1, n)) <= budget}
      kept == CHOOSE n \in fits : \A m \in fits : m <= n
  IN IF budget = 0 THEN <<>> ELSE SubSeq(hits, 1, kept)
=============================================================================
