--------------------------- MODULE AgentLoopProofs ---------------------------
(***************************************************************************)
(* Proofs about AgentLoop for every corpus, every setting of its bounds    *)
(* and every campaign.                                                     *)
(***************************************************************************)
EXTENDS AgentLoop, RetrievalProofs

-----------------------------------------------------------------------------
(* The inductive invariant. *)

Pcs == {"begin", "prefill", "prefilling", "fallback", "searching", "linked", "documents", "plain",
        "model", "reply", "tools", "search", "final", "closing", "over", "cancelled"}
Filter == [on : BOOLEAN, docs : SUBSET Doc]
SearchRecord == [by : {"prefill", "fallback", "tool"}, queries : SUBSET Query, tags : SUBSET Tag, ids : Filter]

\* The filter of a search is being read.
Resolving == pc \in {"linked", "documents"}

Corpus == tags \in SUBSET Tag /\ indexed \in SUBSET Doc /\ inScope \in SUBSET Doc
Where ==
  /\ chat \in {"domain", "campaign", "prefill", "plain"} /\ pc \in Pcs /\ round \in 0 .. MaxRounds

\* A request starts without failed attempts, and each failure delivered text at most once.
Attempts ==
  /\ attempt \in 0 .. MaxAttempts /\ heard \in 0 .. MaxAttempts
  /\ pc = "model" => attempt < MaxAttempts /\ heard <= attempt
  /\ pc = "reply" => attempt = 0
  /\ pc \notin {"model", "reply", "closing", "over", "cancelled"} => attempt = 0 /\ heard = 0

Slots == slots \in Seq(Piece) /\ Len(slots) <= MaxCalls

\* While a reply's calls are executed those without a tool message are the ones left and
\* those that were passed over with an unknown tool; otherwise only the latter.
Asks ==
  \/ pc \in {"begin", "prefill", "prefilling", "fallback", "searching", "model", "reply"}
  \/ Resolving /\ search.by # "tool"
Executing == pc \in {"tools", "search"} \/ (Resolving /\ search.by = "tool")
Owed ==
  /\ asked \in Nat /\ asked <= MaxCalls * round + MaxCalls /\ dropped \in Nat
  /\ Asks => asked <= MaxCalls * round /\ asked = dropped
  /\ Executing => asked = Len(slots) + dropped
  /\ Executing /\ pc # "tools" => slots # <<>>

Searches ==
  /\ seen \in SUBSET Query /\ search \in SearchRecord
  /\ prompt \in SUBSET Doc /\ read \in SUBSET Doc
  /\ sources \subseteq read \cup prompt /\ (pc # "over" => sources = {})

\* The documents of the campaign's tags are in the scope of the turn, those of the tags
\* a search has read so far are too, and the tool of a campaign searches with a filter.
Scoped ==
  /\ DocumentIdsByTags(tags, Doc) \subseteq inScope
  /\ Resolving => DocumentIdsByTags(search.tags, Doc) \subseteq inScope
  /\ InCampaign /\ pc = "search" => search.ids.on /\ search.ids.docs \subseteq inScope
  /\ SearchStaysInScope

LoopInv == Corpus /\ Where /\ Attempts /\ Slots /\ Owed /\ Searches /\ Scoped

-----------------------------------------------------------------------------
(* Operators. *)

LEMMA Products == \A c, r \in Nat : c * r \in Nat /\ c * (r + 1) = c * r + c
OBVIOUS

LEMMA RerankedType ==
  ASSUME NEW T, NEW hits \in Seq(T), NEW ranked \in Reranked(hits)
  PROVE  ranked \in Seq(T)
<1>1. CASE ranked = hits
  BY <1>1
<1>2. CASE ranked # hits
  <2>1. PICK n \in 1 .. Len(hits) : ranked \in [1 .. n -> Range(hits)]
    BY <1>2 DEF Reranked
  <2>2. Range(hits) \subseteq T
    BY DEF Range
  <2> QED
    BY <2>1, <2>2
<1> QED
  BY <1>1, <1>2

\* What an attempt delivers is a sequence of pieces, not longer than a reply.
LEMMA DeliversSlots ==
  ASSUME Slots, NEW says, NEW calls \in Seq(Piece), Len(calls) <= MaxCalls, Delivers(says, calls)
  PROVE  Slots'
<1> DEFINE n == IF Len(calls) < Len(slots) THEN Len(slots) ELSE Len(calls)
           piece(i) == IF i > Len(calls) THEN slots[i]
                       ELSE IF i <= Len(slots) /\ slots[i] # "nameless" THEN "garbled" ELSE calls[i]
<1>1. slots' = [i \in 1 .. n |-> piece(i)]
  BY DEF Delivers
<1>2. n \in Nat /\ n <= MaxCalls
  BY DEF Slots
<1>3. \A i \in 1 .. n : piece(i) \in Piece
  BY DEF Slots, Piece
<1> HIDE DEF n, piece
<1>4. slots' \in Seq(Piece) /\ Len(slots') = n
  BY <1>1, <1>2, <1>3
<1> QED
  BY <1>2, <1>4 DEF Slots

LEMMA CallsType ==
  ASSUME NEW calls \in Calls
  PROVE  /\ calls \in Seq(Piece) /\ Len(calls) <= MaxCalls
         /\ CutOff(calls) \in Seq(Piece) /\ Len(CutOff(calls)) <= MaxCalls
<1>1. PICK n \in 0 .. MaxCalls : calls \in [1 .. n -> {"whole", "nameless"}]
  BY DEF Calls
<1>2. calls \in Seq(Piece) /\ Len(calls) = n /\ MaxCalls \in Nat
  BY <1>1, LoopAssumption DEF Piece
<1>3. CASE calls = <<>>
  BY <1>1, <1>2, <1>3 DEF CutOff
<1>4. CASE calls # <<>>
  <2>1. n \in Nat \ {0}
    BY <1>1, <1>2, <1>4, EmptySeq
  <2>2. Front(calls) \in Seq(Piece) /\ Len(Front(calls)) = n - 1
    <3>1. \A i \in 1 .. n - 1 : calls[i] \in Piece
      BY <1>2, <2>1
    <3> QED
      BY <1>2, <2>1, <3>1, SubSeqProperties DEF Front
  <2>3. <<"garbled">> \in Seq(Piece) /\ Len(<<"garbled">>) = 1
    BY DEF Piece
  <2>4. CutOff(calls) = Front(calls) \o <<"garbled">>
    BY <1>4 DEF CutOff
  <2>5. CutOff(calls) \in Seq(Piece) /\ Len(CutOff(calls)) = n - 1 + 1
    BY <2>2, <2>3, <2>4, ConcatProperties
  <2> QED
    BY <1>1, <1>2, <2>1, <2>5
<1> QED
  BY <1>3, <1>4

LEMMA FullCallsType ==
  ASSUME Slots
  PROVE  FullCalls \in Seq(Piece) /\ Len(FullCalls) <= Len(slots)
<1>1. FullCalls \in Seq(Piece \cap {"whole", "garbled"}) /\ Len(FullCalls) <= Len(slots)
  BY AmongType DEF FullCalls, Slots
<1> QED
  BY <1>1, SeqMonotonic

\* The documents of a cut of what is found.
LEMMA CutDocs ==
  ASSUME NEW D, NEW hits \in Seq(HitsIn(D))
  PROVE  DocsOf(TruncateToBudget(hits, Budget)) \subseteq D
BY TruncateType, DocsOfHits, LoopAssumption

\* What a search of the tool shows is indexed and passes the filter.
LEMMA RunFinds ==
  ASSUME NEW queries \in SUBSET Query, NEW ids, NEW stored \in SUBSET Doc, NEW textUp \in BOOLEAN,
         NEW ranked \in Reranked(MergeQueries(queries, Vault, ids, stored, textUp))
  PROVE  DocsOf(TruncateToBudget(ranked, Budget)) \subseteq Allowed(ids, stored)
BY HitsPassTheFilter, RerankedType, CutDocs

LEMMA InitInv == Init => LoopInv
<1> SUFFICES ASSUME Init PROVE LoopInv
  OBVIOUS
<1>1. Corpus
  BY RetrievalAssumption DEF Init, Corpus, DocumentIdsByTags
<1>2. Where
  BY LoopAssumption DEF Init, Where, Pcs
<1>3. Attempts
  BY LoopAssumption DEF Init, Attempts
<1>4. Slots
  BY LoopAssumption DEF Init, Slots, Piece
<1>5. Owed
  <2>1. asked = 0 /\ dropped = 0 /\ round = 0 /\ pc = "begin" /\ MaxCalls \in Nat
    BY LoopAssumption DEF Init
  <2>2. MaxCalls * 0 = 0
    BY <2>1
  <2> QED
    BY <2>1, <2>2 DEF Owed, Executing, Resolving
<1>6. Searches
  BY DEF Init, Searches, NoSearch, Search, NoFilter, Filter, SearchRecord
<1>7. Scoped
  BY DEF Init, Scoped, SearchStaysInScope, Resolving
<1> QED
  BY <1>1, <1>2, <1>3, <1>4, <1>5, <1>6, <1>7 DEF LoopInv

-----------------------------------------------------------------------------
(* The steps. *)

\* The actions of a turn, by what they leave alone.
Quiet == Begin \/ SearchRaises \/ Final
Resolves == PrefillResolves \/ PrefillUnresolved \/ FallbackResolves \/ ReadLinkedTags \/ ReadDocuments
HostSearches == PrefillSearches \/ FallbackSearches
Asking == PlainReply \/ Streams \/ StreamFails \/ TextReply \/ CallsReply
Answering == SkipSearch \/ RefuseSearch \/ RefuseTagless \/ RunSearch \/ UpdateScene \/ ProposeContextUpdate

LEMMA TurnCases ==
  Turn <=> \/ Quiet \/ Resolves \/ HostSearches \/ Asking \/ Answering \/ BeginSearch \/ UnknownTool
           \/ RoundEnds \/ Close
BY DEF Turn, Quiet, Resolves, HostSearches, Asking, Answering

\* Reading the filter of a search changes the search, and where the turn is.
LEMMA ResolvesSteps ==
  ASSUME LoopInv, Resolves
  PROVE  /\ UNCHANGED <<env, chat, round, reply, seen, prompt, read, asked, dropped, last, sources>>
         /\ pc \in {"prefill", "fallback"} \/ Resolving
         /\ pc' \in {"prefilling", "linked", "documents", "searching", "plain", "search"}
         /\ \/ Asks /\ (Asks)' /\ ~(Executing)'
            \/ Executing /\ pc # "tools" /\ (Executing)' /\ pc' # "tools"
            \/ pc' = "plain"
<1>1. search \in SearchRecord
  BY DEF LoopInv, Searches
<1> USE DEF Resolving, Asks, Executing
<1>2. CASE PrefillResolves
  BY <1>2 DEF PrefillResolves, ReadOwnTags, Search
<1>3. CASE PrefillUnresolved
  BY <1>3 DEF PrefillUnresolved
<1>4. CASE FallbackResolves
  BY <1>4 DEF FallbackResolves, ReadOwnTags, Search
<1>5. CASE ReadLinkedTags
  BY <1>1, <1>5 DEF ReadLinkedTags, Searching, SearchRecord
<1>6. CASE ReadDocuments
  BY <1>1, <1>6 DEF ReadDocuments, Searching, SearchRecord
<1> QED
  BY <1>2, <1>3, <1>4, <1>5, <1>6 DEF Resolves

\* A call is answered while it is executed.
LEMMA AnsweringSteps ==
  ASSUME LoopInv, Answering
  PROVE  Executing /\ slots # <<>> /\ Answers
<1> USE DEF LoopInv, Owed, Executing, Resolving
<1>1. CASE SkipSearch \/ RefuseSearch \/ UpdateScene \/ ProposeContextUpdate
  BY <1>1 DEF SkipSearch, RefuseSearch, UpdateScene, ProposeContextUpdate, Executes
<1>2. CASE RefuseTagless \/ RunSearch
  BY <1>2 DEF RefuseTagless, RunSearch
<1> QED
  BY <1>1, <1>2 DEF Answering

LEMMA CorpusStep == ASSUME LoopInv, [Next]_vars PROVE Corpus'
<1>1. CASE Turn
  <2>1. CASE Resolves
    BY <2>1, ResolvesSteps DEF LoopInv, Corpus, env
  <2>2. CASE HostSearches
    BY <2>2 DEF LoopInv, Corpus, HostSearches, PrefillSearches, FallbackSearches, env
  <2>3. CASE Answering
    BY <2>3, AnsweringSteps DEF LoopInv, Corpus, Answers, env
  <2>4. CASE Quiet \/ Asking \/ BeginSearch \/ UnknownTool \/ RoundEnds \/ Close
    BY <2>4 DEF LoopInv, Corpus, Quiet, Begin, SearchRaises, Final, Asking, PlainReply, Streams,
       StreamFails, TextReply, CallsReply, BeginSearch, UnknownTool, RoundEnds, Close, env
  <2> QED
    BY <1>1, <2>1, <2>2, <2>3, <2>4, TurnCases
<1>2. CASE SetTags \/ Reindex
  <2>1. tags' \in SUBSET Tag /\ indexed' \in SUBSET Doc
    BY <1>2 DEF LoopInv, Corpus, SetTags, Reindex, Toggled
  <2>2. inScope' = inScope \cup DocumentIdsByTags(tags', Doc)
    BY <1>2 DEF SetTags, Reindex, Changes
  <2> QED
    BY <2>1, <2>2 DEF LoopInv, Corpus, DocumentIdsByTags
<1>3. CASE Cancel
  BY <1>3 DEF LoopInv, Corpus, Cancel, env
<1>4. CASE UNCHANGED vars
  BY <1>4 DEF LoopInv, Corpus, vars, env
<1> QED
  BY <1>1, <1>2, <1>3, <1>4 DEF Next

LEMMA WhereStep == ASSUME LoopInv, [Next]_vars PROVE Where'
<1> USE DEF Where, Pcs
<1>1. Where
  BY DEF LoopInv
<1>2. CASE Turn
  <2>1. CASE RoundEnds
    BY <1>1, <2>1, LoopAssumption DEF RoundEnds
  <2>2. CASE Resolves
    BY <1>1, <2>2, ResolvesSteps
  <2>3. CASE Answering
    BY <1>1, <2>3, AnsweringSteps DEF Answers
  <2>4. CASE Quiet \/ HostSearches \/ BeginSearch \/ UnknownTool
    BY <1>1, <2>4 DEF Quiet, Begin, SearchRaises, Final, HostSearches, PrefillSearches,
       FallbackSearches, BeginSearch, ReadOwnTags, UnknownTool
  <2>5. CASE Asking \/ Close
    BY <1>1, <2>5 DEF Asking, PlainReply, Streams, StreamFails, TextReply, CallsReply, Close
  <2> QED
    BY <1>2, <2>1, <2>2, <2>3, <2>4, <2>5, TurnCases
<1>3. CASE SetTags \/ Reindex \/ Cancel \/ UNCHANGED vars
  BY <1>1, <1>3 DEF SetTags, Reindex, Changes, Cancel, vars
<1> QED
  BY <1>2, <1>3 DEF Next

LEMMA AttemptsStep == ASSUME LoopInv, [Next]_vars PROVE Attempts'
<1> USE DEF Attempts
<1>1. Attempts /\ pc \in Pcs
  BY DEF LoopInv, Where
<1>2. MaxAttempts \in Nat \ {0}
  BY LoopAssumption
<1>3. CASE Streams
  BY <1>1, <1>2, <1>3 DEF Streams, Delivers
<1>4. CASE StreamFails
  <2>1. pc = "model" /\ attempt' = attempt + 1 /\ heard' \in {heard, heard + 1}
    BY <1>4 DEF StreamFails, Delivers
  <2>2. IF attempt' < MaxAttempts THEN pc' = "model" ELSE pc' = "closing"
    BY <1>4, <2>1 DEF StreamFails
  <2> QED
    BY <1>1, <1>2, <2>1, <2>2
<1>5. CASE RoundEnds
  BY <1>1, <1>2, <1>5 DEF RoundEnds, reply
<1>6. CASE Resolves
  BY <1>1, <1>6, ResolvesSteps DEF Resolving, reply
<1>7. CASE TextReply \/ CallsReply
  BY <1>1, <1>2, <1>7 DEF TextReply, CallsReply
<1>8. CASE Quiet \/ HostSearches \/ PlainReply
  BY <1>1, <1>2, <1>8 DEF Quiet, Begin, SearchRaises, Final, HostSearches, PrefillSearches,
     FallbackSearches, PlainReply, reply
<1>9. CASE Answering
  BY <1>1, <1>9, AnsweringSteps DEF Executing, Resolving, Answers
<1>10. CASE BeginSearch \/ UnknownTool \/ Close
  BY <1>1, <1>10 DEF BeginSearch, ReadOwnTags, UnknownTool, Close, Executes, reply
<1>11. CASE SetTags \/ Reindex \/ Cancel \/ UNCHANGED vars
  BY <1>1, <1>2, <1>11 DEF SetTags, Reindex, Changes, Cancel, vars, reply
<1> QED
  BY <1>3, <1>4, <1>5, <1>6, <1>7, <1>8, <1>9, <1>10, <1>11, TurnCases DEF Next, Asking

LEMMA SlotsStep == ASSUME LoopInv, [Next]_vars PROVE Slots'
<1>1. Slots /\ MaxCalls \in Nat
  BY LoopAssumption DEF LoopInv
<1>2. CASE Streams
  <2>1. PICK says \in BOOLEAN, calls \in Calls : Delivers(says, calls)
    BY <1>2 DEF Streams
  <2> QED
    BY <1>1, <2>1, CallsType, DeliversSlots
<1>3. CASE StreamFails
  <2>1. PICK says \in BOOLEAN, calls \in Calls : Delivers(says, calls) \/ Delivers(says, CutOff(calls))
    BY <1>3 DEF StreamFails
  <2> QED
    BY <1>1, <2>1, CallsType, DeliversSlots
<1>4. CASE CallsReply
  BY <1>1, <1>4, FullCallsType DEF CallsReply, Slots
<1>5. CASE Answering
  <2>1. slots # <<>> /\ slots' = Tail(slots)
    BY <1>5, AnsweringSteps DEF Answers
  <2> QED
    BY <1>1, <2>1, HeadTailProperties DEF Slots
<1>6. CASE UnknownTool \/ Cancel
  <2>1. slots' = <<>>
    BY <1>6 DEF UnknownTool, Cancel
  <2>2. <<>> \in Seq(Piece) /\ Len(<<>>) = 0
    OBVIOUS
  <2> QED
    BY <1>1, <2>1, <2>2 DEF Slots
<1>7. CASE UNCHANGED slots
  BY <1>1, <1>7 DEF Slots
<1>8. CASE Resolves
  BY <1>7, <1>8, ResolvesSteps DEF reply
<1>9. CASE \/ Quiet \/ HostSearches \/ PlainReply \/ TextReply \/ BeginSearch \/ RoundEnds \/ Close
           \/ SetTags \/ Reindex \/ UNCHANGED vars
  BY <1>7, <1>9 DEF Quiet, Begin, SearchRaises, Final, HostSearches, PrefillSearches, FallbackSearches,
     PlainReply, TextReply, BeginSearch, RoundEnds, Close, SetTags, Reindex, Changes, vars, reply
<1> QED
  BY <1>2, <1>3, <1>4, <1>5, <1>6, <1>8, <1>9, TurnCases DEF Next, Asking

LEMMA OwedStep == ASSUME LoopInv, [Next]_vars PROVE Owed'
<1>1. /\ Owed /\ pc \in Pcs /\ round \in Nat /\ MaxCalls \in Nat
      /\ slots \in Seq(Piece) /\ Len(slots) \in Nat /\ Len(slots) <= MaxCalls
  BY LoopAssumption DEF LoopInv, Where, Slots
<1>2. MaxCalls * round \in Nat /\ MaxCalls * (round + 1) = MaxCalls * round + MaxCalls
  BY <1>1, Products
<1> DEFINE full == MaxCalls * round
<1>3. ASSUME UNCHANGED <<asked, round, dropped>>, ~(Executing)', (Asks)' => Asks
      PROVE  Owed'
  BY <1>1, <1>3 DEF Owed
<1>4. CASE CallsReply
  <2>1. /\ pc = "reply" /\ pc' = "tools" /\ slots' = FullCalls /\ asked' = asked + Len(FullCalls)
        /\ UNCHANGED <<round, dropped>>
    BY <1>4 DEF CallsReply
  <2>2. Len(FullCalls) \in Nat /\ Len(FullCalls) <= MaxCalls
    BY <1>1, FullCallsType DEF LoopInv
  <2>3. asked <= full /\ asked = dropped /\ asked \in Nat
    BY <1>1, <2>1 DEF Owed, Asks
  <2>4. asked' \in Nat /\ asked' <= full + MaxCalls
    BY <1>1, <1>2, <2>1, <2>2, <2>3
  <2>5. asked' = Len(slots') + dropped' /\ dropped' \in Nat
    BY <2>1, <2>2, <2>3
  <2> QED
    BY <2>1, <2>4, <2>5 DEF Owed, Asks, Executing, Resolving
<1>5. CASE Answering
  <2>1. /\ pc' = "tools" /\ slots' = Tail(slots) /\ asked' = asked - 1 /\ UNCHANGED <<round, dropped>>
        /\ slots # <<>> /\ Executing
    BY <1>5, AnsweringSteps DEF Answers
  <2>2. Len(Tail(slots)) = Len(slots) - 1 /\ Len(slots) > 0
    BY <1>1, <2>1, HeadTailProperties, EmptySeq
  <2>3. asked \in Nat /\ asked <= full + MaxCalls /\ asked = Len(slots) + dropped /\ dropped \in Nat
    BY <1>1, <2>1 DEF Owed
  <2>4. asked' \in Nat /\ asked' <= full + MaxCalls
    BY <1>1, <1>2, <2>1, <2>2, <2>3
  <2>5. asked' = Len(slots') + dropped' /\ dropped' \in Nat
    BY <1>1, <2>1, <2>2, <2>3
  <2> QED
    BY <2>1, <2>4, <2>5 DEF Owed, Asks, Executing, Resolving
<1>6. ASSUME Executing, slots # <<>>, (Executing)', UNCHANGED <<slots, asked, round, dropped>>
      PROVE  Owed'
  <2>1. ~(Asks)'
    BY <1>6 DEF Executing, Asks, Resolving
  <2> QED
    BY <1>1, <1>6, <2>1 DEF Owed
<1>7. CASE BeginSearch
  <2>1. pc = "tools" /\ slots # <<>> /\ UNCHANGED <<slots, asked, round, dropped>>
    BY <1>7 DEF BeginSearch, Executes, reply
  <2>2. pc' = "search" \/ (pc' = "linked" /\ search'.by = "tool")
    BY <1>7 DEF BeginSearch, ReadOwnTags, Search
  <2> QED
    BY <1>6, <2>1, <2>2 DEF Executing, Resolving
<1>8. CASE UnknownTool
  <2>1. /\ pc = "tools" /\ pc' = pc /\ slots' = <<>> /\ dropped' = dropped + Len(slots)
        /\ UNCHANGED <<asked, round>>
    BY <1>8 DEF UnknownTool, Executes
  <2>2. Len(slots') = 0
    BY <2>1, EmptySeq
  <2>3. asked = Len(slots) + dropped /\ dropped \in Nat
    BY <1>1, <2>1 DEF Owed, Executing
  <2> QED
    BY <1>1, <2>1, <2>2, <2>3 DEF Owed, Asks, Executing, Resolving
<1>9. CASE RoundEnds
  <2>1. pc = "tools" /\ slots = <<>> /\ UNCHANGED <<asked, dropped>>
    BY <1>9 DEF RoundEnds, talk
  <2>2. asked \in Nat /\ asked <= full + MaxCalls /\ asked = dropped /\ dropped \in Nat
    BY <1>1, <2>1, EmptySeq DEF Owed, Executing
  <2>3. CASE pc' = "model" /\ round' = round + 1
    <3>1. MaxCalls * round' = full + MaxCalls
      BY <1>2, <2>3
    <3>2. asked' <= MaxCalls * round' + MaxCalls
      BY <1>1, <1>2, <2>1, <2>2, <3>1
    <3> QED
      BY <2>1, <2>2, <2>3, <3>1, <3>2 DEF Owed, Executing, Resolving
  <2>4. CASE pc' = "final" /\ UNCHANGED round
    BY <1>3, <2>1, <2>4 DEF Asks, Executing, Resolving
  <2> QED
    BY <1>9, <2>3, <2>4 DEF RoundEnds
<1>10. CASE Cancel
  <2>1. pc' = "cancelled" /\ asked' = 0 /\ dropped' = 0 /\ UNCHANGED round
    BY <1>10 DEF Cancel
  <2>2. 0 <= full + MaxCalls
    BY <1>1, <1>2
  <2> QED
    BY <2>1, <2>2 DEF Owed, Asks, Executing, Resolving
<1>11. CASE Resolves
  <2>1. UNCHANGED <<slots, asked, round, dropped>>
    BY <1>11, ResolvesSteps DEF reply
  <2>2. CASE Asks /\ (Asks)' /\ ~(Executing)'
    BY <1>3, <2>1, <2>2
  <2>3. CASE Executing /\ pc # "tools" /\ (Executing)'
    BY <1>1, <1>6, <2>1, <2>3 DEF Owed
  <2>4. CASE pc' = "plain"
    BY <1>3, <2>1, <2>4 DEF Asks, Executing, Resolving
  <2> QED
    BY <1>11, <2>2, <2>3, <2>4, ResolvesSteps
<1>12. CASE Quiet \/ HostSearches \/ PlainReply \/ Streams \/ StreamFails \/ TextReply \/ Close
  <2>1. UNCHANGED <<asked, round, dropped>> /\ pc' \notin {"tools", "search", "linked", "documents"}
    BY <1>12 DEF Quiet, Begin, SearchRaises, Final, HostSearches, PrefillSearches, FallbackSearches,
       PlainReply, Streams, StreamFails, TextReply, Close, talk
  <2>2. (Asks)' => Asks
    BY <1>12 DEF Asks, Resolving, Quiet, Begin, SearchRaises, Final, HostSearches, PrefillSearches,
       FallbackSearches, PlainReply, Streams, StreamFails, TextReply, Close
  <2> QED
    BY <1>3, <2>1, <2>2 DEF Executing, Resolving
<1>13. CASE SetTags \/ Reindex \/ UNCHANGED vars
  BY <1>1, <1>13 DEF SetTags, Reindex, Changes, vars, reply, talk, Owed, Asks, Executing, Resolving
<1> QED
  BY <1>4, <1>5, <1>7, <1>8, <1>9, <1>10, <1>11, <1>12, <1>13, TurnCases DEF Next, Asking

LEMMA SearchesStep == ASSUME LoopInv, [Next]_vars PROVE Searches'
<1>1. Searches /\ indexed \in SUBSET Doc
  BY DEF LoopInv, Corpus
<1>2. \A docs \in SUBSET Doc : {NoFilter, Only(docs)} \subseteq Filter
  BY DEF NoFilter, Only, Filter
<1>3. search \in SearchRecord /\ tags \in SUBSET Tag
  BY <1>1 DEF LoopInv, Corpus, Searches
<1>4. NoSearch \in SearchRecord
  BY <1>2 DEF NoSearch, Search, SearchRecord
<1>5. CASE Resolves
  <2>1. UNCHANGED <<seen, prompt, read, sources>> /\ pc # "over"
    BY <1>5, ResolvesSteps DEF Resolving
  <2>2. search' \in SearchRecord
    <3>1. CASE PrefillResolves \/ FallbackResolves
      BY <1>2, <1>3, <3>1 DEF PrefillResolves, FallbackResolves, ReadOwnTags, Search, SearchRecord
    <3>2. CASE PrefillUnresolved
      BY <1>4, <3>2 DEF PrefillUnresolved
    <3>3. CASE ReadLinkedTags
      <4>1. Allows \in SUBSET Tag
        BY <1>3 DEF Allows, SearchRecord
      <4> QED
        BY <1>3, <3>3, <4>1 DEF ReadLinkedTags, SearchRecord
    <3>4. CASE ReadDocuments
      <4>1. DocumentIdsByTags(search.tags, indexed) \in SUBSET Doc
        BY <1>1 DEF DocumentIdsByTags
      <4>2. Resolved(search.by, DocumentIdsByTags(search.tags, indexed)) \in Filter
        BY <1>2, <4>1 DEF Resolved
      <4> QED
        BY <1>3, <1>4, <3>4, <4>2 DEF ReadDocuments, Search, SearchRecord
    <3> QED
      BY <1>5, <3>1, <3>2, <3>3, <3>4 DEF Resolves
  <2> QED
    BY <1>1, <2>1, <2>2 DEF Searches
<1>6. ASSUME UNCHANGED <<seen, read, sources>>, search' = NoSearch, prompt' \in SUBSET Doc, pc # "over"
      PROVE  Searches'
  <2>1. sources = {}
    BY <1>1, <1>6 DEF Searches
  <2> QED
    BY <1>1, <1>4, <1>6, <2>1 DEF Searches
<1>7. CASE PrefillSearches
  <2>1. PICK queries \in SUBSET Query, textUp \in BOOLEAN :
          LET hits == Top(MergeQueries(queries, Vault, search.ids, indexed, textUp), TopK)
          IN prompt' = DocsOf(TruncateToBudget(hits, Budget))
    BY <1>7 DEF PrefillSearches
  <2> DEFINE hits == Top(MergeQueries(queries, Vault, search.ids, indexed, textUp), TopK)
             D == Allowed(search.ids, indexed)
  <2>2. hits \in Seq(HitsIn(D))
    BY <1>1, HitsPassTheFilter, TopType, RetrievalAssumption
  <2>3. prompt' \subseteq D
    <3> HIDE DEF hits, D
    <3> QED
      BY <2>1, <2>2, CutDocs DEF hits
  <2>4. prompt' \in SUBSET Doc
    BY <1>1, <2>3 DEF Allowed
  <2> QED
    BY <1>6, <1>7, <2>4 DEF PrefillSearches
<1>8. CASE FallbackSearches
  <2>1. PICK q \in search.queries, textUp \in BOOLEAN :
          \E ranked \in {<<>>} \cup Reranked(RetrieveMultiVault(q, Vault, search.ids, indexed, textUp)) :
            prompt' = DocsOf(ranked)
    BY <1>8 DEF FallbackSearches
  <2> DEFINE hits == RetrieveMultiVault(q, Vault, search.ids, indexed, textUp)
             D == Allowed(search.ids, indexed)
  <2>2. PICK ranked \in {<<>>} \cup Reranked(hits) : prompt' = DocsOf(ranked)
    BY <2>1
  <2>3. q \in Query
    BY <1>1 DEF Searches, SearchRecord
  <2>4. hits \in Seq(HitsIn(D))
    BY <1>1, <2>3, RetrieveMultiVaultType
  <2>5. ranked \in Seq(HitsIn(D))
    <3> DEFINE T == HitsIn(D)
    <3>1. <<>> \in Seq(T)
      OBVIOUS
    <3>2. hits \in Seq(T)
      BY <2>4
    <3> HIDE DEF hits, T
    <3>3. ranked = <<>> \/ ranked \in Reranked(hits)
      BY <2>2
    <3>4. ranked \in Seq(T)
      BY <3>1, <3>2, <3>3, RerankedType
    <3> QED
      BY <3>4 DEF T
  <2>6. prompt' \in SUBSET Doc
    BY <1>1, <2>2, <2>5, DocsOfHits DEF Allowed
  <2> QED
    BY <1>6, <1>8, <2>6 DEF FallbackSearches
<1>9. CASE RunSearch
  <2>1. PICK queries \in SUBSET search.queries, textUp \in BOOLEAN :
          LET hits == MergeQueries(queries, Vault, search.ids, indexed, textUp) IN
          \E ranked \in Reranked(hits) : read' = read \cup DocsOf(TruncateToBudget(ranked, Budget))
    BY <1>9 DEF RunSearch
  <2> DEFINE hits == MergeQueries(queries, Vault, search.ids, indexed, textUp)
  <2>2. PICK ranked \in Reranked(hits) : read' = read \cup DocsOf(TruncateToBudget(ranked, Budget))
    BY <2>1
  <2>3. queries \in SUBSET Query
    BY <1>1 DEF Searches, SearchRecord
  <2>4. DocsOf(TruncateToBudget(ranked, Budget)) \subseteq Doc
    BY <1>1, <2>2, <2>3, RunFinds DEF Allowed
  <2>5. read' \in SUBSET Doc
    BY <1>1, <2>2, <2>4 DEF Searches
  <2>6. UNCHANGED <<seen, prompt, sources>> /\ search' = NoSearch /\ pc # "over"
    BY <1>9 DEF RunSearch, Answers
  <2> QED
    BY <1>1, <1>4, <2>5, <2>6 DEF Searches
<1>10. CASE RefuseSearch
  <2>1. \A queries \in Queries : queries \subseteq Query
    BY DEF Queries
  <2>2. seen' \in SUBSET Query
    BY <1>1, <1>10, <2>1 DEF RefuseSearch, Searches
  <2>3. UNCHANGED <<search, prompt, read, sources>> /\ pc # "over"
    BY <1>10 DEF RefuseSearch, Answers, Executes
  <2> QED
    BY <1>1, <2>2, <2>3 DEF Searches
<1>11. CASE BeginSearch
  <2>1. PICK queries \in Queries :
          /\ seen' = seen \cup queries
          /\ search' \in {Search("tool", queries, tags \cap Own, NoFilter), Search("tool", queries, {}, NoFilter)}
    BY <1>11 DEF BeginSearch, ReadOwnTags
  <2>2. queries \in SUBSET Query
    BY DEF Queries
  <2>3. search' \in SearchRecord
    BY <1>2, <1>3, <2>1, <2>2 DEF Search, SearchRecord
  <2>4. UNCHANGED <<prompt, read, sources>> /\ pc # "over"
    BY <1>11 DEF BeginSearch, Executes
  <2> QED
    BY <1>1, <2>1, <2>2, <2>3, <2>4 DEF Searches
<1>12. CASE Close
  BY <1>1, <1>12 DEF Close, talk, Searches
<1>13. CASE Cancel
  BY <1>1, <1>4, <1>13 DEF Cancel, Searches
<1>14. ASSUME UNCHANGED <<talk, sources>>, pc # "over" \/ pc' = pc PROVE Searches'
  BY <1>1, <1>14 DEF Searches, talk
<1>15. CASE RefuseTagless
  BY <1>1, <1>4, <1>15 DEF RefuseTagless, Answers, Searches
<1>16. CASE Quiet \/ Asking \/ SkipSearch \/ UpdateScene \/ ProposeContextUpdate \/ UnknownTool \/ RoundEnds
  <2>1. UNCHANGED <<seen, search, prompt, read, sources>> /\ pc # "over"
    BY <1>16 DEF Quiet, Begin, SearchRaises, Final, Asking, PlainReply, Streams, StreamFails, TextReply,
       CallsReply, SkipSearch, UpdateScene, ProposeContextUpdate, UnknownTool, RoundEnds, Answers,
       Executes, talk
  <2> QED
    BY <1>1, <2>1 DEF Searches
<1>17. CASE SetTags \/ Reindex \/ UNCHANGED vars
  BY <1>14, <1>17 DEF SetTags, Reindex, Changes, vars
<1> QED
  BY <1>5, <1>7, <1>8, <1>9, <1>10, <1>11, <1>12, <1>13, <1>15, <1>16, <1>17,
     TurnCases DEF Next, HostSearches, Answering

LEMMA ScopedStep == ASSUME LoopInv, [Next]_vars PROVE Scoped'
<1> DEFINE Docs(S) == DocumentIdsByTags(S, Doc)
<1>1. Scoped /\ search \in SearchRecord /\ indexed \in SUBSET Doc /\ Docs(tags) \subseteq inScope
  BY DEF LoopInv, Corpus, Searches, Scoped
<1>2. ASSUME UNCHANGED <<tags, inScope, chat>>, pc' \notin {"linked", "documents", "search"},
             InCampaign => read' \subseteq inScope
      PROVE  Scoped'
  BY <1>1, <1>2 DEF Scoped, SearchStaysInScope, InCampaign, Resolving, DocumentIdsByTags
<1>3. ASSUME UNCHANGED <<tags, inScope, chat, read>>, pc' \notin {"linked", "documents", "search"}
      PROVE  Scoped'
  BY <1>1, <1>2, <1>3 DEF Scoped, SearchStaysInScope
<1>4. \A S \in SUBSET tags : Docs(S) \subseteq inScope
  BY <1>1 DEF DocumentIdsByTags
<1>5. ASSUME UNCHANGED <<tags, inScope, chat, read>>, pc' \in {"linked", "documents"},
             Docs(search'.tags) \subseteq inScope
      PROVE  Scoped'
  BY <1>1, <1>5 DEF Scoped, SearchStaysInScope, InCampaign, Resolving, DocumentIdsByTags
<1>6. CASE RunSearch
  <2>1. PICK queries \in SUBSET search.queries, textUp \in BOOLEAN :
          LET hits == MergeQueries(queries, Vault, search.ids, indexed, textUp) IN
          \E ranked \in Reranked(hits) : read' = read \cup DocsOf(TruncateToBudget(ranked, Budget))
    BY <1>6 DEF RunSearch
  <2> DEFINE hits == MergeQueries(queries, Vault, search.ids, indexed, textUp)
  <2>2. PICK ranked \in Reranked(hits) : read' = read \cup DocsOf(TruncateToBudget(ranked, Budget))
    BY <2>1
  <2>3. queries \in SUBSET Query
    BY <1>1 DEF SearchRecord
  <2>4. DocsOf(TruncateToBudget(ranked, Budget)) \subseteq Allowed(search.ids, indexed)
    BY <1>1, <2>2, <2>3, RunFinds
  <2>5. pc = "search" /\ pc' = "tools" /\ UNCHANGED <<tags, inScope, chat>>
    BY <1>6 DEF RunSearch, Answers, env
  <2>6. InCampaign => Allowed(search.ids, indexed) \subseteq inScope
    BY <1>1, <2>5 DEF Scoped, Allowed, Passes
  <2>7. InCampaign => read' \subseteq inScope
    BY <1>1, <2>2, <2>4, <2>6 DEF Scoped, SearchStaysInScope
  <2> QED
    BY <1>2, <2>5, <2>7
<1>7. ASSUME NEW by, NEW queries, ReadOwnTags(by, queries), UNCHANGED <<tags, inScope, chat, read>>
      PROVE  Scoped'
  <2>1. pc' = "linked" /\ search'.tags = tags \cap Own
    BY <1>7 DEF ReadOwnTags, Search
  <2> QED
    BY <1>4, <1>5, <1>7, <2>1
<1>8. CASE BeginSearch
  <2>1. UNCHANGED <<tags, inScope, chat, read>>
    BY <1>8 DEF BeginSearch, env
  <2>2. CASE InCampaign
    BY <1>7, <1>8, <2>1, <2>2 DEF BeginSearch
  <2>3. CASE ~InCampaign
    <3>1. pc' = "search"
      BY <1>8, <2>3 DEF BeginSearch
    <3> QED
      BY <1>1, <2>1, <2>3, <3>1 DEF Scoped, SearchStaysInScope, InCampaign, Resolving, DocumentIdsByTags
  <2> QED
    BY <2>2, <2>3
<1>9. CASE Resolves
  <2>1. UNCHANGED <<tags, inScope, chat, read>>
    BY <1>9, ResolvesSteps DEF env
  <2>2. CASE PrefillResolves \/ FallbackResolves
    BY <1>7, <2>1, <2>2 DEF PrefillResolves, FallbackResolves
  <2>3. CASE PrefillUnresolved
    BY <1>3, <2>1, <2>3 DEF PrefillUnresolved
  <2>4. CASE ReadLinkedTags
    <3>1. Docs(search.tags) \subseteq inScope
      BY <1>1, <2>4 DEF Scoped, ReadLinkedTags, Resolving
    <3>2. Docs(Allows) \subseteq inScope
      BY <1>1, <3>1 DEF Allows, DocumentIdsByTags
    <3>3. CASE Allows # {} /\ pc' = "documents" /\ search' = [search EXCEPT !.tags = Allows]
      BY <1>1, <1>5, <2>1, <3>2, <3>3 DEF SearchRecord
    <3>4. CASE pc' \in {"prefilling", "searching"}
      BY <1>3, <2>1, <3>4
    <3> QED
      BY <1>1, <2>4, <3>3, <3>4 DEF ReadLinkedTags, Searching, SearchRecord
  <2>5. CASE ReadDocuments
    <3> DEFINE docs == DocumentIdsByTags(search.tags, indexed)
    <3>1. docs \subseteq inScope
      BY <1>1, <2>5 DEF Scoped, ReadDocuments, Resolving, DocumentIdsByTags
    <3>2. CASE pc' \in {"plain", "prefilling", "searching"}
      BY <1>3, <2>1, <3>2
    <3>3. CASE pc' = "search" /\ search.by = "tool" /\ search'.ids = Only(docs)
      <4>1. search'.ids.on /\ search'.ids.docs \subseteq inScope
        BY <3>1, <3>3 DEF Only
      <4> QED
        BY <1>1, <2>1, <3>3, <4>1 DEF Scoped, SearchStaysInScope, InCampaign, Resolving, DocumentIdsByTags
    <3> QED
      BY <1>1, <2>5, <3>2, <3>3 DEF ReadDocuments, Searching, SearchRecord, Search, Resolved
  <2> QED
    BY <1>9, <2>2, <2>3, <2>4, <2>5 DEF Resolves
<1>10. CASE SetTags \/ Reindex
  <2>1. /\ inScope' = inScope \cup DocumentIdsByTags(tags', Doc)
        /\ UNCHANGED <<chat, pc, read, search>>
    BY <1>10 DEF SetTags, Reindex, Changes, talk
  <2> QED
    BY <1>1, <2>1 DEF Scoped, SearchStaysInScope, InCampaign, Resolving, DocumentIdsByTags
<1>11. CASE Cancel
  BY <1>2, <1>11 DEF Cancel, env
<1>12. CASE Quiet \/ HostSearches \/ Asking \/ Close \/ RoundEnds \/ UnknownTool
  <2>1. UNCHANGED <<tags, inScope, chat, read>> /\ pc' \notin {"linked", "documents", "search"}
    BY <1>12 DEF Quiet, Begin, SearchRaises, Final, HostSearches, PrefillSearches, FallbackSearches,
       Asking, PlainReply, Streams, StreamFails, TextReply, CallsReply, Close, RoundEnds, UnknownTool,
       Executes, env, talk
  <2> QED
    BY <1>3, <2>1
<1>13. CASE SkipSearch \/ RefuseSearch \/ RefuseTagless \/ UpdateScene \/ ProposeContextUpdate
  BY <1>3, <1>13 DEF SkipSearch, RefuseSearch, RefuseTagless, UpdateScene, ProposeContextUpdate,
     Answers, env
<1>14. CASE UNCHANGED vars
  BY <1>1, <1>14 DEF vars, env, talk, Scoped, SearchStaysInScope, InCampaign, Resolving, DocumentIdsByTags
<1> QED
  BY <1>6, <1>8, <1>9, <1>10, <1>11, <1>12, <1>13, <1>14, TurnCases DEF Next, Answering

-----------------------------------------------------------------------------
(* The theorems. *)

LEMMA NextInv == LoopInv /\ [Next]_vars => LoopInv'
BY CorpusStep, WhereStep, AttemptsStep, SlotsStep, OwedStep, SearchesStep, ScopedStep DEF LoopInv

THEOREM LoopInvariant == Spec => []LoopInv
BY InitInv, NextInv, PTL DEF Spec

\* A turn keeps its types and its bounds: rounds, attempts, calls, and the calls that
\* wait for a tool message, whatever the model replies and however requests fail.
THEOREM LoopTypes == Spec => []TypeOK
<1>1. ASSUME LoopInv PROVE TypeOK
  <2>1. Corpus /\ Where /\ Attempts /\ Slots /\ Owed /\ Searches
    BY <1>1 DEF LoopInv
  <2>2. round \in Nat /\ MaxRounds \in Nat /\ MaxCalls \in Nat /\ round <= MaxRounds
    BY <2>1, LoopAssumption DEF Where
  <2>3. slots \in UNION {[1 .. n -> Piece] : n \in 0 .. MaxCalls}
    <3>1. Len(slots) \in 0 .. MaxCalls /\ slots \in [1 .. Len(slots) -> Piece]
      BY <2>1, <2>2 DEF Slots
    <3> QED
      BY <3>1
  <2>4. asked \in 0 .. (MaxCalls * (round + 1))
    BY <2>1, <2>2, Products DEF Owed
  <2>5. search.tags \subseteq Tag /\ search.ids.docs \subseteq Doc
    BY <2>1 DEF Searches, SearchRecord, Filter
  <2> QED
    BY <2>1, <2>2, <2>3, <2>4, <2>5 DEF TypeOK, Corpus, Attempts, Searches
<1> QED
  BY <1>1, LoopInvariant, PTL

\* However tags and index change between the reads of a search and whatever order the
\* reranker answers in, the search tool shows the model of a campaign only documents with
\* a tag that was the campaign's at some time of the turn (_resolve_document_ids).
THEOREM SearchesStayInScope == Spec => []SearchStaysInScope
<1>1. LoopInv => SearchStaysInScope
  BY DEF LoopInv, Scoped
<1> QED
  BY <1>1, LoopInvariant, PTL

\* When the model is asked again, the calls it has made that have no tool message are
\* those the loop passed over with an unknown tool, however replies break off and are taken
\* up again.
THEOREM OtherCallsAreAnswered == Spec => []CallsAreAnswered
<1>1. LoopInv => CallsAreAnswered
  BY DEF LoopInv, Owed, Asks, CallsAreAnswered
<1> QED
  BY <1>1, LoopInvariant, PTL
=============================================================================
