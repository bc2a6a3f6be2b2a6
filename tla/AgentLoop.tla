------------------------------ MODULE AgentLoop ------------------------------
(***************************************************************************)
(* A turn of a chat that is answered with tools: plain_stream of           *)
(* api/chat.py, its prefilled search, the rounds of services/agent_loop.py *)
(* with the streaming retries of the generation provider below them, and   *)
(* the search tool, while an administrator changes the campaign's tags and *)
(* the index changes.                                                      *)
(*                                                                         *)
(* The model's replies are free: it may ignore tool_choice, as a provider  *)
(* may.  Which tool a call names, and its arguments, are chosen when the   *)
(* call is executed: nothing reads them before.  A call that came in       *)
(* pieces of two attempts, or was cut off, does not parse and has no       *)
(* arguments.  Queries are equal when their normal forms are.  What        *)
(* update_scene_state writes is in ContextDrift, and the session of        *)
(* propose_context_update in UpdateModeSession.                            *)
(***************************************************************************)
EXTENDS Retrieval

CONSTANTS Own,         \* the campaign's own tags; the others are the domain's
          MaxRounds,   \* the number of rounds in the settings (0 counts as 1)
          MaxCalls,    \* tool calls of a reply
          MaxAttempts, \* attempts of the provider for one request
          Budget,      \* retrieval.evidence_token_budget
          MaxChanges   \* changes of the tags or the index (bounds the model only)

ASSUME LoopAssumption ==
  /\ Own \subseteq Tag
  /\ {MaxRounds, MaxCalls, Budget, MaxChanges} \subseteq Nat /\ MaxAttempts \in Nat \ {0}

VARIABLES
  tags,      \* the campaign's tags: its own, and the domain's that are linked to it
  indexed,   \* the documents that are indexed
  chat,      \* a chat of the domain, of a campaign, of one that prefills
             \* (rag_prefill_enabled), or of one without tools (retrieval.tool_enabled)
  pc,        \* where the turn is
  round,     \* round_idx
  attempt,   \* failed attempts of the request under way
  slots,     \* tool calls of the reply, then those not yet executed
  heard,     \* attempts of the request that delivered text
  text,      \* full_answer is not empty
  seen,      \* seen_queries_norm
  search,    \* the search under way: whose it is, its queries, the tags and the filter read for it
  prompt,    \* documents in the system prompt
  read,      \* documents in the tool messages
  asked,     \* calls in the messages that have no tool message
  dropped,   \* calls that were passed over because one of them named an unknown tool
  last,      \* the last event: "going" for any but "final" and "error"
  sources,   \* all_sources of the answer that was saved
  inScope,   \* history: documents with a tag that was the campaign's at some time of the turn
  changes    \* how often tags or index have changed

env == <<tags, indexed, inScope, changes>>
reply == <<attempt, slots, heard, text>>
talk == <<seen, search, prompt, read, asked, dropped>>
vars == <<env, chat, pc, round, reply, talk, last, sources>>

Search(by, queries, known, ids) == [by |-> by, queries |-> queries, tags |-> known, ids |-> ids]
NoSearch == Search("tool", {}, {}, NoFilter)

\* What has come of a call: all of it, pieces that do not fit, or no id or name.
Piece == {"whole", "garbled", "nameless"}

InCampaign == chat # "domain"

Init ==
  /\ chat \in {"domain", "campaign", "prefill", "plain"}
  /\ tags \in (IF chat = "domain" THEN {{}} ELSE SUBSET Tag) /\ indexed = Doc
  /\ changes = 0 /\ inScope = DocumentIdsByTags(tags, Doc)
  /\ pc = "begin" /\ round = 0
  /\ attempt = 0 /\ slots = <<>> /\ heard = 0 /\ text = FALSE
  /\ seen = {} /\ search = NoSearch /\ prompt = {} /\ read = {} /\ asked = 0 /\ dropped = 0
  /\ last = "going" /\ sources = {}

-----------------------------------------------------------------------------
(* The search that precedes the rounds (_prefill_rag), and the one that takes     *)
(* their place when the tools are switched off (_fallback_retrieve).              *)

Begin ==
  /\ pc = "begin"
  /\ pc' = IF chat = "plain" THEN "fallback"
           ELSE IF chat = "prefill" /\ Vault # <<>> THEN "prefill" ELSE "model"
  /\ UNCHANGED <<env, chat, round, reply, talk, last, sources>>

\* The reranker, when there is one, returns some of the hits in an order of its own.
Reranked(hits) ==
  {hits} \cup {s \in UNION {[1 .. n -> Range(hits)] : n \in 1 .. Len(hits)} : IsInjective(s)}

\* The document filter of a search takes three reads of the database: the campaign's own
\* tags, the linked ones, and the indexed documents of both.
ReadOwnTags(by, queries) ==
  /\ pc' = "linked"
  /\ search' = Search(by, queries, tags \cap Own, NoFilter)

\* Where a search goes on when its filter is there.
Searching == [prefill |-> "prefilling", fallback |-> "searching", tool |-> "search"]

PrefillResolves ==
  /\ pc = "prefill" /\ ReadOwnTags("prefill", {})
  /\ UNCHANGED <<env, chat, round, reply, seen, prompt, read, asked, dropped, last, sources>>

\* An error of the database lifts the filter.
PrefillUnresolved ==
  /\ pc = "prefill" \/ (pc \in {"linked", "documents"} /\ search.by = "prefill")
  /\ pc' = "prefilling" /\ search' = NoSearch
  /\ UNCHANGED <<env, chat, round, reply, seen, prompt, read, asked, dropped, last, sources>>

FallbackResolves ==
  /\ pc = "fallback" /\ ReadOwnTags("fallback", Query)
  /\ UNCHANGED <<env, chat, round, reply, seen, prompt, read, asked, dropped, last, sources>>

\* No tags lift the filter of the prefill and of the fallback; the tool refuses (below).
Allows == search.tags \cup (tags \ Own)
ReadLinkedTags ==
  /\ pc = "linked"
  /\ \/ /\ Allows # {}
        /\ pc' = "documents" /\ search' = [search EXCEPT !.tags = Allows]
     \/ /\ Allows = {} /\ search.by # "tool"
        /\ pc' = Searching[search.by] /\ UNCHANGED search
  /\ UNCHANGED <<env, chat, round, reply, seen, prompt, read, asked, dropped, last, sources>>

\* Mutant: the tool searches the whole domain when the tags have no documents.
ResolvedOrWider(by, docs) == IF docs = {} THEN NoFilter ELSE Only(docs)

\* Tags without indexed documents lift the filter of the prefill, end the fallback, and
\* leave the tool without hits.
Resolved(by, docs) == IF by = "prefill" /\ docs = {} THEN NoFilter ELSE Only(docs)
ReadDocuments ==
  LET docs == DocumentIdsByTags(search.tags, indexed) IN
  /\ pc = "documents"
  /\ IF search.by = "fallback" /\ docs = {} THEN pc' = "plain" /\ search' = NoSearch
     ELSE /\ pc' = Searching[search.by]
          /\ search' = Search(search.by, search.queries, {}, Resolved(search.by, docs))
  /\ UNCHANGED <<env, chat, round, reply, seen, prompt, read, asked, dropped, last, sources>>

\* The question, and its translation; a failure leaves the prompt as it was.
PrefillSearches ==
  /\ pc = "prefilling"
  /\ pc' = "model"
  /\ \E queries \in SUBSET Query, textUp \in BOOLEAN :
       LET hits == Top(MergeQueries(queries, Vault, search.ids, indexed, textUp), TopK)
       IN prompt' = DocsOf(TruncateToBudget(hits, Budget))
  /\ search' = NoSearch
  /\ UNCHANGED <<env, chat, round, reply, seen, read, asked, dropped, last, sources>>

FallbackSearches ==
  /\ pc = "searching"
  /\ pc' = "plain"
  /\ \E q \in search.queries, textUp \in BOOLEAN :
       \E ranked \in {<<>>} \cup Reranked(RetrieveMultiVault(q, Vault, search.ids, indexed, textUp)) :
         prompt' = DocsOf(ranked)
  /\ search' = NoSearch
  /\ UNCHANGED <<env, chat, round, reply, seen, read, asked, dropped, last, sources>>

\* One answer without tools; when the provider fails nobody says so.
PlainReply ==
  /\ pc = "plain"
  /\ pc' = "closing"
  /\ text' \in BOOLEAN /\ last' \in {"going", "final"}
  /\ UNCHANGED <<env, chat, round, attempt, slots, heard, talk, sources>>

-----------------------------------------------------------------------------
(* One request to the model (generate_stream_with_tools). *)

\* What an attempt delivers is added to what the attempts before it delivered: its
\* text follows theirs, and the arguments of a call those of the call in its place.
Delivers(says, calls) ==
  /\ text' = (text \/ says)
  /\ heard' = IF says THEN heard + 1 ELSE heard
  /\ slots' = [i \in 1 .. (IF Len(calls) < Len(slots) THEN Len(slots) ELSE Len(calls)) |->
                 IF i > Len(calls) THEN slots[i]
                 ELSE IF i <= Len(slots) /\ slots[i] # "nameless" THEN "garbled" ELSE calls[i]]

\* The calls an attempt delivers; only the last may be cut off, when it fails.
Calls == UNION {[1 .. n -> {"whole", "nameless"}] : n \in 0 .. MaxCalls}
CutOff(calls) == IF calls = <<>> THEN calls ELSE Front(calls) \o <<"garbled">>

Streams ==
  /\ pc = "model"
  /\ \E says \in BOOLEAN, calls \in Calls : Delivers(says, calls)
  /\ pc' = "reply" /\ attempt' = 0 /\ last' = "going"
  /\ UNCHANGED <<env, chat, round, talk, sources>>

\* Mutant: the last attempt is retried too.
StreamFailsOnceMore ==
  /\ pc = "model"
  /\ \E says \in BOOLEAN, calls \in Calls : Delivers(says, calls) \/ Delivers(says, CutOff(calls))
  /\ attempt' = attempt + 1
  /\ IF attempt' <= MaxAttempts THEN UNCHANGED <<pc, last>> ELSE pc' = "closing" /\ last' = "error"
  /\ UNCHANGED <<env, chat, round, talk, sources>>

\* The connection breaks after a part of the reply, the last call of which may be
\* cut off; after the last attempt the loop says so and returns.
StreamFails ==
  /\ pc = "model"
  /\ \E says \in BOOLEAN, calls \in Calls : Delivers(says, calls) \/ Delivers(says, CutOff(calls))
  /\ attempt' = attempt + 1
  /\ IF attempt' < MaxAttempts THEN UNCHANGED <<pc, last>> ELSE pc' = "closing" /\ last' = "error"
  /\ UNCHANGED <<env, chat, round, talk, sources>>

\* Calls without an id or a name are dropped; a reply without calls is the answer.
FullCalls == Among(slots, {"whole", "garbled"})

TextReply ==
  /\ pc = "reply" /\ FullCalls = <<>>
  /\ pc' = "final" /\ heard' = 0
  /\ UNCHANGED <<env, chat, round, attempt, slots, text, talk, last, sources>>

CallsReply ==
  /\ pc = "reply" /\ FullCalls # <<>>
  /\ pc' = "tools" /\ heard' = 0
  /\ slots' = FullCalls
  /\ asked' = asked + Len(FullCalls)
  /\ UNCHANGED <<env, chat, round, attempt, text, seen, search, prompt, read, dropped, last, sources>>

-----------------------------------------------------------------------------
(* The calls of a reply, in order. *)

Executes == pc = "tools" /\ slots # <<>>
\* The queries of the next call, when it is a search.
Queries == IF Head(slots) = "whole" THEN SUBSET Query ELSE {{}}
\* The result of the first call is the next tool message.
Answers ==
  /\ pc' = "tools" /\ slots' = Tail(slots) /\ asked' = asked - 1
  /\ last' = "going"
  /\ UNCHANGED <<env, chat, round, attempt, heard, text, prompt, dropped, sources>>

\* A call all of whose queries were executed in this turn is not executed.
Repeated(queries) == queries # {} /\ queries \subseteq seen

\* Mutant: a repeated search is passed over without a tool message.
SkipSearchSilently ==
  /\ Executes
  /\ \E queries \in Queries : Repeated(queries)
  /\ slots' = Tail(slots)
  /\ UNCHANGED <<env, chat, pc, round, attempt, heard, text, talk, last, sources>>

SkipSearch ==
  /\ Executes
  /\ \E queries \in Queries : Repeated(queries)
  /\ Answers
  /\ UNCHANGED <<seen, search, read>>

\* No vault is enabled, or no query is left.
RefuseSearch ==
  /\ Executes
  /\ \E queries \in Queries :
       /\ ~Repeated(queries) /\ (Vault = <<>> \/ queries = {})
       /\ seen' = seen \cup queries
  /\ Answers
  /\ UNCHANGED <<search, read>>

\* A chat of the domain reads no tags and has no filter.
BeginSearch ==
  /\ Executes
  /\ \E queries \in Queries :
       /\ ~Repeated(queries) /\ Vault # <<>> /\ queries # {}
       /\ seen' = seen \cup queries
       /\ IF InCampaign THEN ReadOwnTags("tool", queries)
          ELSE pc' = "search" /\ search' = Search("tool", queries, {}, NoFilter)
  /\ UNCHANGED <<env, chat, round, reply, prompt, read, asked, dropped, last, sources>>

\* A campaign without tags: the search is not widened to the domain.
RefuseTagless ==
  /\ pc = "linked" /\ search.by = "tool" /\ Allows = {}
  /\ search' = NoSearch
  /\ Answers
  /\ UNCHANGED <<seen, read>>

\* Some of the queries may fail and find nothing.
RunSearch ==
  /\ pc = "search"
  /\ search' = NoSearch
  /\ Answers
  /\ \E queries \in SUBSET search.queries, textUp \in BOOLEAN :
       LET hits == MergeQueries(queries, Vault, search.ids, indexed, textUp) IN
       \E ranked \in Reranked(hits) :
         read' = read \cup DocsOf(TruncateToBudget(ranked, Budget))
  /\ UNCHANGED seen

\* The database, or the reranker: nothing between them and the turn catches it.
SearchRaises ==
  /\ \/ pc \in {"search", "fallback", "searching"}
     \/ pc \in {"linked", "documents"} /\ search.by # "prefill"
     \/ Executes /\ \E queries \in Queries : ~Repeated(queries) /\ queries # {} /\ Vault # <<>>
  /\ pc' = "closing"
  /\ UNCHANGED <<env, chat, round, reply, talk, last, sources>>

UpdateScene ==
  /\ Executes
  /\ Answers
  /\ UNCHANGED <<seen, search, read>>

\* Parsed or not, rejected or stored: the call is answered.
ProposeContextUpdate ==
  /\ Executes
  /\ Answers
  /\ UNCHANGED <<seen, search, read>>

\* An error event, and the calls after this one are not executed.
UnknownTool ==
  /\ Executes
  /\ slots' = <<>> /\ dropped' = dropped + Len(slots) /\ last' = "error"
  /\ UNCHANGED <<env, chat, pc, round, attempt, heard, text, seen, search, prompt, read, asked, sources>>

\* Mutant: a round without a search is not counted.
RoundEndsUncounted ==
  /\ pc = "tools" /\ slots = <<>>
  /\ IF round + 1 < MaxRounds
     THEN pc' = "model" /\ round' = IF seen = {} THEN round ELSE round + 1
     ELSE pc' = "final" /\ UNCHANGED round
  /\ last' = "going"
  /\ UNCHANGED <<env, chat, reply, talk, sources>>

RoundEnds ==
  /\ pc = "tools" /\ slots = <<>>
  /\ IF round + 1 < MaxRounds
     THEN pc' = "model" /\ round' = round + 1
     ELSE pc' = "final" /\ UNCHANGED round
  /\ last' = "going"
  /\ UNCHANGED <<env, chat, reply, talk, sources>>

-----------------------------------------------------------------------------
(* The end of the turn. *)

Final ==
  /\ pc = "final"
  /\ pc' = "closing" /\ last' = "final"
  /\ UNCHANGED <<env, chat, round, reply, talk, sources>>

\* What was said so far is saved with what was read for it, whether the rounds
\* ended or failed; saving may fail too.
Close ==
  /\ pc = "closing"
  /\ pc' = "over"
  /\ sources' \in {{}, IF ~text THEN {} ELSE IF chat = "plain" THEN prompt ELSE read}
  /\ UNCHANGED <<env, chat, round, reply, talk, last>>

\* The user stops the turn or the client disconnects: what was said and read is
\* gone, and nothing is saved.
Cancel ==
  /\ pc \notin {"over", "cancelled"}
  /\ pc' = "cancelled"
  /\ slots' = <<>> /\ heard' = 0 /\ text' = FALSE
  /\ seen' = {} /\ search' = NoSearch /\ prompt' = {} /\ read' = {} /\ asked' = 0 /\ dropped' = 0
  /\ UNCHANGED <<env, chat, round, attempt, last, sources>>

-----------------------------------------------------------------------------
(* Meanwhile the campaign's tags and the index change.  (What they do after the last *)
(* search nobody sees.)                                                              *)

Changes ==
  /\ pc \notin {"plain", "final", "closing", "over", "cancelled"} /\ changes < MaxChanges
  /\ changes' = changes + 1
  /\ inScope' = inScope \cup DocumentIdsByTags(tags', Doc)
  /\ UNCHANGED <<chat, pc, round, reply, talk, last, sources>>
Toggled(S, x) == IF x \in S THEN S \ {x} ELSE S \cup {x}
SetTags == InCampaign /\ (\E t \in Tag : tags' = Toggled(tags, t)) /\ indexed' = indexed /\ Changes
Reindex ==
  /\ \E d \in Doc : indexed' = Toggled(indexed, d)
  /\ tags' = tags /\ Changes

Turn ==
  \/ Begin \/ PrefillResolves \/ PrefillUnresolved \/ PrefillSearches
  \/ FallbackResolves \/ FallbackSearches \/ ReadLinkedTags \/ ReadDocuments \/ PlainReply \/ Streams \/ StreamFails
  \/ TextReply \/ CallsReply \/ SkipSearch \/ RefuseSearch \/ BeginSearch \/ RefuseTagless \/ RunSearch
  \/ SearchRaises \/ UpdateScene \/ ProposeContextUpdate \/ UnknownTool \/ RoundEnds
  \/ Final \/ Close
Next == Turn \/ Cancel \/ SetTags \/ Reindex

Spec == Init /\ [][Next]_vars
\* The turn's task is scheduled, and every call it makes has a time-out.
FairSpec == Spec /\ WF_vars(Turn)

-----------------------------------------------------------------------------
(* Properties. *)

TypeOK ==
  /\ tags \subseteq Tag /\ indexed \subseteq Doc /\ inScope \subseteq Doc
  /\ round <= MaxRounds /\ attempt \in 0 .. MaxAttempts /\ heard \in 0 .. MaxAttempts
  /\ slots \in UNION {[1 .. n -> Piece] : n \in 0 .. MaxCalls} /\ asked \in 0 .. (MaxCalls * (round + 1))
  /\ seen \subseteq Query /\ search.tags \subseteq Tag /\ search.ids.docs \subseteq Doc
  /\ prompt \subseteq Doc /\ read \subseteq Doc /\ sources \subseteq read \cup prompt

\* The host fixes the scope: however tags and index change between the reads of a
\* search, the search tool shows the model of a campaign no document without a tag that
\* was the campaign's at some time of the turn.
SearchStaysInScope == InCampaign => read \subseteq inScope

\* When the model is asked again, each call it has made is answered by a tool message,
\* but for the calls from an unknown tool to the end of its reply, which the loop passes
\* over.
CallsAreAnswered == pc = "model" => asked = dropped

\* Whatever the model replies and whatever fails, the turn comes to its end.
TurnEnds == <>(pc \in {"over", "cancelled"})

\* The searches of the host itself stay in the scope of the campaign's tags too.
PromptStaysInScope == InCampaign => prompt \subseteq inScope

\* The reply of a round is what one attempt of its request delivered.
ReplyIsWhole == pc = "reply" => heard <= 1 /\ \A i \in DOMAIN slots : slots[i] # "garbled"

\* A turn that was not cancelled tells the client how it ended.
EndIsTold == pc = "over" => last \in {"final", "error"}
=============================================================================
