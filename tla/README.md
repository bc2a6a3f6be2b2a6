# Mercer in TLA+

Mercer answers questions over Markdown and PDF vaults and keeps the *Campaign State* of a
game campaign. This directory holds TLA+ models of its core logic, the TLC runs that check
them on small instances, and TLAPS proofs. `PROJECT.json` lists components, runs, mutants,
the source lines each definition stands for, hazards, findings and theorems.

## 1. The system

| Component | State | Operations | Talks to |
|---|---|---|---|
| rag-backend: Update Mode (`api/update_mode.py`, `update_mode_store.py`, `update_mode_executor.py`, `indexer_client.py`) | one Redis key per chat: proposed changes, decisions, apply id, result; 3 h TTL | start, propose (supersedes), review, apply, cancel | Redis (Lua scripts), Postgres, rag-indexer over HTTP with a 60 s time-out |
| rag-indexer: Update Mode (`app/update_mode/*`) | vault files, git index and HEAD; Redis record and lock per apply id | resolve, apply | disk, git, Redis, its own indexing service |
| rag-indexer: indexing (`indexer_worker.py`, `indexer_service.py`, `redis_state_manager.py`, `vault_watchdog.py`) | tasks and file cache in Redis, documents in Postgres, chunks in LanceDB | start, cancel, index a file, watch a vault, rebuild the cache | parser, sidecar, db-api-server |
| rag-backend: Campaign State (`campaign_state_*`) | field configuration, versions and items in Postgres; the initial draft in Redis | create, update, delete, reorder a field; patch; draft, apply, signal stale sources | Postgres row lock on the campaign |
| rag-backend: context engine (`context_engine/*`, `api/context_draft.py`) | dirty set, cool-down, draft and status keys in Redis; scene memory; summary | trigger, detect, draft, accept, reject, check files, summarise | sidecar model, Campaign State, Update Mode |
| rag-backend: chat and pipelines (`api/chat.py`, `pipeline_*`, `clarification_fsm.py`) | two token columns and the clarification of a chat | message, offer, confirm, run by levels, pause, resume, choose documents | retrieval, planner, providers |
| rag-backend: agent loop (`agent_loop.py`, `search_knowledge_service.py`, `retrieval.py`) | a turn's messages, executed queries, budgets | rounds of model calls and tool calls | generation provider (retried streams), LanceDB, Postgres |
| rag-indexer: chunking (`semantic_chunker.py`, `pdf_page_merger.py`, `chunking_pipeline.py`) | none | cut a text, count words, find pages | embedder |
| pdf-sidecar (`drift.py`) | a loaded model with a window of `n_ctx` tokens | detect drift, summarise | - |
| db-api-server, host agent, providers, frontend | LanceDB tables; model processes | single calls | - |

What makes it hard: every access to Redis, Postgres or another service is an `await`, so
handlers of one chat interleave at every access; keys expire under their users; a retry races
with an answer that is late; the three stores of the indexer are updated one after the other
with no transaction over them; processes die in between.

What makes each part correct:

* *indexer apply*: a reviewed change reaches its file once and whole; no edit of the user is
  lost; what is overwritten is in the git history; "applied" means committed; what is not
  committed is reported; an execution ends and gives its lock back.
* *review session*: nothing that was not accepted in that session gets out; a decision is
  final; one apply id per session; a closed session stays closed; a failed schema stage stops
  the apply; every request is answered.
* *indexing*: a document called indexed has the chunks of the text it names; a change on disk
  is eventually indexed; two tasks do not undo each other.
* *Campaign State*: rows of a version are keyed and belong to fields that exist; a patch
  replaces what its author saw; the first version is made once, from documents as they are,
  and brings its suggested fields with it or not at all.
* *context engine*: a chat marked for detection is looked at; the summary tells exactly the
  messages it counts; an accepted draft is not offered again; a status ends.
* *pipelines*: over pauses and resumptions steps run once, after their parents, and none is
  skipped; an offer or a pause that was taken out of the chat's row stays out.
* *agent loop*: the search tool keeps to the campaign's documents; every call is answered
  before the model is asked again; a turn ends.
* *chunking, window*: a cut loses nothing and fits; a position is on its page; a prompt fits.

## 2. Modules

| Module | Models |
|---|---|
| `ReviewedFiles` | abstract: the text of files to which whole batches are applied and users' edits are made |
| `IndexerApply` | `/resolve` and `/apply` of rag-indexer in detail |
| `TextOps` | operators: what an operation does to a text, and how `/resolve` finds its anchor |
| `MCIndexerApply` | instances for TLC; checks `TextOps` |
| `IndexerApplyProofs` | the theorems about `IndexerApply` and their proofs |
| `ReviewSession` | abstract: open, decide, claim, close a review session |
| `UpdateModeSession` | the handlers of rag-backend around the chat's Redis key, and the stages of an apply |
| `MCUpdateModeSession` | instances for TLC |
| `VaultIndex` | indexing tasks and the watchdog over documents, chunks and file cache |
| `MCVaultIndex` | instances for TLC; checks `Chunking` |
| `CampaignState` | fields, versions and the initial draft of one campaign |
| `ContextDrift` | the context engine of one chat |
| `ChatPipeline` | offers, runs, pauses and clarifications of one chat |
| `Retrieval` | operators: filters, the two searches of a vault, fusion, merge, cut |
| `AgentLoop` | one turn with tools, over `Retrieval` |
| `Chunking` | operators: from sentences to chunks, from pages to offsets |
| `TokenWindow` | operators: the sidecar's prompts within the model's window |
| `MCCampaignState`, `MCContextDrift`, `MCChatPipeline`, `MCAgentLoop` | instances for TLC; `MCContextDrift` also checks `TokenWindow` |
| `UpdateModeSessionProofs`, `VaultIndexProofs`, `CampaignStateProofs`, `ContextDriftProofs`, `ChatPipelineProofs`, `RetrievalProofs`, `AgentLoopProofs` | the theorems about the module they are named after |

### IndexerApply

Every execution of `apply_changes` has a place (`pc`), the vaults and files it has `left`, a
buffer and an answer. Redis is `record` and `lock`, both per apply id; a vault is `disk`, the git
`index` and `head`. A file's content is how often each change was applied to it and which
edits it carries: equal contents have equal sha256, which is all the code compares. `Breaks`
says which change or edit removes the anchor of which other one.

`apply_changes` awaits nothing between the identity query and the start of the reindex task:
`LoopFree` keeps other coroutines out while one is in that section, as asyncio does. A
crash, an expiring key and the user's editor do not wait for it. The mutant `Threads` drops
this and loses a change, which shows that the missing `await` is what the code relies on.

An error of git or of a write is caught and becomes the vault's result. Any other one leaves the
handler (`Raise`): a file the preflight or the write cannot read, a git that cannot be started,
which may also happen after the commit was made (`GitRaises`). Redis calls of an apply that fail
are left out.

### UpdateModeSession

`session` is the value of `update_mode:{chat_id}`. One action per handler stage between two
awaits: `Start`/`Propose`, `Supersede`, `Create`, `Review` (one Lua script), `BeginApply` (one Lua
script, after which the handler works on its copy `saw`), `SchemaOp`/`SchemaOpFails`,
`Rollback`, the call to the indexer, `CompleteApply`, `ReadBase`, `ApplyPatch`. Campaign State is
reduced to who wrote each field last and the number of the latest version; the indexer to
the record, lock and runs of each apply id. `used`, `reviewed`, `runs` and `patches` are history.
An item of a proposal is a model value; a proposal is what is offered of each
(pending, unresolved or absent).

A lost answer needs no action: a handler that has finished and one whose answer never arrived leave the
same state, and the client's repetition is another request.

### VaultIndex

Of a file four stores know something: `disk`, `row` (the documents table, unique by path),
`chunks` (by document id and chunk index, each with the text it was cut from) and `cache` (the
Redis hash the watchdog compares with). A task of `run_indexing` is a record `job[t]` with a
`pc` at one of its awaits; what Redis knows of it is `status` and `cancel`. The worker skips a
file because of its row (`UpToDate`: md5, mtime, status), the watchdog because of the cache
(`Changed`: md5, status). The scan, the row, the chunks and the cache entry of a file are
written at different moments from different readings of the file:

| Step of the code | Action |
|---|---|
| the scan and its md5; the comparison, file by file; `create_task` | `ScanVault`, `Compare`, `Register` |
| the row is looked up; created, or its chunks wiped and the row set to pending with the scan's md5 | `Lookup`, `InsertRow`, `Wipe`, `MarkPending`, `Reread` |
| the file is parsed as it is now; chunks are stored; row "indexed"; cache entry with the scan's md5 | `Parse`, `Upsert`, `MarkRowIndexed`, `CacheIndexed` |
| a file fails; what the task stored is taken back; the outer handler | `FileFails`, `TaskFails`, `Rollback`, `Unbind`, `MarkTaskError`, `MarkFails` |
| one iteration of the watchdog | `WatchScan`, `WatchCache`, `WatchLookup` ... `WatchDropEntry`, `WatchChanged`, `WatchMark`, `WatchStart`, `WatchFails` |
| the process dies, and rebuilds the cache when it starts | `Crash` |

A finished task's id is used again for the next task (a fresh uuid to the code), so that a
handful of tasks can follow each other.

### CampaignState

A request works in a database session of its own. From `SELECT ... FOR UPDATE` to the commit is one
action; what a request reads before it takes the lock is another, since it may be old by
then: `BeginFieldChange` reads the row and `UpdateField`/`DeleteField` lock, `BeginSessionPatch` loads
the campaign and `SessionPatch` locks, `BeginInitial` loads the draft and `CommitInitial` locks. Of these only
Update Mode holds on to the campaign it loaded, so that the database session gives it that copy again and
its `config_version` is compared with itself; the others get the locked row. An editor sends the
`config_version` its version is stamped with. A version is a set of rows; "born" tells a kept value from a new
one; "refs" are the documents it cites with the content cited. Drafting is `BeginPreview`,
`FetchTexts`, `StorePreview` (each reads documents that may be indexed again in between), then
`BeginInitial`, `CommitInitial` or one of its failures, `DropProposal`. `ApplyPatch` is shared by editor,
session and context draft.

### ContextDrift

A turn (`TurnBegins` ... `TurnTriggers`) and the idle scan start detection tasks that sum up
(`SummarizeReads`, `SummarizeWrites`), ask for hints (`ReadWindow`, `WriteDrift` or `NothingFound`), plan a
draft (`PlanDraft`, `WriteDraft`), and publish their phases. A user's request accepts, rejects or
checks. The scene state is one JSON column every writer writes whole from the copy its
session holds. Redis calls may fail and the backend may die (`Outage`, `Crash`, bounded by `MaxFault`).
What the sidecar does with a long prompt is in `TokenWindow`.

### ChatPipeline

`pending` and `pause` are the two columns with a token; a request reads them, works for a while,
and writes. `SendBegins`, `AnswerClarification`, `StartCollecting`, `Offer` and `Reply` are a message;
`ConfirmBegins`, `ConfirmClears` and the steps of the executor a confirmation; `ResumeBegins`,
`ResumeClears`, `SelectBegins`, `SelectClears` the ways on from a pause. Steps are executed in
the order `RetrievalStep`, `ValidationStep` level by level, levels as `topological_sort` makes them
(`LevelsOf`, which an `ASSUME` of the MC module compares with the longest chains of every graph of
three steps). A request may die anywhere (`Dies`).

### AgentLoop and Retrieval

One turn: `Begin`, an optional prefilled search, rounds of `Streams`/`StreamFails` and tool calls, the
end. A search reads the campaign's own tags (`BeginSearch` for the tool, `PrefillResolves`,
`FallbackResolves`), the linked ones (`ReadLinkedTags`), the documents that have them
(`ReadDocuments`), and the index (`RunSearch`, ...), and tags or index may change between any two of these
(`SetTags`, `Reindex`); which document has which tag is fixed. `Retrieval` computes what is found: the cut
of the vector hits before the filter, the fusion of ranks, the merge over vaults and queries, the cut to
the budget. Scores may be equal; `Place` is the order the store gives equal ones in, any one, fixed for each query. Two
`ASSUME`s of `MCAgentLoop` check the operators alone: `FusionAgrees` (what both searches rank ahead, the
fusion ranks ahead) and `CutFits`.

### TextOps, Chunking and TokenWindow

Programs without state. `TextOps` takes a text as lines of words, so that white space and
letters disappear but not how a word is spelt: the language model reads the normalised
text (typographic characters replaced, hyphenated words joined, page numbers dropped) and
its anchors are searched in the raw one. That an anchor may also begin or end inside a
word is left out. `ASSUME`s of `MCIndexerApply` check it on all texts of up to four lines, with
two headings on two levels, or seven spellings: `AppendedIsInTheSection`,
`DeletionKeepsTheRest`, `ReplacementIsWhatWasRead`, `ReviewedIsApplied`, `AppendsGoLast`, and two
that pin down what goes wrong, `TagEndsNoSection` and `ReplacementThatWasNotRead`.

`Chunking` and `TokenWindow` are compared with what they promise on every small input by
`ASSUME`s that TLC evaluates: `PiecesFit`, `ChunksHoldTheDocument`, `SectionsAreChunks`, `PagesAreFound` and
`HeadsAreDropped` in `MCVaultIndex` (texts of up to 8 characters, documents of up to 4 sentences with
every set of breaks, up to 3 pages); `LongestFitIsLongest`, `PromptsFit`, `ReadsBackwards` and `HeadIsLost` in
`MCContextDrift` (chats of up to 4 messages of 1 to 9 tokens, every previous summary up to 9). They
use recursive operators, which are out of the prover's reach.

## 3. Runs

Passing runs:

| Run | Instance | Shows |
|---|---|---|
| `apply_races` | 3 executions of 1 apply, 3 changes in 2 files, 2 edits; keys expire, crashes | `TypeOK`, `UpdateAppliedOnce`, `BatchIsAtomic`, `NoLostEdit`, `PreImageInHistory`, refinement of `ReviewedFiles` |
| `apply_faults` | an apply and its repetition beside another chat's apply of the same file; failing process, disk and git, a lasting lock | `UncommittedIsReported`, `AppliedIsCommitted`, `NoLostChange`, `RequestEnds` |
| `session_races` | start, propose, 2 reviews, 2 applies with different ids; expiry | `TypeOK`, `NothingUnreviewed`, `OneApplyPerSession`, refinement of `ReviewSession` |
| `session_faults` | start, review, an apply and its repetition, a cancel; create and update of fields, a move of another client, death of the backend, failing Redis and Postgres, an indexer that may never answer | `FailedSchemaAborts`, `RequestsEnd` |
| `index_converges` | 1 file of an auto-indexed extension, texts of 2, 1 and 1 chunks, 3 edits, requests or cancellations, 1 crash, the watchdog | `IndexedIsCurrent`, `CacheIsHonest`, `Converges` |
| `index_chaos` | 2 overlapping tasks on a file that may be missing; two acts in all, each a request, its cancellation, or an edit, touch, removal or return of the file; any call may fail; a text without chunks | `TypeOK`, `TasksEnd` |
| `campaign_edits` | an administrator, an editor, an Update Mode session; a single value and a list; 4 versions, 3 numbers of the configuration | `TypeOK`, `RowsAreKeyed`, `PatchOnSeenRows` |
| `campaign_initial` | two drafting requests, an administrator, an Update Mode session, a document that changes, a suggested field; 2 versions; any may die | `InitialOnce`, `NoOrphanFields`, `InitialReadsCurrent` |
| `context_drift` | one turn and, by `Loads`, two detection tasks with a fault; a task, a request about the draft and a fault; two tasks, a request and a second draft that takes the place of the first; or a task and two requests | `TypeOK`, `RecapIsExact`, `AcceptedIsWithdrawn`, `SpinnerStops`, `DirtyIsRescanned` |
| `chat_pipeline` | two requests at a time, four tokens; a pipeline of 3 levels with a validation step | `TypeOK`, `ChainIsOrdered`, `NothingIsSkipped`, `TakenOutStaysOut` |
| `agent_loop` | 2 rounds of up to 2 calls, 2 attempts each, 2 vaults, tags or index that change twice; chats of four kinds | `TypeOK`, `SearchStaysInScope`, `CallsAreAnswered`, `TurnEnds` |

One run finds what the code's own comment says violated, with a finding in `PROJECT.json`:
`chat_results` (`ResultsSurvive`): after a validation pause the answer is composed without what the
steps before the pause found (`pipeline_resume.py` overwrites the results with the empty ones
of the pause state).

Divergences the modules state as a property that no run is spent on. Each is violated at once by
the named configuration with its properties replaced by this one, symmetry dropped, and the
constants changed as said:

| Property | Configuration | What the code does |
|---|---|---|
| `ReplayAppliesNothing` | `MCApplyRaces` | a duplicate reads the record before the first has finished and takes the lock after it (`applier.py:527`): created text is appended twice |
| `StatePatchedOnce` | `MCSessionFaults` | a repeated apply patches the Campaign State again |
| `ResultIsOfTheseFiles` | `MCSessionFaults`, `Files = {"f1", "f2"}`, `Decisions <- OneByOne`, reviews `v1` and `v2` for `x1`, the other items empty, `Faults = FALSE` | a second apply of one id, with more changes accepted, is answered from the record of the first |
| `IndexedIsCurrent` | `MCIndexConverges`, `Missing = TRUE`, two files, `AutoIndexed = {}`, `Size <- Emptied`, `MaxText = 2`, no crash, no cancel | a file vanishes after the scan; the rollback deletes chunks of files that stay "indexed" (`indexer_worker.py:252`) |
| `Converges` | `MCIndexConverges`, `Missing = TRUE`, no crash | the watchdog forgets, by an old scan, a file a task has just indexed; the cache says "indexed" and nothing looks at it again |
| `DeleteKeepsTheRest` | `MCCampaignEdits` | deleting one field empties the active state of every other field (`campaign_state_service.py:436`) |
| `StaleSignalled` | `MCCampaignInitial` | a document that was indexed again is no longer reported though the state cites its old text (`campaign_state_stale_service.py:299`) |
| `AcceptedIsSeen` | `MCDrift` | accept names no draft and applies the one a task put in place of the user's |
| `CheckedIsApplied` | `MCDrift` | checking the files discards a draft whose operations were never applied |
| `ExplicitIsKept` | `MCDrift`, two turns | writing hints puts back the scene state loaded before the model was asked (`scene_memory.py:258`) |
| `PromptStaysInScope` | `MCAgent` | the prefilled and the fallback search lift the filter for a campaign without tags, the prefilled one also when its tags have no documents (`chat.py:1501`); the search tool refuses to |
| `ReplyIsWhole` | `MCAgent` | a stream that breaks half-way is asked for again and both parts are kept (`openai_compatible.py:206`): text twice, arguments glued |
| `EndIsTold` | `MCAgent` | an error of database or reranker ends the stream with neither a final nor an error event |

Further divergences met while modelling:

* Update Mode. `campaign-update-mode.md:334`: for create the indexer checks again that the target is
  absent; `ReadFile` reads and appends. The same document: no other dirty file gets into the
  snapshot; `CommitIndex` commits the whole index, where a failed commit leaves what it had
  staged. `api/update_mode.py:810`: a failed schema stage is rolled back as a whole; `Rollback` only
  deletes created fields. `campaign-update-mode.md:549`: a review that accepts and edits one
  operation; `Applicable` refuses it. `applier.py:359`: a file is compared with its reviewed sha256
  and read again later without comparison. `applier.py:39`: "not HTTP 500"; a read error after a
  write is an exception. `api/update_mode.py:482`: files and state "independently"; a failed file
  stage is raised before the state stage. `:500`: any exception of `begin_apply` is taken for a
  corrupted session, which is deleted. `:549`: "no accepted changes" after the id was claimed.
* Text operations. A change whose anchor `/resolve` found by its fallback keeps the anchor of the
  intent (`resolver.py:166`), and the applier has no fallback: it is reviewed, accepted, and its
  apply ends with `anchor_not_found`. The fallback takes the first of several places
  (`token_anchor.py:377`) although the operation asks for a unique one, cuts the mark off a last letter written in
  two parts (`:408`), and a direct search may hit the second half of a hyphenated word. To an append any
  line with a hash first is a heading (`text_ops.py:101`), to the end of a deletion it is not
  (`:191`). A BOM is stripped before the sha256 of a resolve (`resolver.py:281`) and not before
  that of the preflight (`applier.py:294`): such a file always conflicts.
* Indexing. `vault_watchdog.py:237`: `_handle_deleted` keeps an entry for a retry, but failures are
  logged and the entry removed. `rag_pipeline.md:11`: changes are found by md5 and mtime; the
  watchdog compares the md5 alone. The binding stays "indexing" after a cancelled task.
* Context engine. `_read_messages_for_drift` without a summary reads the last messages only; a
  failed detection is taken out of the dirty set and not retried; two accepts of one draft apply
  it twice; a message during the cool-down is read with the next turn only. `RecapIsExact` is about
  what the sidecar is handed: of a long prompt it drops the head, the earlier summary (`HeadIsLost`, below).
* Campaign State. After any change of the fields a patch from the settings dialog is answered 409 until
  another version is made: it sends the number the shown version is stamped with
  (`EditFieldValueDialog.tsx:137`), and no answer of the API tells the campaign's own.
* Pipelines. Two confirms of one token that overlap both run the pipeline, and a late clear
  takes a newer offer away (what remains true is `TakenOutStaysOut`: a request that begins later does not
  find the token); the reset of a clarification may fail and is passed over (`chat.py:1316`), after
  which the answer is saved and the clarification goes on; a failure after the clear
  loses the offer; a validation step's level is not finished (`BesideValidation`); in a plain chat
  the choice of documents saves its answer twice; `fulldoc_confirm` checks neither expiry nor token;
  of messages that overlap, an answer closes the clarification another has just begun, or two
  answers count as one turn of `max_clarification_turns`; the history given to the planner is the
  oldest 20 messages (`chat.py:573`); `validate_dag` is never called; a locked pipeline in general
  mode is logged as ignored and returned.
* Agent loop. Queries that are repeated in part are executed again (`agent_loop.py:1127`); an unknown
  tool ends the calls of the round, not the loop, and these calls stay without a tool message when the
  model is asked again (`:1390`; the calls themselves are appended "exactly as the OpenAI schema
  requires", `:1104`); the last round's calls are executed and
  nobody reads them; the evidence budget is per call. `lancedb_store.py:138` cuts vector hits to ten
  times `top_k` before it filters, though `retrieval.py` relies on the filter in the store.
* Chunking and sidecar. `_apply_min_guard` documents that a short first block joins the next one; it
  stays alone. A mark at the end of the search window ends a sentence whatever follows. Summarising
  leaves no room for the system prompt, so the summary so far is dropped from the
  prompt's head (`HeadIsLost`), and folds the newest messages first although it is told they are
  in order.

Bounds. Apply: three executions are the least with which one can read the record, a second one
finish and a third start from what is left; changes 0 and 1 share a file and change 2 creates
another, so that order, atomicity and creation all matter; two edits hit one file before and
after the read. A batch that is refused because it sorts into failure is in the module
(`Breaks` between its own changes) and in no instance: with the faults it is too large, and what it leads to
is an error answer before anything is written. Session: two applies with different
ids, or twice the same one, and two sessions are the least with which copies, claims and
results get mixed up; `MaxUserMoves` bounds what other clients do. Index: three texts so that
a file can change before and during its indexing, the first with more chunks than the others,
and one crash, enough to lose a task at each of its awaits; in the run with failing calls two acts are
two requests, whose tasks overlap, or a request and a change of its file or its cancellation; a forced task is in no
run of its own: it works on files that have not changed, as a task after `Touch` does. Campaign:
four versions and two items let an item be removed and its number tried again, and three
numbers of the configuration let a field be disabled or deleted under a request; the two
drafters suffice for a repetition, a crash and a race, and the session for a version that is there first. Drift: two tasks overlap at each step; one
fault is put at each step; a second draft can be planned, and a second request come, at each step
of a request, but without a fault, since all of them together are too many (`Loads`). Pipeline: four
tokens are what two confirmations and their pauses need, one of them replaced; four steps have a level with a validation step and another beside it. Agent: two rounds and two
calls let a call repeat an earlier one within a reply or across rounds; two changes
of tags or index fall between any steps, so also one before and one after a read of a search. Symmetry is used in safety runs only, over
requests that do not differ. Deadlock is not checked: requests are finite, and when all
have ended an instance stops.

Fairness. `IndexerApply`: the event loop runs every coroutine that can go on (`WF` of each
`Step`) and Redis drops the key of a dead holder (`WF` of `ExpireLock`). `UpdateModeSession`: `WF` of the
next step of every request that has begun, which includes the time-out of httpx; nothing is
assumed of the indexer, of clients or of expiry. `VaultIndex`: `WF` of the steps of each
task, of the watchdog, and of the expiry of a dead task's key; a failure is never due. `ContextDrift`:
`WF` of the idle scan, which a timer starts, of each task's steps, and of the expiry of the
cool-down. `AgentLoop`: `WF` of the turn, whose calls all have time-outs; `Cancel`, the model's replies and
the environment are free.

What the index needs of its surroundings. `index_converges` holds under five restrictions, each a
constant of `VaultIndex`, and each found necessary by lifting it:

* `Missing = FALSE`: no file is removed (see the table).
* `Faults = FALSE`: a swallowed failure of the wipe leaves chunks of the old text.
* `Overlap = FALSE`: no task is started beside another. The watchdog looks for a running task,
  but a new one is registered only after its scan (`test_vault_watchdog.py:153` has the
  check, not the gap), and two tasks can leave the md5 of one text with the chunks of another.
* `Reverts = FALSE`: an edit does not bring an older text back. A text that was replaced and
  restored while it was indexed has the scan's md5 and the other text's chunks.
* `MaxMtime = 0`, no forced task: the content changes with the mtime. Wiping an unchanged file's chunks and
  dying before the row is pending leaves it "indexed" without chunks.

## 4. Proofs

Each module of state has a module of proofs. Every invariant, action property and refinement a
passing run checks is proved there for all values of the constants, under the `ASSUME`s of the
module it is about and no other condition, except `IndexedIsCurrent` and `CacheIsHonest`, which are only
model-checked. Most assumptions say what the constants are: numbers, finite sets, functions, that a
placeholder is no value. Two say more. `AcyclicAssumption`: the pipeline has no cycle; for one that has,
`topological_sort` gives no levels and `get_execution_levels` raises, so no step of it ever runs.
`RetrievalAssumption`: `Place` gives no two documents one place, which is what an order is;
scores may be equal. TLC evaluates all of them on every run.

A property is seldom inductive. The proofs of a module share an invariant that is: a
conjunction of named parts, each of which says what one part of the state owes to another. TLC
checked each on the instances of section 3 before it was proved. There is one lemma per part or per action,
and a predicate (`Quiet`, `StandStill`) for the steps that leave a part alone.

**`IndexerApplyProofs`** (no condition: keys expire, processes die, disk and git fail).

* `UpdatesAppliedOnce`, `BatchesAtomic`, `EditsKept`, from `IInv`: that a second execution
  cannot apply a batch again follows from what a handler has checked and holds in its buffer. One
  execution is in the section without awaits (`OneInSync`); what was resolved has its
  text recorded, and what was not is untouched (`ResolvedFirst`, `UnresolvedUntouched`, `ReviewedTextClean`);
  what is left to apply is not yet in the text (`PendingBatchesUnapplied`); the buffer is the
  text with one batch put in, edits of the gap excepted (`BufferIsNextText`).
  `ChangesKept` is the action property, `RefinesReviewedFiles` the refinement: every step
  implements `ReviewedFiles!Next` or leaves the text alone.
* `AppliedMeansCommitted`, `OverwrittenIsInHistory` and `NothingStaysUncommittedInSilence` are each about the
  end of a path through one vault. `OnThePath` says where on it an execution is (nothing written
  before the first read, no result of a vault before its turn is over, no answer before the end),
  `IndexBetween` that the git index lies between HEAD and the working tree, so that HEAD never loses
  a change. On these rest `WrittenIsThere` and `ResultsAreHonest` (also of cached results, which
  other requests get); `SnapshotsReviewed` (a file is as it was reviewed from the preflight to
  the snapshot, since only the user's editor runs beside it); and `SomebodyIsResponsible`: for every
  change on disk and not in HEAD some execution is dead, has still to commit it, or has noted or
  answered that it could not.

**`UpdateModeSessionProofs`** (no condition). `SessionInv`: whatever is accepted in a session or in
a handler's copy of it was accepted in a review of it (`Reviewed`); copies of one session carry the apply id
under which it was claimed (`Claimants`); an apply's effects come from its copy, in the order of its
stages (`Stages`, `Effects`). From these `OnlyReviewedLeaves`, `SessionAppliedUnderOneId`,
`FailedSchemaWritesNothing` and `SessionsRefineReviewSession`.

**`CampaignStateProofs`** (no condition). `CampaignInv`: requests and the draft hold older copies of
documents, never newer than the documents are, and a text never older than the snapshot before it
(`Requests`, `Proposal`); an editor's copy that still names the last version holds its rows (`Shown`),
since versions are only ever appended. From these `ValuesAreKeyed`, `OneDraftedVersion`,
`SuggestionsComeWithState` and the action properties `PatchesReplaceSeenRows` and `DraftsAreOfCurrentTexts`.
Lemmas say what a patch, a new version and added fields make of keyed rows.

**`ChatPipelineProofs`** (every acyclic pipeline). `PipelineInv`: what a run has executed is a chain
through the levels before its own (`Sound`, `SoundPause`), and has every step of them that is not beside a validation step; a token that is
stored was not taken out before, and one a request holds is never of the other kind (`Tokens`). From these
`StepsRunInOrder`, `NoStepIsSkipped` and `TokensStayOut`.
The lemmas on levels prove that a parent's level is lower and that a step is in one level only, for every
graph: by the least counterexample, since induction theorems cannot be instantiated.

**`RetrievalProofs`**: `HitsPassTheFilter`: a search returns documents of its filter and of
the index, whatever vaults, queries and scores are, equal ones included. It follows every sequence from
the cut of the vector hits to the merge of the vaults. The provers have no definition of `SortSeq` and `SelectSeq`: `Ordered` and `Among` say what they are needed
for, by a choice and a recursive function, and that what they define exists is proved
(`OrderExists`, `RecurrenceExists`, `AmongExists`).

**`AgentLoopProofs`** (no condition). `LoopInv`: attempts are counted and a failure delivers text once
(`Attempts`); the calls without a tool message are those left in the round, but for rounds that an unknown tool
cut short (`Owed`); what the tags allow is in the scope of the turn, and a search under way keeps
the filter it began with (`Scoped`), though tags and index change while it waits.
From these, with `HitsPassTheFilter`, `SearchesStayInScope`, which is about the search tool alone, and
`OtherCallsAreAnswered`: the calls without a tool message are those an unknown tool cut off.

**`ContextDriftProofs`**: `DriftInv`. A summary is exact in the chat and in every task's copy (`RecapPart`); a status
of work under way belongs to a task that has yet to publish its last phase, or a fault has been (`SpinnerPart`); from these `SummariesAreExact`,
`AcceptedDraftsGo`, `SpinnersStop`. The last two say "without a fault" in the property itself. The first is about the messages the sidecar is
handed, not about what it makes of them.

**`VaultIndexProofs`** (no condition: tasks overlap, files vanish and come back, calls fail, the process
dies). `IndexTypes`. `RunningKeysEnd`: a key that says "running" has a task, alive or dead, that
ends it (`KeysFit` ties the key to the place of the task). `DocumentsStayApart`: two files never
share a document through their rows, the tasks at work on them and the watchdog, so that what is
wiped, stored, marked or dropped by an id read earlier is not another file's (`Papers`: only
`InsertRow` gives a file an id, and a new one; a task between two files holds none). No run spends time on the last
two. What the stores tell of each other, `IndexedIsCurrent` and `CacheIsHonest`, holds under the
restrictions named at the end of section 3 only, and is left to TLC.

Only model-checked: liveness (`RequestEnds`, `RequestsEnd`, `Converges`, `TasksEnd`, `DirtyIsRescanned`,
`TurnEnds`), since fairness and `ENABLED` are out of the prover's reach; the `ASSUME`s of the MC modules
about `TextOps`, `Chunking` and `TokenWindow`, which are recursive and whose promises need
induction over data; `FusionAgrees` and `CutFits` of `Retrieval`; `IndexedIsCurrent` and `CacheIsHonest`.

## 5. Plan

Done: all modules of section 2 with their runs; a theorem for every invariant, action property and
refinement a passing run checks but two. Left:

1. Lemmas on `Retrieval` that `MCAgentLoop` only evaluates: the cut fits its budget; the fusion keeps an order
   both searches agree on.
2. What remains true of an indexed file when tasks overlap, calls fail and files vanish: after an edit
   that follows the last fault its chunks are those of one text, even if not of the row's; and, on it,
   `IndexedIsCurrent` and `CacheIsHonest` with no more restrictions than each needs.
3. `IndexedIsCurrent` beside overlapping tasks of different files, which `Overlap = FALSE` excludes as well.

## 6. Not modelled

What models generate, the texts of prompts and evidence, the content of proposals (inputs of the
modules); PDF layout, embedding, inference and the host agent, which starts and stops
processes; sentence splitting and heading detection by regular expressions; a graceful shutdown of the indexer (tasks are
cancelled first; the abrupt end is `Crash`), progress and chunk counters of a task (nothing decides
by them); CRUD of chats, pipelines, domains, models and settings (single transactions over
Postgres with a process cache); the queues of status subscribers; in `IndexerApply`, which words of a text make an
anchor (`Breaks` says only which change removes which); audit rows, which no handler reads;
the frontend, whose requests are the environment; migrations and scripts.
