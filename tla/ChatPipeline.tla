---------------------------- MODULE ChatPipeline ----------------------------
(***************************************************************************)
(* A chat's pipelines (api/chat.py, api/pipeline_resume.py,                *)
(* api/fulldoc_confirm.py, services/pipeline_executor.py).  A message may  *)
(* be answered by a pipeline: it is offered under a token, the user        *)
(* confirms, its steps run level by level, a validation step pauses it     *)
(* under another token, and so does the choice of full documents before    *)
(* the final composition.  Before a pipeline is looked for, a planner may  *)
(* ask for missing fields (services/clarification_fsm.py).                 *)
(*                                                                         *)
(* Texts, documents and prompts are abstract: a step's result is hits, a   *)
(* text (or nothing) without hits, or what the user said.  The answers of  *)
(* router, planner and models are free, and so is whether full document    *)
(* mode is on and documents fit.  save_state reads the clarification's row *)
(* again and writes all of it: one step.  Time is free: a token's hour may *)
(* be over at any check.  The row of the clarification is made with the    *)
(* chat.                                                                   *)
(***************************************************************************)
EXTENDS Naturals, Sequences, FiniteSets, SequencesExt

CONSTANTS Req,       \* requests that may be under way at once
          Step,      \* the pipeline's steps
          Kind,      \* the type of each: "retrieval", "full", "validation"
          After,     \* the steps each comes after (after_step_ids)
          MaxTurns,  \* chat.max_clarification_turns
          MaxToken   \* tokens that are handed out

ASSUME PipelineAssumption ==
  /\ IsFiniteSet(Step) /\ MaxTurns \in Nat /\ MaxToken \in Nat
  /\ Kind \in [Step -> {"retrieval", "full", "validation"}]
  /\ After \in [Step -> SUBSET Step]

VARIABLES
  pending,  \* pending_pipeline_confirm: the token of the offer, 0 when there is none
  pause,    \* pipeline_pause_state
  fsm,      \* the chat's row of clarification_states
  minted,   \* tokens handed out
  spent,    \* history: tokens that were stored and have been taken out again
  req       \* what each request has read and where it is

row == <<pending, pause, fsm>>
vars == <<row, minted, spent, req>>

-----------------------------------------------------------------------------
(* Execution levels. *)

\* topological_sort: level i holds the steps whose parents all lie in earlier
\* levels, the last of them in level i - 1.  Steps of a cycle are in none.
LevelsOf(steps, after) ==
  LET n == Cardinality(steps)
      Upto[i \in 0 .. n] ==
        {s \in steps : after[s] \cap steps \subseteq (IF i = 0 THEN {} ELSE Upto[i - 1])}
  IN [i \in 0 .. n |-> Upto[i] \ (IF i = 0 THEN {} ELSE Upto[i - 1])]

Levels == LevelsOf(Step, After)
Depth == Cardinality({i \in DOMAIN Levels : Levels[i] # {}})
Level(i) == IF i < Depth THEN Levels[i] ELSE {}
LevelOf(s) == CHOOSE i \in 0 .. Depth - 1 : s \in Levels[i]

ASSUME AcyclicAssumption == \A s \in Step : \E i \in DOMAIN Levels : s \in Levels[i]

-----------------------------------------------------------------------------
Result == {"absent", "hits", "text", "said"}
NoResults == [s \in Step |-> "absent"]
NoPause == [at |-> "none", token |-> 0, step |-> "none", results |-> NoResults, ran |-> <<>>]
Idle == [stage |-> "idle", missing |-> FALSE, turn |-> 0]

\* A request that is not under way.  asked: the clarification it read, until it has
\* decided what to do about it; level, todo, results, ran: its execution context (ran:
\* history, the steps since the pipeline was begun, in order); token, from: the offer or
\* pause it found.
NoReq == [at |-> "idle", asked |-> Idle, level |-> 0, todo |-> {},
          results |-> NoResults, ran |-> <<>>, token |-> 0, from |-> "none"]

Init ==
  /\ pending = 0 /\ pause = NoPause /\ fsm = Idle
  /\ minted = 0 /\ spent = {}
  /\ req = [r \in Req |-> NoReq]

\* Every request hands out at most one token; a request starts only while there
\* is one left for it (MaxToken bounds the model, not the program).
Starts(r, new) ==
  /\ req[r].at = "idle"
  /\ minted + Cardinality({q \in Req : req[q].at # "idle"}) < MaxToken
  /\ req' = [req EXCEPT ![r] = new]

Becomes(r, new) == req' = [req EXCEPT ![r] = new]
Goes(r, at) == Becomes(r, [req[r] EXCEPT !.at = at])
Ends(r) == Becomes(r, NoReq)

\* What a commit of r puts into the two token columns; the token it acted on and
\* those it replaces are spent.
Stores(r, offer, paused) ==
  /\ pending' = offer /\ pause' = paused
  /\ spent' = (spent \cup {req[r].token} \cup ({pending, pause.token} \ {offer, paused.token})) \ {0}

-----------------------------------------------------------------------------
(* Executor. *)

\* _dag_execute from a level on: levels without steps left are passed over.
Enter(ctx, level) ==
  [ctx EXCEPT !.at = IF level < Depth THEN "steps" ELSE "levels_done", !.level = level,
              !.todo = Level(level)]

Ran(r, s, result) ==
  LET ctx == [req[r] EXCEPT !.results[s] = result, !.ran = Append(@, s), !.todo = @ \ {s}]
  IN IF ctx.todo = {} THEN Enter(ctx, ctx.level + 1) ELSE ctx

\* A search for chunks finds hits or nothing (no vault, no document under the tags,
\* an error); whole documents leave a text or nothing, but no hits.
SearchResults == {"hits", "text"}
DocumentResults == {"text"}
RetrievalStep(r) ==
  /\ req[r].at = "steps"
  /\ \E s \in req[r].todo :
       /\ Kind[s] # "validation"
       /\ \E result \in IF Kind[s] = "retrieval" THEN SearchResults ELSE DocumentResults :
            Becomes(r, Ran(r, s, result))
  /\ UNCHANGED <<row, minted, spent>>

\* A validation step ends the request; the card is shown even when the pause could
\* not be saved.  Whatever else its level holds is left.
Paused(r, s) ==
  [at |-> "validation", token |-> minted + 1, step |-> s, results |-> req[r].results,
   ran |-> Append(req[r].ran, s)]
ValidationStep(r) ==
  /\ req[r].at = "steps"
  /\ \E s \in req[r].todo :
       /\ Kind[s] = "validation"
       /\ \/ Stores(r, pending, Paused(r, s))
          \/ UNCHANGED <<pending, pause, spent>>
  /\ minted' = minted + 1
  /\ IF req[r].from = "send" THEN Goes(r, "save_empty") ELSE Ends(r)
  /\ UNCHANGED fsm

\* _maybe_pause_for_full_doc: full document mode, as the request's copy of the chat
\* has it, hits, and documents among them that fit; a pause that cannot be saved is
\* not made.
HasHits(r) == \E s \in Step : req[r].results[s] = "hits"
\* Mutant: the pause does not stop the run.
OfferDocumentsAndGoOn(r) ==
  /\ req[r].at = "levels_done" /\ HasHits(r)
  /\ Stores(r, pending, [NoPause EXCEPT !.at = "full_doc", !.token = minted + 1, !.ran = req[r].ran])
  /\ minted' = minted + 1
  /\ UNCHANGED <<fsm, req>>
OfferDocuments(r) ==
  /\ req[r].at = "levels_done" /\ HasHits(r)
  /\ Stores(r, pending, [NoPause EXCEPT !.at = "full_doc", !.token = minted + 1, !.ran = req[r].ran])
  /\ minted' = minted + 1
  /\ IF req[r].from = "send" THEN Goes(r, "save_empty") ELSE Ends(r)
  /\ UNCHANGED fsm
NoDocuments(r) ==
  /\ req[r].at = "levels_done"
  /\ Goes(r, "compose")
  /\ UNCHANGED <<row, minted, spent>>

\* _run_final_composition, and the streams that pass its tokens on.  An answer
\* with text is saved; the others leave nothing.
Compose(r) ==
  /\ req[r].at = "compose"
  /\ \/ Becomes(r, [NoReq EXCEPT !.at = "save", !.from = req[r].from])
     \/ IF req[r].from = "send" THEN Goes(r, "save_empty") ELSE Ends(r)
  /\ UNCHANGED <<row, minted, spent>>

-----------------------------------------------------------------------------
(* A message: POST /send_stream, and /send, which offers nothing. *)

\* A chat's session reads the clarification and then answers it or lets the
\* planner decide; the user's message itself is stored on the way.
SendBegins(r) ==
  /\ Starts(r, [NoReq EXCEPT !.at = IF fsm.stage = "collecting" THEN "answering" ELSE "planning",
                             !.asked = fsm, !.from = "stream"])
  /\ UNCHANGED <<row, minted, spent>>

\* process_clarification_answer: a message with anything in it fills every field.
Answered(asked, filled) ==
  LET missing == asked.missing /\ ~filled
      turn == asked.turn + 1
  IN [stage |-> IF ~missing THEN "complete" ELSE IF turn >= MaxTurns THEN "fallback" ELSE "collecting",
      missing |-> missing, turn |-> turn]

Routes(r) == Becomes(r, [req[r] EXCEPT !.at = "routing", !.asked = Idle])

\* The next question is committed with the new state; otherwise the message goes on.
\* The row is overwritten, whatever another request has made of it since it was read.
AnswerClarification(r) ==
  /\ req[r].at = "answering"
  /\ \E filled \in BOOLEAN :
       LET new == Answered(req[r].asked, filled)
       IN /\ fsm' = new
          /\ IF new.stage = "collecting" THEN Ends(r) ELSE Routes(r)
  /\ UNCHANGED <<pending, pause, minted, spent>>

\* The planner finds fields missing only in an idle chat; the state is committed
\* before the question.
MayAsk(asked) == asked.stage = "idle" /\ MaxTurns > 0
StartCollecting(r) ==
  /\ req[r].at = "planning" /\ MayAsk(req[r].asked)
  /\ fsm' = [stage |-> "collecting", missing |-> TRUE, turn |-> 0]
  /\ Becomes(r, [NoReq EXCEPT !.at = "save_question"])
  /\ UNCHANGED <<pending, pause, minted, spent>>
NothingMissing(r) ==
  /\ req[r].at = "planning"
  /\ Routes(r)
  /\ UNCHANGED <<row, minted, spent>>

\* A pipeline is found: it is offered, over an offer that may be there.  The
\* clarification stays as it is.
Offer(r) ==
  /\ req[r].at = "routing" /\ req[r].from = "stream"
  /\ Stores(r, minted + 1, pause)
  /\ minted' = minted + 1
  /\ Ends(r)
  /\ UNCHANGED fsm

\* None is found, or the chat is locked against pipelines: the agent loop, or one
\* retrieval and a reply (whose hits may first be offered as whole documents).
NoPipeline(r) ==
  /\ req[r].at = "routing"
  /\ Goes(r, "replying")
  /\ UNCHANGED <<row, minted, spent>>
PlainDocuments(r) ==
  /\ req[r].at = "replying" /\ req[r].from = "stream"
  /\ Stores(r, pending, [NoPause EXCEPT !.at = "plain_doc", !.token = minted + 1])
  /\ minted' = minted + 1
  /\ Ends(r)
  /\ UNCHANGED fsm
Reply(r) ==
  /\ req[r].at = "replying" /\ req[r].from \in {"stream", "send"}
  /\ \/ Goes(r, "save")
     \/ req[r].from = "stream" /\ Ends(r)
  /\ UNCHANGED <<row, minted, spent>>

Saved(r) == Becomes(r, [NoReq EXCEPT !.at = "saved"])
\* The clarification's reset is flushed first and commits with the answer; that it
\* failed is passed over, and the answer is saved all the same.
SaveAnswer(r) ==
  /\ req[r].at = "save" /\ req[r].from = "stream"
  /\ fsm' = Idle \/ UNCHANGED fsm
  /\ Saved(r)
  /\ UNCHANGED <<pending, pause, minted, spent>>
SaveQuestion(r) ==
  /\ req[r].at = "save_question"
  /\ Saved(r)
  /\ UNCHANGED <<row, minted, spent>>
Finish(r) ==
  /\ req[r].at = "saved"
  /\ Ends(r)
  /\ UNCHANGED <<row, minted, spent>>

\* POST /send looks for a pipeline and runs it at once.
SendDirect(r) ==
  /\ Starts(r, [NoReq EXCEPT !.at = "routing", !.from = "send"])
  /\ UNCHANGED <<row, minted, spent>>
RunDirect(r) ==
  /\ req[r].at = "routing" /\ req[r].from = "send"
  /\ Becomes(r, Enter(req[r], 0))
  /\ UNCHANGED <<row, minted, spent>>

\* It saves whatever came out, an empty message too.
SaveDirect(r) ==
  /\ req[r].at \in {"save", "save_empty"} /\ req[r].from = "send"
  /\ Saved(r)
  /\ UNCHANGED <<row, minted, spent>>

-----------------------------------------------------------------------------
(* The user's decisions. *)

\* pipeline_confirm with the token of the offer (any other is refused): it is
\* compared when the chat is read and taken out in a step of its own, whatever is
\* there by then.
ConfirmBegins(r) ==
  /\ pending # 0
  /\ \E at \in {"confirmed", "declined", "offer_expired"} :
       Starts(r, [NoReq EXCEPT !.at = at, !.token = pending, !.from = "offer"])
  /\ UNCHANGED <<row, minted, spent>>
\* Mutant: an expired offer is left as the request read it.
ConfirmPutsBack(r) ==
  /\ req[r].at \in {"confirmed", "declined", "offer_expired"}
  /\ Stores(r, IF req[r].at = "offer_expired" THEN req[r].token ELSE 0, pause)
  /\ LET ctx == [req[r] EXCEPT !.token = 0]
     IN CASE req[r].at = "confirmed" -> Becomes(r, Enter(ctx, 0))
          [] req[r].at = "declined" -> Becomes(r, [ctx EXCEPT !.at = "replying"])
          [] req[r].at = "offer_expired" -> Ends(r)
  /\ UNCHANGED <<fsm, minted>>
ConfirmClears(r) ==
  /\ req[r].at \in {"confirmed", "declined", "offer_expired"}
  /\ Stores(r, 0, pause)
  /\ LET ctx == [req[r] EXCEPT !.token = 0]
     IN CASE req[r].at = "confirmed" -> Becomes(r, Enter(ctx, 0))
          [] req[r].at = "declined" -> Becomes(r, [ctx EXCEPT !.at = "replying"])
          [] req[r].at = "offer_expired" -> Ends(r)
  /\ UNCHANGED <<fsm, minted>>

\* A declined offer is answered by one retrieval and a reply.
DeclinedReply(r) ==
  /\ req[r].at = "replying" /\ req[r].from = "offer"
  /\ Goes(r, "save") \/ Ends(r)
  /\ UNCHANGED <<row, minted, spent>>
SaveRun(r) ==
  /\ req[r].at = "save" /\ req[r].from \in {"offer", "pause"}
  /\ Saved(r)
  /\ UNCHANGED <<row, minted, spent>>

\* pipeline_resume.  The step results of the pause are those of the snapshot's
\* context only; the route looks for them beside it, finds none and puts what the
\* user said alone into the context.
Resumed(paused) == [NoResults EXCEPT ![paused.step] = "said"]
ResumeBegins(r) ==
  /\ pause.at = "validation"
  /\ \E at \in {"resumed", "cancelled"} :
       Starts(r, [NoReq EXCEPT !.at = at, !.token = pause.token, !.from = "pause",
                    !.level = IF at = "resumed" THEN LevelOf(pause.step) ELSE 0,
                    !.results = IF at = "resumed" THEN Resumed(pause) ELSE NoResults,
                    !.ran = IF at = "resumed" THEN pause.ran ELSE <<>>])
  /\ UNCHANGED <<row, minted, spent>>
\* The run goes on at the level after the validation step's.
\* Mutant: it goes on at the level of the validation step.
ResumesSameLevel(r) ==
  /\ req[r].at \in {"resumed", "cancelled"}
  /\ Stores(r, pending, NoPause)
  /\ IF req[r].at = "resumed" THEN Becomes(r, Enter([req[r] EXCEPT !.token = 0], req[r].level))
     ELSE Ends(r)
  /\ UNCHANGED <<fsm, minted>>
\* Mutant: it goes on one level too far.
ResumesTooFar(r) ==
  /\ req[r].at \in {"resumed", "cancelled"}
  /\ Stores(r, pending, NoPause)
  /\ IF req[r].at = "resumed" THEN Becomes(r, Enter([req[r] EXCEPT !.token = 0], req[r].level + 2))
     ELSE Ends(r)
  /\ UNCHANGED <<fsm, minted>>
ResumeClears(r) ==
  /\ req[r].at \in {"resumed", "cancelled"}
  /\ Stores(r, pending, NoPause)
  /\ IF req[r].at = "resumed" THEN Becomes(r, Enter([req[r] EXCEPT !.token = 0], req[r].level + 1))
     ELSE Ends(r)
  /\ UNCHANGED <<fsm, minted>>

\* full_document_confirm: no token and no expiry; the texts are fetched between the
\* read and the clear, whose commit may fail without notice.  The hybrid context
\* takes the place of the results of every retrieval step.
SelectBegins(r) ==
  /\ pause.at \in {"full_doc", "plain_doc"}
  /\ Starts(r, [NoReq EXCEPT !.at = "selecting", !.token = pause.token, !.from = pause.at,
                             !.ran = pause.ran])
  /\ UNCHANGED <<row, minted, spent>>
SelectClears(r) ==
  /\ req[r].at = "selecting"
  /\ \/ Stores(r, pending, NoPause)
     \/ UNCHANGED <<pending, pause, spent>>
  /\ Becomes(r, [req[r] EXCEPT !.token = 0,
                   !.at = IF req[r].from = "plain_doc" THEN "replying" ELSE "compose"])
  /\ UNCHANGED <<fsm, minted>>

\* In a plain chat the executor replies and saves what it has; when there is text
\* the route saves it once more, as it does for a pipeline.
DocumentsReply(r) ==
  /\ req[r].at = "replying" /\ req[r].from = "plain_doc"
  /\ Goes(r, "save") \/ Ends(r)
  /\ UNCHANGED <<row, minted, spent>>
SavePlain(r) ==
  /\ req[r].at = "save" /\ req[r].from = "plain_doc"
  /\ Becomes(r, [NoReq EXCEPT !.at = "save_again"]) \/ Saved(r)
  /\ UNCHANGED <<row, minted, spent>>
SaveSelection(r) ==
  /\ req[r].at = "save_again" \/ (req[r].at = "save" /\ req[r].from = "full_doc")
  /\ Saved(r)
  /\ UNCHANGED <<row, minted, spent>>

\* A request's client goes away, its task is cancelled, a call it makes raises or
\* the process dies: what it committed stays.
Dies(r) ==
  /\ req[r].at # "idle"
  /\ Ends(r)
  /\ UNCHANGED <<row, minted, spent>>

Works(r) ==
  \/ RetrievalStep(r) \/ ValidationStep(r) \/ OfferDocuments(r) \/ NoDocuments(r) \/ Compose(r)
  \/ AnswerClarification(r) \/ StartCollecting(r) \/ NothingMissing(r)
  \/ Offer(r) \/ NoPipeline(r) \/ PlainDocuments(r) \/ Reply(r)
  \/ SaveAnswer(r) \/ SaveQuestion(r) \/ Finish(r) \/ RunDirect(r) \/ SaveDirect(r)
  \/ ConfirmClears(r) \/ DeclinedReply(r) \/ SaveRun(r) \/ ResumeClears(r)
  \/ SelectClears(r) \/ DocumentsReply(r) \/ SavePlain(r) \/ SaveSelection(r)
Begins(r) ==
  \/ SendBegins(r) \/ SendDirect(r) \/ ConfirmBegins(r) \/ ResumeBegins(r) \/ SelectBegins(r)
Next == \E r \in Req : Begins(r) \/ Works(r) \/ Dies(r)

Spec == Init /\ [][Next]_vars

-----------------------------------------------------------------------------
(* Properties. *)

Token == 0 .. MaxToken
Runs == UNION {[1 .. n -> Step] : n \in 0 .. Cardinality(Step)}
TypeOK ==
  /\ pending \in Token /\ minted \in Token /\ spent \subseteq 1 .. minted
  /\ pause.at \in {"none", "validation", "full_doc", "plain_doc"}
  /\ pause.token \in Token /\ pause.results \in [Step -> Result] /\ pause.ran \in Runs
  /\ fsm \in [stage : {"idle", "collecting", "complete", "fallback"}, missing : BOOLEAN, turn : Nat]
  /\ \A r \in Req :
       /\ req[r].level \in 0 .. Depth /\ req[r].todo \subseteq Step /\ req[r].ran \in Runs
       /\ req[r].results \in [Step -> Result] /\ req[r].token \in Token

\* Over pauses and resumptions a pipeline runs each step at most once and no step
\* before its parents; a parent may be missing only when it shared its level with a
\* validation step (the run stops there and goes on at the next level).
BesideValidation == {s \in Step : \E v \in Level(LevelOf(s)) : v # s /\ Kind[v] = "validation"}
ChainIsOrdered ==
  \A r \in Req : LET ran == req[r].ran IN
    \A i \in DOMAIN ran :
      /\ \A j \in DOMAIN ran : ran[i] = ran[j] => i = j
      /\ \A p \in After[ran[i]] : p \in BesideValidation \/ \E j \in 1 .. i - 1 : ran[j] = p

\* An answer is composed only when every step has run, in however many requests the
\* pipeline's pauses have cut it; only steps beside a validation step may be left out.
NothingIsSkipped ==
  \A r \in Req : req[r].at = "compose" =>
    \A s \in Step \ BesideValidation : \E i \in DOMAIN req[r].ran : req[r].ran[i] = s

\* A token that was taken out of the chat or replaced there is never put back, by a
\* request that had read the columns before or by any other: no later request can act
\* upon it.  (One that had read it by then still does.)
TakenOutStaysOut == spent \cap {pending, pause.token} = {}

\* What the searches of a run found is there when its answer is composed, pauses
\* or not: pause_state carries 'промежуточные результаты' (step_results).
ResultsSurvive ==
  \A r \in Req : req[r].at = "compose" /\ req[r].from # "full_doc" =>
    \A i \in DOMAIN req[r].ran : req[r].results[req[r].ran[i]] # "absent"
=============================================================================
