---------------------------- MODULE ContextDrift ----------------------------
(***************************************************************************)
(* The context engine of one chat (services/context_engine/, and           *)
(* api/context_draft.py).  After a turn a detection task sums up the older *)
(* messages, asks a small model how the chat drifted from the campaign     *)
(* state, writes the hints into the chat's scene state and has a draft of  *)
(* state operations planned.  The user sees the draft on a card and        *)
(* accepts it, rejects it or has the files checked.                        *)
(*                                                                         *)
(* Messages, hints and drafts are abstract: messages are numbered, a hint  *)
(* is a whole list of hints (two lists differ when their hashes do), a     *)
(* draft is its number and the hash of its hints.  The scene state is      *)
(* one JSON column that every writer writes whole: what the LLM's tool put *)
(* into it is the set of the turns that did, wherever the old flat format  *)
(* keeps its keys.  A database session keeps the first copy of the chat it *)
(* loads and is never refreshed by a second read of it.                    *)
(*                                                                         *)
(* No error phase is ever published: detect and plan_draft turn every      *)
(* failure into "nothing found", which is a step of its own below.         *)
(***************************************************************************)
EXTENDS Naturals, Sequences, FiniteSets, Functions

CONSTANTS Turn,       \* chat turns: a message of the user and its answer
          History,    \* messages from before
          Slots,      \* detection tasks that may be under way at once
          User,       \* requests about the draft, numbered as they come
          Hint,       \* what the drift model may find
          Flags,      \* the settings a reader may meet: sets of "detect", "draft"
          KeepLast,   \* messages that stay in full beside the summary
          Chunk,      \* messages the sidecar sums up in one call
          MaxDraft,
          Loads       \* what is explored together: see Load

ASSUME DriftAssumption ==
  /\ {Slots, KeepLast, Chunk} \subseteq Nat \ {0}
  /\ {History, MaxDraft} \subseteq Nat
  /\ User \subseteq Nat
  /\ Flags \subseteq SUBSET {"detect", "draft"}

VARIABLES
  said,      \* how many messages the chat has
  summary,   \* the chat's ChatHistorySummary row
  scene,     \* scene_state of the chat's metadata
  cooldown,  \* Redis drift:cooldown
  dirty,     \* the chat is in Redis drift:dirty
  status,    \* Redis drift:status (its expiry, a minute, is left out)
  draft,     \* Redis draft:campaign:chat
  made,      \* how many drafts were planned
  applied,   \* the drafts applied to the campaign state, in order
  card,      \* the draft the user's page shows
  turn, task, req,  \* what each of them has read and where it is
  faults     \* how often the backend crashed or a call of Redis failed

stored == <<said, summary, scene>>
redis == <<cooldown, dirty, status, draft>>
vars == <<stored, redis, made, applied, card, turn, task, req, faults>>

None == "none"
NoDraft == [n |-> 0, hash |-> None]
Task == 1 .. Slots
Busy == {"detecting", "drafting"}
Draft == [n : 1 .. MaxDraft, hash : Hint]
Scene == [explicit : SUBSET Turn, drift : Hint \cup {None}]
Recap == [count : Nat, text : SUBSET Nat]
NoTask == [at |-> "free", total |-> 0, sum |-> [count |-> 0, text |-> {}],
           scene |-> [explicit |-> {}, drift |-> None], hint |-> None, found |-> FALSE]
NoTurn == [at |-> "new", scene |-> NoTask.scene]
NoReq == [at |-> "new", shown |-> 0, held |-> NoDraft, base |-> 0, scene |-> NoTask.scene]

Init ==
  /\ said = History /\ summary = NoTask.sum /\ scene = NoTask.scene
  /\ cooldown = FALSE /\ dirty = FALSE /\ status = None /\ draft = NoDraft
  /\ made = 0 /\ applied = <<>> /\ card = 0
  /\ turn = [t \in Turn |-> NoTurn]
  /\ task = [r \in Task |-> NoTask]
  /\ req = [u \in User |-> NoReq]
  /\ faults = 0

\* What a state has met so far; Loads bounds the model, not the program.
Load == [tasks |-> Cardinality({r \in Task : task[r].at # "free"}),
         requests |-> Cardinality({u \in User : req[u].at # "new"}),
         drafts |-> made, faults |-> faults,
         hints |-> ({scene.drift, draft.hash} \cup {task[r].hint : r \in Task}
                    \cup {a.scene.drift : a \in Range(task) \cup Range(turn) \cup Range(req)}
                    \cup {req[u].held.hash : u \in User}) \ {None}]
WithinLoads(load) ==
  \E l \in Loads :
    /\ \A part \in {"tasks", "requests", "drafts", "faults"} : load[part] <= l[part]
    /\ load.hints \subseteq l.hints
OneMoreTask == WithinLoads([Load EXCEPT !.tasks = @ + 1])
OneMoreRequest == WithinLoads([Load EXCEPT !.requests = @ + 1])
OneMoreDraft == WithinLoads([Load EXCEPT !.drafts = @ + 1])
OneMoreFault == WithinLoads([Load EXCEPT !.faults = @ + 1])
OtherHints(h) == WithinLoads([Load EXCEPT !.hints = @ \cup {h}])

\* A call of Redis that fails.
Outage ==
  /\ OneMoreFault
  /\ faults' = faults + 1

Publish(phase) ==
  \/ status' = phase /\ UNCHANGED faults
  \/ Outage /\ UNCHANGED status

\* A task, a turn or a request that goes on forgets what only the last step used.
Goes(r, at) == task' = [task EXCEPT ![r] = [NoTask EXCEPT !.at = at]]
TurnGoes(t, at) == turn' = [turn EXCEPT ![t] = [NoTurn EXCEPT !.at = at]]
ReqGoes(u, at) ==
  req' = [req EXCEPT ![u] = [NoReq EXCEPT !.at = at, !.scene = IF at = "over" THEN @ ELSE req[u].scene]]

-----------------------------------------------------------------------------
(* A turn, and what it or the idle scan triggers. *)

TurnBegins(t) ==
  /\ turn[t].at = "new"
  /\ turn' = [turn EXCEPT ![t] = [at |-> "open", scene |-> scene]]
  /\ said' = said + 1
  /\ UNCHANGED <<summary, scene, redis, made, applied, card, task, req, faults>>

\* update_scene_state: its keys go into the copy the turn loaded.
MergeExplicit(t) ==
  /\ turn[t].at = "open"
  /\ scene' = [turn[t].scene EXCEPT !.explicit = @ \cup {t}]
  /\ turn' = [turn EXCEPT ![t] = [at |-> "noted", scene |-> scene']]
  /\ UNCHANGED <<said, summary, redis, made, applied, card, task, req, faults>>

\* An empty answer is not saved, and a turn whose client is gone neither saves
\* what it has so far nor triggers anything.
TurnAnswers(t) ==
  /\ turn[t].at \in {"open", "noted"}
  /\ \/ said' = said + 1 /\ TurnGoes(t, "answered")
     \/ /\ UNCHANGED said
        /\ \E at \in {"answered", "over"} : TurnGoes(t, at)
  /\ UNCHANGED <<summary, scene, redis, made, applied, card, task, req, faults>>

Free == {r \in Task : task[r].at = "free"}
RunDetect ==
  /\ OneMoreTask
  /\ \E r \in Free : (\A p \in Free : r <= p) /\ Goes(r, "begun")

Enabled == \E f \in Flags : "detect" \in f

(***************************************************************************)
(* trigger_for_chat: nothing while the cooldown lasts, not even a mark in  *)
(* the dirty set; otherwise the mark and a task.  When the SETNX fails the *)
(* task starts without a cooldown, and the SADD may fail as well.          *)
(***************************************************************************)
Trigger ==
  \/ /\ Enabled /\ ~cooldown
     /\ cooldown' = TRUE /\ dirty' = TRUE
     /\ RunDetect
     /\ UNCHANGED faults
  \/ /\ \/ cooldown
        \/ \E f \in Flags : "detect" \notin f
     /\ UNCHANGED <<cooldown, dirty, task, faults>>
  \/ /\ Enabled
     /\ Outage
     /\ dirty' \in {dirty, TRUE}
     /\ RunDetect
     /\ UNCHANGED cooldown

TurnTriggers(t) ==
  /\ turn[t].at = "answered"
  /\ TurnGoes(t, "over")
  /\ Trigger
  /\ UNCHANGED <<stored, status, draft, made, applied, card, req>>

\* run_idle_scan, each minute.
IdleScan ==
  /\ dirty /\ ~cooldown /\ Enabled
  /\ Trigger
  /\ UNCHANGED <<stored, status, draft, made, applied, card, turn, req>>

-----------------------------------------------------------------------------
(* _run_detect: the summary, the hints, the draft. *)

DetectBegins(r) ==
  /\ task[r].at = "begun"
  /\ Goes(r, "summing")
  /\ Publish("detecting")
  /\ UNCHANGED <<stored, cooldown, dirty, draft, made, applied, card, turn, req>>

\* The messages that are read in full, beside the summary.
LastMessages == {n \in 1 .. said : n + KeepLast > said}

\* The messages that are in no summary and not among the last ones.
Unsummarized(sum, total) == sum.count + 1 .. total - KeepLast

SummarizeReads(r) ==
  LET block == IF said < KeepLast THEN {} ELSE Unsummarized(summary, said)
  IN /\ task[r].at = "summing"
     /\ \/ block = {} /\ Goes(r, "reading")
        \/ /\ block # {}
           /\ task' = [task EXCEPT ![r] =
                 [NoTask EXCEPT !.at = "compressing", !.total = said, !.sum = summary]]
     /\ UNCHANGED <<stored, redis, made, applied, card, turn, req, faults>>

\* The counts the chunks of the block end at; the sidecar may fail at each.
ChunkEnds(sum, total) ==
  {n \in sum.count .. total - KeepLast : (n - sum.count) % Chunk = 0} \cup {total - KeepLast}

\* Mutant: the row counts the whole block although the sidecar failed midway.
SummarizeWritesAll(r) ==
  /\ task[r].at = "compressing"
  /\ \E n \in ChunkEnds(task[r].sum, task[r].total) :
        summary' = [count |-> task[r].total - KeepLast,
                    text |-> task[r].sum.text \cup task[r].sum.count + 1 .. n]
  /\ Goes(r, "reading")
  /\ UNCHANGED <<said, scene, redis, made, applied, card, turn, req, faults>>

\* The upsert replaces the row, whoever wrote it meanwhile; it may fail.  text: the
\* messages the sidecar was handed for this summary or for the one it was handed (what
\* of them it keeps is its own: module TokenWindow).
SummarizeWrites(r) ==
  /\ task[r].at = "compressing"
  /\ \/ UNCHANGED summary
     \/ \E n \in ChunkEnds(task[r].sum, task[r].total) :
           summary' = [count |-> n, text |-> task[r].sum.text \cup task[r].sum.count + 1 .. n]
  /\ Goes(r, "reading")
  /\ UNCHANGED <<said, scene, redis, made, applied, card, turn, req, faults>>

\* The messages, the chat and the state are read; the model is asked.
ReadWindow(r) ==
  /\ task[r].at = "reading"
  /\ task' = [task EXCEPT ![r].at = "asking", ![r].scene = scene]
  /\ UNCHANGED <<stored, redis, made, applied, card, turn, req, faults>>

\* No model, no messages, a provider that fails, or nothing above the threshold.
NothingFound(r) ==
  /\ task[r].at \in {"reading", "asking"}
  /\ Goes(r, "quiet")
  /\ Publish("idle")
  /\ UNCHANGED <<stored, cooldown, dirty, draft, made, applied, card, turn, req>>

\* write_drift puts the hints into the copy read before; a failed commit is ignored.
WriteDrift(r, h) ==
  /\ task[r].at = "asking" /\ OtherHints(h)
  /\ \/ scene' = [task[r].scene EXCEPT !.drift = h]
     \/ UNCHANGED scene
  /\ Goes(r, "hinted")
  /\ UNCHANGED <<said, summary, redis, made, applied, card, turn, req, faults>>

DraftBegins(r) ==
  /\ task[r].at = "hinted"
  /\ \/ /\ \E f \in Flags : "draft" \in f
        /\ Goes(r, "planning")
        /\ Publish("drafting")
     \/ /\ \E f \in Flags : "draft" \notin f
        /\ Goes(r, "quiet")
        /\ Publish("idle")
  /\ UNCHANGED <<stored, cooldown, dirty, draft, made, applied, card, turn, req>>

\* Mutant: no look at whether the hints are still there.
PlanDraftAnyway(r) ==
  /\ task[r].at = "planning"
  /\ task' = [task EXCEPT ![r] = [NoTask EXCEPT !.at = "writing", !.hint = scene.drift]]
  /\ UNCHANGED <<stored, redis, made, applied, card, turn, req, faults>>

\* The drafter reads the hints again, from the chat as it is now.
PlanDraft(r) ==
  LET h == scene.drift
      there == draft # NoDraft /\ draft.hash = h
  IN /\ task[r].at = "planning"
     /\ task' = [task EXCEPT ![r] =
           IF h = None \/ there THEN [NoTask EXCEPT !.at = "settling", !.found = (h # None)]
                               ELSE [NoTask EXCEPT !.at = "writing", !.hint = h]]
     /\ UNCHANGED <<stored, redis, made, applied, card, turn, req, faults>>

\* The provider fails or answers nothing that _filter_allowed_ops lets through.
NoDraftPlanned(r) ==
  /\ task[r].at = "writing"
  /\ Goes(r, "settling")
  /\ UNCHANGED <<stored, redis, made, applied, card, turn, req, faults>>

WriteDraft(r) ==
  /\ task[r].at = "writing" /\ made < MaxDraft /\ OneMoreDraft
  /\ made' = made + 1
  /\ \/ /\ draft' = [n |-> made', hash |-> task[r].hint]
        /\ task' = [task EXCEPT ![r] = [NoTask EXCEPT !.at = "settling", !.found = TRUE]]
        /\ UNCHANGED faults
     \/ /\ Outage
        /\ Goes(r, "settling")
        /\ UNCHANGED draft
  /\ UNCHANGED <<stored, cooldown, dirty, status, applied, card, turn, req>>

\* SREM, whoever marked the chat; then the last phase, unless it is out already.
Settle(r) ==
  /\ task[r].at \in {"settling", "quiet"}
  /\ task' = [task EXCEPT ![r] = IF @.at = "quiet" THEN NoTask ELSE [@ EXCEPT !.at = "telling"]]
  /\ \/ dirty' = FALSE /\ UNCHANGED faults
     \/ Outage /\ UNCHANGED dirty
  /\ UNCHANGED <<stored, cooldown, status, draft, made, applied, card, turn, req>>

\* Mutant: only a new draft is told.
TellIfDrafted(r) ==
  /\ task[r].at = "telling"
  /\ task' = [task EXCEPT ![r] = NoTask]
  /\ \/ task[r].found /\ Publish("draft_ready")
     \/ ~task[r].found /\ UNCHANGED <<status, faults>>
  /\ UNCHANGED <<stored, cooldown, dirty, draft, made, applied, card, turn, req>>

Tell(r) ==
  /\ task[r].at = "telling"
  /\ task' = [task EXCEPT ![r] = NoTask]
  /\ Publish(IF task[r].found THEN "draft_ready" ELSE "idle")
  /\ UNCHANGED <<stored, cooldown, dirty, draft, made, applied, card, turn, req>>

-----------------------------------------------------------------------------
(* The user and the draft. *)

\* The page polls the draft and shows it on a card.
SeeCard ==
  /\ card' = draft.n
  /\ UNCHANGED <<stored, redis, made, applied, turn, task, req, faults>>

Comes(u) == req[u].at = "new" /\ \A p \in User : req[p].at = "new" => u <= p

\* Accept and check take the draft that is there now: 404 when there is none.
TakesDraft(u) ==
  /\ Comes(u) /\ card # 0 /\ OneMoreRequest
  /\ \/ draft = NoDraft /\ ReqGoes(u, "over")
     \/ /\ draft # NoDraft
        /\ \E kind \in {"accept", "check"} :
              req' = [req EXCEPT ![u] =
                [NoReq EXCEPT !.at = kind, !.shown = card, !.held = draft, !.scene = scene]]
  /\ UNCHANGED <<stored, redis, made, applied, card, turn, task, faults>>

\* Reject takes none.
Rejects(u) ==
  /\ Comes(u) /\ card # 0 /\ OneMoreRequest
  /\ req' = [req EXCEPT ![u] = [NoReq EXCEPT !.at = "discarding", !.scene = scene]]
  /\ UNCHANGED <<stored, redis, made, applied, card, turn, task, faults>>

AcceptReads(u) ==
  /\ req[u].at = "accept"
  /\ req' = [req EXCEPT ![u].at = "based", ![u].base = Len(applied)]
  /\ UNCHANGED <<stored, redis, made, applied, card, turn, task, faults>>

\* apply_patch: 409 when the version moved on or does not suit the operations.
AcceptApplies(u) ==
  /\ req[u].at = "based"
  /\ \/ /\ req[u].base = Len(applied)
        /\ applied' = Append(applied, req[u].held.n)
        /\ ReqGoes(u, "discarding")
     \/ UNCHANGED applied /\ ReqGoes(u, "over")
  /\ UNCHANGED <<stored, redis, made, card, turn, task, faults>>

\* start_from_proposal opens an Update Mode session without state operations.
CheckOpens(u) ==
  /\ req[u].at = "check"
  /\ \E at \in {"discarding", "over"} : ReqGoes(u, at)
  /\ UNCHANGED <<stored, redis, made, applied, card, turn, task, faults>>

\* Mutant: the draft is left to expire.
DiscardsNothing(u) ==
  /\ req[u].at = "discarding"
  /\ ReqGoes(u, "clearing")
  /\ UNCHANGED <<stored, redis, made, applied, card, turn, task, faults>>

\* The draft that is there is deleted, whichever it is.
Discards(u) ==
  /\ req[u].at = "discarding"
  /\ \/ draft' = NoDraft /\ ReqGoes(u, "clearing") /\ UNCHANGED faults
     \/ Outage /\ ReqGoes(u, "over") /\ UNCHANGED draft
  /\ UNCHANGED <<stored, cooldown, dirty, status, made, applied, card, turn, task>>

\* clear_drift works on the copy of the chat the request loaded; a failed commit is
\* ignored.
ClearsDrift(u) ==
  /\ req[u].at = "clearing"
  /\ \/ req[u].scene.drift # None /\ scene' = [req[u].scene EXCEPT !.drift = None]
     \/ UNCHANGED scene
  /\ ReqGoes(u, "over")
  /\ UNCHANGED <<said, summary, redis, made, applied, card, turn, task, faults>>

-----------------------------------------------------------------------------
(* Time and faults. *)

\* Mutant: the key is set without an expiry.
CooldownStays ==
  /\ FALSE
  /\ UNCHANGED vars

\* The SETNX gives the key its 30 seconds.
CooldownExpires ==
  /\ cooldown
  /\ cooldown' = FALSE
  /\ UNCHANGED <<stored, dirty, status, draft, made, applied, card, turn, task, req, faults>>

DraftExpires ==
  /\ draft # NoDraft
  /\ draft' = NoDraft
  /\ UNCHANGED <<stored, cooldown, dirty, status, made, applied, card, turn, task, req, faults>>

\* The backend restarts: its tasks and requests are gone, the stores are not.
Crash ==
  /\ Outage
  /\ turn' = [t \in Turn |-> IF turn[t].at = "new" THEN NoTurn ELSE [NoTurn EXCEPT !.at = "over"]]
  /\ task' = [r \in Task |-> NoTask]
  /\ req' = [u \in User |-> IF req[u].at = "new" THEN NoReq ELSE [NoReq EXCEPT !.at = "over"]]
  /\ UNCHANGED <<stored, redis, made, applied, card>>

-----------------------------------------------------------------------------
TurnStep(t) == TurnBegins(t) \/ MergeExplicit(t) \/ TurnAnswers(t) \/ TurnTriggers(t)
TaskStep(r) ==
  \/ DetectBegins(r) \/ SummarizeReads(r) \/ SummarizeWrites(r) \/ ReadWindow(r)
  \/ NothingFound(r) \/ (\E h \in Hint : WriteDrift(r, h)) \/ DraftBegins(r)
  \/ PlanDraft(r) \/ NoDraftPlanned(r) \/ WriteDraft(r) \/ Settle(r) \/ Tell(r)
UserStep(u) ==
  \/ TakesDraft(u) \/ Rejects(u) \/ AcceptReads(u) \/ AcceptApplies(u) \/ CheckOpens(u)
  \/ Discards(u) \/ ClearsDrift(u)

Next ==
  \/ \E t \in Turn : TurnStep(t)
  \/ \E r \in Task : TaskStep(r)
  \/ \E u \in User : UserStep(u)
  \/ IdleScan \/ SeeCard
  \/ CooldownExpires \/ DraftExpires
  \/ Crash

Spec == Init /\ [][Next]_vars

\* Every call of a task has a timeout, the key its expiry, the scan its period.
FairSpec ==
  /\ Spec
  /\ \A r \in Task : WF_vars(TaskStep(r))
  /\ WF_vars(CooldownExpires)
  /\ WF_vars(IdleScan)

-----------------------------------------------------------------------------
(* Properties. *)

TypeOK ==
  /\ said \in Nat /\ summary \in Recap /\ scene \in Scene
  /\ {cooldown, dirty} \subseteq BOOLEAN
  /\ status \in Busy \cup {"idle", "draft_ready", None}
  /\ draft \in Draft \cup {NoDraft} /\ card \in 0 .. MaxDraft
  /\ made \in 0 .. MaxDraft
  /\ \A i \in DOMAIN applied : applied[i] \in 1 .. made
  /\ turn \in [Turn -> [at : {"new", "open", "noted", "answered", "over"}, scene : Scene]]
  /\ \A r \in Task :
        /\ task[r].at \in {"free", "begun", "summing", "compressing", "reading", "asking",
                           "quiet", "hinted", "planning", "writing", "settling", "telling"}
        /\ task[r].scene \in Scene
        /\ task[r].at = "writing" => task[r].hint \in Hint
  /\ \A u \in User :
        /\ req[u].at \in {"new", "accept", "check", "based", "discarding", "clearing", "over"}
        /\ req[u].at \in {"accept", "check", "based"} => req[u].held \in Draft

(***************************************************************************)
(* The sidecar was handed exactly the messages the summary counts, and     *)
(* none of the last ones that are sent in full beside it: whichever task   *)
(* writes last, and wherever the sidecar failed (chat_summarizer.py,       *)
(* _read_messages_for_drift: the recap and the last messages do not        *)
(* overlap).  What the sidecar's prompt drops of it is in TokenWindow.     *)
(***************************************************************************)
RecapIsExact ==
  /\ summary.text = 1 .. summary.count
  /\ summary.text \cap LastMessages = {}

(***************************************************************************)
(* A draft whose patch was applied is offered again only while its accept  *)
(* is on the way to delete it, or when a fault kept it from that: whatever *)
(* else is planned, accepted or rejected meanwhile (accept_context_draft). *)
(***************************************************************************)
AcceptedIsWithdrawn ==
  draft.n \in Range(applied) =>
    \/ \E u \in User : req[u].at = "discarding"
    \/ faults > 0

(***************************************************************************)
(* A client that polls the status does not see a detection under way when  *)
(* none is, unless a call of Redis failed or the backend crashed (then     *)
(* the status lives for a minute): every path of _run_detect ends in a     *)
(* last phase, and tasks that overlap do not leave an earlier one behind.  *)
(***************************************************************************)
SpinnerStops ==
  /\ status \in Busy
  /\ \A r \in Task : task[r].at = "free"
  => faults > 0

(***************************************************************************)
(* A chat that is marked for detection does not stay marked: a crash in    *)
(* the middle of its task, or a call of Redis that failed, leaves it to    *)
(* the idle scan, which takes it up again (DriftLoop.run_idle_scan).       *)
(***************************************************************************)
DirtyIsRescanned == dirty ~> ~dirty

(***************************************************************************)
(* What is applied was on the user's card (context-engine.md: never        *)
(* applied automatically, only a draft and the user's review).  The code   *)
(* applies the draft it finds, which a task may have replaced.             *)
(***************************************************************************)
AcceptedIsSeen ==
  [][\A u \in User : req[u].at = "based" /\ req'[u].at = "discarding" =>
       req[u].held.n = req[u].shown]_vars

(***************************************************************************)
(* When a check of the files goes on to discard the draft, the operations  *)
(* of the draft it took have been applied (check_files_after_draft: Update *)
(* Mode with the state patch applied already).                             *)
(***************************************************************************)
CheckedIsApplied ==
  [][\A u \in User : req[u].at = "check" /\ req'[u].at = "discarding" =>
       req[u].held.n \in Range(applied)]_vars

(***************************************************************************)
(* The detector changes its own part of the scene state: what the LLM's    *)
(* tool wrote into the other part is still there when the hints are in     *)
(* (scene_memory.py: one part for the LLM, one for the detector).          *)
(***************************************************************************)
ExplicitIsKept ==
  [][\A r \in Task : task[r].at = "asking" /\ task'[r].at = "hinted" =>
       scene.explicit \subseteq scene'.explicit]_vars
=============================================================================
