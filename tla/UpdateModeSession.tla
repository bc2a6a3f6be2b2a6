------------------------- MODULE UpdateModeSession -------------------------
(***************************************************************************)
(* rag-backend, Campaign Update Mode: the review session of one chat in    *)
(* Redis and the handlers that share it.  Several HTTP requests (start,    *)
(* propose_context_update, PATCH /review, POST /apply, DELETE /session)    *)
(* run at once; each access to Redis, to Postgres and to rag-indexer is an *)
(* await, so every one of them is a step of its own and others come in     *)
(* between.  The session may expire, the backend may die, and the indexer  *)
(* may answer late: its side of /apply is modelled by the record, the lock *)
(* and the runs of each apply id (IndexerApply has its detail).            *)
(*                                                                         *)
(* Audit rows are left out: no handler reads them.                         *)
(***************************************************************************)
EXTENDS Naturals, FiniteSets

CONSTANTS
  Files,        \* file changes that can be proposed
  StateOps,     \* Campaign State operations that can be proposed
  TextOps,      \* those that carry a text
  Schema,       \* schema operations that can be proposed
  Creates,      \* those that create a field; the others update one
  Keys,         \* keys of Campaign State fields
  KeyOf,        \* KeyOf[o] : the field a state or schema operation is about
  Configured,   \* fields that exist at the start
  Proposals,    \* what a generated or resolved proposal can offer
  Decisions,    \* bodies of PATCH /review
  Requests,     \* HTTP requests
  Kind,         \* Kind[r] : the handler r goes to
  Given,        \* Given[r] : the apply_id in the body of r, None if absent
  ClientIds,    \* apply ids that clients make up
  MaxUserMoves, \* bound on what other clients do to the campaign
  Faults,       \* the backend dies, Redis and Postgres fail
  CanExpire,    \* the session's TTL ends
  NoSession, None

Items == Files \union StateOps \union Schema
Ids   == Requests \union ClientIds

Offered == {"absent", "pending", "unresolved"}
Status  == Offered \union {"accepted", "rejected"}

ASSUME SessionAssumption ==
  /\ TextOps \subseteq StateOps
  /\ Creates \subseteq Schema
  /\ StateOps \intersect (Files \union Schema) = {} /\ Files \intersect Schema = {}
  /\ KeyOf \in [StateOps \union Schema -> Keys]
  /\ Configured \subseteq Keys
  /\ Proposals \subseteq [Items -> Offered]
  /\ Decisions \subseteq [accept : SUBSET Items, reject : SUBSET Items, edit : SUBSET StateOps]
  /\ \A d \in Decisions : d.reject \intersect (d.accept \union d.edit) = {}
  /\ Kind \in [Requests -> {"start", "propose", "review", "apply", "cancel"}]
  /\ Given \in [Requests -> ClientIds \union {None}]
  /\ MaxUserMoves \in Nat
  /\ Faults \in BOOLEAN /\ CanExpire \in BOOLEAN
  /\ None \notin Ids

Sessions == [sid : Requests, status : [Items -> Status], edited : SUBSET TextOps,
             applyId : Ids \union {None}, result : Ids \union {None}]

\* What the key of a chat shows of a session (see Chat below).
Seen == [sid : Requests, status : [Items -> Status], applyId : Ids \union {None}]

\* A missing key is told from a session, in full or as seen.
ASSUME NoSessionAssumption == NoSession \notin Sessions \union Seen

VARIABLES
  session,  \* the value of update_mode:{chat_id}
  \* handlers: place and local variables of each request
  pc, answer,
  saw,      \* the session a handler works on: its copy, not the stored one
  todo, applied, failed, undo,  \* schema operations: left, done, failed, to roll back
  base,     \* the state version the patch of this request is built on
  patch,    \* what became of it
  \* Campaign State in Postgres
  config,   \* config[k] : "none", or who wrote field k last
  version,  \* the number of the latest state version, 0 if there is none
  \* rag-indexer
  call,     \* call[r] : the indexer's side of the /apply request of r
  record,   \* record[id] : the files of the completed run of id, None before
  lock,     \* ids whose lock key exists
  \* history
  used,     \* ids of the sessions created
  reviewed, \* <<sid, item>> : accepted by a review of that session
  runs,     \* runs of rag-indexer that were given the lock
  patches,  \* state versions written by POST /apply
  moves     \* number of moves of other clients

handlerVars  == <<pc, answer, saw, todo, applied, failed, undo, base, patch>>
campaignVars == <<config, version>>
indexerVars  == <<call, record, lock, runs>>
ghostVars    == <<used, reviewed>>
vars == <<session, handlerVars, campaignVars, indexerVars, ghostVars, patches, moves>>
schemaVars == <<todo, applied, failed, undo>>

TypeOK ==
  /\ session \in Sessions \union {NoSession}
  /\ pc \in [Requests -> {"idle", "clear", "build", "schema", "rollback", "waiting",
                          "complete", "state", "patch", "done", "dead"}]
  /\ answer \in [Requests -> {"none", "ok", "refused", "expired", "nothing", "failed",
                              "schema_failed", "conflict", "unavailable"}]
  /\ saw \in [Requests -> Sessions \union {NoSession}]
  /\ todo \in [Requests -> SUBSET Schema]
  /\ applied \in [Requests -> SUBSET Schema]
  /\ failed \in [Requests -> SUBSET Schema]
  /\ undo \in [Requests -> SUBSET Schema]
  /\ base \in [Requests -> Nat]
  /\ patch \in [Requests -> {"none", "applied", "failed"}]
  /\ config \in [Keys -> {"none", "user"} \union Schema]
  /\ version \in Nat
  /\ call \in [Requests -> {"none", "sent", "looked", "running", "ok", "busy", "dead"}]
  /\ record \in [Ids -> (SUBSET (Requests \X Files)) \union {None}]
  /\ lock \subseteq Ids
  /\ used \subseteq Requests
  /\ reviewed \subseteq Requests \X Items
  /\ runs \subseteq [by : Requests, id : Ids, sid : Requests, files : SUBSET Files]
  /\ patches \subseteq [by : Requests, sid : Requests, ops : SUBSET StateOps, base : Nat]
  /\ moves \in 0..MaxUserMoves

Init ==
  /\ session = NoSession
  /\ pc     = [r \in Requests |-> "idle"]
  /\ answer = [r \in Requests |-> "none"]
  /\ saw    = [r \in Requests |-> NoSession]
  /\ todo = [r \in Requests |-> {}] /\ applied = [r \in Requests |-> {}]
  /\ failed = [r \in Requests |-> {}] /\ undo = [r \in Requests |-> {}]
  /\ base   = [r \in Requests |-> 0]
  /\ patch  = [r \in Requests |-> "none"]
  /\ config = [k \in Keys |-> IF k \in Configured THEN "user" ELSE "none"]
  /\ version \in {0, 1}
  /\ call   = [r \in Requests |-> "none"]
  /\ record = [id \in Ids |-> None]
  /\ lock = {} /\ used = {} /\ reviewed = {} /\ runs = {} /\ patches = {} /\ moves = 0

-----------------------------------------------------------------------------
(* Helpers *)

\* begin_apply makes an id up when the body has none.
ApplyIdOf(r) == IF Given[r] = None THEN r ELSE Given[r]

\* Mutant: what was not rejected counts as accepted.
NotRejected(s, S) == {i \in S : s.status[i] \in {"accepted", "pending"}}

\* What a handler takes from the session it holds.
AcceptedIn(s, S) == {i \in S : s.status[i] = "accepted"}
Payload(r)       == {<<saw[r].sid, f>> : f \in AcceptedIn(saw[r], Files)}

\* POST /apply has something to do: rejected state or schema decisions count.
HasChanges(s) ==
  \/ AcceptedIn(s, Items) # {}
  \/ \E i \in StateOps \union Schema : s.status[i] = "rejected"

Answer(r, code) == /\ answer' = [answer EXCEPT ![r] = code]
                   /\ pc' = [pc EXCEPT ![r] = "done"]
Goto(r, place) == pc' = [pc EXCEPT ![r] = place] /\ UNCHANGED answer

OthersOfSession == UNCHANGED <<saw, schemaVars, base, patch, campaignVars, indexerVars,
                               patches, moves>>

-----------------------------------------------------------------------------
(* Opening and closing the session *)

\* UpdateModeExecutor.start: a chat with a session is refused at once.
Start(r) ==
  /\ Kind[r] = "start" /\ pc[r] = "idle"
  /\ IF session = NoSession THEN Goto(r, "build") ELSE Answer(r, "refused")
  /\ UNCHANGED <<session, ghostVars>> /\ OthersOfSession

\* start_from_proposal looks for a session to supersede ...
Propose(r) ==
  /\ Kind[r] = "propose" /\ pc[r] = "idle"
  /\ Goto(r, IF session = NoSession THEN "build" ELSE "clear")
  /\ UNCHANGED <<session, ghostVars>> /\ OthersOfSession

\* ... and deletes the key, whatever it holds by then.
Supersede(r) ==
  /\ pc[r] = "clear"
  /\ session' = NoSession
  /\ Goto(r, "build")
  /\ UNCHANGED ghostVars /\ OthersOfSession

\* Validation, retrieval, generation or the resolve of the indexer fails.
BuildFails(r) ==
  /\ pc[r] = "build"
  /\ Answer(r, "failed")
  /\ UNCHANGED <<session, ghostVars>> /\ OthersOfSession

NewSession(r, offer) ==
  [sid |-> r, status |-> offer, edited |-> {}, applyId |-> None, result |-> None]

\* Mutant: SET without NX.
StoreAnyway(r, offer) ==
  /\ session' = NewSession(r, offer)
  /\ used' = used \union {r}
  /\ Answer(r, "ok")

\* UpdateModeStore.create: SET NX.
Store(r, offer) ==
  IF session = NoSession
  THEN /\ session' = NewSession(r, offer)
       /\ used' = used \union {r}
       /\ Answer(r, "ok")
  ELSE UNCHANGED <<session, used>> /\ Answer(r, "refused")

Create(r) ==
  /\ pc[r] = "build"
  /\ \E offer \in Proposals : Store(r, offer)
  /\ UNCHANGED reviewed /\ OthersOfSession

Cancel(r) ==
  /\ Kind[r] = "cancel" /\ pc[r] = "idle"
  /\ session' = NoSession
  /\ Answer(r, "ok")
  /\ UNCHANGED ghostVars /\ OthersOfSession

\* The 3 h TTL, renewed by every write of the session.
Expire ==
  /\ CanExpire
  /\ session # NoSession
  /\ session' = NoSession
  /\ UNCHANGED <<pc, answer, ghostVars>> /\ OthersOfSession

-----------------------------------------------------------------------------
(* PATCH /review: one Lua script, all or nothing *)

\* Accepts and rejects come first; an edit then needs an item still pending.
Applicable(d) ==
  /\ \A i \in d.accept \union d.reject \union d.edit : session.status[i] = "pending"
  /\ d.edit \intersect d.accept = {}

\* Mutant: the text of an operation without one is replaced as well.
EditsAny(s, d) == [s EXCEPT !.edited = @ \union d.edit]

Decided(s, d) ==
  [sid     |-> s.sid,
   status  |-> [i \in Items |-> CASE i \in d.accept -> "accepted"
                                  [] i \in d.reject -> "rejected"
                                  [] OTHER -> s.status[i]],
   edited  |-> s.edited \union (d.edit \intersect TextOps),
   applyId |-> s.applyId,
   result  |-> s.result]

Review(r) ==
  /\ Kind[r] = "review" /\ pc[r] = "idle"
  /\ \E d \in Decisions :
       \/ /\ session = NoSession
          /\ Answer(r, "expired") /\ UNCHANGED <<session, reviewed>>
       \/ /\ session # NoSession /\ ~Applicable(d)
          /\ Answer(r, "refused") /\ UNCHANGED <<session, reviewed>>
       \/ /\ session # NoSession /\ Applicable(d)
          /\ session' = Decided(session, d)
          /\ reviewed' = reviewed \union ({session.sid} \X d.accept)
          /\ Answer(r, "ok")
  /\ UNCHANGED used /\ OthersOfSession

-----------------------------------------------------------------------------
(* POST /apply *)

Claimed(s, id) == [sid |-> s.sid, status |-> s.status, edited |-> s.edited,
                   applyId |-> id, result |-> s.result]

\* Mutant: a second apply id takes the session over.
TakesOver(r) == TRUE

\* No apply id yet, or this one again.
MayClaim(r) == session.applyId \in {None, ApplyIdOf(r)}

\* begin_apply, one Lua script; the rest of the handler works on the copy.
BeginApply(r) ==
  /\ Kind[r] = "apply" /\ pc[r] = "idle"
  /\ CASE session = NoSession ->
            Answer(r, "expired") /\ UNCHANGED <<session, saw, todo>>
       [] session # NoSession /\ ~MayClaim(r) ->
            Answer(r, "conflict") /\ UNCHANGED <<session, saw, todo>>
       [] session # NoSession /\ MayClaim(r) ->
            /\ session' = Claimed(session, ApplyIdOf(r))
            /\ saw' = [saw EXCEPT ![r] = session']
            /\ todo' = [todo EXCEPT ![r] = AcceptedIn(session, Schema)]
            /\ IF HasChanges(session) THEN Goto(r, "schema") ELSE Answer(r, "nothing")
  /\ UNCHANGED <<applied, failed, undo, base, patch, campaignVars, indexerVars, ghostVars,
                 patches, moves>>

OthersOfSchema == UNCHANGED <<session, saw, base, patch, ghostVars, patches, moves>>

\* One accepted schema operation, in a transaction of its own; fields are
\* created before others are updated.
SchemaOp(r, o) ==
  /\ pc[r] = "schema" /\ o \in todo[r]
  /\ o \in Creates \/ todo[r] \intersect Creates = {}
  /\ o \in Creates <=> config[KeyOf[o]] = "none"
  /\ todo' = [todo EXCEPT ![r] = @ \ {o}]
  /\ config' = [config EXCEPT ![KeyOf[o]] = o]
  /\ applied' = [applied EXCEPT ![r] = @ \union {o}]
  /\ undo' = [undo EXCEPT ![r] = @ \union ({o} \intersect Creates)]
  /\ UNCHANGED <<pc, answer, failed, version, indexerVars>> /\ OthersOfSchema

\* A duplicate key, a missing field, a bad label or a database error: the loop
\* goes on with the next operation.
SchemaOpFails(r, o) ==
  /\ pc[r] = "schema" /\ o \in todo[r]
  /\ o \in Creates \/ todo[r] \intersect Creates = {}
  /\ todo' = [todo EXCEPT ![r] = @ \ {o}]
  /\ failed' = [failed EXCEPT ![r] = @ \union {o}]
  /\ UNCHANGED <<pc, answer, applied, undo, campaignVars, indexerVars>> /\ OthersOfSchema

\* After the schema stage the accepted files go to the indexer, if any.
ToFiles(r) ==
  IF AcceptedIn(saw[r], Files) = {}
  THEN Goto(r, "state") /\ UNCHANGED call
  ELSE Goto(r, "waiting") /\ call' = [call EXCEPT ![r] = "sent"]

\* Mutant: a failed schema stage does not stop the apply.
GoOn(r) == ToFiles(r)

\* Every failure ends in 422, after created fields were deleted.
AfterSchema(r) ==
  CASE failed[r] = {} -> ToFiles(r)
    [] failed[r] # {} /\ undo[r] # {} -> Goto(r, "rollback") /\ UNCHANGED call
    [] failed[r] # {} /\ undo[r] = {} -> Answer(r, "schema_failed") /\ UNCHANGED call

EndSchema(r) ==
  /\ pc[r] = "schema" /\ todo[r] = {}
  /\ AfterSchema(r)
  /\ UNCHANGED <<schemaVars, campaignVars, record, lock, runs>> /\ OthersOfSchema

\* delete_field writes a new state version if there is one already.
AfterDelete == IF version = 0 THEN 0 ELSE version + 1

\* Deletes a field this apply created; a failure is only logged.
Rollback(r, o) ==
  /\ pc[r] = "rollback" /\ o \in undo[r]
  /\ undo' = [undo EXCEPT ![r] = @ \ {o}]
  /\ \/ /\ config[KeyOf[o]] \in Schema
        /\ config' = [config EXCEPT ![KeyOf[o]] = "none"]
        /\ version' = AfterDelete
     \/ UNCHANGED campaignVars
  /\ IF undo'[r] = {} THEN Answer(r, "schema_failed") ELSE Goto(r, "rollback")
  /\ UNCHANGED <<todo, applied, failed, indexerVars>> /\ OthersOfSchema

OthersOfFiles == UNCHANGED <<saw, schemaVars, base, patch, campaignVars, ghostVars,
                             patches, moves>>

\* The answer of the indexer: per-vault results, 409 while another run of the
\* id holds the lock, or an error.
IndexerAnswers(r) ==
  /\ pc[r] = "waiting"
  /\ \/ call[r] = "ok"   /\ Goto(r, "complete")
     \/ call[r] = "busy" /\ Answer(r, "conflict")
     \/ call[r] = "dead" /\ Answer(r, "unavailable")
  /\ UNCHANGED <<session, indexerVars>> /\ OthersOfFiles

\* Mutant: the client waits for an answer without a timeout.
WaitsForever(r) == FALSE

\* The 60 s timeout of httpx: the indexer goes on.
ClientGivesUp(r) == pc[r] = "waiting"

IndexerTimesOut(r) ==
  /\ ClientGivesUp(r)
  /\ Answer(r, "unavailable")
  /\ UNCHANGED <<session, indexerVars>> /\ OthersOfFiles

Completed(s, id) == [sid |-> s.sid, status |-> s.status, edited |-> s.edited,
                     applyId |-> s.applyId, result |-> id]

\* complete_apply: whatever session the chat has now gets the result.
StoreResult(r) ==
  IF session = NoSession THEN NoSession ELSE Completed(session, ApplyIdOf(r))

CompleteApply(r) ==
  /\ pc[r] = "complete"
  /\ session' = StoreResult(r)
  /\ Goto(r, "state")
  /\ UNCHANGED indexerVars /\ OthersOfFiles

OthersOfState == UNCHANGED <<session, saw, schemaVars, config, indexerVars, ghostVars, moves>>

\* _apply_state_patch reads the active version ...
ReadBase(r) ==
  /\ pc[r] = "state"
  /\ IF AcceptedIn(saw[r], StateOps) = {}
     THEN Answer(r, "ok") /\ UNCHANGED base
     ELSE Goto(r, "patch") /\ base' = [base EXCEPT ![r] = version]
  /\ UNCHANGED <<patch, patches, version>> /\ OthersOfState

\* ... and patches it if it is still the latest and all fields exist.  Any
\* CampaignStateValueError becomes a result; the answer is 200 either way.
ApplyPatch(r) ==
  LET ops == AcceptedIn(saw[r], StateOps) IN
  /\ pc[r] = "patch"
  /\ \/ /\ version = base[r] /\ \A o \in ops : config[KeyOf[o]] # "none"
        /\ version' = version + 1
        /\ patches' = patches \union
             {[by |-> r, sid |-> saw[r].sid, ops |-> ops, base |-> base[r]]}
        /\ patch' = [patch EXCEPT ![r] = "applied"]
     \/ /\ patch' = [patch EXCEPT ![r] = "failed"]
        /\ UNCHANGED <<version, patches>>
  /\ Answer(r, "ok")
  /\ UNCHANGED base /\ OthersOfState

-----------------------------------------------------------------------------
(* rag-indexer, /internal/update-mode/apply *)

OthersOfIndexer == UNCHANGED <<session, handlerVars, campaignVars, ghostVars, patches, moves>>

\* Identity query: a completed record is answered as it is.
IndexerReads(r) ==
  /\ call[r] = "sent"
  /\ call' = [call EXCEPT ![r] = IF record[ApplyIdOf(r)] # None THEN "ok" ELSE "looked"]
  /\ UNCHANGED <<record, lock, runs>> /\ OthersOfIndexer

IndexerLocks(r) ==
  /\ call[r] = "looked"
  /\ IF ApplyIdOf(r) \in lock
     THEN call' = [call EXCEPT ![r] = "busy"] /\ UNCHANGED <<lock, runs>>
     ELSE /\ call' = [call EXCEPT ![r] = "running"]
          /\ lock' = lock \union {ApplyIdOf(r)}
          /\ runs' = runs \union {[by |-> r, id |-> ApplyIdOf(r), sid |-> saw[r].sid,
                                   files |-> AcceptedIn(saw[r], Files)]}
  /\ UNCHANGED record /\ OthersOfIndexer

IndexerEnds(r) ==
  /\ call[r] = "running"
  /\ call' = [call EXCEPT ![r] = "ok"]
  /\ record' = [record EXCEPT ![ApplyIdOf(r)] = Payload(r)]
  /\ lock' = lock \ {ApplyIdOf(r)}
  /\ UNCHANGED runs /\ OthersOfIndexer

\* An exception gives the lock back, a dead process does not.
IndexerFails(r) ==
  /\ call[r] = "running"
  /\ call' = [call EXCEPT ![r] = "dead"]
  /\ lock' \in {lock, lock \ {ApplyIdOf(r)}}
  /\ UNCHANGED <<record, runs>> /\ OthersOfIndexer

ExpireLock(id) ==
  /\ id \in lock
  /\ lock' = lock \ {id}
  /\ UNCHANGED <<call, record, runs>> /\ OthersOfIndexer

-----------------------------------------------------------------------------
(* Faults and other clients *)

\* An exception of begin_apply, of Redis too (NOSCRIPT after a restart, a lost
\* reply): taken for a corrupted session, which is deleted if Redis lets it.
BeginApplyFails(r) ==
  /\ Faults
  /\ Kind[r] = "apply" /\ pc[r] = "idle"
  /\ session # NoSession
  /\ \/ session' \in {session, NoSession}
     \/ MayClaim(r) /\ session' = Claimed(session, ApplyIdOf(r))
  /\ Answer(r, "expired")
  /\ UNCHANGED ghostVars /\ OthersOfSession

\* Redis or Postgres fails under a handler in another place: 500.
StoreFails(r) ==
  /\ Faults
  /\ pc[r] \in {"clear", "complete", "state", "patch"}
  /\ Answer(r, "failed")
  /\ UNCHANGED <<session, ghostVars>> /\ OthersOfSession

\* The backend dies: its handlers are gone, Redis and the indexer are not.
Crash ==
  /\ Faults
  /\ \E r \in Requests : pc[r] \notin {"idle", "done", "dead"}
  /\ pc' = [r \in Requests |-> IF pc[r] \in {"idle", "done"} THEN pc[r] ELSE "dead"]
  /\ UNCHANGED <<session, answer, ghostVars>> /\ OthersOfSession

\* Someone creates or deletes a field, or patches the state, elsewhere.
UserMove ==
  /\ moves < MaxUserMoves
  /\ moves' = moves + 1
  /\ \/ /\ \E k \in Keys : config[k] = "none" /\ config' = [config EXCEPT ![k] = "user"]
        /\ UNCHANGED version
     \/ /\ \E k \in Keys : config[k] # "none" /\ config' = [config EXCEPT ![k] = "none"]
        /\ version' = AfterDelete
     \/ version' = version + 1 /\ UNCHANGED config
  /\ UNCHANGED <<session, handlerVars, indexerVars, ghostVars, patches>>

-----------------------------------------------------------------------------

Handler(r) ==
  \/ Start(r) \/ Propose(r) \/ Supersede(r) \/ BuildFails(r) \/ Create(r) \/ Cancel(r)
  \/ Review(r) \/ BeginApply(r)
  \/ \E o \in Schema : SchemaOp(r, o) \/ SchemaOpFails(r, o) \/ Rollback(r, o)
  \/ EndSchema(r) \/ IndexerAnswers(r) \/ IndexerTimesOut(r) \/ CompleteApply(r)
  \/ ReadBase(r) \/ ApplyPatch(r) \/ BeginApplyFails(r) \/ StoreFails(r)

Indexer(r) == IndexerReads(r) \/ IndexerLocks(r) \/ IndexerEnds(r) \/ IndexerFails(r)

Next ==
  \/ \E r \in Requests : Handler(r) \/ Indexer(r)
  \/ \E id \in Ids : ExpireLock(id)
  \/ Expire \/ Crash \/ UserMove

Spec == Init /\ [][Next]_vars

\* uvicorn keeps running the coroutines of accepted requests and httpx its
\* timeout; of the indexer nothing is assumed.
Started(r) == pc[r] # "idle" /\ Handler(r)
FairSpec == Spec /\ \A r \in Requests : WF_vars(Started(r))

-----------------------------------------------------------------------------
(* Properties *)

\* Whatever reaches the files, the Campaign State or its field configuration
\* through an apply was accepted in a review of that very session: not of one
\* it superseded, not by a review that was refused (api/update_mode.py,
\* update_mode_store.update_review).
NothingUnreviewed ==
  /\ \A x \in runs : {x.sid} \X x.files \subseteq reviewed
  /\ \A p \in patches : {p.sid} \X p.ops \subseteq reviewed
  /\ \A r \in Requests : applied[r] # {} => {saw[r].sid} \X applied[r] \subseteq reviewed

\* The changes of one session reach the indexer under one apply id only, so
\* that its idempotency record can see a repetition, whichever clients race
\* to apply, retry or supersede (begin_apply).
OneApplyPerSession ==
  \A x, y \in runs : x.sid = y.sid => x.id = y.id

\* An apply whose schema stage failed writes neither files nor state
\* (Stage A of apply_changes), whenever and in whatever order the operations fail.
FailedSchemaAborts ==
  \A r \in Requests : failed[r] # {} =>
    /\ \A x \in runs : x.by # r
    /\ \A p \in patches : p.by # r

\* The key of the chat goes through review sessions one after the other: a
\* decision is final, an apply id is for good, and a late complete_apply never
\* brings an expired or cancelled session back (the Lua scripts, SET NX).
Chat == INSTANCE ReviewSession
  WITH Sids <- Requests, used <- used,
       session <- IF session = NoSession THEN NoSession
                  ELSE [sid |-> session.sid, status |-> session.status,
                        applyId |-> session.applyId]
ImplementsReviewSession == Chat!Spec

\* Every request that began is answered or lost with the process, even if the
\* indexer never answers (the timeout of IndexerClient).
RequestsEnd == \A r \in Requests : pc[r] # "idle" ~> pc[r] \in {"done", "dead"}

(* What the documents say and the code does not do *)

\* "Idempotent for same apply_id" (POST /apply): the accepted state operations
\* of a session are applied once, however often the apply is repeated.
StatePatchedOnce == \A p, q \in patches : p.sid = q.sid => p = q

\* "apply_id_payload_mismatch": an apply id is not answered with the result of
\* other changes; 200 means the indexer was given the files of this session.
ResultIsOfTheseFiles ==
  \A r \in Requests :
    /\ Kind[r] = "apply" /\ answer[r] = "ok" /\ AcceptedIn(saw[r], Files) # {}
    => \E x \in runs : /\ x.id = ApplyIdOf(r) /\ x.sid = saw[r].sid
                       /\ x.files = AcceptedIn(saw[r], Files)
=============================================================================
