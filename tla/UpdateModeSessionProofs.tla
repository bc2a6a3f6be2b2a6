---------------------- MODULE UpdateModeSessionProofs -----------------------
(***************************************************************************)
(* Proofs about UpdateModeSession for every set of requests, changes,      *)
(* proposals and decisions, whatever expires, crashes or fails.            *)
(***************************************************************************)
EXTENDS UpdateModeSession, TLAPS

-----------------------------------------------------------------------------
(* Types of what the handlers compute. *)

LEMMA ApplyIdType == \A r \in Requests : ApplyIdOf(r) \in Ids
BY SessionAssumption DEF ApplyIdOf, Ids

LEMMA NewSessionType ==
  ASSUME NEW r \in Requests, NEW offer \in Proposals
  PROVE  /\ NewSession(r, offer) \in Sessions
         /\ \A i \in Items : offer[i] # "accepted"
BY SessionAssumption DEF NewSession, Sessions, Status, Offered

LEMMA DecidedType ==
  ASSUME NEW s \in Sessions, NEW d \in Decisions
  PROVE  Decided(s, d) \in Sessions
BY DEF Decided, Sessions, Status

LEMMA ClaimedType ==
  ASSUME NEW s \in Sessions, NEW r \in Requests
  PROVE  Claimed(s, ApplyIdOf(r)) \in Sessions
BY ApplyIdType DEF Claimed, Sessions

LEMMA CompletedType ==
  ASSUME NEW s \in Sessions, NEW r \in Requests
  PROVE  Completed(s, ApplyIdOf(r)) \in Sessions
BY ApplyIdType DEF Completed, Sessions

\* A handler past begin_apply, and the indexer on its behalf, work on a session.
Working == {"schema", "rollback", "waiting", "complete", "state", "patch"}
HasSession ==
  \A r \in Requests : pc[r] \in Working \/ call[r] # "none" => saw[r] # NoSession

LEMMA PayloadType ==
  ASSUME TypeOK, NEW r \in Requests, saw[r] # NoSession
  PROVE  Payload(r) \in SUBSET (Requests \X Files)
BY DEF TypeOK, Payload, AcceptedIn, Sessions

-----------------------------------------------------------------------------
(* One step per action. *)

LEMMA InitTyped == Init => TypeOK /\ HasSession
<1> SUFFICES ASSUME Init PROVE TypeOK /\ HasSession
  OBVIOUS
<1>1. moves \in 0..MaxUserMoves /\ version \in Nat /\ base \in [Requests -> Nat]
  BY SessionAssumption DEF Init
<1>2. config \in [Keys -> {"none", "user"} \union Schema]
  BY DEF Init
<1>3. /\ todo \in [Requests -> SUBSET Schema] /\ applied \in [Requests -> SUBSET Schema]
      /\ failed \in [Requests -> SUBSET Schema] /\ undo \in [Requests -> SUBSET Schema]
  BY DEF Init
<1>4. record \in [Ids -> (SUBSET (Requests \X Files)) \union {None}]
  <2> DEFINE Records == (SUBSET (Requests \X Files)) \union {None}
  <2>1. None \in Records
    OBVIOUS
  <2> HIDE DEF Records
  <2>2. record \in [Ids -> Records]
    BY <2>1 DEF Init
  <2> QED
    BY <2>2 DEF Records
<1>5. /\ session \in Sessions \union {NoSession}
      /\ saw \in [Requests -> Sessions \union {NoSession}]
  BY DEF Init
<1>6. /\ pc \in [Requests -> {"idle"}] /\ answer \in [Requests -> {"none"}]
      /\ patch \in [Requests -> {"none"}] /\ call \in [Requests -> {"none"}]
  BY DEF Init
<1>7. /\ lock \subseteq Ids /\ used \subseteq Requests /\ reviewed \subseteq Requests \X Items
      /\ runs \subseteq [by : Requests, id : Ids, sid : Requests, files : SUBSET Files]
      /\ patches \subseteq [by : Requests, sid : Requests, ops : SUBSET StateOps, base : Nat]
  BY DEF Init
<1>8. TypeOK
  BY <1>1, <1>2, <1>3, <1>4, <1>5, <1>6, <1>7 DEF TypeOK
<1>9. HasSession
  BY <1>6 DEF HasSession, Working
<1> QED
  BY <1>8, <1>9

\* What most actions leave alone.
Frame == UNCHANGED <<saw, schemaVars, base, patch, campaignVars, indexerVars, patches, moves>>

LEMMA SessionStepTyped ==
  ASSUME TypeOK, HasSession, Frame,
         session' \in Sessions \union {NoSession}, used' \subseteq Requests,
         reviewed' \subseteq Requests \X Items,
         NEW r \in Requests, NEW l, NEW a,
         pc' = [pc EXCEPT ![r] = l], answer' = [answer EXCEPT ![r] = a] \/ UNCHANGED answer,
         l \in {"clear", "build", "done"},
         a \in {"ok", "refused", "expired", "failed"}
  PROVE  TypeOK' /\ HasSession'
BY DEF TypeOK, HasSession, Frame, schemaVars, campaignVars, indexerVars, Working


LEMMA NextTyped == TypeOK /\ HasSession /\ [Next]_vars => TypeOK' /\ HasSession'
<1> SUFFICES ASSUME TypeOK, HasSession PROVE [Next]_vars => TypeOK' /\ HasSession'
  OBVIOUS
<1> DEFINE Typed == TypeOK /\ HasSession
<1>1. ASSUME NEW r \in Requests, Start(r) PROVE Typed'
  BY <1>1, SessionStepTyped DEF Start, Goto, Answer, Frame, OthersOfSession, ghostVars, TypeOK
<1>2. ASSUME NEW r \in Requests, Propose(r) PROVE Typed'
  <2>1. Goto(r, "build") \/ Goto(r, "clear")
    BY <1>2 DEF Propose
  <2> QED
    BY <1>2, <2>1 DEF Propose, Goto, OthersOfSession, schemaVars, campaignVars, indexerVars,
                      ghostVars, TypeOK, HasSession, Working
<1>3. ASSUME NEW r \in Requests, Supersede(r) PROVE Typed'
  BY <1>3, SessionStepTyped DEF Supersede, Goto, Answer, Frame, OthersOfSession, ghostVars, TypeOK
<1>4. ASSUME NEW r \in Requests, BuildFails(r) PROVE Typed'
  BY <1>4, SessionStepTyped DEF BuildFails, Goto, Answer, Frame, OthersOfSession, ghostVars, TypeOK
<1>5. ASSUME NEW r \in Requests, Create(r) PROVE Typed'
  <2>1. PICK offer \in Proposals : Store(r, offer)
    BY <1>5 DEF Create
  <2>2. session' \in Sessions \union {NoSession} /\ used' \subseteq Requests
    BY <2>1, NewSessionType DEF Store, TypeOK
  <2>3. Answer(r, "ok") \/ Answer(r, "refused")
    BY <2>1 DEF Store
  <2> QED
    BY <1>5, <2>2, <2>3, SessionStepTyped DEF Create, Answer, Frame, OthersOfSession, TypeOK
<1>6. ASSUME NEW r \in Requests, Cancel(r) PROVE Typed'
  BY <1>6, SessionStepTyped DEF Cancel, Goto, Answer, Frame, OthersOfSession, ghostVars, TypeOK
<1>7. ASSUME NEW r \in Requests, Review(r) PROVE Typed'
  <2>1. PICK d \in Decisions :
          \/ /\ session = NoSession
             /\ Answer(r, "expired") /\ UNCHANGED <<session, reviewed>>
          \/ /\ session # NoSession /\ ~Applicable(d)
             /\ Answer(r, "refused") /\ UNCHANGED <<session, reviewed>>
          \/ /\ session # NoSession /\ Applicable(d)
             /\ session' = Decided(session, d)
             /\ reviewed' = reviewed \union ({session.sid} \X d.accept)
             /\ Answer(r, "ok")
    BY <1>7 DEF Review
  <2>2. session' \in Sessions \union {NoSession}
    BY <2>1, DecidedType DEF TypeOK
  <2>3. reviewed' \subseteq Requests \X Items
    <3>1. d.accept \subseteq Items
      BY SessionAssumption
    <3>2. session # NoSession => session.sid \in Requests
      BY DEF TypeOK, Sessions
    <3> QED
      BY <2>1, <3>1, <3>2 DEF TypeOK
  <2> QED
    BY <1>7, <2>1, <2>2, <2>3, SessionStepTyped
       DEF Review, Answer, Frame, OthersOfSession, TypeOK
<1>8. ASSUME NEW r \in Requests, BeginApply(r) PROVE Typed'
  <2> DEFINE saw1 == Claimed(session, ApplyIdOf(r))
  <2>1. CASE ~(session # NoSession /\ MayClaim(r))
    BY <1>8, <2>1 DEF BeginApply, Answer, ghostVars, indexerVars, campaignVars, TypeOK, HasSession, Working
  <2>2. CASE session # NoSession /\ MayClaim(r)
    <3>1. /\ session' = saw1 /\ saw1 \in Sessions /\ saw' = [saw EXCEPT ![r] = saw1]
          /\ todo' = [todo EXCEPT ![r] = AcceptedIn(session, Schema)]
          /\ Goto(r, "schema") \/ Answer(r, "nothing")
          /\ UNCHANGED <<applied, failed, undo, base, patch, campaignVars, indexerVars,
                         ghostVars, patches, moves>>
      BY <1>8, <2>2, ClaimedType DEF BeginApply, TypeOK
    <3>2. AcceptedIn(session, Schema) \in SUBSET Schema
      BY DEF AcceptedIn
    <3>3. pc'[r] \in {"schema", "done"} /\ \A q \in Requests : q # r => pc'[q] = pc[q]
      BY <3>1 DEF Goto, Answer, TypeOK
    <3>4. HasSession'
      BY <3>1, <3>3, NoSessionAssumption DEF HasSession, indexerVars, TypeOK
    <3> HIDE DEF saw1
    <3> QED
      BY <3>1, <3>2, <3>4 DEF Goto, Answer, ghostVars, indexerVars, campaignVars, TypeOK
  <2> QED
    BY <2>1, <2>2
<1>9. ASSUME NEW r \in Requests, NEW o \in Schema, SchemaOp(r, o) PROVE Typed'
  BY <1>9 DEF SchemaOp, OthersOfSchema, ghostVars, indexerVars, TypeOK, HasSession
<1>10. ASSUME NEW r \in Requests, NEW o \in Schema, SchemaOpFails(r, o) PROVE Typed'
  BY <1>10 DEF SchemaOpFails, OthersOfSchema, ghostVars, indexerVars, campaignVars, TypeOK, HasSession
<1>11. ASSUME NEW r \in Requests, NEW o \in Schema, Rollback(r, o) PROVE Typed'
  <2>1. Answer(r, "schema_failed") \/ Goto(r, "rollback")
    BY <1>11 DEF Rollback
  <2>2. config' \in [Keys -> {"none", "user"} \union Schema] /\ version' \in Nat
    BY <1>11 DEF Rollback, AfterDelete, campaignVars, TypeOK
  <2> QED
    BY <1>11, <2>1, <2>2
       DEF Rollback, Answer, Goto, OthersOfSchema, ghostVars, indexerVars, TypeOK, HasSession, Working
<1>12. ASSUME NEW r \in Requests, EndSchema(r) PROVE Typed'
  <2>1. /\ call' = call \/ call' = [call EXCEPT ![r] = "sent"]
        /\ \/ Goto(r, "state") \/ Goto(r, "waiting") \/ Goto(r, "rollback")
           \/ Answer(r, "schema_failed")
    BY <1>12 DEF EndSchema, AfterSchema, ToFiles
  <2>2. saw[r] # NoSession
    BY <1>12 DEF EndSchema, HasSession, Working
  <2> QED
    BY <1>12, <2>1, <2>2
       DEF EndSchema, Goto, Answer, OthersOfSchema, schemaVars, campaignVars, ghostVars, TypeOK, HasSession, Working
<1>13. ASSUME NEW r \in Requests, IndexerAnswers(r) PROVE Typed'
  BY <1>13 DEF IndexerAnswers, Goto, Answer, OthersOfFiles, schemaVars, campaignVars, ghostVars,
               indexerVars, TypeOK, HasSession, Working
<1>14. ASSUME NEW r \in Requests, IndexerTimesOut(r) PROVE Typed'
  BY <1>14 DEF IndexerTimesOut, Answer, OthersOfFiles, schemaVars, campaignVars, ghostVars,
               indexerVars, TypeOK, HasSession, Working
<1>15. ASSUME NEW r \in Requests, CompleteApply(r) PROVE Typed'
  <2>1. session' \in Sessions \union {NoSession}
    BY <1>15, CompletedType DEF CompleteApply, StoreResult, TypeOK
  <2> QED
    BY <1>15, <2>1 DEF CompleteApply, Goto, OthersOfFiles, schemaVars, campaignVars, ghostVars,
                       indexerVars, TypeOK, HasSession, Working
<1>16. ASSUME NEW r \in Requests, ReadBase(r) PROVE Typed'
  BY <1>16 DEF ReadBase, Goto, Answer, OthersOfState, schemaVars, ghostVars, indexerVars,
               TypeOK, HasSession, Working
<1>17. ASSUME NEW r \in Requests, ApplyPatch(r) PROVE Typed'
  <2> DEFINE ops == AcceptedIn(saw[r], StateOps)
             new == [by |-> r, sid |-> saw[r].sid, ops |-> ops, base |-> base[r]]
  <2>1. saw[r] \in Sessions
    BY <1>17 DEF ApplyPatch, TypeOK, HasSession, Working
  <2>2. new \in [by : Requests, sid : Requests, ops : SUBSET StateOps, base : Nat]
    BY <2>1 DEF TypeOK, Sessions, AcceptedIn
  <2>3. patches' = patches \/ patches' = patches \union {new}
    BY <1>17 DEF ApplyPatch
  <2>4. version' \in Nat /\ patch' \in [Requests -> {"none", "applied", "failed"}]
    BY <1>17 DEF ApplyPatch, TypeOK
  <2> HIDE DEF new
  <2> QED
    BY <1>17, <2>2, <2>3, <2>4
       DEF ApplyPatch, Answer, OthersOfState, schemaVars, ghostVars, indexerVars, TypeOK, HasSession, Working
<1>18. ASSUME NEW r \in Requests, BeginApplyFails(r) PROVE Typed'
  <2>1. session' \in Sessions \union {NoSession}
    BY <1>18, ClaimedType DEF BeginApplyFails, TypeOK
  <2> QED
    BY <1>18, <2>1, SessionStepTyped DEF BeginApplyFails, Answer, Frame, OthersOfSession, ghostVars, TypeOK
<1>19. ASSUME NEW r \in Requests, StoreFails(r) PROVE Typed'
  BY <1>19, SessionStepTyped DEF StoreFails, Answer, Frame, OthersOfSession, ghostVars, TypeOK
<1>20. ASSUME NEW r \in Requests, IndexerReads(r) PROVE Typed'
  <2>1. call' = [call EXCEPT ![r] = "ok"] \/ call' = [call EXCEPT ![r] = "looked"]
    BY <1>20 DEF IndexerReads
  <2> QED
    BY <1>20, <2>1 DEF IndexerReads, OthersOfIndexer, handlerVars, campaignVars, ghostVars, TypeOK, HasSession
<1>21. ASSUME NEW r \in Requests, IndexerLocks(r) PROVE Typed'
  <2> DEFINE new == [by |-> r, id |-> ApplyIdOf(r), sid |-> saw[r].sid,
                     files |-> AcceptedIn(saw[r], Files)]
  <2>1. saw[r] \in Sessions
    BY <1>21 DEF IndexerLocks, TypeOK, HasSession
  <2>2. new \in [by : Requests, id : Ids, sid : Requests, files : SUBSET Files]
    BY <2>1, ApplyIdType DEF Sessions, AcceptedIn
  <2>3. /\ call' = [call EXCEPT ![r] = "busy"] \/ call' = [call EXCEPT ![r] = "running"]
        /\ lock' = lock \/ lock' = lock \union {ApplyIdOf(r)}
        /\ runs' = runs \/ runs' = runs \union {new}
    BY <1>21 DEF IndexerLocks
  <2> HIDE DEF new
  <2> QED
    BY <1>21, <2>2, <2>3, ApplyIdType
       DEF IndexerLocks, OthersOfIndexer, handlerVars, campaignVars, ghostVars, TypeOK, HasSession
<1>22. ASSUME NEW r \in Requests, IndexerEnds(r) PROVE Typed'
  <2>1. Payload(r) \in SUBSET (Requests \X Files)
    BY <1>22, PayloadType DEF IndexerEnds, HasSession
  <2>2. record' \in [Ids -> (SUBSET (Requests \X Files)) \union {None}]
    BY <1>22, <2>1 DEF IndexerEnds, TypeOK
  <2> QED
    BY <1>22, <2>2
       DEF IndexerEnds, OthersOfIndexer, handlerVars, campaignVars, ghostVars, TypeOK, HasSession
<1>23. ASSUME NEW r \in Requests, IndexerFails(r) PROVE Typed'
  BY <1>23 DEF IndexerFails, OthersOfIndexer, handlerVars, campaignVars, ghostVars, TypeOK, HasSession
<1>24. ASSUME NEW id \in Ids, ExpireLock(id) PROVE Typed'
  BY <1>24 DEF ExpireLock, OthersOfIndexer, handlerVars, campaignVars, ghostVars, TypeOK, HasSession
<1>25. ASSUME Expire PROVE Typed'
  BY <1>25 DEF Expire, OthersOfSession, schemaVars, campaignVars, indexerVars, ghostVars, TypeOK, HasSession
<1>26. ASSUME Crash PROVE Typed'
  BY <1>26 DEF Crash, OthersOfSession, schemaVars, campaignVars, indexerVars, ghostVars, TypeOK,
               HasSession, Working
<1>27. ASSUME UserMove PROVE Typed'
  <2>1. config' \in [Keys -> {"none", "user"} \union Schema] /\ version' \in Nat
    BY <1>27 DEF UserMove, AfterDelete, TypeOK
  <2>2. moves' \in 0..MaxUserMoves
    BY <1>27, SessionAssumption DEF UserMove, TypeOK
  <2> QED
    BY <1>27, <2>1, <2>2 DEF UserMove, handlerVars, indexerVars, ghostVars, TypeOK, HasSession
<1>28. ASSUME UNCHANGED vars PROVE Typed'
  BY <1>28 DEF vars, handlerVars, campaignVars, indexerVars, ghostVars, TypeOK, HasSession
<1> QED
  BY <1>1, <1>2, <1>3, <1>4, <1>5, <1>6, <1>7, <1>8, <1>9, <1>10, <1>11, <1>12, <1>13, <1>14,
     <1>15, <1>16, <1>17, <1>18, <1>19, <1>20, <1>21, <1>22, <1>23, <1>24, <1>25, <1>26, <1>27,
     <1>28 DEF Next, Handler, Indexer

-----------------------------------------------------------------------------
(* The inductive invariant. *)

\* A session was opened by a request that has ended, and what counts as accepted
\* in it, or in a copy of it, was accepted in a review of it.
Known(s) ==
  s # NoSession => s.sid \in used /\ {s.sid} \X AcceptedIn(s, Items) \subseteq reviewed

Reviewed ==
  /\ \A s \in used : pc[s] = "done"
  /\ Known(session)
  /\ \A r \in Requests : Known(saw[r])

\* Copies of one session were claimed under one apply id, the one the stored
\* session still has; a request takes its copy first of all.
Claimants ==
  /\ \A r \in Requests : pc[r] = "idle" => saw[r] = NoSession
  /\ \A r \in Requests : saw[r] # NoSession => saw[r].applyId = ApplyIdOf(r)
  /\ \A r, q \in Requests :
       saw[r] # NoSession /\ saw[q] # NoSession /\ saw[r].sid = saw[q].sid
       => ApplyIdOf(r) = ApplyIdOf(q)
  /\ \A r \in Requests :
       saw[r] # NoSession /\ session # NoSession /\ saw[r].sid = session.sid
       => session.applyId = ApplyIdOf(r)

\* What an apply does comes from its copy, in the order of its stages.
Stages ==
  /\ \A r \in Requests : todo[r] \union applied[r] # {} => saw[r] # NoSession
  /\ \A r \in Requests : saw[r] # NoSession =>
       todo[r] \union applied[r] \subseteq AcceptedIn(saw[r], Schema)
  /\ \A r \in Requests : saw[r] = NoSession => failed[r] = {}
  /\ \A r \in Requests : pc[r] \in {"schema", "rollback"} => call[r] = "none"
  /\ \A r \in Requests : failed[r] # {} =>
       pc[r] \in {"schema", "rollback", "done", "dead"} /\ call[r] = "none"

Effects ==
  /\ \A x \in runs :
       /\ call[x.by] # "none"
       /\ x.id = ApplyIdOf(x.by) /\ x.sid = saw[x.by].sid
       /\ x.files = AcceptedIn(saw[x.by], Files)
  /\ \A p \in patches :
       /\ pc[p.by] \in {"done", "dead"} /\ saw[p.by] # NoSession /\ failed[p.by] = {}
       /\ p.sid = saw[p.by].sid /\ p.ops = AcceptedIn(saw[p.by], StateOps)

SessionInv == TypeOK /\ HasSession /\ Reviewed /\ Claimants /\ Stages /\ Effects

\* Most steps leave the open session's decisions and every copy alone.
Quiet ==
  /\ \/ session' = NoSession
     \/ /\ session' # NoSession /\ session # NoSession /\ session'.sid = session.sid
        /\ session'.status = session.status /\ session'.applyId = session.applyId
  /\ UNCHANGED <<saw, ghostVars>>
  /\ \A q \in Requests : pc[q] = "done" => pc'[q] = "done"
  /\ \A q \in Requests : pc'[q] = "idle" => pc[q] = "idle"

LEMMA QuietSteps ==
  ASSUME TypeOK, Next
  PROVE  Quiet \/ \E r \in Requests : Create(r) \/ Review(r) \/ BeginApply(r) \/ BeginApplyFails(r)
<1> USE DEF OthersOfSession, OthersOfSchema, OthersOfFiles, OthersOfState, OthersOfIndexer,
            Goto, Answer, ghostVars, handlerVars, TypeOK
<1>1. ASSUME NEW r \in Requests,
             Start(r) \/ Propose(r) \/ Supersede(r) \/ BuildFails(r) \/ Cancel(r) \/ StoreFails(r)
      PROVE  Quiet
  BY <1>1 DEF Quiet, Start, Propose, Supersede, BuildFails, Cancel, StoreFails
<1>2. ASSUME NEW r \in Requests, NEW o \in Schema,
             SchemaOp(r, o) \/ SchemaOpFails(r, o) \/ Rollback(r, o)
      PROVE  Quiet
  BY <1>2 DEF Quiet, SchemaOp, SchemaOpFails, Rollback
<1>3. ASSUME NEW r \in Requests, EndSchema(r) PROVE Quiet
  BY <1>3 DEF Quiet, EndSchema, AfterSchema, ToFiles
<1>4. ASSUME NEW r \in Requests, IndexerAnswers(r) \/ IndexerTimesOut(r) PROVE Quiet
  BY <1>4 DEF Quiet, IndexerAnswers, IndexerTimesOut, ClientGivesUp
<1>5. ASSUME NEW r \in Requests, CompleteApply(r) PROVE Quiet
  <2>1. \/ session' = NoSession
        \/ session # NoSession /\ session' = Completed(session, ApplyIdOf(r))
    BY <1>5 DEF CompleteApply, StoreResult
  <2>2. session # NoSession => Completed(session, ApplyIdOf(r)) # NoSession
    BY CompletedType, NoSessionAssumption
  <2> QED
    BY <1>5, <2>1, <2>2 DEF Quiet, CompleteApply, Completed
<1>6. ASSUME NEW r \in Requests, ReadBase(r) \/ ApplyPatch(r) PROVE Quiet
  BY <1>6 DEF Quiet, ReadBase, ApplyPatch
<1>7. ASSUME NEW r \in Requests, Indexer(r) PROVE Quiet
  BY <1>7 DEF Quiet, Indexer, IndexerReads, IndexerLocks, IndexerEnds, IndexerFails
<1>8. ASSUME NEW id \in Ids, ExpireLock(id) PROVE Quiet
  BY <1>8 DEF Quiet, ExpireLock
<1>9. ASSUME Expire \/ Crash \/ UserMove PROVE Quiet
  BY <1>9 DEF Quiet, Expire, Crash, UserMove
<1> QED
  BY <1>1, <1>2, <1>3, <1>4, <1>5, <1>6, <1>7, <1>8, <1>9 DEF Next, Handler

LEMMA InitReviewed == Init => Reviewed /\ Claimants
BY DEF Init, Reviewed, Claimants, Known

LEMMA NextReviewed == TypeOK /\ Reviewed /\ [Next]_vars => Reviewed'
<1> SUFFICES ASSUME TypeOK, Reviewed, Next PROVE Reviewed'
  BY DEF Reviewed, Known, vars, handlerVars, ghostVars
<1>1. CASE Quiet
  BY <1>1 DEF Quiet, Reviewed, Known, AcceptedIn, ghostVars, TypeOK
<1>2. ASSUME NEW r \in Requests, Create(r) PROVE Reviewed'
  <2>1. PICK offer \in Proposals : Store(r, offer)
    BY <1>2 DEF Create
  <2>2. CASE session # NoSession
    BY <1>2, <2>1, <2>2
       DEF Create, Store, Answer, OthersOfSession, Reviewed, Known, TypeOK
  <2>3. CASE session = NoSession
    <3>1. /\ session' = NewSession(r, offer) /\ used' = used \union {r} /\ Answer(r, "ok")
          /\ UNCHANGED <<reviewed, saw>>
      BY <1>2, <2>1, <2>3 DEF Create, Store, OthersOfSession
    <3>2. \A s \in used' : pc'[s] = "done"
      BY <3>1 DEF Answer, Reviewed, TypeOK
    <3>3. NewSession(r, offer).sid = r /\ AcceptedIn(NewSession(r, offer), Items) = {}
      BY NewSessionType DEF NewSession, AcceptedIn
    <3> QED
      BY <3>1, <3>2, <3>3 DEF Reviewed, Known
  <2> QED
    BY <2>2, <2>3
<1>3. ASSUME NEW r \in Requests, Review(r) PROVE Reviewed'
  <2>1. UNCHANGED <<saw, used>> /\ reviewed \subseteq reviewed'
    BY <1>3 DEF Review, OthersOfSession
  <2>2. \A s \in used : pc'[s] = "done"
    BY <1>3 DEF Review, Answer, Reviewed, TypeOK
  <2>3. Known(session)'
    <3>1. CASE UNCHANGED session
      BY <2>1, <3>1 DEF Reviewed, Known
    <3>2. ASSUME NEW d \in Decisions, session # NoSession, session' = Decided(session, d),
                 reviewed' = reviewed \union ({session.sid} \X d.accept)
          PROVE  Known(session)'
      <4>1. session'.sid = session.sid
        BY <3>2 DEF Decided
      <4>2. AcceptedIn(session', Items) \subseteq AcceptedIn(session, Items) \union d.accept
        BY <3>2 DEF Decided, AcceptedIn
      <4> QED
        BY <2>1, <3>2, <4>1, <4>2 DEF Reviewed, Known
    <3> QED
      BY <1>3, <3>1, <3>2 DEF Review
  <2> QED
    BY <2>1, <2>2, <2>3 DEF Reviewed, Known
<1>4. ASSUME NEW r \in Requests, BeginApply(r) PROVE Reviewed'
  <2>1. UNCHANGED ghostVars /\ \A s \in used : pc'[s] = "done"
    BY <1>4 DEF BeginApply, Answer, Goto, Reviewed, TypeOK
  <2>2. \/ UNCHANGED <<session, saw>>
        \/ /\ session # NoSession /\ session' = Claimed(session, ApplyIdOf(r))
           /\ saw' = [saw EXCEPT ![r] = session']
    BY <1>4 DEF BeginApply
  <2>3. session # NoSession /\ session' = Claimed(session, ApplyIdOf(r)) => Known(session)'
    BY <2>1 DEF Claimed, Reviewed, Known, AcceptedIn, ghostVars
  <2> QED
    BY <2>1, <2>2, <2>3 DEF Reviewed, Known, ghostVars, TypeOK
<1>5. ASSUME NEW r \in Requests, BeginApplyFails(r) PROVE Reviewed'
  <2>1. /\ UNCHANGED <<saw, ghostVars>> /\ \A s \in used : pc'[s] = "done"
        /\ session # NoSession
        /\ session' \in {session, NoSession} \/ session' = Claimed(session, ApplyIdOf(r))
    BY <1>5 DEF BeginApplyFails, Answer, OthersOfSession, Reviewed, TypeOK
  <2> QED
    BY <2>1 DEF Claimed, Reviewed, Known, AcceptedIn, ghostVars
<1> QED
  BY <1>1, <1>2, <1>3, <1>4, <1>5, QuietSteps

LEMMA NextClaimants == TypeOK /\ Reviewed /\ Claimants /\ [Next]_vars => Claimants'
<1> SUFFICES ASSUME TypeOK, Reviewed, Claimants, Next PROVE Claimants'
  BY DEF Claimants, vars, handlerVars
<1>1. CASE Quiet
  BY <1>1 DEF Quiet, Claimants
<1>2. ASSUME NEW r \in Requests, Create(r) PROVE Claimants'
  <2>1. PICK offer \in Proposals : Store(r, offer)
    BY <1>2 DEF Create
  <2>2. UNCHANGED saw /\ \A q \in Requests : pc'[q] = "idle" => pc[q] = "idle"
    BY <1>2, <2>1 DEF Create, Store, Answer, OthersOfSession, TypeOK
  <2>3. UNCHANGED session \/ session'.sid = r
    BY <2>1 DEF Store, NewSession
  <2>4. \A q \in Requests : saw[q] # NoSession => saw[q].sid # r
    BY <1>2 DEF Create, Reviewed, Known
  <2> QED
    BY <2>2, <2>3, <2>4 DEF Claimants
<1>3. ASSUME NEW r \in Requests, Review(r) PROVE Claimants'
  <2>1. UNCHANGED saw /\ \A q \in Requests : pc'[q] = "idle" => pc[q] = "idle"
    BY <1>3 DEF Review, Answer, OthersOfSession, TypeOK
  <2>2. \/ session' = session
        \/ /\ session # NoSession
           /\ session'.sid = session.sid /\ session'.applyId = session.applyId
    BY <1>3 DEF Review, Decided
  <2> QED
    BY <2>1, <2>2 DEF Claimants
<1>4. \A r \in Requests : session # NoSession /\ MayClaim(r) =>
        \A q \in Requests : saw[q] # NoSession /\ saw[q].sid = session.sid
                            => ApplyIdOf(q) = ApplyIdOf(r)
  BY ApplyIdType, SessionAssumption DEF MayClaim, Claimants
<1>5. ASSUME NEW r \in Requests, BeginApply(r) PROVE Claimants'
  <2>1. pc[r] = "idle" /\ \A q \in Requests : pc'[q] = "idle" => q # r /\ pc[q] = "idle"
    BY <1>5 DEF BeginApply, Answer, Goto, TypeOK
  <2>2. CASE UNCHANGED <<session, saw>>
    BY <2>1, <2>2 DEF Claimants
  <2>3. CASE /\ session # NoSession /\ MayClaim(r) /\ session' = Claimed(session, ApplyIdOf(r))
             /\ saw' = [saw EXCEPT ![r] = session']
    <3>1. /\ session'.sid = session.sid /\ session'.applyId = ApplyIdOf(r)
          /\ saw'[r] = session' /\ \A q \in Requests : q # r => saw'[q] = saw[q]
      BY <2>3 DEF Claimed, TypeOK
    <3> QED
      BY <1>4, <2>1, <2>3, <3>1 DEF Claimants
  <2> QED
    BY <1>5, <2>2, <2>3 DEF BeginApply
<1>6. ASSUME NEW r \in Requests, BeginApplyFails(r) PROVE Claimants'
  <2>1. /\ UNCHANGED saw /\ \A q \in Requests : pc'[q] = "idle" => pc[q] = "idle"
        /\ session # NoSession
        /\ \/ session' \in {session, NoSession}
           \/ MayClaim(r) /\ session' = Claimed(session, ApplyIdOf(r))
    BY <1>6 DEF BeginApplyFails, Answer, OthersOfSession, TypeOK
  <2> QED
    BY <1>4, <2>1 DEF Claimed, Claimants
<1> QED
  BY <1>1, <1>2, <1>3, <1>5, <1>6, QuietSteps

-----------------------------------------------------------------------------

\* Most steps are none of an apply's stages.
Aside ==
  /\ UNCHANGED <<saw, todo, applied, failed, runs, patches>>
  /\ \A q \in Requests : call'[q] = "none" <=> call[q] = "none"
  /\ \A q \in Requests : pc[q] \in {"done", "dead"} => pc'[q] = pc[q]
  /\ \A q \in Requests : pc[q] \in {"schema", "rollback"} => pc'[q] \in {pc[q], "dead"}
  /\ \A q \in Requests : pc'[q] \in {"schema", "rollback"} => pc'[q] = pc[q]

LEMMA AsideSteps ==
  ASSUME TypeOK, Next
  PROVE  \/ Aside
         \/ \E r \in Requests :
              \/ BeginApply(r) \/ EndSchema(r) \/ ApplyPatch(r) \/ IndexerLocks(r)
              \/ \E o \in Schema : SchemaOp(r, o) \/ SchemaOpFails(r, o) \/ Rollback(r, o)
<1> USE DEF OthersOfSession, OthersOfFiles, OthersOfState, OthersOfIndexer, schemaVars,
            Goto, Answer, handlerVars, indexerVars, TypeOK
<1>1. ASSUME NEW r \in Requests,
             Start(r) \/ Propose(r) \/ Supersede(r) \/ BuildFails(r) \/ Cancel(r) \/ StoreFails(r)
      PROVE  Aside
  BY <1>1 DEF Aside, Start, Propose, Supersede, BuildFails, Cancel, StoreFails
<1>2. ASSUME NEW r \in Requests, Create(r) \/ Review(r) \/ BeginApplyFails(r) PROVE Aside
  BY <1>2 DEF Aside, Create, Store, Review, BeginApplyFails
<1>3. ASSUME NEW r \in Requests,
             IndexerAnswers(r) \/ IndexerTimesOut(r) \/ CompleteApply(r) \/ ReadBase(r)
      PROVE  Aside
  BY <1>3 DEF Aside, IndexerAnswers, IndexerTimesOut, ClientGivesUp, CompleteApply, ReadBase
<1>4. ASSUME NEW r \in Requests, IndexerReads(r) \/ IndexerEnds(r) \/ IndexerFails(r) PROVE Aside
  BY <1>4 DEF Aside, IndexerReads, IndexerEnds, IndexerFails
<1>5. ASSUME NEW id \in Ids, ExpireLock(id) PROVE Aside
  BY <1>5 DEF Aside, ExpireLock
<1>6. ASSUME Expire \/ Crash \/ UserMove PROVE Aside
  BY <1>6 DEF Aside, Expire, Crash, UserMove
<1> QED
  BY <1>1, <1>2, <1>3, <1>4, <1>5, <1>6 DEF Next, Handler, Indexer

LEMMA InitStages == Init => Stages /\ Effects
BY DEF Init, Stages, Effects

LEMMA NextStages == TypeOK /\ HasSession /\ Claimants /\ Stages /\ [Next]_vars => Stages'
<1> SUFFICES ASSUME TypeOK, HasSession, Claimants, Stages, Next PROVE Stages'
  BY DEF Stages, vars, handlerVars, indexerVars
<1>1. CASE Aside
  BY <1>1 DEF Aside, Stages
<1>2. ASSUME NEW r \in Requests, BeginApply(r) PROVE Stages'
  <2>1. /\ saw[r] = NoSession /\ failed[r] = {} /\ applied[r] = {}
        /\ call[r] = "none"
    BY <1>2 DEF BeginApply, Claimants, Stages, HasSession
  <2>2. /\ UNCHANGED <<applied, failed, call>>
        /\ \A q \in Requests : q # r => pc'[q] = pc[q]
    BY <1>2 DEF BeginApply, Goto, Answer, indexerVars, TypeOK
  <2>3. CASE UNCHANGED <<saw, todo>>
    BY <2>1, <2>2, <2>3 DEF Stages
  <2>4. CASE /\ session # NoSession /\ MayClaim(r) /\ session' = Claimed(session, ApplyIdOf(r))
             /\ saw' = [saw EXCEPT ![r] = session']
             /\ todo' = [todo EXCEPT ![r] = AcceptedIn(session, Schema)]
    <3>1. /\ saw'[r] # NoSession /\ AcceptedIn(saw'[r], Schema) = todo'[r]
          /\ \A q \in Requests : q # r => saw'[q] = saw[q] /\ todo'[q] = todo[q]
      BY <2>4, ClaimedType, NoSessionAssumption DEF Claimed, AcceptedIn, TypeOK
    <3> QED
      BY <2>1, <2>2, <3>1 DEF Stages
  <2> QED
    BY <1>2, <2>3, <2>4 DEF BeginApply
<1>3. ASSUME NEW r \in Requests, NEW o \in Schema, SchemaOp(r, o) PROVE Stages'
  BY <1>3 DEF SchemaOp, OthersOfSchema, indexerVars, Stages, TypeOK
<1>4. ASSUME NEW r \in Requests, NEW o \in Schema, SchemaOpFails(r, o) PROVE Stages'
  BY <1>4 DEF SchemaOpFails, OthersOfSchema, indexerVars, Stages, TypeOK
<1>5. ASSUME NEW r \in Requests, NEW o \in Schema, Rollback(r, o) PROVE Stages'
  <2>1. pc[r] = "rollback" /\ (Answer(r, "schema_failed") \/ Goto(r, "rollback"))
    BY <1>5 DEF Rollback
  <2> QED
    BY <1>5, <2>1 DEF Rollback, Answer, Goto, OthersOfSchema, indexerVars, Stages, TypeOK
<1>6. ASSUME NEW r \in Requests, EndSchema(r) PROVE Stages'
  <2>1. pc[r] = "schema" /\ UNCHANGED <<saw, todo, applied, failed>>
    BY <1>6 DEF EndSchema, schemaVars, OthersOfSchema
  <2>2. \/ /\ failed[r] = {} /\ (Goto(r, "state") \/ Goto(r, "waiting"))
           /\ \A q \in Requests : q # r => call'[q] = call[q]
        \/ (Goto(r, "rollback") \/ Answer(r, "schema_failed")) /\ UNCHANGED call
    BY <1>6 DEF EndSchema, AfterSchema, ToFiles, TypeOK
  <2> QED
    BY <2>1, <2>2 DEF Goto, Answer, Stages, TypeOK
<1>7. ASSUME NEW r \in Requests, ApplyPatch(r) PROVE Stages'
  BY <1>7 DEF ApplyPatch, Answer, OthersOfState, schemaVars, indexerVars, Stages, TypeOK
<1>8. ASSUME NEW r \in Requests, IndexerLocks(r) PROVE Stages'
  BY <1>8 DEF IndexerLocks, OthersOfIndexer, handlerVars, Stages, TypeOK
<1> QED
  BY <1>1, <1>2, <1>3, <1>4, <1>5, <1>6, <1>7, <1>8, AsideSteps

LEMMA NextEffects ==
  TypeOK /\ HasSession /\ Claimants /\ Stages /\ Effects /\ [Next]_vars => Effects'
<1> SUFFICES ASSUME TypeOK, HasSession, Claimants, Stages, Effects, Next PROVE Effects'
  BY DEF Effects, vars, handlerVars, indexerVars
<1>0. /\ \A x \in runs : x.by \in Requests /\ saw[x.by] # NoSession
      /\ \A p \in patches : p.by \in Requests
  BY DEF Effects, HasSession, TypeOK
<1>1. CASE Aside
  BY <1>0, <1>1 DEF Aside, Effects
<1>2. ASSUME NEW r \in Requests, BeginApply(r) PROVE Effects'
  <2>1. /\ pc[r] = "idle" /\ saw[r] = NoSession
        /\ UNCHANGED <<call, runs, patches, failed>>
        /\ \A q \in Requests : q # r => pc'[q] = pc[q] /\ saw'[q] = saw[q]
    BY <1>2 DEF BeginApply, Goto, Answer, indexerVars, Claimants, TypeOK
  <2> QED
    BY <1>0, <2>1 DEF Effects
<1>3. ASSUME NEW r \in Requests, NEW o \in Schema,
             SchemaOp(r, o) \/ SchemaOpFails(r, o) \/ Rollback(r, o)
      PROVE  Effects'
  <2>1. /\ pc[r] \in {"schema", "rollback"}
        /\ UNCHANGED <<saw, call, runs, patches>>
        /\ \A q \in Requests : q # r => pc'[q] = pc[q] /\ failed'[q] = failed[q]
    BY <1>3 DEF SchemaOp, SchemaOpFails, Rollback, Goto, Answer, OthersOfSchema, indexerVars, TypeOK
  <2> QED
    BY <1>0, <2>1 DEF Effects
<1>4. ASSUME NEW r \in Requests, EndSchema(r) PROVE Effects'
  <2>1. /\ pc[r] = "schema" /\ UNCHANGED <<saw, failed, runs, patches>>
        /\ \A q \in Requests : q # r => pc'[q] = pc[q] /\ call'[q] = call[q]
    BY <1>4 DEF EndSchema, AfterSchema, ToFiles, Goto, Answer, OthersOfSchema, schemaVars, TypeOK
  <2>2. \A x \in runs : x.by # r
    BY <2>1 DEF Effects, Stages
  <2> QED
    BY <1>0, <2>1, <2>2 DEF Effects
<1>5. ASSUME NEW r \in Requests, ApplyPatch(r) PROVE Effects'
  <2> DEFINE new == [by |-> r, sid |-> saw[r].sid, ops |-> AcceptedIn(saw[r], StateOps),
                     base |-> base[r]]
  <2>1. /\ patches' \in {patches, patches \union {new}}
        /\ UNCHANGED <<saw, failed, call, runs>>
        /\ pc[r] = "patch" /\ pc' = [pc EXCEPT ![r] = "done"]
    BY <1>5 DEF ApplyPatch, Answer, OthersOfState, schemaVars, indexerVars
  <2>2. saw[r] # NoSession /\ failed[r] = {}
    BY <2>1 DEF HasSession, Working, Stages
  <2> QED
    BY <1>0, <2>1, <2>2 DEF Effects, TypeOK
<1>6. ASSUME NEW r \in Requests, IndexerLocks(r) PROVE Effects'
  <2> DEFINE new == [by |-> r, id |-> ApplyIdOf(r), sid |-> saw[r].sid,
                     files |-> AcceptedIn(saw[r], Files)]
  <2>1. /\ runs' \in {runs, runs \union {new}}
        /\ UNCHANGED <<saw, failed, pc, patches>>
        /\ \A q \in Requests : q # r => call'[q] = call[q]
        /\ call'[r] \in {"busy", "running"}
    BY <1>6 DEF IndexerLocks, OthersOfIndexer, handlerVars, TypeOK
  <2> QED
    BY <1>0, <2>1 DEF Effects
<1> QED
  BY <1>1, <1>2, <1>3, <1>4, <1>5, <1>6, AsideSteps

-----------------------------------------------------------------------------
(* Theorems. *)

LEMMA SessionInvariance == Spec => []SessionInv
<1>1. Init => SessionInv
  BY InitTyped, InitReviewed, InitStages DEF SessionInv
<1>2. SessionInv /\ [Next]_vars => SessionInv'
  BY NextTyped, NextReviewed, NextClaimants, NextStages, NextEffects DEF SessionInv
<1> QED
  BY <1>1, <1>2, PTL DEF Spec

\* Every state of the handlers, Redis, the campaign and the indexer has its
\* type (api/update_mode.py, update_mode_store.py).
THEOREM SessionTypeInvariant == Spec => []TypeOK
BY SessionInvariance, PTL DEF SessionInv

\* However requests race, sessions supersede each other and processes die:
\* what an apply writes was accepted in a review of that very session.
THEOREM OnlyReviewedLeaves == Spec => []NothingUnreviewed
<1>1. SessionInv => NothingUnreviewed
  <2> SUFFICES ASSUME SessionInv PROVE NothingUnreviewed
    OBVIOUS
  <2>1. \A r \in Requests, S \in SUBSET Items :
          saw[r] # NoSession => {saw[r].sid} \X AcceptedIn(saw[r], S) \subseteq reviewed
    BY DEF SessionInv, Reviewed, Known, AcceptedIn
  <2>2. Files \subseteq Items /\ StateOps \subseteq Items /\ Schema \subseteq Items
    BY DEF Items
  <2>3. ASSUME NEW x \in runs PROVE {x.sid} \X x.files \subseteq reviewed
    <3>1. x.by \in Requests /\ saw[x.by] # NoSession
      BY DEF SessionInv, TypeOK, HasSession, Effects
    <3> QED
      BY <2>1, <2>2, <3>1 DEF SessionInv, Effects
  <2>4. ASSUME NEW p \in patches PROVE {p.sid} \X p.ops \subseteq reviewed
    <3>1. p.by \in Requests /\ saw[p.by] # NoSession
      BY DEF SessionInv, TypeOK, Effects
    <3> QED
      BY <2>1, <2>2, <3>1 DEF SessionInv, Effects
  <2>5. ASSUME NEW r \in Requests, applied[r] # {}
        PROVE  {saw[r].sid} \X applied[r] \subseteq reviewed
    <3>1. saw[r] # NoSession /\ applied[r] \subseteq AcceptedIn(saw[r], Schema)
      BY <2>5 DEF SessionInv, Stages
    <3> QED
      BY <2>1, <2>2, <3>1
  <2> QED
    BY <2>3, <2>4, <2>5 DEF NothingUnreviewed
<1> QED
  BY <1>1, SessionInvariance, PTL

\* All runs of the indexer for one session carry one apply id (begin_apply).
THEOREM SessionAppliedUnderOneId == Spec => []OneApplyPerSession
<1>1. SessionInv => OneApplyPerSession
  <2> SUFFICES ASSUME SessionInv, NEW x \in runs, NEW y \in runs, x.sid = y.sid
               PROVE  x.id = y.id
    BY DEF OneApplyPerSession
  <2>1. /\ x.by \in Requests /\ saw[x.by] # NoSession
        /\ y.by \in Requests /\ saw[y.by] # NoSession
    BY DEF SessionInv, TypeOK, HasSession, Effects
  <2> QED
    BY <2>1 DEF SessionInv, Claimants, Effects
<1> QED
  BY <1>1, SessionInvariance, PTL

\* After a failed schema stage an apply sends no file and patches no state,
\* whatever the order of its operations (Stage A of apply_changes).
THEOREM FailedSchemaWritesNothing == Spec => []FailedSchemaAborts
<1>1. SessionInv => FailedSchemaAborts
  BY DEF SessionInv, TypeOK, Stages, Effects, FailedSchemaAborts
<1> QED
  BY <1>1, SessionInvariance, PTL

-----------------------------------------------------------------------------
(* Refinement: the key of a chat behaves like a ReviewSession. *)

Visible == IF session = NoSession THEN NoSession
           ELSE [sid |-> session.sid, status |-> session.status, applyId |-> session.applyId]

LEMMA VisibleType == ASSUME TypeOK, session # NoSession PROVE Visible # NoSession
<1>1. Visible \in Seen
  BY DEF TypeOK, Sessions, Visible, Seen
<1> QED
  BY <1>1, NoSessionAssumption

LEMMA StepsRefine == SessionInv /\ [Next]_vars => [Chat!Next]_(Chat!vars)
<1> SUFFICES ASSUME SessionInv, Next PROVE Chat!Next \/ UNCHANGED Chat!vars
  BY DEF vars, ghostVars, Chat!vars
<1> USE DEF SessionInv, Chat!vars
<1>1. CASE Quiet
  <2>1. CASE session' = NoSession
    BY <1>1, <2>1 DEF Quiet, ghostVars, Chat!Next, Chat!Close
  <2>2. CASE session' # NoSession
    BY <1>1, <2>2 DEF Quiet, ghostVars
  <2> QED
    BY <2>1, <2>2
<1>2. ASSUME NEW r \in Requests, Create(r) PROVE Chat!Open \/ UNCHANGED Chat!vars
  <2>1. PICK offer \in Proposals : Store(r, offer)
    BY <1>2 DEF Create
  <2>2. r \notin used /\ offer \in [Items -> Offered]
    BY <1>2, SessionAssumption DEF Create, Reviewed
  <2>3. NewSession(r, offer) # NoSession
    BY NewSessionType, NoSessionAssumption
  <2>4. CASE session # NoSession
    BY <2>1, <2>4 DEF Store
  <2>5. CASE session = NoSession
    <3>1. /\ session' = NewSession(r, offer) /\ used' = used \union {r}
      BY <2>1, <2>5 DEF Store
    <3>2. Visible' = [sid |-> r, status |-> offer, applyId |-> None]
      BY <2>3, <3>1 DEF Visible, NewSession
    <3> QED
      BY <2>2, <2>5, <3>1, <3>2 DEF Visible, Chat!Open, Chat!Offered, Offered
  <2> QED
    BY <2>4, <2>5
<1>3. ASSUME NEW r \in Requests, Review(r) PROVE Chat!Decide \/ UNCHANGED Chat!vars
  <2>1. CASE UNCHANGED session
    BY <1>3, <2>1 DEF Review
  <2>2. ASSUME NEW d \in Decisions, session # NoSession, Applicable(d),
               session' = Decided(session, d)
        PROVE  Chat!Decide
    <3>1. /\ d.accept \in SUBSET Items /\ d.reject \in SUBSET Items
          /\ d.accept \intersect d.reject = {}
      BY <2>2, SessionAssumption
    <3>2. session' # NoSession
      BY <2>2, DecidedType, NoSessionAssumption DEF TypeOK
    <3>3. Visible' = [sid |-> session.sid,
                      status |-> Chat!Decided(session.status, d.accept, d.reject),
                      applyId |-> session.applyId]
      BY <2>2, <3>2 DEF Visible, Decided, Chat!Decided
    <3>4. \A i \in d.accept \union d.reject : Visible.status[i] = "pending"
      BY <2>2 DEF Visible, Applicable
    <3>5. UNCHANGED used
      BY <1>3 DEF Review
    <3>6. \A A, R \in SUBSET Items :
            /\ A \intersect R = {}
            /\ \A i \in A \union R : Visible.status[i] = "pending"
            /\ Visible' = [sid |-> Visible.sid,
                           status |-> Chat!Decided(Visible.status, A, R),
                           applyId |-> Visible.applyId]
            => Chat!Decide
      BY <2>2, <3>5, VisibleType DEF Visible, Chat!Decide, Chat!Decided
    <3>7. Visible.sid = session.sid /\ Visible.status = session.status
          /\ Visible.applyId = session.applyId
      BY <2>2 DEF Visible
    <3> QED
      BY <3>1, <3>3, <3>4, <3>6, <3>7
  <2> QED
    BY <1>3, <2>1, <2>2 DEF Review
<1>4. ASSUME NEW r \in Requests, session # NoSession, MayClaim(r), UNCHANGED used,
             session' = Claimed(session, ApplyIdOf(r))
      PROVE  Chat!Claim \/ UNCHANGED Chat!vars
  <2>1. session' # NoSession
    BY <1>4, ClaimedType, NoSessionAssumption DEF TypeOK
  <2>2. Visible' = [sid |-> session.sid, status |-> session.status, applyId |-> ApplyIdOf(r)]
    BY <1>4, <2>1 DEF Visible, Claimed
  <2>3. CASE session.applyId = None
    BY <1>4, <2>2, <2>3, ApplyIdType, VisibleType DEF Visible, Chat!Claim, Ids
  <2>4. CASE session.applyId = ApplyIdOf(r)
    <3>1. Visible' = Visible
      BY <1>4, <2>2, <2>4 DEF Visible
    <3> QED
      BY <1>4, <3>1 DEF Visible
  <2> QED
    BY <1>4, <2>3, <2>4 DEF MayClaim
<1>5. ASSUME NEW r \in Requests, BeginApply(r) PROVE Chat!Claim \/ UNCHANGED Chat!vars
  BY <1>4, <1>5 DEF BeginApply, ghostVars
<1>6. ASSUME NEW r \in Requests, BeginApplyFails(r)
      PROVE  Chat!Claim \/ Chat!Close \/ UNCHANGED Chat!vars
  BY <1>4, <1>6 DEF BeginApplyFails, ghostVars, Chat!Close
<1> QED
  BY <1>1, <1>2, <1>3, <1>5, <1>6, QuietSteps DEF Chat!Next

\* Seen through the key of the chat, all handlers, expiry and crashes together
\* open, decide, claim and close review sessions one after the other
\* (the Lua scripts and SET NX of update_mode_store.py).
THEOREM SessionsRefineReviewSession == Spec => ImplementsReviewSession
<1>1. Init => Chat!Init
  BY DEF Init, Chat!Init
<1> QED
  BY <1>1, StepsRefine, SessionInvariance, PTL DEF Spec, ImplementsReviewSession, Chat!Spec
=============================================================================
