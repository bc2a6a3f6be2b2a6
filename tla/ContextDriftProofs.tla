------------------------- MODULE ContextDriftProofs -------------------------
(***************************************************************************)
(* Proofs about ContextDrift for every number of turns, tasks, users and   *)
(* hints, every size of the summary's window and chunks, and whatever      *)
(* crashes or fails.                                                       *)
(***************************************************************************)
EXTENDS ContextDrift, TLAPS

-----------------------------------------------------------------------------
(* The inductive invariant. *)

TaskPlaces == {"free", "begun", "summing", "compressing", "reading", "asking", "quiet",
               "hinted", "planning", "writing", "settling", "telling"}
ReqPlaces == {"new", "accept", "check", "based", "discarding", "clearing", "over"}
TaskRecord == [at : TaskPlaces, total : Nat, sum : Recap, scene : Scene,
               hint : Hint \cup {None}, found : BOOLEAN]
ReqRecord == [at : ReqPlaces, shown : 0 .. MaxDraft, held : Draft \cup {NoDraft},
              base : Nat, scene : Scene]

ChatPart == said \in Nat /\ summary \in Recap /\ scene \in Scene
FlagPart == cooldown \in BOOLEAN /\ dirty \in BOOLEAN /\ faults \in Nat
TurnPart == turn \in [Turn -> [at : {"new", "open", "noted", "answered", "over"}, scene : Scene]]
TaskPart ==
  /\ task \in [Task -> TaskRecord]
  /\ \A r \in Task : task[r].at = "writing" => task[r].hint \in Hint

\* A draft was planned before it is stored, shown, taken or applied.
Planned(d) == d \in Draft /\ d.n <= made
DraftPart ==
  /\ made \in 0 .. MaxDraft
  /\ Planned(draft) \/ draft = NoDraft
  /\ card \in 0 .. MaxDraft
  /\ req \in [User -> ReqRecord]
  /\ \A u \in User : req[u].at \in {"accept", "check", "based"} =>
        Planned(req[u].held)
  /\ applied \in Seq(Nat)
  /\ \A i \in DOMAIN applied : applied[i] \in 1 .. made

\* A summary that counts the first n messages, and leaves those that are sent in full
\* of a chat with this many.
Exact(sum, total) ==
  /\ sum.text = 1 .. sum.count
  /\ sum.count = 0 \/ sum.count + KeepLast <= total
RecapPart ==
  /\ Exact(summary, said)
  /\ \A r \in Task : task[r].at = "compressing" =>
        /\ task[r].total <= said
        /\ task[r].sum.count + KeepLast <= task[r].total
        /\ task[r].sum.text = 1 .. task[r].sum.count

\* A task that has yet to publish a last phase.
Publishes == TaskPlaces \ {"free", "begun", "quiet"}
SpinnerPart ==
  /\ status \in Busy \cup {"idle", "draft_ready", None}
  /\ (status \in Busy /\ faults = 0) => \E r \in Task : task[r].at \in Publishes

DriftInv ==
  ChatPart /\ FlagPart /\ TurnPart /\ TaskPart /\ DraftPart /\ RecapPart /\ SpinnerPart
    /\ AcceptedIsWithdrawn

-----------------------------------------------------------------------------
(* What records and helpers are. *)

LEMMA Constants ==
  /\ KeepLast \in Nat \ {0} /\ Chunk \in Nat \ {0} /\ Slots \in Nat \ {0}
  /\ History \in Nat /\ MaxDraft \in Nat
BY DriftAssumption

LEMMA NoTaskType == NoTask \in TaskRecord /\ NoTask.at = "free" /\ NoTask.scene \in Scene
BY DEF NoTask, TaskRecord, TaskPlaces, Recap, Scene

LEMMA NoReqType == NoReq \in ReqRecord /\ NoReq.at = "new"
BY Constants DEF NoReq, NoTask, ReqRecord, ReqPlaces, Scene

LEMMA FreshTask ==
  ASSUME NEW at \in TaskPlaces
  PROVE  [NoTask EXCEPT !.at = at] \in TaskRecord /\ [NoTask EXCEPT !.at = at].at = at
BY DEF NoTask, TaskRecord, Recap, Scene

LEMMA GoesTask ==
  ASSUME TaskPart, NEW r \in Task, NEW at \in TaskPlaces, Goes(r, at)
  PROVE  /\ task' \in [Task -> TaskRecord]
         /\ task'[r] = [NoTask EXCEPT !.at = at] /\ task'[r].at = at
         /\ \A q \in Task \ {r} : task'[q] = task[q]
BY FreshTask DEF Goes, TaskPart

LEMMA GoesReq ==
  ASSUME DraftPart, NEW u \in User, NEW at \in ReqPlaces, ReqGoes(u, at)
  PROVE  /\ req' \in [User -> ReqRecord] /\ req'[u].at = at
         /\ \A w \in User \ {u} : req'[w] = req[w]
<1> DEFINE new == [NoReq EXCEPT !.at = at, !.scene = IF at = "over" THEN @ ELSE req[u].scene]
<1>1. req \in [User -> ReqRecord] /\ req[u].scene \in Scene
  BY DEF DraftPart, ReqRecord
<1>2. new \in ReqRecord /\ new.at = at
  BY <1>1, NoReqType DEF ReqRecord
<1>3. req' = [req EXCEPT ![u] = new]
  BY DEF ReqGoes
<1> HIDE DEF new
<1> QED
  BY <1>1, <1>2, <1>3

\* What the task that is triggered does, and what all the others see.
LEMMA Triggered ==
  ASSUME TaskPart, RunDetect
  PROVE  \E r \in Task : task[r].at = "free" /\ Goes(r, "begun")
BY DEF RunDetect, Free

LEMMA PublishFaults ==
  ASSUME FlagPart, NEW phase, Publish(phase)
  PROVE  /\ faults' \in Nat /\ faults' >= faults
         /\ status' = phase \/ (status' = status /\ faults' > 0)
BY DEF FlagPart, Publish, Outage

-----------------------------------------------------------------------------
(* Init. *)

LEMMA InitInv == Init => DriftInv
<1> SUFFICES ASSUME Init PROVE DriftInv
  OBVIOUS
<1> USE Constants DEF Init
<1>1. ChatPart
  BY DEF ChatPart, NoTask, Recap, Scene
<1>2. FlagPart
  BY DEF FlagPart
<1>3. TurnPart
  BY NoTaskType DEF TurnPart, NoTurn
<1>4. TaskPart
  BY NoTaskType DEF TaskPart
<1>5. DraftPart
  BY NoReqType DEF DraftPart
<1>6. RecapPart
  <2>1. summary.count = 0 /\ summary.text = {}
    BY DEF NoTask
  <2>2. \A r \in Task : task[r].at = "free"
    BY NoTaskType
  <2> QED
    BY <2>1, <2>2 DEF RecapPart, Exact
<1>7. SpinnerPart
  BY DEF SpinnerPart, Busy, None
<1>8. AcceptedIsWithdrawn
  BY DEF AcceptedIsWithdrawn, Range
<1> QED
  BY <1>1, <1>2, <1>3, <1>4, <1>5, <1>6, <1>7, <1>8 DEF DriftInv

-----------------------------------------------------------------------------
(* One lemma per part: what a step does to it. *)

\* Only these steps write the messages, the summary or the scene.
LEMMA ChatStep == ASSUME DriftInv, [Next]_vars PROVE ChatPart'
<1> USE Constants DEF DriftInv, ChatPart, vars, stored, redis
<1>1. CASE \E t \in Turn : TurnBegins(t) \/ TurnAnswers(t)
  BY <1>1 DEF TurnBegins, TurnAnswers
<1>2. CASE \E t \in Turn : MergeExplicit(t)
  <2>1. PICK t \in Turn : MergeExplicit(t)
    BY <1>2
  <2>2. turn[t].scene \in Scene
    BY DEF TurnPart
  <2> QED
    BY <2>1, <2>2 DEF MergeExplicit, Scene
<1>3. CASE \E r \in Task : SummarizeWrites(r)
  <2>1. PICK r \in Task : SummarizeWrites(r)
    BY <1>3
  <2>2. task[r] \in TaskRecord /\ task[r].sum \in Recap /\ task[r].total \in Nat
    BY DEF TaskPart, TaskRecord
  <2>3. ASSUME NEW n \in ChunkEnds(task[r].sum, task[r].total),
               summary' = [count |-> n, text |-> task[r].sum.text \cup task[r].sum.count + 1 .. n]
        PROVE  summary' \in Recap
    <3>1. task[r].sum.count + KeepLast <= task[r].total
      BY <2>1 DEF RecapPart, SummarizeWrites
    <3>2. n \in Nat
      BY <2>2, <3>1 DEF ChunkEnds, Recap
    <3> QED
      BY <2>2, <2>3, <3>2 DEF Recap
  <2> QED
    BY <2>1, <2>3 DEF SummarizeWrites
<1>4. CASE \E r \in Task, h \in Hint : WriteDrift(r, h)
  <2>1. PICK r \in Task, h \in Hint : WriteDrift(r, h)
    BY <1>4
  <2>2. task[r].scene \in Scene
    BY DEF TaskPart, TaskRecord
  <2> QED
    BY <2>1, <2>2 DEF WriteDrift, Scene
<1>5. CASE \E u \in User : ClearsDrift(u)
  <2>1. PICK u \in User : ClearsDrift(u)
    BY <1>5
  <2>2. req[u].scene \in Scene
    BY DEF DraftPart, ReqRecord
  <2> QED
    BY <2>1, <2>2 DEF ClearsDrift, Scene
<1>6. CASE UNCHANGED <<said, summary, scene>>
  BY <1>6
<1>7. CASE \E t \in Turn : TurnTriggers(t)
  BY <1>6, <1>7 DEF TurnTriggers
<1>8. CASE \E r \in Task :
             DetectBegins(r) \/ SummarizeReads(r) \/ ReadWindow(r) \/ NothingFound(r)
             \/ DraftBegins(r) \/ PlanDraft(r) \/ NoDraftPlanned(r) \/ WriteDraft(r)
             \/ Settle(r) \/ Tell(r)
  BY <1>6, <1>8 DEF DetectBegins, SummarizeReads, ReadWindow, NothingFound, DraftBegins,
                    PlanDraft, NoDraftPlanned, WriteDraft, Settle, Tell
<1>9. CASE \E u \in User :
             TakesDraft(u) \/ Rejects(u) \/ AcceptReads(u) \/ AcceptApplies(u) \/ CheckOpens(u)
             \/ Discards(u)
  BY <1>6, <1>9 DEF TakesDraft, Rejects, AcceptReads, AcceptApplies, CheckOpens, Discards
<1>10. CASE IdleScan \/ SeeCard \/ CooldownExpires \/ DraftExpires \/ Crash
  BY <1>6, <1>10 DEF IdleScan, SeeCard, CooldownExpires, DraftExpires, Crash
<1> QED
  BY <1>1, <1>2, <1>3, <1>4, <1>5, <1>6, <1>7, <1>8, <1>9, <1>10
     DEF Next, TurnStep, TaskStep, UserStep

LEMMA TriggerFlags == ASSUME FlagPart, Trigger PROVE FlagPart' /\ faults' >= faults
<1>1. faults' \in Nat /\ faults' >= faults
  <2>1. UNCHANGED faults \/ Outage
    BY Zenon DEF Trigger
  <2> QED
    BY <2>1 DEF FlagPart, Outage
<1>2. cooldown' \in BOOLEAN
  BY Zenon DEF FlagPart, Trigger
<1>3. dirty' \in BOOLEAN
  BY Zenon DEF FlagPart, Trigger
<1> QED
  BY <1>1, <1>2, <1>3 DEF FlagPart

LEMMA FlagStep == ASSUME DriftInv, [Next]_vars PROVE FlagPart' /\ faults' >= faults
<1> USE Constants DEF DriftInv, FlagPart, vars, stored, redis, Outage
<1>1. CASE \E t \in Turn : TurnBegins(t) \/ MergeExplicit(t) \/ TurnAnswers(t)
  BY <1>1 DEF TurnBegins, MergeExplicit, TurnAnswers
<1>2. CASE IdleScan \/ \E t \in Turn : TurnTriggers(t)
  BY <1>2, TriggerFlags DEF IdleScan, TurnTriggers
<1>3. CASE \E r \in Task :
             DetectBegins(r) \/ SummarizeReads(r) \/ SummarizeWrites(r) \/ ReadWindow(r)
             \/ NothingFound(r) \/ (\E h \in Hint : WriteDrift(r, h)) \/ DraftBegins(r)
  BY <1>3, PublishFaults DEF DetectBegins, SummarizeReads, SummarizeWrites, ReadWindow,
     NothingFound, WriteDrift, DraftBegins
<1>4. CASE \E r \in Task : PlanDraft(r) \/ NoDraftPlanned(r) \/ WriteDraft(r) \/ Tell(r)
  BY <1>4, PublishFaults DEF PlanDraft, NoDraftPlanned, WriteDraft, Tell
<1>5. CASE \E r \in Task : Settle(r)
  <2>1. faults' \in Nat /\ faults' >= faults /\ UNCHANGED cooldown
    BY <1>5 DEF Settle
  <2>2. dirty' = FALSE \/ UNCHANGED dirty
    BY <1>5 DEF Settle
  <2>3. dirty' \in BOOLEAN
    BY <2>2, Zenon
  <2> QED
    BY <2>1, <2>3
<1>6. CASE \E u \in User : UserStep(u)
  BY <1>6 DEF UserStep, TakesDraft, Rejects, AcceptReads, AcceptApplies, CheckOpens, Discards,
     ClearsDrift
<1>7. CASE SeeCard \/ DraftExpires \/ Crash \/ UNCHANGED vars
  BY <1>7 DEF SeeCard, DraftExpires, Crash
<1>8. CASE CooldownExpires
  <2>1. UNCHANGED <<dirty, faults>> /\ cooldown' = FALSE
    BY <1>8 DEF CooldownExpires
  <2>2. cooldown' \in BOOLEAN
    BY <2>1, Zenon
  <2> QED
    BY <2>1, <2>2
<1> QED
  BY <1>1, <1>2, <1>3, <1>4, <1>5, <1>6, <1>7, <1>8 DEF Next, TurnStep, TaskStep

LEMMA TurnGoesTurn ==
  ASSUME TurnPart, NEW t \in Turn, NEW at \in {"new", "open", "noted", "answered", "over"},
         TurnGoes(t, at)
  PROVE  TurnPart'
<1> DEFINE new == [NoTurn EXCEPT !.at = at]
<1>1. new \in [at : {"new", "open", "noted", "answered", "over"}, scene : Scene]
  BY NoTaskType DEF NoTurn
<1>2. turn' = [turn EXCEPT ![t] = new]
  BY DEF TurnGoes
<1> HIDE DEF new
<1> QED
  BY <1>1, <1>2 DEF TurnPart

LEMMA TurnPartStep == ASSUME DriftInv, [Next]_vars PROVE TurnPart'
<1> USE DEF DriftInv, vars, stored, redis
<1>1. CASE \E t \in Turn : TurnBegins(t) \/ MergeExplicit(t)
  <2>1. scene \in Scene /\ scene' \in Scene
    BY ChatStep DEF ChatPart
  <2> QED
    BY <1>1, <2>1 DEF TurnBegins, MergeExplicit, TurnPart
<1>2. CASE \E t \in Turn : TurnAnswers(t) \/ TurnTriggers(t)
  BY <1>2, TurnGoesTurn DEF TurnAnswers, TurnTriggers
<1>3. CASE UNCHANGED turn
  BY <1>3 DEF TurnPart
<1>4. CASE \E r \in Task : TaskStep(r)
  BY <1>3, <1>4 DEF TaskStep, DetectBegins, SummarizeReads, SummarizeWrites, ReadWindow,
     NothingFound, WriteDrift, DraftBegins, PlanDraft, NoDraftPlanned, WriteDraft, Settle, Tell
<1>5. CASE \E u \in User : UserStep(u)
  BY <1>3, <1>5 DEF UserStep, TakesDraft, Rejects, AcceptReads, AcceptApplies, CheckOpens,
     Discards, ClearsDrift
<1>6. CASE IdleScan \/ SeeCard \/ CooldownExpires \/ DraftExpires
  BY <1>3, <1>6 DEF IdleScan, SeeCard, CooldownExpires, DraftExpires
<1>7. CASE Crash
  <2>1. NoTurn \in [at : {"new", "open", "noted", "answered", "over"}, scene : Scene]
        /\ [NoTurn EXCEPT !.at = "over"] \in
             [at : {"new", "open", "noted", "answered", "over"}, scene : Scene]
    BY NoTaskType DEF NoTurn
  <2> QED
    BY <1>7, <2>1 DEF Crash, TurnPart
<1> QED
  BY <1>1, <1>2, <1>3, <1>4, <1>5, <1>6, <1>7 DEF Next, TurnStep

LEMMA TaskPartStep == ASSUME DriftInv, [Next]_vars PROVE TaskPart'
<1> USE Constants DEF DriftInv, vars, stored, redis
<1>0. ASSUME NEW r \in Task, NEW at \in TaskPlaces \ {"writing"}, Goes(r, at) PROVE TaskPart'
  <2>1. task' \in [Task -> TaskRecord] /\ task'[r].at # "writing"
    BY <1>0, GoesTask
  <2>2. \A q \in Task \ {r} : task'[q] = task[q]
    BY <1>0, GoesTask
  <2> QED
    BY <2>1, <2>2 DEF TaskPart
<1>00. ASSUME NEW r \in Task, NEW new \in TaskRecord, task' = [task EXCEPT ![r] = new],
              new.at = "writing" => new.hint \in Hint
       PROVE  TaskPart'
  BY <1>00 DEF TaskPart
<1>1. CASE IdleScan \/ \E t \in Turn : TurnTriggers(t)
  <2>1. UNCHANGED task \/ RunDetect
    BY <1>1, Zenon DEF IdleScan, TurnTriggers, Trigger
  <2>2. CASE RunDetect
    BY <2>2, <1>0, Triggered DEF TaskPlaces
  <2>3. CASE UNCHANGED task
    BY <2>3 DEF TaskPart
  <2> QED
    BY <2>1, <2>2, <2>3
<1>2. CASE \E r \in Task :
             DetectBegins(r) \/ SummarizeWrites(r) \/ NothingFound(r)
             \/ (\E h \in Hint : WriteDrift(r, h)) \/ DraftBegins(r) \/ NoDraftPlanned(r)
  BY <1>2, <1>0 DEF DetectBegins, SummarizeWrites, NothingFound, WriteDrift, DraftBegins,
     NoDraftPlanned, TaskPlaces
<1>3. CASE \E r \in Task : SummarizeReads(r)
  <2>1. PICK r \in Task : SummarizeReads(r)
    BY <1>3
  <2>2. Goes(r, "reading") \/
        task' = [task EXCEPT ![r] = [NoTask EXCEPT !.at = "compressing", !.total = said, !.sum = summary]]
    BY <2>1 DEF SummarizeReads
  <2>3. [NoTask EXCEPT !.at = "compressing", !.total = said, !.sum = summary] \in TaskRecord
    BY DEF ChatPart, NoTask, TaskRecord, TaskPlaces, Scene
  <2>4. [NoTask EXCEPT !.at = "compressing", !.total = said, !.sum = summary].at # "writing"
    BY DEF NoTask
  <2> QED
    BY <2>2, <2>3, <2>4, <1>0, <1>00 DEF TaskPlaces
<1>4. CASE \E r \in Task : ReadWindow(r)
  <2>1. PICK r \in Task : ReadWindow(r)
    BY <1>4
  <2>2. [task[r] EXCEPT !.at = "asking", !.scene = scene] \in TaskRecord
    BY DEF ChatPart, TaskPart, TaskRecord, TaskPlaces
  <2>3. /\ task' = [task EXCEPT ![r] = [task[r] EXCEPT !.at = "asking", !.scene = scene]]
        /\ [task[r] EXCEPT !.at = "asking", !.scene = scene].at = "asking"
    BY <2>1 DEF ReadWindow, TaskPart, TaskRecord
  <2> QED
    BY <2>2, <2>3, <1>00
<1>5. CASE \E r \in Task : PlanDraft(r)
  <2>1. PICK r \in Task : PlanDraft(r)
    BY <1>5
  <2> DEFINE h == scene.drift
             found == [NoTask EXCEPT !.at = "settling", !.found = (h # None)]
             new == [NoTask EXCEPT !.at = "writing", !.hint = h]
  <2>2. task' = [task EXCEPT ![r] = found] \/ (h # None /\ task' = [task EXCEPT ![r] = new])
    BY <2>1 DEF PlanDraft
  <2>3. h \in Hint \cup {None}
    BY DEF ChatPart, Scene
  <2>4. found \in TaskRecord /\ found.at = "settling"
    BY DEF NoTask, TaskRecord, TaskPlaces, Recap, Scene
  <2>5. new \in TaskRecord /\ new.hint = h
    BY <2>3 DEF NoTask, TaskRecord, TaskPlaces, Recap, Scene
  <2> HIDE DEF h, found, new
  <2> QED
    BY <2>2, <2>3, <2>4, <2>5, <1>00
<1>6. CASE \E r \in Task : WriteDraft(r)
  <2>1. PICK r \in Task : WriteDraft(r)
    BY <1>6
  <2> DEFINE new == [NoTask EXCEPT !.at = "settling", !.found = TRUE]
  <2>2. new \in TaskRecord /\ new.at = "settling"
    BY DEF NoTask, TaskRecord, TaskPlaces, Recap, Scene
  <2>3. Goes(r, "settling") \/ task' = [task EXCEPT ![r] = new]
    BY <2>1 DEF WriteDraft
  <2> HIDE DEF new
  <2> QED
    BY <2>2, <2>3, <1>0, <1>00 DEF TaskPlaces
<1>7. CASE \E r \in Task : Settle(r)
  <2>1. PICK r \in Task : Settle(r)
    BY <1>7
  <2>2. \/ task' = [task EXCEPT ![r] = NoTask]
        \/ task' = [task EXCEPT ![r] = [task[r] EXCEPT !.at = "telling"]]
    BY <2>1 DEF Settle
  <2>3. [task[r] EXCEPT !.at = "telling"] \in TaskRecord
        /\ [task[r] EXCEPT !.at = "telling"].at = "telling"
    BY DEF TaskPart, TaskRecord, TaskPlaces
  <2> QED
    BY <2>2, <2>3, <1>00, NoTaskType
<1>8. CASE \E r \in Task : Tell(r)
  BY <1>8, <1>00, NoTaskType DEF Tell
<1>9. CASE Crash
  BY <1>9, NoTaskType DEF Crash, TaskPart
<1>10. CASE UNCHANGED task
  BY <1>10 DEF TaskPart
<1>11. CASE \E t \in Turn : TurnBegins(t) \/ MergeExplicit(t) \/ TurnAnswers(t)
  BY <1>10, <1>11 DEF TurnBegins, MergeExplicit, TurnAnswers
<1>12. CASE \E u \in User : UserStep(u)
  BY <1>10, <1>12 DEF UserStep, TakesDraft, Rejects, AcceptReads, AcceptApplies, CheckOpens,
     Discards, ClearsDrift
<1>13. CASE SeeCard \/ CooldownExpires \/ DraftExpires
  BY <1>10, <1>13 DEF SeeCard, CooldownExpires, DraftExpires
<1> QED
  BY <1>1, <1>2, <1>3, <1>4, <1>5, <1>6, <1>7, <1>8, <1>9, <1>10, <1>11, <1>12, <1>13
     DEF Next, TurnStep, TaskStep

\* A request that goes on holds no draft any more.
LEMMA ReqMoves ==
  ASSUME DraftPart, NEW u \in User, NEW at \in {"discarding", "clearing", "over"},
         ReqGoes(u, at), UNCHANGED <<made, card, applied>>, draft' \in {draft, NoDraft}
  PROVE  DraftPart'
<1>1. at \in ReqPlaces
  BY DEF ReqPlaces
<1>2. req' \in [User -> ReqRecord] /\ req'[u].at = at
  BY <1>1, GoesReq
<1>3. \A w \in User \ {u} : req'[w] = req[w]
  BY <1>1, GoesReq
<1> QED
  BY <1>2, <1>3 DEF DraftPart, Planned

\* A request that goes on with what it holds.
LEMMA ReqTakes ==
  ASSUME DraftPart, NEW u \in User, NEW new \in ReqRecord, req' = [req EXCEPT ![u] = new],
         new.at \in {"accept", "check", "based"} => Planned(new.held),
         UNCHANGED <<made, card, applied, draft>>
  PROVE  DraftPart'
BY DEF DraftPart, Planned

LEMMA DraftPartStep == ASSUME DriftInv, [Next]_vars PROVE DraftPart'
<1> USE Constants DEF DriftInv, vars, stored, redis
<1>1. CASE \E r \in Task : WriteDraft(r)
  <2>1. PICK r \in Task : WriteDraft(r)
    BY <1>1
  <2>2. made' \in 1 .. MaxDraft /\ made' = made + 1
    BY <2>1 DEF WriteDraft, DraftPart
  <2>3. UNCHANGED <<card, req, applied>>
    BY <2>1 DEF WriteDraft
  <2>4. ASSUME NEW d, Planned(d) PROVE Planned(d)'
    BY <2>2, <2>4 DEF Planned, Draft, DraftPart
  <2>5. Planned(draft)' \/ draft' = NoDraft
    <3>1. CASE draft' = [n |-> made', hash |-> task[r].hint]
      <4>1. task[r].hint \in Hint
        BY <2>1 DEF WriteDraft, TaskPart
      <4> QED
        BY <3>1, <4>1, <2>2 DEF Planned, Draft
    <3>2. CASE UNCHANGED draft
      BY <3>2, <2>2 DEF Planned, Draft, DraftPart
    <3> QED
      BY <2>1, <3>1, <3>2 DEF WriteDraft
  <2>6. card' \in 0 .. MaxDraft
    BY <2>3 DEF DraftPart
  <2>7. /\ req' \in [User -> ReqRecord]
        /\ \A u \in User : req'[u].at \in {"accept", "check", "based"} =>
              Planned(req[u].held)'
    BY <2>2, <2>3 DEF Planned, Draft, DraftPart
  <2>8. /\ applied' \in Seq(Nat)
        /\ \A i \in DOMAIN applied' : applied'[i] \in 1 .. made'
    BY <2>2, <2>3 DEF DraftPart
  <2> QED
    BY <2>2, <2>5, <2>6, <2>7, <2>8 DEF DraftPart
<1>2. CASE SeeCard \/ DraftExpires
  BY <1>2 DEF SeeCard, DraftExpires, DraftPart, Planned, Draft, NoDraft
<1>3. CASE \E u \in User : Discards(u)
  <2>1. PICK u \in User : Discards(u)
    BY <1>3
  <2>2. ReqGoes(u, "clearing") \/ ReqGoes(u, "over")
    BY <2>1 DEF Discards
  <2>3. UNCHANGED <<made, card, applied>> /\ draft' \in {draft, NoDraft}
    BY <2>1 DEF Discards
  <2> QED
    BY <2>2, <2>3, ReqMoves
<1>4. CASE \E u \in User : TakesDraft(u)
  <2>1. PICK u \in User : TakesDraft(u)
    BY <1>4
  <2>2. UNCHANGED <<made, card, applied, draft>> /\ card # 0
    BY <2>1 DEF TakesDraft
  <2>3. CASE ReqGoes(u, "over")
    BY <2>2, <2>3, ReqMoves
  <2>4. CASE draft # NoDraft /\ \E kind \in {"accept", "check"} :
          req' = [req EXCEPT ![u] =
                [NoReq EXCEPT !.at = kind, !.shown = card, !.held = draft, !.scene = scene]]
    <3>1. PICK kind \in {"accept", "check"} :
            req' = [req EXCEPT ![u] =
                [NoReq EXCEPT !.at = kind, !.shown = card, !.held = draft, !.scene = scene]]
      BY <2>4
    <3> DEFINE new == [NoReq EXCEPT !.at = kind, !.shown = card, !.held = draft, !.scene = scene]
    <3>2. Planned(draft) /\ card \in 0 .. MaxDraft
      BY <2>2, <2>4 DEF DraftPart
    <3>3. new \in ReqRecord /\ new.held = draft
      BY <3>2 DEF NoReq, NoTask, ReqRecord, ReqPlaces, ChatPart, Planned
    <3>4. req' = [req EXCEPT ![u] = new]
      BY <3>1
    <3> HIDE DEF new
    <3> QED
      BY <2>2, <3>2, <3>3, <3>4, ReqTakes
  <2> QED
    BY <2>1, <2>3, <2>4 DEF TakesDraft
<1>5. CASE \E u \in User : Rejects(u)
  <2>1. PICK u \in User : Rejects(u)
    BY <1>5
  <2> DEFINE new == [NoReq EXCEPT !.at = "discarding", !.scene = scene]
  <2>2. new \in ReqRecord /\ new.at = "discarding"
    BY NoReqType DEF NoReq, NoTask, ReqRecord, ReqPlaces, ChatPart
  <2>3. req' = [req EXCEPT ![u] = new] /\ UNCHANGED <<made, card, applied, draft>>
    BY <2>1 DEF Rejects
  <2> HIDE DEF new
  <2> QED
    BY <2>2, <2>3, ReqTakes
<1>6. CASE \E u \in User : AcceptReads(u)
  <2>1. PICK u \in User : AcceptReads(u)
    BY <1>6
  <2> DEFINE new == [req[u] EXCEPT !.at = "based", !.base = Len(applied)]
  <2>2. req[u] \in ReqRecord /\ Len(applied) \in Nat
    BY DEF DraftPart
  <2>3. new \in ReqRecord /\ new.held = req[u].held
    BY <2>2 DEF ReqRecord, ReqPlaces
  <2>4. Planned(req[u].held)
    BY <2>1 DEF AcceptReads, DraftPart
  <2>5. req' = [req EXCEPT ![u] = new] /\ UNCHANGED <<made, card, applied, draft>>
    BY <2>1 DEF AcceptReads, DraftPart
  <2> HIDE DEF new
  <2> QED
    BY <2>3, <2>4, <2>5, ReqTakes
<1>7. CASE \E u \in User : AcceptApplies(u)
  <2>1. PICK u \in User : AcceptApplies(u)
    BY <1>7
  <2>2. UNCHANGED <<made, card, draft>>
    BY <2>1 DEF AcceptApplies
  <2>3. CASE UNCHANGED applied /\ ReqGoes(u, "over")
    BY <2>2, <2>3, ReqMoves
  <2>4. CASE applied' = Append(applied, req[u].held.n) /\ ReqGoes(u, "discarding")
    <3> DEFINE patch == req[u].held.n
    <3>1. Planned(req[u].held)
      BY <2>1 DEF AcceptApplies, DraftPart
    <3>2. patch \in Nat /\ patch \in 1 .. made
      BY <3>1 DEF Planned, Draft, DraftPart
    <3>3. applied' = Append(applied, patch)
      BY <2>4
    <3> HIDE DEF patch
    <3>4. applied' \in Seq(Nat)
      BY <3>2, <3>3 DEF DraftPart
    <3>5. \A i \in DOMAIN applied' : applied'[i] \in 1 .. made
      BY <3>2, <3>3 DEF DraftPart
    <3>6. "discarding" \in ReqPlaces
      BY DEF ReqPlaces
    <3>7. req' \in [User -> ReqRecord] /\ req'[u].at = "discarding"
      BY <2>4, <3>6, GoesReq
    <3>8. \A w \in User \ {u} : req'[w] = req[w]
      BY <2>4, <3>6, GoesReq
    <3> QED
      BY <2>2, <3>4, <3>5, <3>7, <3>8 DEF DraftPart, Planned
  <2> QED
    BY <2>1, <2>3, <2>4 DEF AcceptApplies
<1>8. CASE \E u \in User : CheckOpens(u) \/ ClearsDrift(u)
  <2>1. PICK u \in User : CheckOpens(u) \/ ClearsDrift(u)
    BY <1>8
  <2>2. ReqGoes(u, "discarding") \/ ReqGoes(u, "over")
    BY <2>1 DEF CheckOpens, ClearsDrift
  <2>3. UNCHANGED <<made, card, applied, draft>>
    BY <2>1 DEF CheckOpens, ClearsDrift
  <2> QED
    BY <2>2, <2>3, ReqMoves
<1>9. CASE Crash
  <2>1. NoReq \in ReqRecord /\ NoReq.at = "new"
    BY NoReqType
  <2>2. [NoReq EXCEPT !.at = "over"] \in ReqRecord /\ [NoReq EXCEPT !.at = "over"].at = "over"
    BY DEF NoReq, NoTask, ReqRecord, ReqPlaces, Scene
  <2>3. req' \in [User -> ReqRecord] /\ \A u \in User : req'[u].at \in {"new", "over"}
    BY <1>9, <2>1, <2>2 DEF Crash
  <2>4. UNCHANGED <<made, card, applied, draft>>
    BY <1>9 DEF Crash
  <2> QED
    BY <2>3, <2>4 DEF DraftPart, Planned
<1>10. CASE UNCHANGED <<made, card, applied, draft, req>>
  BY <1>10 DEF DraftPart, Planned
<1>11. CASE (\E t \in Turn : TurnStep(t)) \/ IdleScan \/ CooldownExpires
  BY <1>10, <1>11 DEF TurnStep, TurnBegins, MergeExplicit, TurnAnswers, TurnTriggers, IdleScan,
     CooldownExpires
<1>12. CASE \E r \in Task :
             DetectBegins(r) \/ SummarizeReads(r) \/ SummarizeWrites(r) \/ ReadWindow(r)
             \/ NothingFound(r) \/ (\E h \in Hint : WriteDrift(r, h)) \/ DraftBegins(r)
             \/ PlanDraft(r) \/ NoDraftPlanned(r) \/ Settle(r) \/ Tell(r)
  BY <1>10, <1>12 DEF DetectBegins, SummarizeReads, SummarizeWrites, ReadWindow, NothingFound,
     WriteDrift, DraftBegins, PlanDraft, NoDraftPlanned, Settle, Tell
<1> QED
  BY <1>1, <1>2, <1>3, <1>4, <1>5, <1>6, <1>7, <1>8, <1>9, <1>10, <1>11, <1>12
     DEF Next, TaskStep, UserStep

\* A task has a block to sum up because it has just read it, or had it before.
LEMMA Compressing ==
  ASSUME DriftInv, [Next]_vars, NEW r \in Task, task'[r].at = "compressing"
  PROVE  \/ task'[r] = task[r]
         \/ /\ task'[r].total = said /\ task'[r].sum = summary
            /\ said >= KeepLast /\ Unsummarized(summary, said) # {}
<1> USE DEF DriftInv, vars, stored, redis
<1>0. ASSUME NEW q \in Task, NEW at \in TaskPlaces \ {"compressing"}, Goes(q, at)
      PROVE  task'[r] = task[r]
  BY <1>0, GoesTask
<1>00. ASSUME NEW q \in Task, NEW new, task' = [task EXCEPT ![q] = new], new.at # "compressing"
       PROVE  task'[r] = task[r]
  BY <1>00 DEF TaskPart
<1>1. CASE IdleScan \/ \E t \in Turn : TurnTriggers(t)
  <2>1. UNCHANGED task \/ RunDetect
    BY <1>1, Zenon DEF IdleScan, TurnTriggers, Trigger
  <2> QED
    BY <2>1, <1>0, Triggered DEF TaskPlaces
<1>2. CASE \E q \in Task :
             DetectBegins(q) \/ SummarizeWrites(q) \/ NothingFound(q)
             \/ (\E h \in Hint : WriteDrift(q, h)) \/ DraftBegins(q) \/ NoDraftPlanned(q)
  BY <1>2, <1>0 DEF DetectBegins, SummarizeWrites, NothingFound, WriteDrift, DraftBegins,
     NoDraftPlanned, TaskPlaces
<1>3. CASE \E q \in Task : SummarizeReads(q)
  <2>1. PICK q \in Task : SummarizeReads(q)
    BY <1>3
  <2>2. CASE Goes(q, "reading")
    BY <2>2, <1>0 DEF TaskPlaces
  <2>3. CASE /\ task' = [task EXCEPT ![q] =
                   [NoTask EXCEPT !.at = "compressing", !.total = said, !.sum = summary]]
             /\ said >= KeepLast /\ Unsummarized(summary, said) # {}
    <3>1. CASE r = q
      BY <2>3, <3>1 DEF NoTask, TaskPart
    <3>2. CASE r # q
      BY <2>3, <3>2 DEF TaskPart
    <3> QED
      BY <3>1, <3>2
  <2> QED
    BY <2>1, <2>2, <2>3, Constants DEF SummarizeReads, ChatPart
<1>4. CASE \E q \in Task : ReadWindow(q)
  BY <1>4 DEF ReadWindow, TaskPart, TaskRecord
<1>5. CASE \E q \in Task : PlanDraft(q) \/ WriteDraft(q)
  <2>1. PICK q \in Task : PlanDraft(q) \/ WriteDraft(q)
    BY <1>5
  <2> DEFINE found(b) == [NoTask EXCEPT !.at = "settling", !.found = b]
             new == [NoTask EXCEPT !.at = "writing", !.hint = scene.drift]
  <2>2. \/ task' = [task EXCEPT ![q] = found(scene.drift # None)]
        \/ task' = [task EXCEPT ![q] = found(TRUE)]
        \/ task' = [task EXCEPT ![q] = new]
        \/ Goes(q, "settling")
    BY <2>1 DEF PlanDraft, WriteDraft
  <2>3. \A b : found(b).at = "settling"
    BY DEF NoTask
  <2>4. new.at = "writing"
    BY DEF NoTask
  <2> HIDE DEF found, new
  <2> QED
    BY <2>2, <2>3, <2>4, <1>0, <1>00 DEF TaskPlaces
<1>6. CASE \E q \in Task : Settle(q) \/ Tell(q)
  <2>1. PICK q \in Task : Settle(q) \/ Tell(q)
    BY <1>6
  <2>2. \/ task' = [task EXCEPT ![q] = NoTask]
        \/ task' = [task EXCEPT ![q] = [task[q] EXCEPT !.at = "telling"]]
    BY <2>1 DEF Settle, Tell
  <2>3. [task[q] EXCEPT !.at = "telling"].at = "telling"
    BY DEF TaskPart, TaskRecord
  <2> QED
    BY <2>2, <2>3, <1>00, NoTaskType
<1>7. CASE Crash
  BY <1>7, NoTaskType DEF Crash
<1>8. CASE UNCHANGED task
  BY <1>8
<1>9. CASE (\E t \in Turn : TurnBegins(t) \/ MergeExplicit(t) \/ TurnAnswers(t))
           \/ (\E u \in User : UserStep(u))
  BY <1>8, <1>9 DEF TurnBegins, MergeExplicit, TurnAnswers, UserStep, TakesDraft, Rejects,
     AcceptReads, AcceptApplies, CheckOpens, Discards, ClearsDrift
<1>10. CASE SeeCard \/ CooldownExpires \/ DraftExpires
  BY <1>8, <1>10 DEF SeeCard, CooldownExpires, DraftExpires
<1> QED
  BY <1>1, <1>2, <1>3, <1>4, <1>5, <1>6, <1>7, <1>8, <1>9, <1>10 DEF Next, TurnStep, TaskStep

LEMMA SummaryStep ==
  ASSUME DriftInv, [Next]_vars
  PROVE  /\ said' >= said
         /\ UNCHANGED summary \/ \E r \in Task : SummarizeWrites(r)
<1> USE Constants DEF DriftInv, ChatPart, vars, stored, redis
<1>1. CASE \E t \in Turn : TurnStep(t)
  BY <1>1 DEF TurnStep, TurnBegins, MergeExplicit, TurnAnswers, TurnTriggers
<1>2. CASE \E r \in Task : TaskStep(r)
  BY <1>2 DEF TaskStep, DetectBegins, SummarizeReads, SummarizeWrites, ReadWindow, NothingFound,
     WriteDrift, DraftBegins, PlanDraft, NoDraftPlanned, WriteDraft, Settle, Tell
<1>3. CASE \E u \in User : UserStep(u)
  BY <1>3 DEF UserStep, TakesDraft, Rejects, AcceptReads, AcceptApplies, CheckOpens, Discards,
     ClearsDrift
<1>4. CASE IdleScan \/ SeeCard \/ CooldownExpires \/ DraftExpires \/ Crash \/ UNCHANGED vars
  BY <1>4 DEF IdleScan, SeeCard, CooldownExpires, DraftExpires, Crash
<1> QED
  BY <1>1, <1>2, <1>3, <1>4 DEF Next

\* A task that writes counts what it told, and what it read is older than the chat.
LEMMA WrittenRecap ==
  ASSUME DriftInv, NEW r \in Task, SummarizeWrites(r)
  PROVE  Exact(summary', said')
<1>1. CASE UNCHANGED summary
  BY <1>1 DEF DriftInv, RecapPart, Exact, SummarizeWrites
<1>2. ASSUME NEW n \in ChunkEnds(task[r].sum, task[r].total),
             summary' = [count |-> n, text |-> task[r].sum.text \cup task[r].sum.count + 1 .. n]
      PROVE  Exact(summary', said')
  <2> DEFINE sum == task[r].sum
             total == task[r].total
  <2>1. total \in Nat /\ sum.count \in Nat /\ said \in Nat
    BY DEF DriftInv, ChatPart, TaskPart, TaskRecord, Recap
  <2>2. total <= said /\ sum.count + KeepLast <= total /\ sum.text = 1 .. sum.count
    BY DEF SummarizeWrites, DriftInv, RecapPart
  <2>3. n \in sum.count .. total - KeepLast
    BY <1>2, <2>1, <2>2, Constants DEF ChunkEnds
  <2>4. summary'.count = n /\ summary'.text = 1 .. sum.count \cup sum.count + 1 .. n
    BY <1>2, <2>2
  <2>5. said' = said
    BY DEF SummarizeWrites
  <2> HIDE DEF sum, total
  <2>6. 1 .. sum.count \cup sum.count + 1 .. n = 1 .. n
    BY <2>1, <2>3
  <2>7. n + KeepLast <= said
    BY <2>1, <2>2, <2>3, Constants
  <2> QED
    BY <2>4, <2>5, <2>6, <2>7 DEF Exact
<1> QED
  BY <1>1, <1>2 DEF SummarizeWrites

LEMMA RecapStep == ASSUME DriftInv, [Next]_vars PROVE RecapPart'
<1>1. said \in Nat /\ said' \in Nat /\ summary.count \in Nat
  BY ChatStep DEF DriftInv, ChatPart, Recap
<1>2. Exact(summary', said')
  <2>1. CASE UNCHANGED summary
    BY <2>1, <1>1, SummaryStep, Constants DEF DriftInv, RecapPart, Exact
  <2> QED
    BY <2>1, SummaryStep, WrittenRecap
<1>3. ASSUME NEW r \in Task, task'[r].at = "compressing"
      PROVE  /\ task'[r].total <= said'
             /\ task'[r].sum.count + KeepLast <= task'[r].total
             /\ task'[r].sum.text = 1 .. task'[r].sum.count
  <2>1. CASE task'[r] = task[r]
    <3>1. task[r].total \in Nat
      BY DEF DriftInv, TaskPart, TaskRecord
    <3> QED
      BY <1>1, <1>3, <2>1, <3>1, SummaryStep DEF DriftInv, RecapPart
  <2>2. CASE /\ task'[r].total = said /\ task'[r].sum = summary
             /\ said >= KeepLast /\ Unsummarized(summary, said) # {}
    <3>1. summary.count + KeepLast <= said
      BY <1>1, <2>2, Constants DEF Unsummarized
    <3>2. summary.text = 1 .. summary.count
      BY DEF DriftInv, RecapPart, Exact
    <3> QED
      BY <1>1, <2>2, <3>1, <3>2, SummaryStep
  <2> QED
    BY <1>3, <2>1, <2>2, Compressing
<1> QED
  BY <1>2, <1>3 DEF RecapPart

\* A task that goes on silently still has its last phase to publish.
LEMMA SilentStep ==
  ASSUME DriftInv, NEW r \in Task, NEW new \in TaskRecord, task' = [task EXCEPT ![r] = new],
         task[r].at \in Publishes => new.at \in Publishes,
         UNCHANGED status, faults' \in Nat, faults' >= faults
  PROVE  SpinnerPart'
BY DEF DriftInv, FlagPart, TaskPart, SpinnerPart, Publishes

LEMMA SilentGoes ==
  ASSUME DriftInv, NEW r \in Task, NEW at \in TaskPlaces, Goes(r, at),
         task[r].at \in Publishes => at \in Publishes,
         UNCHANGED status, faults' \in Nat, faults' >= faults
  PROVE  SpinnerPart'
<1> DEFINE new == [NoTask EXCEPT !.at = at]
<1>1. new \in TaskRecord /\ new.at = at /\ task' = [task EXCEPT ![r] = new]
  BY FreshTask DEF Goes
<1> HIDE DEF new
<1> QED
  BY <1>1, SilentStep

\* A task that publishes a last phase stops the spinner, unless Redis fails.
LEMMA PublishedStep ==
  ASSUME DriftInv, NEW phase \in {"idle", "draft_ready"}, Publish(phase)
  PROVE  SpinnerPart'
BY PublishFaults DEF DriftInv, FlagPart, SpinnerPart, Busy, None, Publish, Outage

LEMMA SpinnerStep == ASSUME DriftInv, [Next]_vars PROVE SpinnerPart'
<1> USE DEF vars, stored, redis
<1>0. faults' \in Nat /\ faults' >= faults
  BY FlagStep DEF FlagPart
<1>1. CASE \E r \in Task : DetectBegins(r)
  <2>1. PICK r \in Task : DetectBegins(r)
    BY <1>1
  <2>2. task'[r].at = "summing"
    BY <2>1, GoesTask DEF DriftInv, DetectBegins, TaskPlaces
  <2>3. status' = "detecting" \/ UNCHANGED status
    BY <2>1 DEF DetectBegins, Publish
  <2> QED
    BY <2>2, <2>3 DEF DriftInv, SpinnerPart, Busy, Publishes, TaskPlaces
<1>2. CASE \E r \in Task : NothingFound(r)
  BY <1>2, PublishedStep DEF NothingFound
<1>3. CASE \E r \in Task : DraftBegins(r)
  <2>1. PICK r \in Task : DraftBegins(r)
    BY <1>3
  <2>2. CASE Publish("idle")
    BY <2>2, PublishedStep
  <2>3. CASE Goes(r, "planning") /\ Publish("drafting")
    <3>1. task'[r].at = "planning"
      BY <2>3, GoesTask DEF DriftInv, TaskPlaces
    <3>2. status' = "drafting" \/ UNCHANGED status
      BY <2>3 DEF Publish
    <3> QED
      BY <3>1, <3>2 DEF DriftInv, SpinnerPart, Busy, Publishes, TaskPlaces
  <2> QED
    BY <2>1, <2>2, <2>3 DEF DraftBegins
<1>4. CASE \E r \in Task : Tell(r)
  BY <1>4, PublishedStep DEF Tell
<1>5. CASE \E r \in Task : SummarizeReads(r)
  <2>1. PICK r \in Task : SummarizeReads(r)
    BY <1>5
  <2>2. UNCHANGED status
    BY <2>1 DEF SummarizeReads
  <2>3. CASE Goes(r, "reading")
    BY <1>0, <2>2, <2>3, SilentGoes DEF Publishes, TaskPlaces
  <2>4. CASE task' = [task EXCEPT ![r] =
               [NoTask EXCEPT !.at = "compressing", !.total = said, !.sum = summary]]
    <3> DEFINE new == [NoTask EXCEPT !.at = "compressing", !.total = said, !.sum = summary]
    <3>1. new \in TaskRecord /\ new.at = "compressing"
      BY DEF DriftInv, ChatPart, NoTask, TaskRecord, TaskPlaces, Scene
    <3>2. task' = [task EXCEPT ![r] = new]
      BY <2>4
    <3> HIDE DEF new
    <3> QED
      BY <1>0, <2>2, <3>1, <3>2, SilentStep DEF Publishes, TaskPlaces
  <2> QED
    BY <2>1, <2>3, <2>4 DEF SummarizeReads
<1>6. CASE \E r \in Task :
             SummarizeWrites(r) \/ (\E h \in Hint : WriteDrift(r, h)) \/ NoDraftPlanned(r)
  <2>1. PICK r \in Task :
             SummarizeWrites(r) \/ (\E h \in Hint : WriteDrift(r, h)) \/ NoDraftPlanned(r)
    BY <1>6
  <2>2. UNCHANGED status /\ \E at \in {"reading", "hinted", "settling"} : Goes(r, at)
    BY <2>1 DEF SummarizeWrites, WriteDrift, NoDraftPlanned
  <2> QED
    BY <1>0, <2>2, SilentGoes DEF Publishes, TaskPlaces
<1>7. CASE \E r \in Task : ReadWindow(r)
  <2>1. PICK r \in Task : ReadWindow(r)
    BY <1>7
  <2> DEFINE new == [task[r] EXCEPT !.at = "asking", !.scene = scene]
  <2>2. new \in TaskRecord /\ new.at = "asking"
    BY DEF DriftInv, ChatPart, TaskPart, TaskRecord, TaskPlaces
  <2>3. task' = [task EXCEPT ![r] = new] /\ UNCHANGED status
    BY <2>1 DEF ReadWindow, DriftInv, TaskPart, TaskRecord
  <2> HIDE DEF new
  <2> QED
    BY <1>0, <2>2, <2>3, SilentStep DEF Publishes, TaskPlaces
<1>8. CASE \E r \in Task : PlanDraft(r) \/ WriteDraft(r)
  <2>1. PICK r \in Task : PlanDraft(r) \/ WriteDraft(r)
    BY <1>8
  <2> DEFINE found(b) == [NoTask EXCEPT !.at = "settling", !.found = b]
             new == [NoTask EXCEPT !.at = "writing", !.hint = scene.drift]
  <2>2. \/ task' = [task EXCEPT ![r] = found(scene.drift # None)]
        \/ task' = [task EXCEPT ![r] = found(TRUE)]
        \/ task' = [task EXCEPT ![r] = new]
        \/ Goes(r, "settling")
    BY <2>1 DEF PlanDraft, WriteDraft
  <2>3. UNCHANGED status
    BY <2>1 DEF PlanDraft, WriteDraft
  <2>4. \A b \in BOOLEAN : found(b) \in TaskRecord /\ found(b).at = "settling"
    BY DEF NoTask, TaskRecord, TaskPlaces, Recap, Scene
  <2>5. new \in TaskRecord /\ new.at = "writing"
    <3>1. scene.drift \in Hint \cup {None}
      BY DEF DriftInv, ChatPart, Scene
    <3> QED
      BY <3>1 DEF NoTask, TaskRecord, TaskPlaces, Recap, Scene
  <2>6. (scene.drift # None) \in BOOLEAN
    OBVIOUS
  <2>7. {"settling", "writing"} \subseteq Publishes /\ "settling" \in TaskPlaces
    BY DEF Publishes, TaskPlaces
  <2> HIDE DEF found, new
  <2>8. CASE Goes(r, "settling")
    BY <1>0, <2>3, <2>7, <2>8, SilentGoes
  <2>9. CASE task' = [task EXCEPT ![r] = new]
    BY <1>0, <2>3, <2>5, <2>7, <2>9, SilentStep
  <2>10. ASSUME NEW b \in BOOLEAN, task' = [task EXCEPT ![r] = found(b)] PROVE SpinnerPart'
    <3>1. found(b) \in TaskRecord /\ found(b).at = "settling"
      BY <2>4
    <3> QED
      BY <1>0, <2>3, <2>7, <2>10, <3>1, SilentStep
  <2> QED
    BY <2>2, <2>6, <2>8, <2>9, <2>10
<1>9. CASE \E r \in Task : Settle(r)
  <2>1. PICK r \in Task : Settle(r)
    BY <1>9
  <2>2. UNCHANGED status
    BY <2>1 DEF Settle
  <2>3. CASE task[r].at = "quiet" /\ task' = [task EXCEPT ![r] = NoTask]
    BY <1>0, <2>2, <2>3, NoTaskType, SilentStep DEF Publishes
  <2>4. CASE task' = [task EXCEPT ![r] = [task[r] EXCEPT !.at = "telling"]]
    <3> DEFINE new == [task[r] EXCEPT !.at = "telling"]
    <3>1. new \in TaskRecord /\ new.at = "telling"
      BY DEF DriftInv, TaskPart, TaskRecord, TaskPlaces
    <3>2. task' = [task EXCEPT ![r] = new]
      BY <2>4
    <3> HIDE DEF new
    <3> QED
      BY <1>0, <2>2, <3>1, <3>2, SilentStep DEF Publishes, TaskPlaces
  <2>5. \/ task[r].at = "quiet" /\ task' = [task EXCEPT ![r] = NoTask]
        \/ task' = [task EXCEPT ![r] = [task[r] EXCEPT !.at = "telling"]]
    BY <2>1 DEF Settle
  <2> QED
    BY <2>3, <2>4, <2>5
<1>10. CASE IdleScan \/ \E t \in Turn : TurnTriggers(t)
  <2>1. (UNCHANGED task \/ RunDetect) /\ UNCHANGED status
    BY <1>10, Zenon DEF IdleScan, TurnTriggers, Trigger
  <2>2. CASE RunDetect
    BY <1>0, <2>1, <2>2, Triggered, SilentGoes DEF DriftInv, Publishes, TaskPlaces
  <2>3. CASE UNCHANGED task
    BY <1>0, <2>1, <2>3 DEF DriftInv, SpinnerPart, FlagPart
  <2> QED
    BY <2>1, <2>2, <2>3
<1>11. CASE Crash
  BY <1>11 DEF Crash, Outage, DriftInv, SpinnerPart, FlagPart
<1>12. CASE UNCHANGED <<task, status>>
  BY <1>0, <1>12 DEF DriftInv, SpinnerPart, FlagPart
<1>13. CASE (\E t \in Turn : TurnBegins(t) \/ MergeExplicit(t) \/ TurnAnswers(t))
            \/ (\E u \in User : UserStep(u))
  BY <1>12, <1>13 DEF TurnBegins, MergeExplicit, TurnAnswers, UserStep, TakesDraft, Rejects,
     AcceptReads, AcceptApplies, CheckOpens, Discards, ClearsDrift
<1>14. CASE SeeCard \/ CooldownExpires \/ DraftExpires
  BY <1>12, <1>14 DEF SeeCard, CooldownExpires, DraftExpires
<1> QED
  BY <1>1, <1>2, <1>3, <1>4, <1>5, <1>6, <1>7, <1>8, <1>9, <1>10, <1>11, <1>12, <1>13, <1>14
     DEF Next, TurnStep, TaskStep

\* A draft that was applied is not made again, and not put back.
LEMMA WithdrawnStep == ASSUME DriftInv, [Next]_vars PROVE AcceptedIsWithdrawn'
<1> USE DEF vars, stored, redis
<1> DEFINE used == Range(applied)
<1>0. faults' \in Nat /\ faults' >= faults /\ faults \in Nat
  BY FlagStep DEF DriftInv, FlagPart
<1>1. used \subseteq 1 .. made /\ made \in Nat /\ req \in [User -> ReqRecord]
      /\ (draft.n \in used => (\E u \in User : req[u].at = "discarding") \/ faults > 0)
  BY Constants DEF DriftInv, DraftPart, AcceptedIsWithdrawn, Range
<1>2. CASE draft' = NoDraft /\ UNCHANGED applied
  BY <1>1, <1>2 DEF NoDraft, AcceptedIsWithdrawn
<1>3. CASE \E u \in User : Discards(u)
  BY <1>0, <1>2, <1>3 DEF Discards, Outage, AcceptedIsWithdrawn
<1>4. CASE UNCHANGED <<draft, applied>> /\
           \A u \in User : req[u].at = "discarding" => req'[u].at = "discarding" \/ faults' > 0
  BY <1>0, <1>1, <1>4 DEF AcceptedIsWithdrawn
<1>5. CASE \E r \in Task : WriteDraft(r)
  <2>1. PICK r \in Task : WriteDraft(r)
    BY <1>5
  <2>2. UNCHANGED <<applied, req>>
    BY <2>1 DEF WriteDraft
  <2>3. CASE UNCHANGED draft
    BY <1>4, <2>2, <2>3
  <2>4. CASE draft' = [n |-> made', hash |-> task[r].hint]
    <3>1. draft'.n = made + 1
      BY <2>1, <2>4 DEF WriteDraft
    <3> QED
      BY <1>1, <2>2, <3>1 DEF AcceptedIsWithdrawn
  <2> QED
    BY <2>1, <2>3, <2>4 DEF WriteDraft
<1>6. ASSUME NEW u \in User, NEW new, req' = [req EXCEPT ![u] = new], req[u].at # "discarding",
             UNCHANGED <<draft, applied>>
      PROVE  AcceptedIsWithdrawn'
  BY <1>1, <1>4, <1>6
<1>7. CASE \E u \in User : TakesDraft(u) \/ Rejects(u) \/ AcceptReads(u) \/ CheckOpens(u)
                           \/ ClearsDrift(u)
  <2>1. PICK u \in User : TakesDraft(u) \/ Rejects(u) \/ AcceptReads(u) \/ CheckOpens(u)
                          \/ ClearsDrift(u)
    BY <1>7
  <2>2. UNCHANGED <<draft, applied>> /\ req[u].at # "discarding"
    BY <2>1 DEF TakesDraft, Rejects, Comes, AcceptReads, CheckOpens, ClearsDrift
  <2>3. \A w \in User \ {u} : req'[w] = req[w]
    BY <1>1, <2>1 DEF TakesDraft, Rejects, AcceptReads, CheckOpens, ClearsDrift, ReqGoes
  <2> QED
    BY <1>4, <2>2, <2>3
<1>8. CASE \E u \in User : AcceptApplies(u)
  <2>1. PICK u \in User : AcceptApplies(u)
    BY <1>8
  <2>2. CASE UNCHANGED applied /\ ReqGoes(u, "over")
    <3>1. UNCHANGED draft /\ req[u].at # "discarding"
      BY <2>1 DEF AcceptApplies
    <3>2. \A w \in User \ {u} : req'[w] = req[w]
      BY <1>1, <2>2 DEF ReqGoes
    <3> QED
      BY <1>4, <2>2, <3>1, <3>2
  <2>3. CASE ReqGoes(u, "discarding")
    <3>1. req'[u].at = "discarding"
      BY <2>3, GoesReq DEF DriftInv, ReqPlaces
    <3> QED
      BY <3>1 DEF AcceptedIsWithdrawn
  <2> QED
    BY <2>1, <2>2, <2>3 DEF AcceptApplies
<1>9. CASE DraftExpires
  BY <1>2, <1>9 DEF DraftExpires
<1>10. CASE Crash
  BY <1>0, <1>10 DEF Crash, Outage, AcceptedIsWithdrawn
<1>11. CASE UNCHANGED <<draft, applied, req>>
  BY <1>4, <1>11
<1>12. CASE (\E t \in Turn : TurnStep(t)) \/ IdleScan \/ CooldownExpires \/ SeeCard
  BY <1>11, <1>12 DEF TurnStep, TurnBegins, MergeExplicit, TurnAnswers, TurnTriggers, IdleScan,
     CooldownExpires, SeeCard
<1>13. CASE \E r \in Task :
             DetectBegins(r) \/ SummarizeReads(r) \/ SummarizeWrites(r) \/ ReadWindow(r)
             \/ NothingFound(r) \/ (\E h \in Hint : WriteDrift(r, h)) \/ DraftBegins(r)
             \/ PlanDraft(r) \/ NoDraftPlanned(r) \/ Settle(r) \/ Tell(r)
  BY <1>11, <1>13 DEF DetectBegins, SummarizeReads, SummarizeWrites, ReadWindow, NothingFound,
     WriteDrift, DraftBegins, PlanDraft, NoDraftPlanned, Settle, Tell
<1> QED
  BY <1>3, <1>5, <1>7, <1>8, <1>9, <1>10, <1>11, <1>12, <1>13 DEF Next, TaskStep, UserStep

-----------------------------------------------------------------------------
(* The theorems. *)

LEMMA NextInv == DriftInv /\ [Next]_vars => DriftInv'
BY ChatStep, FlagStep, TurnPartStep, TaskPartStep, DraftPartStep, RecapStep, SpinnerStep,
   WithdrawnStep DEF DriftInv

THEOREM DriftInvariant == Spec => []DriftInv
BY InitInv, NextInv, PTL DEF Spec

\* The chat, the tasks, the requests and the drafts keep their types, and a request that
\* is to apply or check a draft holds one that was planned.
THEOREM DriftTypes == Spec => []TypeOK
<1>1. ASSUME DriftInv PROVE TypeOK
  <2>1. ASSUME NEW d, Planned(d) PROVE d \in Draft
    BY <2>1 DEF Planned
  <2>2. /\ said \in Nat /\ summary \in Recap /\ scene \in Scene
        /\ {cooldown, dirty} \subseteq BOOLEAN
        /\ status \in Busy \cup {"idle", "draft_ready", None}
    BY <1>1 DEF DriftInv, ChatPart, FlagPart, SpinnerPart
  <2>3. /\ draft \in Draft \cup {NoDraft} /\ card \in 0 .. MaxDraft
        /\ made \in 0 .. MaxDraft
        /\ \A i \in DOMAIN applied : applied[i] \in 1 .. made
    BY <1>1, <2>1 DEF DriftInv, DraftPart
  <2>4. turn \in [Turn -> [at : {"new", "open", "noted", "answered", "over"}, scene : Scene]]
    BY <1>1 DEF DriftInv, TurnPart
  <2>5. \A r \in Task : /\ task[r].at \in TaskPlaces /\ task[r].scene \in Scene
                        /\ task[r].at = "writing" => task[r].hint \in Hint
    BY <1>1 DEF DriftInv, TaskPart, TaskRecord
  <2>6. \A u \in User : /\ req[u].at \in ReqPlaces
                        /\ req[u].at \in {"accept", "check", "based"} => req[u].held \in Draft
    BY <1>1, <2>1 DEF DriftInv, DraftPart, ReqRecord
  <2> QED
    BY <2>2, <2>3, <2>4, <2>5, <2>6 DEF TypeOK, TaskPlaces, ReqPlaces
<1> QED
  BY <1>1, DriftInvariant, PTL

\* However many tasks overlap, whichever of them writes last and wherever the sidecar
\* fails, the summary tells the messages it counts and none that is sent in full
\* (chat_summarizer.py).
THEOREM SummariesAreExact == Spec => []RecapIsExact
<1>1. ASSUME DriftInv PROVE RecapIsExact
  <2>1. Exact(summary, said) /\ summary.count \in Nat /\ said \in Nat
    BY <1>1 DEF DriftInv, RecapPart, ChatPart, Recap
  <2> QED
    BY <2>1, Constants DEF Exact, RecapIsExact, LastMessages
<1> QED
  BY <1>1, DriftInvariant, PTL

\* Without a fault a draft that was applied is deleted before its accept ends, and no
\* task or other request brings it back (accept_context_draft).
THEOREM AcceptedDraftsGo == Spec => []AcceptedIsWithdrawn
<1>1. DriftInv => AcceptedIsWithdrawn
  BY DEF DriftInv
<1> QED
  BY <1>1, DriftInvariant, PTL

\* However many tasks overlap, without a fault no status of a detection under way is left
\* when all have ended (_run_detect).
THEOREM SpinnersStop == Spec => []SpinnerStops
<1>1. ASSUME DriftInv PROVE SpinnerStops
  BY <1>1 DEF DriftInv, SpinnerPart, FlagPart, SpinnerStops, Publishes
<1> QED
  BY <1>1, DriftInvariant, PTL
=============================================================================
