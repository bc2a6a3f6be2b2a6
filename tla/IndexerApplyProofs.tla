-------------------------- MODULE IndexerApplyProofs ------------------------
(***************************************************************************)
(* Proofs about IndexerApply for every set of requests, applies, vaults,   *)
(* files, changes and edits, and whatever may fail.  First what the files  *)
(* go through (IInv), then what git and the answers say of it (CommitInv,  *)
(* HistoryInv, ReportInv).                                                 *)
(***************************************************************************)
EXTENDS IndexerApply, TLAPS

LEMMA InitTypeOK == Init => TypeOK
<1> SUFFICES ASSUME Init PROVE TypeOK
  OBVIOUS
<1>1. Absent \in Content /\ Empty \in Content
  BY DEF Absent, Empty, Content
<1>2. NoResult \in Results /\ "idle" \in PCs
  BY DEF NoResult, Results, PCs
<1>3. disk \in [Files -> Content]
  BY <1>1 DEF Init
<1>4. Answer(0, NoResult) \in [code : {0, 200, 409, 500}, results : Results]
  BY <1>2 DEF Answer
<1> QED
  BY <1>1, <1>2, <1>3, <1>4 DEF Init, TypeOK

LEMMA ApplyBatchType ==
  ASSUME NEW c \in Content, NEW S \in SUBSET Ops
  PROVE  ApplyBatch(c, S) \in Content
BY DEF ApplyBatch, Content

LEMMA GotoType ==
  ASSUME TypeOK, NEW r \in Requests, NEW l \in PCs, Goto(r, l)
  PROVE  pc' \in [Requests -> PCs]
BY DEF TypeOK, Goto

LEMMA ResultsExcept ==
  ASSUME NEW x \in Results, NEW v,
         NEW status \in {"none", "applied", "conflict", "failed", "manual"}
  PROVE  [x EXCEPT ![v] = status] \in Results
BY DEF Results

LEMMA EndVaultType ==
  ASSUME TypeOK, NEW r \in Requests,
         NEW status \in {"none", "applied", "conflict", "failed", "manual"},
         EndVault(r, status)
  PROVE  /\ pc' \in [Requests -> PCs]
         /\ todo' \in [Requests -> SUBSET Vaults]
         /\ cur' \in [Requests -> Vaults \union {None}]
         /\ left' \in [Requests -> SUBSET Files]
         /\ written' \in [Requests -> SUBSET (Files \union {None})]
         /\ buf' \in [Requests -> Content]
         /\ target' \in [Requests -> Files \union {None}]
         /\ snap' \in [Requests -> BOOLEAN]
         /\ res' \in [Requests -> Results]
         /\ answer' \in [Requests -> [code : {0, 200, 409, 500}, results : Results]]
<1>1. Absent \in Content
  BY DEF Absent, Content
<1>2. "next" \in PCs
  BY DEF PCs
<1>3. [res[r] EXCEPT ![cur[r]] = status] \in Results
  <2>1. res[r] \in Results
    BY DEF TypeOK
  <2> QED
    BY <2>1, ResultsExcept
<1> QED
  BY <1>1, <1>2, <1>3 DEF TypeOK, EndVault, Goto

LEMMA RaiseType ==
  ASSUME TypeOK, NEW r \in Requests, Raise(r)
  PROVE  /\ pc' \in [Requests -> PCs]
         /\ todo' \in [Requests -> SUBSET Vaults]
         /\ cur' \in [Requests -> Vaults \union {None}]
         /\ left' \in [Requests -> SUBSET Files]
         /\ written' \in [Requests -> SUBSET (Files \union {None})]
         /\ buf' \in [Requests -> Content]
         /\ target' \in [Requests -> Files \union {None}]
         /\ snap' \in [Requests -> BOOLEAN]
         /\ res' \in [Requests -> Results]
         /\ answer' \in [Requests -> [code : {0, 200, 409, 500}, results : Results]]
<1>1. "unlock" \in PCs
  BY DEF PCs
<1>2. Answer(500, NoResult) \in [code : {0, 200, 409, 500}, results : Results]
  BY DEF Answer, NoResult, Results
<1> QED
  BY <1>1, <1>2 DEF TypeOK, Raise, Goto, localVars

LEMMA StageType ==
  ASSUME TypeOK, NEW S, Stage(S)
  PROVE  staged' \in [Files -> Content]
BY DEF TypeOK, Stage

LEMMA CommitType ==
  ASSUME TypeOK, NEW v, staged' \in [Files -> Content], CommitIndex(v)
  PROVE  head' \in [Files -> Content] /\ history' \in [Files -> SUBSET Content]
BY DEF TypeOK, CommitIndex

\* Git that cannot be started: the exception leaves the vault, whatever git has done
\* before.
LEMMA GitRaisesGit ==
  ASSUME NEW r, NEW T, GitRaises(r, T)
  PROVE  /\ Raise(r)
         /\ \E S : Stage(S)
         /\ UNCHANGED <<head, history>> \/ CommitIndex(cur[r])
BY DEF GitRaises

LEMMA GitRaisesType ==
  ASSUME TypeOK, NEW r, NEW T, GitRaises(r, T)
  PROVE  /\ staged' \in [Files -> Content]
         /\ head' \in [Files -> Content] /\ history' \in [Files -> SUBSET Content]
<1>1. staged' \in [Files -> Content]
  BY GitRaisesGit, StageType
<1>2. CASE UNCHANGED <<head, history>>
  BY <1>1, <1>2 DEF TypeOK
<1>3. CASE CommitIndex(cur[r])
  BY <1>1, <1>3, CommitType
<1> QED
  BY <1>1, <1>2, <1>3, GitRaisesGit

-----------------------------------------------------------------------------
\* One step per action: each changes its own variables within their types.
LEMMA NextTypeOK == TypeOK /\ [Next]_vars => TypeOK'
<1> SUFFICES ASSUME TypeOK PROVE [Next]_vars => TypeOK'
  OBVIOUS
<1> USE DEF TypeOK
<1>0. /\ Absent \in Content /\ NoResult \in Results
  BY DEF Absent, Content, NoResult, Results
<1>1. ASSUME NEW o \in Ops, Resolve(o) PROVE TypeOK'
  <2>1. expected' \in [Ops -> Content \union {None}]
    <3>1. Absent \in Content /\ disk[OpFile[o]] \in Content
      BY <1>0, ConstantsAssumption
    <3>2. \/ expected' = [expected EXCEPT ![o] = Absent]
          \/ expected' = [expected EXCEPT ![o] = disk[OpFile[o]]]
      BY <1>1 DEF Resolve
    <3> QED
      BY <3>1, <3>2
  <2>2. UNCHANGED <<redisVars, disk, gitVars, pc, localVars, answer, userVars>>
    BY <1>1 DEF Resolve
  <2> QED
    BY <2>1, <2>2 DEF redisVars, gitVars, localVars, userVars
<1>2. ASSUME NEW r \in Requests, Receive(r) PROVE TypeOK'
  <2>1. pc' \in [Requests -> PCs]
    <3>1. "done" \in PCs /\ "locking" \in PCs
      BY DEF PCs
    <3>2. Goto(r, "done") \/ Goto(r, "locking")
      BY <1>2 DEF Receive
    <3> QED
      BY <3>1, <3>2, GotoType
  <2>2. Answer(200, cached[ApplyOf[r]]) \in [code : {0, 200, 409, 500}, results : Results]
    BY ConstantsAssumption DEF Answer
  <2>3. answer' \in [Requests -> [code : {0, 200, 409, 500}, results : Results]]
    <3>1. \/ answer' = [answer EXCEPT ![r] = Answer(200, cached[ApplyOf[r]])]
          \/ answer' = answer
      BY <1>2 DEF Receive
    <3> QED
      BY <2>2, <3>1
  <2>4. UNCHANGED <<redisVars, disk, gitVars, expected, localVars, userVars>>
    BY <1>2 DEF Receive
  <2> QED
    BY <2>1, <2>3, <2>4 DEF redisVars, gitVars, localVars, userVars
<1>3. ASSUME NEW r \in Requests, Acquire(r) PROVE TypeOK'
  BY <1>0, <1>3 DEF Acquire, Goto, PCs, redisVars, gitVars, localVars, userVars
<1>4. ASSUME NEW r \in Requests, Reject(r) PROVE TypeOK'
  BY <1>0, <1>4 DEF Reject, InProgress, Answer, Goto, PCs, redisVars, gitVars, localVars, userVars
<1>5. ASSUME NEW r \in Requests, SaveInProgress(r) PROVE TypeOK'
  <2>1. VaultsOf(ApplyOf[r]) \in SUBSET Vaults
    BY ConstantsAssumption DEF VaultsOf
  <2> QED
    BY <1>0, <1>5, <2>1 DEF SaveInProgress, Goto, PCs, gitVars, userVars
<1>6. ASSUME NEW r \in Requests, NEW v \in Vaults, StartVault(r, v) PROVE TypeOK'
  <2>1. UNCHANGED <<redisVars, disk, gitVars, expected, userVars>>
    BY <1>6 DEF StartVault
  <2>2. CASE Raise(r)
    BY <2>1, <2>2, RaiseType DEF redisVars, gitVars, userVars
  <2>3. CASE /\ todo' = [todo EXCEPT ![r] = @ \ {v}]
             /\ cur' = [cur EXCEPT ![r] = v]
             /\ Goto(r, "identity")
             /\ UNCHANGED <<left, written, buf, target, snap, res, answer>>
    <3>1. pc' \in [Requests -> PCs]
      BY <2>3, GotoType DEF PCs
    <3>2. todo' \in [Requests -> SUBSET Vaults] /\ cur' \in [Requests -> Vaults \union {None}]
      BY <2>3
    <3> QED
      BY <2>1, <2>3, <3>1, <3>2 DEF redisVars, gitVars, userVars
  <2>4. CASE /\ todo' = [todo EXCEPT ![r] = @ \ {v}]
             /\ res' = [res EXCEPT ![r][v] = "failed"]
             /\ UNCHANGED <<cur, pc, left, written, buf, target, snap, answer>>
    <3>1. res[r] \in Results
      OBVIOUS
    <3>2. [res[r] EXCEPT ![v] = "failed"] \in Results
      BY <3>1, ResultsExcept
    <3>3. todo' \in [Requests -> SUBSET Vaults] /\ res' \in [Requests -> Results]
      BY <2>4, <3>2
    <3> QED
      BY <2>1, <2>4, <3>3 DEF redisVars, gitVars, userVars
  <2> QED
    BY <1>6, <2>2, <2>3, <2>4 DEF StartVault
<1>7. ASSUME NEW r \in Requests, Preflight(r) PROVE TypeOK'
  <2>1. FilesIn(ApplyOf[r], cur[r]) \in SUBSET Files
    BY DEF FilesIn
  <2>2. UNCHANGED <<redisVars, disk, gitVars, expected, userVars>>
    BY <1>7 DEF Preflight
  <2>3. CASE Raise(r)
    BY <2>2, <2>3, RaiseType DEF redisVars, gitVars, userVars
  <2>4. CASE EndVault(r, "conflict")
    BY <2>2, <2>4, EndVaultType DEF redisVars, gitVars, userVars
  <2>5. CASE /\ left' = [left EXCEPT ![r] = FilesIn(ApplyOf[r], cur[r])]
             /\ Goto(r, "snapshot")
             /\ UNCHANGED <<todo, cur, written, buf, target, snap, res, answer>>
    BY <1>0, <2>1, <2>2, <2>5 DEF Goto, PCs, Sync, redisVars, gitVars, userVars
  <2> QED
    BY <1>7, <2>3, <2>4, <2>5 DEF Preflight
<1>8. ASSUME NEW r \in Requests, Snapshot(r) PROVE TypeOK'
  <2>1. UNCHANGED <<redisVars, disk, expected, userVars>>
    BY <1>8 DEF Snapshot
  <2>2. CASE \E T : GitRaises(r, T)
    BY <2>1, <2>2, GitRaisesGit, GitRaisesType, RaiseType DEF redisVars, userVars
  <2>3. CASE ~\E T : GitRaises(r, T)
    <3>1. UNCHANGED <<todo, cur, left, written, buf, target, res, answer>> /\ Goto(r, "files")
      BY <1>8, <2>3 DEF Snapshot
    <3>2. /\ staged' \in [Files -> Content] /\ head' \in [Files -> Content]
          /\ history' \in [Files -> SUBSET Content] /\ snap' \in [Requests -> BOOLEAN]
      <4>1. CASE UNCHANGED <<gitVars, snap>>
        BY <4>1 DEF gitVars
      <4>2. CASE UNCHANGED <<head, history, snap>> /\ \E S : Stage(S)
        BY <4>2, StageType
      <4>3. CASE /\ CommitIndex(cur[r]) /\ snap' = [snap EXCEPT ![r] = TRUE]
                 /\ \E S : Stage(S)
        <5>1. staged' \in [Files -> Content]
          BY <4>3, StageType
        <5> QED
          BY <4>3, <5>1, CommitType
      <4> QED
        BY <1>8, <2>3, <4>1, <4>2, <4>3 DEF Snapshot
    <3> QED
      BY <1>0, <2>1, <3>1, <3>2 DEF Goto, PCs, Sync, redisVars, userVars
  <2> QED
    BY <2>2, <2>3
<1>9. ASSUME NEW r \in Requests, NEW f \in Files, ReadFile(r, f) PROVE TypeOK'
  <2>1. UNCHANGED <<redisVars, disk, gitVars, expected, userVars>>
    BY <1>9 DEF ReadFile
  <2>2. CASE FailVault(r)
    BY <2>1, <2>2, EndVaultType DEF FailVault, redisVars, gitVars, userVars
  <2>3. CASE Raise(r)
    BY <2>1, <2>3, RaiseType DEF redisVars, gitVars, userVars
  <2>4. CASE /\ buf' = [buf EXCEPT ![r] = ApplyBatch(disk[f], OpsOf(ApplyOf[r], f))]
             /\ target' = [target EXCEPT ![r] = f]
             /\ left' = [left EXCEPT ![r] = @ \ {f}]
             /\ Goto(r, "write")
             /\ UNCHANGED <<todo, cur, written, snap, res, answer>>
    <3>1. ApplyBatch(disk[f], OpsOf(ApplyOf[r], f)) \in Content
      BY ApplyBatchType DEF OpsOf
    <3> QED
      BY <1>0, <2>1, <2>4, <3>1 DEF Goto, PCs, Sync, redisVars, gitVars, userVars
  <2> QED
    BY <1>9, <2>2, <2>3, <2>4 DEF ReadFile, CurrentText
<1>10. ASSUME NEW r \in Requests, WriteFile(r) PROVE TypeOK'
  <2>1. UNCHANGED <<redisVars, gitVars, expected, userVars>>
    BY <1>10 DEF WriteFile
  <2>2. CASE UNCHANGED disk /\ FailVault(r)
    BY <2>1, <2>2, EndVaultType DEF FailVault, redisVars, gitVars, userVars
  <2>3. CASE UNCHANGED disk /\ Raise(r)
    BY <2>1, <2>3, RaiseType DEF redisVars, gitVars, userVars
  <2>4. CASE /\ disk' = [disk EXCEPT ![target[r]] = buf[r]]
             /\ written' = [written EXCEPT ![r] = @ \union {target[r]}]
             /\ target' = [target EXCEPT ![r] = None]
             /\ buf' = [buf EXCEPT ![r] = Absent]
             /\ Goto(r, "files")
             /\ UNCHANGED <<todo, cur, left, snap, res, answer>>
    <3>1. disk' \in [Files -> Content]
      BY <2>4
    <3>2. /\ written' \in [Requests -> SUBSET (Files \union {None})]
          /\ target' \in [Requests -> Files \union {None}]
          /\ buf' \in [Requests -> Content]
      BY <1>0, <2>4
    <3>3. pc' \in [Requests -> PCs]
      BY <2>4, GotoType DEF PCs, Sync
    <3> QED
      BY <2>1, <2>4, <3>1, <3>2, <3>3 DEF redisVars, gitVars, userVars
  <2> QED
    BY <1>10, <2>2, <2>3, <2>4 DEF WriteFile
<1>11. ASSUME NEW r \in Requests, Commit(r) PROVE TypeOK'
  <2>1. UNCHANGED <<redisVars, disk, expected, userVars>>
    BY <1>11 DEF Commit
  <2>2. staged' \in [Files -> Content]
    <3>1. \E S : Stage(S)
      BY <1>11, GitRaisesGit DEF Commit
    <3> QED
      BY <3>1, StageType
  <2>3. CASE UNCHANGED <<head, history>> /\ EndVault(r, "manual")
    BY <2>1, <2>2, <2>3, EndVaultType DEF redisVars, userVars
  <2>5. CASE GitRaises(r, written[r])
    BY <2>1, <2>5, GitRaisesGit, GitRaisesType, RaiseType DEF redisVars, userVars
  <2>4. CASE CommitIndex(cur[r]) /\ Goto(r, "reindex") /\ UNCHANGED <<localVars, answer>>
    BY <1>0, <2>1, <2>2, <2>4, CommitType DEF Goto, PCs, redisVars, userVars, localVars
  <2> QED
    BY <1>11, <2>3, <2>4, <2>5 DEF Commit
<1>12. ASSUME NEW r \in Requests, Reindex(r) PROVE TypeOK'
  BY <1>12, EndVaultType DEF Reindex, redisVars, gitVars, userVars
<1>13. ASSUME NEW r \in Requests, Complete(r) PROVE TypeOK'
  BY <1>0, <1>13, ConstantsAssumption DEF Complete, Answer, Goto, PCs, gitVars, localVars, userVars
<1>14. ASSUME NEW r \in Requests, Unlock(r) PROVE TypeOK'
  BY <1>0, <1>14 DEF Unlock, Goto, PCs, gitVars, userVars
<1>15. ASSUME NEW a \in Applies, ExpireLock(a) PROVE TypeOK'
  BY <1>0, <1>15 DEF ExpireLock, gitVars, localVars, userVars
<1>16. ASSUME NEW a \in Applies, ExpireRecord(a) PROVE TypeOK'
  BY <1>0, <1>16 DEF ExpireRecord, gitVars, localVars, userVars
<1>17. ASSUME Crash PROVE TypeOK'
  BY <1>0, <1>17 DEF Crash, PCs, redisVars, gitVars, userVars
<1>18. ASSUME NEW e \in Edits, UserEdit(e) PROVE TypeOK'
  <2>1. disk' \in [Files -> Content]
    <3>1. EditFile[e] \in Files
      BY ConstantsAssumption
    <3>2. [exists |-> TRUE, ops |-> disk[EditFile[e]].ops,
           edits |-> disk[EditFile[e]].edits \union {e}] \in Content
      BY <3>1 DEF Content
    <3> QED
      BY <1>18, <3>2 DEF UserEdit
  <2>2. edited' \in SUBSET Edits /\ exposed' \in SUBSET edited'
    BY <1>18 DEF UserEdit
  <2> QED
    BY <1>18, <2>1, <2>2 DEF UserEdit, redisVars, gitVars, localVars
<1>19. CASE UNCHANGED vars
  BY <1>19 DEF vars, redisVars, gitVars, localVars, userVars
<1> QED
  BY <1>1, <1>2, <1>3, <1>4, <1>5, <1>6, <1>7, <1>8, <1>9, <1>10, <1>11, <1>12,
     <1>13, <1>14, <1>15, <1>16, <1>17, <1>18, <1>19 DEF Next, Step

\* Every variable of /apply keeps its type.
THEOREM TypeInvariant == Spec => []TypeOK
BY InitTypeOK, NextTypeOK, PTL DEF Spec

-----------------------------------------------------------------------------
(***************************************************************************)
(* The inductive invariant.  UpdateAppliedOnce is not inductive: that the  *)
(* write adds 1 to a count of 0 follows from the comparison the same       *)
(* execution made before it, because no other execution was between two    *)
(* awaits in the meantime and because the reviewed text holds no change of *)
(* its own apply.                                                          *)
(***************************************************************************)

\* One execution at most is between the identity query and the reindex.
OneInSync == \A q, r \in Requests : pc[q] \in Sync /\ pc[r] \in Sync => q = r

\* A request is sent only when all its changes have been resolved.
ResolvedFirst ==
  \A r \in Requests : \A o \in Ops :
     pc[r] # "idle" /\ OpApply[o] = ApplyOf[r] => expected[o] # None

\* An apply with a change left to resolve has touched nothing.
UnresolvedUntouched ==
  \A o, p \in Ops :
     OpApply[p] = OpApply[o] /\ expected[p] = None => disk[OpFile[o]].ops[o] = 0

\* The reviewed text holds no change of the apply it was read for.
ReviewedTextClean ==
  \A o \in Ops : \A p \in Batch(o) : expected[o] # None => expected[o].ops[p] = 0

\* The update batches an execution has still to apply are not in their files.
PendingBatchesUnapplied ==
  \A r \in Requests : pc[r] \in Sync =>
     \A f \in left[r] :
        /\ f \in Files
        /\ OpsOf(ApplyOf[r], f) # {}
        /\ IsUpdate(ApplyOf[r], f) =>
             \A o \in OpsOf(ApplyOf[r], f) : disk[f].ops[o] = 0

\* The buffer about to be written is the text on disk with one batch more.
BufferIsNextText ==
  \A r \in Requests : pc[r] = "write" =>
     LET f == target[r]
         S == OpsOf(ApplyOf[r], f) IN
     /\ f \in Files
     /\ f \notin left[r]
     /\ S # {}
     /\ IsUpdate(ApplyOf[r], f) => \A o \in S : disk[f].ops[o] = 0
     /\ \A o \in Ops : buf[r].ops[o] = IF o \in S THEN disk[f].ops[o] + 1 ELSE disk[f].ops[o]
     /\ disk[f].edits \ exposed \subseteq buf[r].edits
     /\ buf[r].edits \subseteq disk[f].edits

IInv ==
  /\ TypeOK
  /\ OneInSync
  /\ ResolvedFirst
  /\ UnresolvedUntouched
  /\ ReviewedTextClean
  /\ PendingBatchesUnapplied
  /\ BufferIsNextText
  /\ UpdateAppliedOnce
  /\ BatchIsAtomic
  /\ NoLostEdit

LEMMA InitIInv == Init => IInv
<1> SUFFICES ASSUME Init PROVE IInv
  OBVIOUS
<1>1. TypeOK
  BY InitTypeOK
<1>2. \A r \in Requests : pc[r] = "idle"
  BY DEF Init
<1>3. \A f \in Files, o \in Ops : disk[f].ops[o] = 0
  BY DEF Init, Absent, Empty
<1>4. \A o \in Ops : OpFile[o] \in Files /\ expected[o] = None
  BY ConstantsAssumption DEF Init
<1>5. \A o \in Ops : Batch(o) \subseteq Ops
  BY DEF Batch, OpsOf
<1>6. OneInSync /\ ResolvedFirst /\ PendingBatchesUnapplied /\ BufferIsNextText
  BY <1>2 DEF OneInSync, ResolvedFirst, PendingBatchesUnapplied, BufferIsNextText, Sync
<1>7. UnresolvedUntouched /\ ReviewedTextClean /\ UpdateAppliedOnce /\ BatchIsAtomic
  BY <1>3, <1>4, <1>5
     DEF UnresolvedUntouched, ReviewedTextClean, UpdateAppliedOnce, BatchIsAtomic
<1>8. NoLostEdit
  BY DEF Init, NoLostEdit
<1> QED
  BY <1>1, <1>6, <1>7, <1>8 DEF IInv

\* Most steps leave the files and the reviewed texts alone, and bring no
\* execution into the section without awaits, nor into a write.
Quiet ==
  /\ UNCHANGED <<disk, expected, edited, exposed>>
  /\ \A r \in Requests :
       /\ pc'[r] \in Sync =>
            /\ pc[r] \in Sync
            /\ pc'[r] = "write" => pc[r] = "write"
            /\ left'[r] = left[r] /\ buf'[r] = buf[r] /\ target'[r] = target[r]
       /\ pc'[r] # "idle" => pc[r] # "idle"

LEMMA QuietKeepsIInv == IInv /\ TypeOK' /\ Quiet => IInv'
<1> SUFFICES ASSUME IInv, TypeOK', Quiet PROVE IInv'
  OBVIOUS
<1>1. OneInSync' /\ ResolvedFirst'
  BY DEF IInv, Quiet, OneInSync, ResolvedFirst
<1>2. UnresolvedUntouched' /\ ReviewedTextClean'
  BY DEF IInv, Quiet, UnresolvedUntouched, ReviewedTextClean
<1>3. PendingBatchesUnapplied'
  BY DEF IInv, Quiet, PendingBatchesUnapplied
<1>4. BufferIsNextText'
  <2> SUFFICES ASSUME NEW r \in Requests, pc'[r] = "write"
               PROVE  /\ pc[r] = "write" /\ left'[r] = left[r]
                      /\ buf'[r] = buf[r] /\ target'[r] = target[r]
    BY DEF IInv, Quiet, BufferIsNextText
  <2> QED
    BY DEF Quiet, Sync
<1>5. UpdateAppliedOnce' /\ BatchIsAtomic' /\ NoLostEdit'
  BY DEF IInv, Quiet, UpdateAppliedOnce, BatchIsAtomic, NoLostEdit
<1> QED
  BY <1>1, <1>2, <1>3, <1>4, <1>5 DEF IInv

LEMMA OutsideSyncQuiet ==
  ASSUME TypeOK, NEW r \in Requests, NEW l \in PCs \ Sync, Goto(r, l), pc[r] # "idle",
         UNCHANGED <<disk, expected, edited, exposed>>,
         \A q \in Requests \ {r} :
            left'[q] = left[q] /\ buf'[q] = buf[q] /\ target'[q] = target[q]
  PROVE  Quiet
<1>1. \A q \in Requests : q # r => pc'[q] = pc[q]
  BY DEF TypeOK, Goto
<1>2. pc'[r] = l
  BY DEF TypeOK, Goto
<1> QED
  BY <1>1, <1>2 DEF Quiet, Sync

LEMMA EndVaultQuiet ==
  ASSUME TypeOK, NEW r \in Requests, NEW status, EndVault(r, status), pc[r] # "idle",
         UNCHANGED <<disk, expected, edited, exposed>>
  PROVE  Quiet
<1>1. "next" \in PCs \ Sync /\ Goto(r, "next")
  BY DEF PCs, Sync, EndVault
<1>2. \A q \in Requests \ {r} :
         left'[q] = left[q] /\ buf'[q] = buf[q] /\ target'[q] = target[q]
  BY DEF EndVault, TypeOK
<1> QED
  BY <1>1, <1>2, OutsideSyncQuiet

LEMMA RaiseQuiet ==
  ASSUME TypeOK, NEW r \in Requests, Raise(r), pc[r] # "idle",
         UNCHANGED <<disk, expected, edited, exposed>>
  PROVE  Quiet
<1>1. "unlock" \in PCs \ Sync /\ Goto(r, "unlock")
  BY DEF PCs, Sync, Raise
<1>2. UNCHANGED <<left, buf, target>>
  BY DEF Raise, localVars
<1> QED
  BY <1>1, <1>2, OutsideSyncQuiet

\* The steps that are quiet whatever they decide.
LEMMA QuietSteps ==
  ASSUME TypeOK, NEW r \in Requests,
         \/ Acquire(r) \/ Reject(r) \/ SaveInProgress(r) \/ Reindex(r)
         \/ Complete(r) \/ Unlock(r) \/ Commit(r) \/ Snapshot(r)
         \/ \E v \in Vaults : StartVault(r, v)
  PROVE  Quiet
<1>1. CASE Acquire(r)
  <2>1. "begin" \in PCs \ Sync /\ Goto(r, "begin") /\ pc[r] # "idle"
    BY <1>1 DEF Acquire, PCs, Sync
  <2>2. UNCHANGED <<disk, expected, edited, exposed, left, buf, target>>
    BY <1>1 DEF Acquire, localVars, userVars
  <2> QED
    BY <2>1, <2>2, OutsideSyncQuiet
<1>2. CASE Reject(r)
  <2>1. "done" \in PCs \ Sync /\ Goto(r, "done") /\ pc[r] # "idle"
    BY <1>2 DEF Reject, PCs, Sync
  <2>2. UNCHANGED <<disk, expected, edited, exposed, left, buf, target>>
    BY <1>2 DEF Reject, localVars, userVars
  <2> QED
    BY <2>1, <2>2, OutsideSyncQuiet
<1>3. CASE SaveInProgress(r)
  <2>1. "next" \in PCs \ Sync /\ Goto(r, "next") /\ pc[r] # "idle"
    BY <1>3 DEF SaveInProgress, PCs, Sync
  <2>2. UNCHANGED <<disk, expected, edited, exposed, left, buf, target>>
    BY <1>3 DEF SaveInProgress, userVars
  <2> QED
    BY <2>1, <2>2, OutsideSyncQuiet
<1>4. CASE Reindex(r)
  <2>1. pc[r] # "idle" /\ EndVault(r, "applied")
    BY <1>4 DEF Reindex
  <2>2. UNCHANGED <<disk, expected, edited, exposed>>
    BY <1>4 DEF Reindex, userVars
  <2> QED
    BY <2>1, <2>2, EndVaultQuiet
<1>5. CASE Complete(r)
  <2>1. "unlock" \in PCs \ Sync /\ Goto(r, "unlock") /\ pc[r] # "idle"
    BY <1>5 DEF Complete, PCs, Sync
  <2>2. UNCHANGED <<disk, expected, edited, exposed, left, buf, target>>
    BY <1>5 DEF Complete, localVars, userVars
  <2> QED
    BY <2>1, <2>2, OutsideSyncQuiet
<1>6. CASE Unlock(r)
  <2>1. "done" \in PCs \ Sync /\ Goto(r, "done") /\ pc[r] # "idle"
    BY <1>6 DEF Unlock, PCs, Sync
  <2>2. UNCHANGED <<disk, expected, edited, exposed>>
    BY <1>6 DEF Unlock, userVars
  <2>3. \A q \in Requests \ {r} :
           left'[q] = left[q] /\ buf'[q] = buf[q] /\ target'[q] = target[q]
    BY <1>6 DEF Unlock, TypeOK
  <2> QED
    BY <2>1, <2>2, <2>3, OutsideSyncQuiet
<1>7. CASE Commit(r)
  <2>1. UNCHANGED <<disk, expected, edited, exposed>> /\ pc[r] # "idle"
    BY <1>7 DEF Commit, userVars
  <2>2. CASE EndVault(r, "manual")
    BY <2>1, <2>2, EndVaultQuiet
  <2>3. CASE Goto(r, "reindex") /\ UNCHANGED localVars
    <3>1. "reindex" \in PCs \ Sync
      BY DEF PCs, Sync
    <3> QED
      BY <2>1, <2>3, <3>1, OutsideSyncQuiet DEF localVars
  <2>4. CASE Raise(r)
    BY <2>1, <2>4, RaiseQuiet
  <2> QED
    BY <1>7, <2>2, <2>3, <2>4, GitRaisesGit DEF Commit
<1>8. CASE Snapshot(r)
  <2>1. /\ pc[r] = "snapshot"
        /\ UNCHANGED <<disk, expected, edited, exposed>>
    BY <1>8 DEF Snapshot, userVars
  <2>2. CASE Goto(r, "files") /\ UNCHANGED <<left, buf, target>>
    <3>1. pc'[r] = "files" /\ \A q \in Requests : q # r => pc'[q] = pc[q]
      BY <2>2 DEF Goto, TypeOK
    <3> QED
      BY <2>1, <2>2, <3>1 DEF Quiet, Sync
  <2>3. CASE Raise(r)
    BY <2>1, <2>3, RaiseQuiet
  <2> QED
    BY <1>8, <2>2, <2>3, GitRaisesGit DEF Snapshot
<1>9. CASE \E v \in Vaults : StartVault(r, v)
  <2>1. UNCHANGED <<disk, expected, edited, exposed>> /\ pc[r] = "next"
    BY <1>9 DEF StartVault, userVars
  <2>2. \/ Raise(r)
        \/ UNCHANGED <<left, buf, target>> /\ Goto(r, "identity")
        \/ UNCHANGED <<left, buf, target, pc>>
    BY <1>9 DEF StartVault
  <2>3. "identity" \in PCs \ Sync
    BY DEF PCs, Sync
  <2>4. CASE UNCHANGED <<left, buf, target>> /\ Goto(r, "identity")
    BY <2>1, <2>3, <2>4, OutsideSyncQuiet
  <2>5. CASE UNCHANGED <<left, buf, target, pc>>
    BY <2>1, <2>5 DEF Quiet
  <2>6. CASE Raise(r)
    BY <2>1, <2>6, RaiseQuiet
  <2> QED
    BY <2>2, <2>4, <2>5, <2>6
<1> QED
  BY <1>1, <1>2, <1>3, <1>4, <1>5, <1>6, <1>7, <1>8, <1>9

LEMMA BatchFacts ==
  ASSUME NEW o \in Ops
  PROVE  /\ o \in Batch(o)
         /\ \A p \in Batch(o) : /\ p \in Ops
                                /\ OpApply[p] = OpApply[o]
                                /\ OpFile[p] = OpFile[o]
                                /\ Batch(p) = Batch(o)
BY DEF Batch, OpsOf

\* /resolve reads a text that no request of its apply can have touched.
LEMMA ResolveKeepsIInv ==
  ASSUME IInv, TypeOK', NEW o \in Ops, Resolve(o)
  PROVE  IInv'
<1>1. /\ expected[o] = None
      /\ UNCHANGED <<disk, pc, left, buf, target, edited, exposed>>
      /\ \A r \in Requests : pc[r] \notin Sync
  BY DEF Resolve, localVars, userVars
<1>2. \A p \in Ops : p # o => expected'[p] = expected[p]
  BY DEF Resolve, IInv, TypeOK
<1>3. expected'[o] = Absent \/ expected'[o] = disk[OpFile[o]]
  BY DEF Resolve, IInv, TypeOK
<1>4. expected'[o] # None
  <2>1. Absent \in Content /\ disk[OpFile[o]] \in Content
    BY ConstantsAssumption DEF Absent, Content, IInv, TypeOK
  <2> QED
    BY <1>3, <2>1, NoneAssumption
<1>5. OneInSync' /\ ResolvedFirst' /\ PendingBatchesUnapplied' /\ BufferIsNextText'
  <2>1. OneInSync' /\ PendingBatchesUnapplied' /\ BufferIsNextText'
    BY <1>1 DEF OneInSync, PendingBatchesUnapplied, BufferIsNextText, Sync
  <2>2. ResolvedFirst'
    BY <1>1, <1>2, <1>4 DEF IInv, ResolvedFirst
  <2> QED
    BY <2>1, <2>2
<1>6. UnresolvedUntouched'
  BY <1>1, <1>2, <1>4 DEF IInv, UnresolvedUntouched
<1>7. ReviewedTextClean'
  <2> SUFFICES ASSUME NEW q \in Ops, NEW p \in Batch(q), expected'[q] # None
               PROVE  expected'[q].ops[p] = 0
    BY DEF ReviewedTextClean
  <2>1. CASE q # o
    BY <1>2, <2>1 DEF IInv, ReviewedTextClean
  <2>2. CASE q = o
    <3>1. p \in Ops /\ OpApply[p] = OpApply[o] /\ OpFile[p] = OpFile[o]
      BY <2>2, BatchFacts
    <3>2. disk[OpFile[o]].ops[p] = 0
      BY <1>1, <3>1 DEF IInv, UnresolvedUntouched
    <3> QED
      BY <1>3, <2>2, <3>1, <3>2 DEF Absent
  <2> QED
    BY <2>1, <2>2
<1>8. UpdateAppliedOnce' /\ BatchIsAtomic' /\ NoLostEdit'
  BY <1>1 DEF IInv, UpdateAppliedOnce, BatchIsAtomic, NoLostEdit
<1> QED
  BY <1>5, <1>6, <1>7, <1>8 DEF IInv

LEMMA ReceiveKeepsIInv ==
  ASSUME IInv, TypeOK', NEW r \in Requests, Receive(r)
  PROVE  IInv'
<1>1. /\ UNCHANGED <<disk, expected, left, buf, target, edited, exposed>>
      /\ \A o \in Ops : OpApply[o] = ApplyOf[r] => expected[o] # None
  BY DEF Receive, localVars, userVars
<1>2. /\ pc'[r] \in {"done", "locking"}
      /\ \A q \in Requests : q # r => pc'[q] = pc[q]
  BY DEF Receive, Goto, IInv, TypeOK
<1>3. \A q \in Requests : pc'[q] \in Sync => pc[q] \in Sync /\ pc'[q] = pc[q]
  BY <1>2 DEF Sync
<1>4. OneInSync'
  BY <1>3 DEF IInv, OneInSync
<1>5. ResolvedFirst'
  BY <1>1, <1>2 DEF IInv, ResolvedFirst
<1>6. PendingBatchesUnapplied'
  BY <1>1, <1>3 DEF IInv, PendingBatchesUnapplied
<1>7. BufferIsNextText'
  <2>1. \A q \in Requests : pc'[q] = "write" => pc[q] = "write"
    BY <1>3 DEF Sync
  <2> QED
    BY <1>1, <2>1 DEF IInv, BufferIsNextText
<1>8. UnresolvedUntouched' /\ ReviewedTextClean' /\ UpdateAppliedOnce' /\ BatchIsAtomic'
      /\ NoLostEdit'
  BY <1>1 DEF IInv, UnresolvedUntouched, ReviewedTextClean, UpdateAppliedOnce,
              BatchIsAtomic, NoLostEdit
<1> QED
  BY <1>4, <1>5, <1>6, <1>7, <1>8 DEF IInv

\* The comparison with expected_sha256 shows that the update batches of the
\* vault are not in their files.
LEMMA PreflightKeepsIInv ==
  ASSUME IInv, TypeOK', NEW r \in Requests, Preflight(r)
  PROVE  IInv'
<1> DEFINE a == ApplyOf[r]
           F == FilesIn(a, cur[r])
<1>1. UNCHANGED <<disk, expected, edited, exposed>> /\ pc[r] = "identity" /\ LoopFree(r)
  BY DEF Preflight, userVars
<1>2. CASE Raise(r)
  BY <1>1, <1>2, RaiseQuiet, QuietKeepsIInv DEF IInv
<1>3. CASE EndVault(r, "conflict")
  BY <1>1, <1>3, EndVaultQuiet, QuietKeepsIInv DEF IInv
<1>4. CASE /\ Stale(r) = {}
           /\ left' = [left EXCEPT ![r] = F]
           /\ Goto(r, "snapshot")
           /\ UNCHANGED <<buf, target>>
  <2>1. /\ pc'[r] = "snapshot" /\ left'[r] = F
        /\ \A q \in Requests : q # r => pc'[q] = pc[q] /\ pc[q] \notin Sync
    BY <1>1, <1>4 DEF Goto, LoopFree, IInv, TypeOK
  <2>2. OneInSync' /\ BufferIsNextText'
    BY <2>1 DEF OneInSync, BufferIsNextText, Sync
  <2>3. ResolvedFirst'
    BY <1>1, <2>1 DEF IInv, ResolvedFirst
  <2>4. PendingBatchesUnapplied'
    <3> SUFFICES ASSUME NEW q \in Requests, pc'[q] \in Sync, NEW f \in left'[q]
                 PROVE  /\ f \in Files
                        /\ OpsOf(ApplyOf[q], f) # {}
                        /\ IsUpdate(ApplyOf[q], f) =>
                             \A o \in OpsOf(ApplyOf[q], f) : disk'[f].ops[o] = 0
      BY DEF PendingBatchesUnapplied
    <3>1. q = r /\ f \in F
      BY <2>1
    <3>2. f \in Files /\ OpsOf(a, f) # {}
      BY <3>1 DEF FilesIn
    <3>3. ASSUME NEW o \in OpsOf(a, f), IsUpdate(a, f) PROVE disk[f].ops[o] = 0
      <4>1. PICK p \in OpsOf(a, f) : IsFirst(p) /\ Rank[p] # Create
        BY <3>3 DEF IsUpdate
      <4>2. disk[f] = expected[p]
        BY <1>4, <3>1, <4>1 DEF Stale
      <4>3. p \in Ops /\ OpApply[p] = a /\ o \in Batch(p)
        BY <3>3, <4>1 DEF OpsOf, Batch
      <4>4. expected[p] # None
        BY <1>1, <4>3 DEF IInv, ResolvedFirst
      <4> QED
        BY <4>2, <4>3, <4>4 DEF IInv, ReviewedTextClean
    <3> QED
      BY <1>1, <3>1, <3>2, <3>3
  <2>5. UnresolvedUntouched' /\ ReviewedTextClean' /\ UpdateAppliedOnce' /\ BatchIsAtomic'
        /\ NoLostEdit'
    BY <1>1 DEF IInv, UnresolvedUntouched, ReviewedTextClean, UpdateAppliedOnce,
                BatchIsAtomic, NoLostEdit
  <2> QED
    BY <2>2, <2>3, <2>4, <2>5 DEF IInv
<1> QED
  BY <1>2, <1>3, <1>4 DEF Preflight

LEMMA ReadFileKeepsIInv ==
  ASSUME IInv, TypeOK', NEW r \in Requests, NEW f \in Files, ReadFile(r, f)
  PROVE  IInv'
<1> DEFINE S == OpsOf(ApplyOf[r], f)
<1>1. /\ UNCHANGED <<disk, expected, edited, exposed>>
      /\ pc[r] = "files" /\ f \in left[r]
  BY DEF ReadFile, userVars
<1>2. CASE FailVault(r)
  BY <1>1, <1>2, EndVaultQuiet, QuietKeepsIInv DEF IInv, FailVault
<1>3. CASE Raise(r)
  BY <1>1, <1>3, RaiseQuiet, QuietKeepsIInv DEF IInv
<1>4. CASE /\ buf' = [buf EXCEPT ![r] = ApplyBatch(disk[f], S)]
           /\ target' = [target EXCEPT ![r] = f]
           /\ left' = [left EXCEPT ![r] = @ \ {f}]
           /\ Goto(r, "write")
  <2>1. /\ pc'[r] = "write" /\ target'[r] = f /\ left'[r] = left[r] \ {f}
        /\ buf'[r] = ApplyBatch(disk[f], S)
    BY <1>4 DEF Goto, IInv, TypeOK
  <2>2. \A q \in Requests : q # r =>
           /\ pc'[q] = pc[q] /\ left'[q] = left[q]
           /\ buf'[q] = buf[q] /\ target'[q] = target[q]
    BY <1>4 DEF Goto, IInv, TypeOK
  <2>3. \A q \in Requests : q # r => pc[q] \notin Sync
    BY <1>1 DEF IInv, OneInSync, Sync
  <2>4. pc[r] \in Sync /\ pc'[r] \in Sync
    BY <1>1, <2>1 DEF Sync
  <2>5. OneInSync' /\ ResolvedFirst'
    BY <1>1, <2>1, <2>2, <2>3, <2>4 DEF IInv, OneInSync, ResolvedFirst
  <2>6. PendingBatchesUnapplied'
    BY <1>1, <2>1, <2>2, <2>4 DEF IInv, PendingBatchesUnapplied
  <2>7. BufferIsNextText'
    <3> SUFFICES ASSUME NEW q \in Requests, pc'[q] = "write"
                 PROVE  LET g == target'[q]
                            T == OpsOf(ApplyOf[q], g) IN
                        /\ g \in Files
                        /\ g \notin left'[q]
                        /\ T # {}
                        /\ IsUpdate(ApplyOf[q], g) => \A o \in T : disk'[g].ops[o] = 0
                        /\ \A o \in Ops : buf'[q].ops[o] =
                             IF o \in T THEN disk'[g].ops[o] + 1 ELSE disk'[g].ops[o]
                        /\ disk'[g].edits \ exposed' \subseteq buf'[q].edits
                        /\ buf'[q].edits \subseteq disk'[g].edits
      BY DEF BufferIsNextText
    <3>1. q = r
      BY <2>2, <2>3 DEF Sync
    <3>2. S # {} /\ (IsUpdate(ApplyOf[r], f) => \A o \in S : disk[f].ops[o] = 0)
      BY <1>1, <2>4 DEF IInv, PendingBatchesUnapplied
    <3>3. /\ \A o \in Ops : ApplyBatch(disk[f], S).ops[o] =
                IF o \in S THEN disk[f].ops[o] + 1 ELSE disk[f].ops[o]
          /\ ApplyBatch(disk[f], S).edits = disk[f].edits
      BY DEF ApplyBatch
    <3> QED
      BY <1>1, <2>1, <3>1, <3>2, <3>3
  <2>8. UnresolvedUntouched' /\ ReviewedTextClean' /\ UpdateAppliedOnce' /\ BatchIsAtomic'
        /\ NoLostEdit'
    BY <1>1 DEF IInv, UnresolvedUntouched, ReviewedTextClean, UpdateAppliedOnce,
                BatchIsAtomic, NoLostEdit
  <2> QED
    BY <2>5, <2>6, <2>7, <2>8 DEF IInv
<1> QED
  BY <1>2, <1>3, <1>4 DEF ReadFile, CurrentText

\* The rename puts in place the text that is on disk with one batch more: the
\* counts of that batch go from one common value to the next, the others stay.
LEMMA WriteChangesOneBatch ==
  ASSUME IInv, NEW r \in Requests, pc[r] = "write",
         disk' = [disk EXCEPT ![target[r]] = buf[r]]
  PROVE  LET f == target[r]
             S == OpsOf(ApplyOf[r], f) IN
         /\ f \in Files /\ S # {}
         /\ disk'[f] = buf[r]
         /\ \A g \in Files : g # f => disk'[g] = disk[g]
         /\ \A o \in Ops : disk'[f].ops[o] = IF o \in S THEN disk[f].ops[o] + 1
                                                        ELSE disk[f].ops[o]
         /\ \A o \in S : o \in Ops /\ OpFile[o] = f /\ OpApply[o] = ApplyOf[r]
                         /\ Batch(o) = S
         /\ IsUpdate(ApplyOf[r], f) => \A o \in S : disk[f].ops[o] = 0
         /\ disk[f].edits \ exposed \subseteq disk'[f].edits
         /\ disk'[f].edits \subseteq disk[f].edits
<1> DEFINE f == target[r]
           S == OpsOf(ApplyOf[r], f)
<1>1. /\ f \in Files /\ S # {}
      /\ IsUpdate(ApplyOf[r], f) => \A o \in S : disk[f].ops[o] = 0
      /\ \A o \in Ops : buf[r].ops[o] = IF o \in S THEN disk[f].ops[o] + 1 ELSE disk[f].ops[o]
      /\ disk[f].edits \ exposed \subseteq buf[r].edits /\ buf[r].edits \subseteq disk[f].edits
  BY DEF IInv, BufferIsNextText
<1>2. disk'[f] = buf[r] /\ \A g \in Files : g # f => disk'[g] = disk[g]
  BY <1>1 DEF IInv, TypeOK
<1>3. \A o \in S : o \in Ops /\ OpFile[o] = f /\ OpApply[o] = ApplyOf[r] /\ Batch(o) = S
  BY DEF OpsOf, Batch
<1> QED
  BY <1>1, <1>2, <1>3

LEMMA WriteFileKeepsIInv ==
  ASSUME IInv, TypeOK', NEW r \in Requests, WriteFile(r)
  PROVE  IInv'
<1> DEFINE f == target[r]
           S == OpsOf(ApplyOf[r], f)
<1>1. UNCHANGED <<expected, edited, exposed>> /\ pc[r] = "write"
  BY DEF WriteFile, userVars
<1>2. CASE UNCHANGED disk /\ FailVault(r)
  BY <1>1, <1>2, EndVaultQuiet, QuietKeepsIInv DEF IInv, FailVault
<1>3. CASE UNCHANGED disk /\ Raise(r)
  BY <1>1, <1>3, RaiseQuiet, QuietKeepsIInv DEF IInv
<1>4. CASE /\ disk' = [disk EXCEPT ![f] = buf[r]]
           /\ target' = [target EXCEPT ![r] = None]
           /\ buf' = [buf EXCEPT ![r] = Absent]
           /\ Goto(r, "files")
           /\ UNCHANGED left
  <2>1. /\ f \in Files /\ disk'[f] = buf[r]
        /\ \A g \in Files : g # f => disk'[g] = disk[g]
        /\ \A o \in Ops : disk'[f].ops[o] = IF o \in S THEN disk[f].ops[o] + 1
                                                       ELSE disk[f].ops[o]
        /\ \A o \in S : o \in Ops /\ OpFile[o] = f /\ OpApply[o] = ApplyOf[r]
                        /\ Batch(o) = S
        /\ IsUpdate(ApplyOf[r], f) => \A o \in S : disk[f].ops[o] = 0
        /\ disk[f].edits \ exposed \subseteq disk'[f].edits
    BY <1>1, <1>4, WriteChangesOneBatch
  <2>2. pc'[r] = "files" /\ \A q \in Requests : q # r => pc'[q] = pc[q]
    BY <1>4 DEF Goto, IInv, TypeOK
  <2>3. \A q \in Requests : q # r => pc[q] \notin Sync
    BY <1>1 DEF IInv, OneInSync, Sync
  <2>4. \A o \in Ops : OpFile[o] \in Files
    BY ConstantsAssumption
  <2>5. OneInSync' /\ ResolvedFirst' /\ ReviewedTextClean'
    BY <1>1, <2>2, <2>3 DEF IInv, OneInSync, ResolvedFirst, ReviewedTextClean
  <2>6. BufferIsNextText'
    BY <2>2, <2>3 DEF BufferIsNextText, Sync
  <2>7. UnresolvedUntouched'
    <3> SUFFICES ASSUME NEW o \in Ops, NEW p \in Ops, OpApply[p] = OpApply[o],
                        expected[p] = None
                 PROVE  disk'[OpFile[o]].ops[o] = 0
      BY <1>1 DEF UnresolvedUntouched
    <3>1. OpApply[o] # ApplyOf[r]
      BY <1>1 DEF IInv, ResolvedFirst
    <3>2. disk[OpFile[o]].ops[o] = 0
      BY DEF IInv, UnresolvedUntouched
    <3> QED
      BY <2>1, <2>4, <3>1, <3>2
  <2>8. PendingBatchesUnapplied'
    <3> SUFFICES ASSUME NEW g \in left[r]
                 PROVE  /\ g \in Files
                        /\ OpsOf(ApplyOf[r], g) # {}
                        /\ IsUpdate(ApplyOf[r], g) =>
                             \A o \in OpsOf(ApplyOf[r], g) : disk'[g].ops[o] = 0
      BY <1>4, <2>2, <2>3 DEF PendingBatchesUnapplied, Sync
    <3>1. g # f
      BY <1>1 DEF IInv, BufferIsNextText
    <3>2. /\ g \in Files
          /\ OpsOf(ApplyOf[r], g) # {}
          /\ IsUpdate(ApplyOf[r], g) => \A o \in OpsOf(ApplyOf[r], g) : disk[g].ops[o] = 0
      BY <1>1 DEF IInv, PendingBatchesUnapplied, Sync
    <3> QED
      BY <2>1, <3>1, <3>2
  <2>9. UpdateAppliedOnce'
    <3> SUFFICES ASSUME NEW o \in Ops, IsUpdateOp(o) PROVE disk'[OpFile[o]].ops[o] <= 1
      BY DEF UpdateAppliedOnce
    <3>1. CASE o \in S
      <4>1. OpFile[o] = f /\ disk[f].ops[o] = 0
        BY <2>1, <3>1 DEF IsUpdateOp
      <4> QED
        BY <2>1, <3>1, <4>1
    <3>2. CASE o \notin S
      <4>1. disk'[OpFile[o]].ops[o] = disk[OpFile[o]].ops[o]
        BY <2>1, <2>4, <3>2
      <4> QED
        BY <4>1 DEF IInv, UpdateAppliedOnce
    <3> QED
      BY <3>1, <3>2
  <2>10. BatchIsAtomic'
    <3> SUFFICES ASSUME NEW o \in Ops, NEW p \in Batch(o)
                 PROVE  disk'[OpFile[o]].ops[o] = disk'[OpFile[o]].ops[p]
      BY DEF BatchIsAtomic
    <3>1. p \in Ops /\ o \in Batch(o) /\ Batch(p) = Batch(o)
      BY BatchFacts
    <3>2. disk[OpFile[o]].ops[o] = disk[OpFile[o]].ops[p]
      BY DEF IInv, BatchIsAtomic
    <3>3. o \in S <=> p \in S
      BY <2>1, <3>1, BatchFacts
    <3> QED
      BY <2>1, <2>4, <3>1, <3>2, <3>3
  <2>11. NoLostEdit'
    <3> SUFFICES ASSUME NEW e \in edited \ exposed PROVE e \in disk'[EditFile[e]].edits
      BY <1>1 DEF NoLostEdit
    <3>1. e \in disk[EditFile[e]].edits /\ EditFile[e] \in Files
      BY ConstantsAssumption DEF IInv, NoLostEdit, TypeOK
    <3> QED
      BY <2>1, <3>1
  <2> QED
    BY <2>5, <2>6, <2>7, <2>8, <2>9, <2>10, <2>11 DEF IInv
<1> QED
  BY <1>1, <1>2, <1>3, <1>4 DEF WriteFile

\* The user's editor adds to the text; what the buffer misses is exposed.
LEMMA UserEditKeepsIInv ==
  ASSUME IInv, TypeOK', NEW e \in Edits, UserEdit(e)
  PROVE  IInv'
<1> DEFINE f == EditFile[e]
<1>1. /\ e \notin edited /\ edited' = edited \union {e}
      /\ UNCHANGED <<expected, pc, left, buf, target>>
      /\ exposed' = IF \E r \in Requests : pc[r] = "write" /\ target[r] = f
                    THEN exposed \union {e} ELSE exposed
  BY DEF UserEdit, localVars
<1>2. f \in Files
  BY ConstantsAssumption
<1>3. /\ \A g \in Files : disk'[g].ops = disk[g].ops
      /\ disk'[f].edits = disk[f].edits \union {e}
      /\ \A g \in Files : g # f => disk'[g].edits = disk[g].edits
  BY <1>2 DEF UserEdit, IInv, TypeOK
<1>4. \A o \in Ops : OpFile[o] \in Files
  BY ConstantsAssumption
<1>5. OneInSync' /\ ResolvedFirst' /\ ReviewedTextClean'
  BY <1>1 DEF IInv, OneInSync, ResolvedFirst, ReviewedTextClean
<1>6. UnresolvedUntouched'
  BY <1>1, <1>3, <1>4 DEF IInv, UnresolvedUntouched
<1>7. UpdateAppliedOnce'
  BY <1>3, <1>4 DEF IInv, UpdateAppliedOnce
<1>8. BatchIsAtomic'
  BY <1>3, <1>4 DEF IInv, BatchIsAtomic
<1>9. PendingBatchesUnapplied'
  BY <1>1, <1>3 DEF IInv, PendingBatchesUnapplied
<1>10. BufferIsNextText'
  <2> SUFFICES ASSUME NEW r \in Requests, pc[r] = "write"
               PROVE  LET g == target[r]
                          T == OpsOf(ApplyOf[r], g) IN
                      /\ g \in Files
                      /\ g \notin left[r]
                      /\ T # {}
                      /\ IsUpdate(ApplyOf[r], g) => \A o \in T : disk'[g].ops[o] = 0
                      /\ \A o \in Ops : buf[r].ops[o] =
                           IF o \in T THEN disk'[g].ops[o] + 1 ELSE disk'[g].ops[o]
                      /\ disk'[g].edits \ exposed' \subseteq buf[r].edits
                      /\ buf[r].edits \subseteq disk'[g].edits
    BY <1>1 DEF BufferIsNextText
  <2> DEFINE g == target[r]
             T == OpsOf(ApplyOf[r], g)
  <2>1. /\ g \in Files /\ g \notin left[r] /\ T # {}
        /\ IsUpdate(ApplyOf[r], g) => \A o \in T : disk[g].ops[o] = 0
        /\ \A o \in Ops : buf[r].ops[o] = IF o \in T THEN disk[g].ops[o] + 1 ELSE disk[g].ops[o]
        /\ disk[g].edits \ exposed \subseteq buf[r].edits
        /\ buf[r].edits \subseteq disk[g].edits
    BY DEF IInv, BufferIsNextText
  <2>2. disk'[g].edits \ exposed' \subseteq buf[r].edits /\ buf[r].edits \subseteq disk'[g].edits
    BY <1>1, <1>3, <2>1
  <2> QED
    BY <1>3, <2>1, <2>2
<1>11. NoLostEdit'
  <2> SUFFICES ASSUME NEW x \in edited' \ exposed' PROVE x \in disk'[EditFile[x]].edits
    BY DEF NoLostEdit
  <2>1. CASE x = e
    BY <1>3, <2>1
  <2>2. CASE x # e
    <3>1. x \in edited \ exposed /\ EditFile[x] \in Files
      BY <1>1, <2>2, ConstantsAssumption DEF IInv, TypeOK
    <3> QED
      BY <1>3, <3>1 DEF IInv, NoLostEdit
  <2> QED
    BY <2>1, <2>2
<1> QED
  BY <1>5, <1>6, <1>7, <1>8, <1>9, <1>10, <1>11 DEF IInv

LEMMA NextIInv == IInv /\ [Next]_vars => IInv'
<1> SUFFICES ASSUME IInv PROVE [Next]_vars => IInv'
  OBVIOUS
<1>1. [Next]_vars => TypeOK'
  BY NextTypeOK DEF IInv
<1>2. ASSUME TypeOK', NEW r \in Requests, Step(r) PROVE IInv'
  <2>1. ASSUME NEW f \in Files, ReadFile(r, f) PROVE IInv'
    BY <1>2, <2>1, ReadFileKeepsIInv
  <2>2. CASE Preflight(r)
    BY <1>2, <2>2, PreflightKeepsIInv
  <2>3. CASE WriteFile(r)
    BY <1>2, <2>3, WriteFileKeepsIInv
  <2>4. CASE \/ Acquire(r) \/ Reject(r) \/ SaveInProgress(r) \/ Reindex(r)
             \/ Complete(r) \/ Unlock(r) \/ Commit(r) \/ Snapshot(r)
             \/ \E v \in Vaults : StartVault(r, v)
    <3>1. Quiet
      BY <2>4, QuietSteps DEF IInv
    <3> QED
      BY <1>2, <3>1, QuietKeepsIInv
  <2> QED
    BY <1>2, <2>1, <2>2, <2>3, <2>4 DEF Step
<1>3. ASSUME TypeOK', NEW a \in Applies, ExpireLock(a) \/ ExpireRecord(a) PROVE IInv'
  <2>1. Quiet
    BY <1>3 DEF ExpireLock, ExpireRecord, Quiet, localVars, userVars
  <2> QED
    BY <1>3, <2>1, QuietKeepsIInv
<1>4. ASSUME TypeOK', Crash PROVE IInv'
  <2>1. UNCHANGED <<disk, expected, edited, exposed>>
    BY <1>4 DEF Crash, userVars
  <2>2. \A r \in Requests : pc'[r] \notin Sync /\ (pc'[r] # "idle" => pc[r] # "idle")
    BY <1>4 DEF Crash, InFlight, Sync
  <2> QED
    BY <1>4, <2>1, <2>2, QuietKeepsIInv DEF Quiet
<1>5. ASSUME TypeOK', UNCHANGED vars PROVE IInv'
  <2>1. Quiet
    BY <1>5 DEF Quiet, vars, localVars, userVars
  <2> QED
    BY <1>5, <2>1, QuietKeepsIInv
<1> QED
  BY <1>1, <1>2, <1>3, <1>4, <1>5, ResolveKeepsIInv, ReceiveKeepsIInv, UserEditKeepsIInv
     DEF Next

THEOREM IInvInvariant == Spec => []IInv
BY InitIInv, NextIInv, PTL DEF Spec

\* An accepted change of an existing file is applied at most once, for every
\* number of duplicates, retries, crashes and expiring keys.
THEOREM UpdatesAppliedOnce == Spec => []UpdateAppliedOnce
<1>1. IInv => UpdateAppliedOnce
  BY DEF IInv
<1> QED
  BY <1>1, IInvInvariant, PTL

\* The accepted changes of one file are in it together or not at all.
THEOREM BatchesAtomic == Spec => []BatchIsAtomic
<1>1. IInv => BatchIsAtomic
  BY DEF IInv
<1> QED
  BY <1>1, IInvInvariant, PTL

\* Only an edit between the read and the rename of its file can be lost.
THEOREM EditsKept == Spec => []NoLostEdit
<1>1. IInv => NoLostEdit
  BY DEF IInv
<1> QED
  BY <1>1, IInvInvariant, PTL

-----------------------------------------------------------------------------
\* The only steps that change a vault file.
LEMMA DiskSteps ==
  [Next]_vars =>
    \/ UNCHANGED disk
    \/ \E r \in Requests : /\ pc[r] = "write"
                           /\ disk' = [disk EXCEPT ![target[r]] = buf[r]]
    \/ \E e \in Edits : UserEdit(e)
<1>1. ASSUME NEW r \in Requests, Step(r), ~UNCHANGED disk
      PROVE  pc[r] = "write" /\ disk' = [disk EXCEPT ![target[r]] = buf[r]]
  <2>1. WriteFile(r)
    BY <1>1 DEF Step, Acquire, Reject, SaveInProgress, StartVault, Preflight, Snapshot,
                ReadFile, Commit, Reindex, Complete, Unlock
  <2> QED
    BY <1>1, <2>1 DEF WriteFile
<1>2. ASSUME NEW o \in Ops, Resolve(o) PROVE UNCHANGED disk
  BY <1>2 DEF Resolve
<1>3. ASSUME NEW r \in Requests, Receive(r) PROVE UNCHANGED disk
  BY <1>3 DEF Receive
<1>4. ASSUME NEW a \in Applies, ExpireLock(a) \/ ExpireRecord(a) PROVE UNCHANGED disk
  BY <1>4 DEF ExpireLock, ExpireRecord
<1>5. ASSUME Crash \/ UNCHANGED vars PROVE UNCHANGED disk
  BY <1>5 DEF Crash, vars
<1> QED
  BY <1>1, <1>2, <1>3, <1>4, <1>5 DEF Next

LEMMA EditStep ==
  ASSUME IInv, NEW e \in Edits, UserEdit(e)
  PROVE  /\ EditFile[e] \in Files
         /\ \A f \in Files : disk'[f].ops = disk[f].ops
         /\ disk'[EditFile[e]].edits = disk[EditFile[e]].edits \union {e}
         /\ \A f \in Files : f # EditFile[e] => disk'[f] = disk[f]
<1>1. EditFile[e] \in Files
  BY ConstantsAssumption
<1> QED
  BY <1>1 DEF UserEdit, IInv, TypeOK

LEMMA OpsAreNat == IInv => \A f \in Files, o \in Ops : disk[f].ops[o] \in Nat
BY DEF IInv, TypeOK, Content

\* No step takes a change back, whichever applies work on the same file.
THEOREM ChangesKept == Spec => NoLostChange
<1>1. IInv /\ [Next]_vars => [\A o \in Ops : disk'[OpFile[o]].ops[o] >= disk[OpFile[o]].ops[o]]_vars
  <2> SUFFICES ASSUME IInv, NEW o \in Ops
               PROVE  [Next]_vars => disk'[OpFile[o]].ops[o] >= disk[OpFile[o]].ops[o]
    OBVIOUS
  <2>1. OpFile[o] \in Files /\ disk[OpFile[o]].ops[o] \in Nat
    BY OpsAreNat, ConstantsAssumption
  <2>2. ASSUME UNCHANGED disk PROVE disk'[OpFile[o]].ops[o] >= disk[OpFile[o]].ops[o]
    BY <2>1, <2>2
  <2>3. ASSUME NEW r \in Requests, pc[r] = "write",
               disk' = [disk EXCEPT ![target[r]] = buf[r]]
        PROVE  disk'[OpFile[o]].ops[o] >= disk[OpFile[o]].ops[o]
    <3> DEFINE f == target[r]
               S == OpsOf(ApplyOf[r], f)
    <3>1. /\ \A g \in Files : g # f => disk'[g] = disk[g]
          /\ \A p \in Ops : disk'[f].ops[p] = IF p \in S THEN disk[f].ops[p] + 1
                                                         ELSE disk[f].ops[p]
      BY <2>3, WriteChangesOneBatch
    <3> QED
      BY <2>1, <3>1
  <2>4. ASSUME NEW e \in Edits, UserEdit(e)
        PROVE  disk'[OpFile[o]].ops[o] >= disk[OpFile[o]].ops[o]
    BY <2>1, <2>4, EditStep
  <2> QED
    BY <2>2, <2>3, <2>4, DiskSteps
<1> QED
  BY <1>1, IInvInvariant, PTL DEF Spec, NoLostChange

\* The vault files implement ReviewedFiles: every write is the arrival of one
\* whole batch, an update batch only where it has not been before.
TextOf == [f \in Files |-> [ops |-> disk[f].ops, edits |-> disk[f].edits]]

LEMMA InitReviewed == Init => Reviewed!Init
<1> SUFFICES ASSUME Init PROVE Reviewed!Init
  OBVIOUS
<1>1. \A f \in Files : disk[f].ops = [o \in Ops |-> 0] /\ disk[f].edits = {}
  BY DEF Init, Absent, Empty
<1> QED
  BY <1>1 DEF Reviewed!Init

LEMMA NextReviewed == IInv /\ [Next]_vars => [Reviewed!Next]_TextOf
<1> SUFFICES ASSUME IInv PROVE [Next]_vars => [Reviewed!Next]_TextOf
  OBVIOUS
<1>1. ASSUME UNCHANGED disk PROVE UNCHANGED TextOf
  BY <1>1 DEF TextOf
<1>2. ASSUME NEW r \in Requests, pc[r] = "write",
             disk' = [disk EXCEPT ![target[r]] = buf[r]]
      PROVE  Reviewed!Next
  <2> DEFINE f == target[r]
             S == OpsOf(ApplyOf[r], f)
  <2>1. /\ f \in Files /\ S # {} /\ disk'[f] = buf[r]
        /\ \A g \in Files : g # f => disk'[g] = disk[g]
        /\ \A o \in Ops : disk'[f].ops[o] = IF o \in S THEN disk[f].ops[o] + 1
                                                       ELSE disk[f].ops[o]
        /\ \A o \in S : o \in Ops /\ OpFile[o] = f /\ OpApply[o] = ApplyOf[r]
                        /\ Batch(o) = S
        /\ IsUpdate(ApplyOf[r], f) => \A o \in S : disk[f].ops[o] = 0
        /\ disk'[f].edits \subseteq disk[f].edits
    BY <1>2, WriteChangesOneBatch
  <2>2. S \in {Batch(o) : o \in Ops}
    BY <2>1
  <2>3. S \in {Batch(o) : o \in {p \in Ops : IsUpdateOp(p)}} =>
          \A o \in S : TextOf[f].ops[o] = 0
    <3> SUFFICES ASSUME NEW o \in Ops, IsUpdateOp(o), S = Batch(o)
                 PROVE  \A p \in S : TextOf[f].ops[p] = 0
      OBVIOUS
    <3>1. IsUpdate(ApplyOf[r], f)
      BY <2>1, BatchFacts DEF IsUpdateOp
    <3> QED
      BY <2>1, <3>1 DEF TextOf
  <2>4. TextOf' = [TextOf EXCEPT ![f] =
          [ops   |-> [o \in Ops |-> IF o \in S THEN TextOf[f].ops[o] + 1 ELSE TextOf[f].ops[o]],
           edits |-> disk'[f].edits]]
    <3>1. disk'[f].ops = [o \in Ops |-> IF o \in S THEN disk[f].ops[o] + 1 ELSE disk[f].ops[o]]
      <4>1. disk'[f] \in Content
        BY <2>1 DEF IInv, TypeOK
      <4> QED
        BY <2>1, <4>1 DEF Content
    <3> QED
      BY <2>1, <3>1 DEF TextOf
  <2>5. disk'[f].edits \in SUBSET TextOf[f].edits
    BY <2>1 DEF TextOf
  <2>6. Reviewed!Apply(S)
    BY <2>1, <2>3, <2>4, <2>5 DEF Reviewed!Apply, TextOf
  <2>7. \E T \in {Batch(o) : o \in Ops} : Reviewed!Apply(T)
    <3> HIDE DEF S
    <3> QED
      BY <2>2, <2>6 DEF Reviewed!Apply
  <2> QED
    BY <2>7 DEF Reviewed!Next, Reviewed!Apply
<1>3. ASSUME NEW e \in Edits, UserEdit(e) PROVE Reviewed!Next
  <2>1. /\ EditFile[e] \in Files
        /\ \A f \in Files : disk'[f].ops = disk[f].ops
        /\ disk'[EditFile[e]].edits = disk[EditFile[e]].edits \union {e}
        /\ \A f \in Files : f # EditFile[e] => disk'[f] = disk[f]
    BY <1>3, EditStep
  <2>2. TextOf' = [TextOf EXCEPT ![EditFile[e]] =
          [ops |-> TextOf[EditFile[e]].ops, edits |-> TextOf[EditFile[e]].edits \union {e}]]
    BY <2>1 DEF TextOf
  <2>3. Reviewed!Edit(e)
    BY <2>2 DEF Reviewed!Edit, TextOf
  <2> QED
    BY <2>3 DEF Reviewed!Next
<1> QED
  BY <1>1, <1>2, <1>3, DiskSteps DEF TextOf

\* /apply keeps the promise of ReviewedFiles.
THEOREM RefinesReviewedFiles == Spec => ImplementsReviewedFiles
<1>1. IInv /\ [Next]_vars => [Reviewed!Next]_TextOf
  BY NextReviewed
<1> QED
  BY <1>1, InitReviewed, IInvInvariant, PTL
     DEF Spec, ImplementsReviewedFiles, Reviewed!Spec, TextOf
-----------------------------------------------------------------------------
(***************************************************************************)
(* What the answers say of git.  None of the three properties is           *)
(* inductive: each is about the end of a path through one vault, so the    *)
(* invariants say where on the path an execution is (OnThePath), that the  *)
(* index lies between HEAD and the working tree (IndexBetween), and what   *)
(* each part of the path has established for the next.                     *)
(***************************************************************************)
BeforeFiles == {"idle", "locking", "begin", "next", "identity", "snapshot"}
InVaultPCs  == Sync \union {"identity", "reindex"}
Answered    == {"unlock", "done", "dead"}

\* The files of the current vault that an execution has still to write.
Ahead(r) == left[r] \union (IF pc[r] = "write" THEN {target[r]} ELSE {})

\* Where an execution is: nothing is written before the first read, a vault
\* has no result before its turn is over, and there is no answer before the end.
Path(r) ==
  /\ pc[r] \in BeforeFiles => written[r] = {} /\ ~snap[r]
  /\ pc[r] \in {"idle", "locking", "begin"} => res[r] = NoResult
  /\ pc[r] \notin Answered =>
       /\ answer[r] = Answer(0, NoResult)
       /\ pc[r] \notin {"idle", "locking", "begin"} =>
            \A v \in todo[r] : res[r][v] = "none"
  /\ pc[r] \in InVaultPCs =>
       cur[r] \in Vaults /\ cur[r] \notin todo[r] /\ res[r][cur[r]] = "none"
  /\ pc[r] \in Sync => Ahead(r) \union written[r] = FilesIn(ApplyOf[r], cur[r])

OnThePath == \A r \in Requests : Path(r)

\* git add only moves the index towards the working tree, git commit HEAD to
\* the index.
IndexBetween ==
  \A f \in Files : \A o \in Ops :
     /\ head[f].ops[o] <= staged[f].ops[o]
     /\ staged[f].ops[o] <= disk[f].ops[o]

\* What an execution has written is on disk; once committed, it is in HEAD.
Written(r) ==
  /\ pc[r] \in Sync =>
       \A f \in written[r] : \A o \in OpsOf(ApplyOf[r], f) : disk[f].ops[o] >= 1
  /\ pc[r] = "reindex" =>
       \A f \in FilesIn(ApplyOf[r], cur[r]) : \A o \in OpsOf(ApplyOf[r], f) :
          head[f].ops[o] >= 1

WrittenIsThere == \A r \in Requests : Written(r)

\* Results x of apply a call no vault applied whose changes are not in h.
Honest(x, a, h) ==
  \A o \in Ops : OpApply[o] = a /\ x[VaultOf[OpFile[o]]] = "applied"
                   => h[OpFile[o]].ops[o] >= 1
ResultsAreHonest ==
  /\ \A a \in Applies : Honest(cached[a], a, head)
  /\ \A r \in Requests : /\ Honest(res[r], ApplyOf[r], head)
                         /\ Honest(answer[r].results, ApplyOf[r], head)

CommitInv == IInv /\ OnThePath /\ IndexBetween /\ WrittenIsThere /\ ResultsAreHonest

\* The first change of the batch of f, if f is to be changed and not created.
Reviews(a, f) == {o \in OpsOf(a, f) : IsFirst(o) /\ Rank[o] # Create}

\* Text c is the reviewed text e, with more of the user's edits at most.
Carries(c, e) == c.ops = e.ops /\ e.edits \subseteq c.edits

\* What was reviewed existed.  Each file is as it was reviewed until the
\* snapshot, which puts that text in the history.
ReviewedExists == \A o \in Ops : expected[o] # None /\ Rank[o] # Create => expected[o].exists

Snapshotted(r) ==
  /\ pc[r] = "snapshot" =>
       \A f \in left[r] : \A o \in Reviews(ApplyOf[r], f) :
          disk[f].exists /\ Carries(disk[f], expected[o])
  /\ snap[r] =>
       \A f \in Ahead(r) \union written[r] : \A o \in Reviews(ApplyOf[r], f) :
          \E h \in history[f] : Carries(h, expected[o])

SnapshotsReviewed == ReviewedExists /\ \A r \in Requests : Snapshotted(r)

HistoryInv == IInv /\ OnThePath /\ SnapshotsReviewed

\* Execution r answers for change o, which is on disk and not in HEAD: it has
\* still to commit it, or it has found that it cannot, or it has died.
Responsible(r, o) ==
  /\ ApplyOf[r] = OpApply[o]
  /\ \/ pc[r] = "dead"
     \/ pc[r] \in Sync /\ OpFile[o] \in written[r]
     \/ pc[r] \notin Answered /\ res[r][VaultOf[OpFile[o]]] = "manual"
     \/ answer[r].code = 500
     \/ answer[r].results[VaultOf[OpFile[o]]] = "manual"

SomebodyIsResponsible ==
  \A o \in Ops : disk[OpFile[o]].ops[o] > head[OpFile[o]].ops[o] =>
     \E r \in Requests : Responsible(r, o)

ReportInv == IInv /\ OnThePath /\ IndexBetween /\ SomebodyIsResponsible

-----------------------------------------------------------------------------
LocalsOf(r) == <<pc[r], todo[r], cur[r], left[r], written[r], buf[r], target[r],
                 snap[r], res[r], answer[r]>>

\* An execution has its own local variables.
LEMMA OthersStandStill ==
  ASSUME TypeOK, NEW r \in Requests, Receive(r) \/ Step(r),
         NEW q \in Requests, q # r
  PROVE  UNCHANGED LocalsOf(q)
<1> USE DEF TypeOK, LocalsOf
<1>1. ASSUME NEW l, Goto(r, l) PROVE pc'[q] = pc[q]
  BY <1>1 DEF Goto
<1>2. ASSUME NEW status, EndVault(r, status) PROVE UNCHANGED LocalsOf(q)
  BY <1>2 DEF EndVault, Goto
<1>3. ASSUME Raise(r) PROVE UNCHANGED LocalsOf(q)
  BY <1>3 DEF Raise, Goto, localVars
<1>4. CASE Receive(r)
  BY <1>4 DEF Receive, Goto, localVars
<1>5. CASE Acquire(r)
  BY <1>5 DEF Acquire, Goto, localVars
<1>6. CASE Reject(r)
  BY <1>6 DEF Reject, Goto, localVars
<1>7. CASE SaveInProgress(r)
  BY <1>7 DEF SaveInProgress, Goto
<1>8. CASE \E v \in Vaults : StartVault(r, v)
  BY <1>3, <1>8 DEF StartVault, Goto
<1>9. CASE Preflight(r)
  BY <1>2, <1>3, <1>9 DEF Preflight, Goto
<1>10. CASE Snapshot(r)
  BY <1>3, <1>10, GitRaisesGit DEF Snapshot, Goto, gitVars
<1>11. CASE \E f \in Files : ReadFile(r, f)
  BY <1>2, <1>3, <1>11 DEF ReadFile, FailVault, Goto
<1>12. CASE WriteFile(r)
  BY <1>2, <1>3, <1>12 DEF WriteFile, FailVault, Goto
<1>13. CASE Commit(r)
  BY <1>2, <1>3, <1>13, GitRaisesGit DEF Commit, Goto, localVars
<1>14. CASE Reindex(r)
  BY <1>2, <1>14 DEF Reindex
<1>15. CASE Complete(r)
  BY <1>15 DEF Complete, Goto, localVars
<1>16. CASE Unlock(r)
  BY <1>16 DEF Unlock, Goto
<1> QED
  BY <1>4, <1>5, <1>6, <1>7, <1>8, <1>9, <1>10, <1>11, <1>12, <1>13, <1>14, <1>15, <1>16
     DEF Step

LEMMA SameLocalsSamePath ==
  ASSUME NEW q \in Requests, UNCHANGED LocalsOf(q), Path(q)
  PROVE  Path(q)'
BY DEF Path, LocalsOf, Ahead

LEMMA InitPath == Init => OnThePath
BY DEF Init, OnThePath, Path, Answered, InVaultPCs, Sync, BeforeFiles

LEMMA EndVaultPath ==
  ASSUME TypeOK, NEW r \in Requests, NEW status, EndVault(r, status), Path(r),
         pc[r] \in InVaultPCs
  PROVE  Path(r)'
<1>1. /\ pc'[r] = "next" /\ written'[r] = {} /\ ~snap'[r]
      /\ todo'[r] = todo[r] /\ answer'[r] = answer[r]
      /\ res'[r] = [res[r] EXCEPT ![cur[r]] = status]
  BY DEF EndVault, Goto, TypeOK
<1>2. /\ pc[r] \notin Answered /\ pc[r] \notin {"idle", "locking", "begin"}
      /\ cur[r] \notin todo[r]
  BY DEF Path, InVaultPCs, Sync, Answered
<1>3. \A v \in todo[r] : res[r][v] = "none" /\ v \in Vaults /\ v # cur[r]
  BY <1>2 DEF Path, TypeOK
<1>4. \A v \in todo[r] : res'[r][v] = "none"
  BY <1>1, <1>3 DEF TypeOK, Results
<1> QED
  BY <1>1, <1>2, <1>4 DEF Path, InVaultPCs, Sync, Answered, BeforeFiles

LEMMA RaisePath ==
  ASSUME TypeOK, NEW r \in Requests, Raise(r)
  PROVE  Path(r)'
<1>1. pc'[r] = "unlock"
  BY DEF Raise, Goto, TypeOK
<1> QED
  BY <1>1 DEF Path, InVaultPCs, Sync, Answered, BeforeFiles

LEMMA StepPath ==
  ASSUME TypeOK, TypeOK', NEW r \in Requests, Receive(r) \/ Step(r), Path(r)
  PROVE  Path(r)'
<1> USE DEF Answered, InVaultPCs, Sync, BeforeFiles
<1>1. CASE Receive(r)
  BY <1>1 DEF Receive, Goto, localVars, Path, TypeOK
<1>2. CASE Acquire(r)
  BY <1>2 DEF Acquire, Goto, localVars, Path, TypeOK
<1>3. CASE Reject(r)
  BY <1>3 DEF Reject, Goto, localVars, Path, TypeOK
<1>4. CASE SaveInProgress(r)
  <2>1. /\ pc[r] = "begin" /\ pc'[r] = "next" /\ UNCHANGED <<written, snap, res, answer>>
        /\ todo'[r] \subseteq Vaults
    BY <1>4 DEF SaveInProgress, Goto, TypeOK
  <2>2. res[r] = NoResult
    BY <2>1 DEF Path
  <2>3. \A v \in todo'[r] : res[r][v] = "none"
    BY <2>1, <2>2 DEF NoResult
  <2> QED
    BY <2>1, <2>3 DEF Path
<1>5. CASE \E v \in Vaults : StartVault(r, v)
  <2>1. PICK v \in Vaults : StartVault(r, v)
    BY <1>5
  <2>2. CASE Raise(r)
    BY <2>2, RaisePath
  <2>3. CASE ~Raise(r)
    <3>1. /\ pc[r] = "next" /\ v \in todo[r] /\ todo'[r] = todo[r] \ {v}
          /\ UNCHANGED <<left, written, target, snap, answer>>
      BY <2>1, <2>3 DEF StartVault, TypeOK
    <3>2. answer[r] = Answer(0, NoResult) /\ \A u \in todo[r] : res[r][u] = "none" /\ u \in Vaults
      BY <3>1 DEF Path, TypeOK
    <3>3. \/ pc'[r] = "identity" /\ cur'[r] = v /\ res'[r] = res[r]
          \/ pc'[r] = "next" /\ res'[r] = [res[r] EXCEPT ![v] = "failed"]
      BY <2>1, <2>3, <3>1 DEF StartVault, Goto, TypeOK
    <3>4. \A u \in todo'[r] : res'[r][u] = "none"
      BY <3>1, <3>2, <3>3 DEF TypeOK, Results
    <3> QED
      BY <3>1, <3>2, <3>3, <3>4 DEF Path
  <2> QED
    BY <2>2, <2>3
<1>6. CASE Preflight(r)
  <2>1. pc[r] = "identity"
    BY <1>6 DEF Preflight
  <2>2. CASE EndVault(r, "conflict")
    BY <2>1, <2>2, EndVaultPath
  <2>3. CASE Raise(r)
    BY <2>3, RaisePath
  <2>4. CASE /\ left' = [left EXCEPT ![r] = FilesIn(ApplyOf[r], cur[r])]
             /\ Goto(r, "snapshot")
             /\ UNCHANGED <<todo, cur, written, buf, target, snap, res, answer>>
    <3>1. pc'[r] = "snapshot" /\ left'[r] = FilesIn(ApplyOf[r], cur[r])
      BY <2>4 DEF Goto, TypeOK
    <3>2. written'[r] = {} /\ Ahead(r)' = left'[r]
      BY <2>1, <2>4, <3>1 DEF Path, Ahead
    <3> QED
      BY <2>1, <2>4, <3>1, <3>2 DEF Path
  <2> QED
    BY <1>6, <2>2, <2>3, <2>4 DEF Preflight
<1>7. CASE Snapshot(r)
  <2>1. CASE Raise(r)
    BY <2>1, RaisePath
  <2>2. CASE ~Raise(r)
    <3>1. /\ pc[r] = "snapshot" /\ pc'[r] = "files"
          /\ UNCHANGED <<todo, cur, left, written, target, res, answer>>
      BY <1>7, <2>2, GitRaisesGit DEF Snapshot, Goto, TypeOK
    <3>2. Ahead(r)' = Ahead(r)
      BY <3>1 DEF Ahead
    <3> QED
      BY <3>1, <3>2 DEF Path
  <2> QED
    BY <2>1, <2>2
<1>8. CASE \E f \in Files : ReadFile(r, f)
  <2>1. PICK f \in Files : ReadFile(r, f)
    BY <1>8
  <2>2. pc[r] = "files" /\ f \in left[r]
    BY <2>1 DEF ReadFile
  <2>3. CASE FailVault(r)
    BY <2>2, <2>3, EndVaultPath DEF FailVault
  <2>4. CASE Raise(r)
    BY <2>4, RaisePath
  <2>5. CASE /\ target' = [target EXCEPT ![r] = f]
             /\ left' = [left EXCEPT ![r] = @ \ {f}]
             /\ Goto(r, "write")
             /\ UNCHANGED <<todo, cur, written, snap, res, answer>>
    <3>1. pc'[r] = "write" /\ target'[r] = f /\ left'[r] = left[r] \ {f}
      BY <2>5 DEF Goto, TypeOK
    <3>2. Ahead(r)' = Ahead(r)
      BY <2>2, <3>1 DEF Ahead
    <3> QED
      BY <2>2, <2>5, <3>1, <3>2 DEF Path
  <2> QED
    BY <2>1, <2>3, <2>4, <2>5 DEF ReadFile
<1>9. CASE WriteFile(r)
  <2>1. pc[r] = "write"
    BY <1>9 DEF WriteFile
  <2>2. CASE FailVault(r)
    BY <2>1, <2>2, EndVaultPath DEF FailVault
  <2>3. CASE Raise(r)
    BY <2>3, RaisePath
  <2>4. CASE /\ written' = [written EXCEPT ![r] = @ \union {target[r]}]
             /\ Goto(r, "files")
             /\ UNCHANGED <<todo, cur, left, snap, res, answer>>
    <3>1. pc'[r] = "files" /\ written'[r] = written[r] \union {target[r]}
      BY <2>4 DEF Goto, TypeOK
    <3>2. Ahead(r)' \union written'[r] = Ahead(r) \union written[r]
      BY <2>1, <2>4, <3>1 DEF Ahead
    <3> QED
      BY <2>1, <2>4, <3>1, <3>2 DEF Path
  <2> QED
    BY <1>9, <2>2, <2>3, <2>4 DEF WriteFile
<1>10. CASE Commit(r)
  <2>1. pc[r] = "files"
    BY <1>10 DEF Commit
  <2>2. CASE EndVault(r, "manual")
    BY <2>1, <2>2, EndVaultPath
  <2>3. CASE Goto(r, "reindex") /\ UNCHANGED <<localVars, answer>>
    BY <2>1, <2>3 DEF Goto, localVars, Path, TypeOK
  <2> QED
    BY <1>10, <2>2, <2>3, RaisePath, GitRaisesGit DEF Commit
<1>11. CASE Reindex(r)
  BY <1>11, EndVaultPath DEF Reindex
<1>12. CASE Complete(r)
  BY <1>12 DEF Complete, Goto, localVars, Path, TypeOK
<1>13. CASE Unlock(r)
  BY <1>13 DEF Unlock, Goto, Path, TypeOK
<1> QED
  BY <1>1, <1>2, <1>3, <1>4, <1>5, <1>6, <1>7, <1>8, <1>9, <1>10, <1>11, <1>12, <1>13 DEF Step

\* The steps that leave every execution where it is.
StandStill == \A q \in Requests : UNCHANGED LocalsOf(q)

LEMMA OutsideSteps ==
  ASSUME TypeOK,
         \/ \E o \in Ops : Resolve(o)
         \/ \E a \in Applies : ExpireLock(a) \/ ExpireRecord(a)
         \/ \E e \in Edits : UserEdit(e)
         \/ UNCHANGED vars
  PROVE  StandStill
BY DEF StandStill, LocalsOf, Resolve, ExpireLock, ExpireRecord, UserEdit, vars, localVars

LEMMA CrashPath ==
  ASSUME TypeOK, Crash, NEW q \in Requests, Path(q)
  PROVE  Path(q)'
<1>1. /\ pc'[q] = IF pc[q] \in {"idle", "done", "dead"} THEN pc[q] ELSE "dead"
      /\ written'[q] = {} /\ ~snap'[q] /\ res'[q] = NoResult /\ answer' = answer
  BY DEF Crash, InFlight
<1> QED
  BY <1>1 DEF Path, Answered, InVaultPCs, Sync, BeforeFiles

LEMMA NextPath == TypeOK /\ TypeOK' /\ OnThePath /\ [Next]_vars => OnThePath'
<1> SUFFICES ASSUME TypeOK, TypeOK', OnThePath, [Next]_vars, NEW q \in Requests
             PROVE  Path(q)'
  BY DEF OnThePath
<1>1. Path(q)
  BY DEF OnThePath
<1>2. CASE \E r \in Requests : Receive(r) \/ Step(r)
  BY <1>1, <1>2, StepPath, OthersStandStill, SameLocalsSamePath
<1>3. CASE Crash
  BY <1>1, <1>3, CrashPath
<1>4. CASE StandStill
  BY <1>1, <1>4, SameLocalsSamePath DEF StandStill
<1> QED
  BY <1>2, <1>3, <1>4, OutsideSteps DEF Next

-----------------------------------------------------------------------------
\* The steps that change the index, HEAD or the history.
LEMMA GitSteps ==
  [Next]_vars =>
    \/ UNCHANGED gitVars
    \/ /\ UNCHANGED disk
       /\ \E S : Stage(S)
       /\ UNCHANGED <<head, history>> \/ \E v : CommitIndex(v)
<1>1. ASSUME NEW r \in Requests, Step(r), ~UNCHANGED gitVars
      PROVE  /\ UNCHANGED disk
             /\ \E S : Stage(S)
             /\ UNCHANGED <<head, history>> \/ \E v : CommitIndex(v)
  <2>1. Snapshot(r) \/ Commit(r)
    BY <1>1 DEF Step, Acquire, Reject, SaveInProgress, StartVault, Preflight,
                ReadFile, WriteFile, Reindex, Complete, Unlock
  <2>2. CASE Snapshot(r)
    BY <1>1, <2>2, GitRaisesGit DEF Snapshot
  <2>3. CASE Commit(r)
    BY <2>3, GitRaisesGit DEF Commit
  <2> QED
    BY <2>1, <2>2, <2>3
<1>2. ASSUME NEW o \in Ops, Resolve(o) PROVE UNCHANGED gitVars
  BY <1>2 DEF Resolve
<1>3. ASSUME NEW r \in Requests, Receive(r) PROVE UNCHANGED gitVars
  BY <1>3 DEF Receive
<1>4. ASSUME NEW a \in Applies, ExpireLock(a) \/ ExpireRecord(a) PROVE UNCHANGED gitVars
  BY <1>4 DEF ExpireLock, ExpireRecord
<1>5. ASSUME Crash \/ UNCHANGED vars PROVE UNCHANGED gitVars
  BY <1>5 DEF Crash, vars
<1>6. ASSUME NEW e \in Edits, UserEdit(e) PROVE UNCHANGED gitVars
  BY <1>6 DEF UserEdit
<1> QED
  BY <1>1, <1>2, <1>3, <1>4, <1>5, <1>6 DEF Next

LEMMA DiskGrows ==
  ASSUME IInv, [Next]_vars, NEW f \in Files, NEW o \in Ops
  PROVE  disk'[f].ops[o] >= disk[f].ops[o]
<1>1. disk[f].ops[o] \in Nat
  BY OpsAreNat
<1>2. CASE UNCHANGED disk
  BY <1>1, <1>2
<1>3. ASSUME NEW r \in Requests, pc[r] = "write",
             disk' = [disk EXCEPT ![target[r]] = buf[r]]
      PROVE  disk'[f].ops[o] >= disk[f].ops[o]
  <2> DEFINE g == target[r]
             S == OpsOf(ApplyOf[r], g)
  <2>1. /\ \A h \in Files : h # g => disk'[h] = disk[h]
        /\ \A p \in Ops : disk'[g].ops[p] = IF p \in S THEN disk[g].ops[p] + 1
                                                       ELSE disk[g].ops[p]
    BY <1>3, WriteChangesOneBatch
  <2> QED
    BY <1>1, <2>1
<1>4. ASSUME NEW e \in Edits, UserEdit(e) PROVE disk'[f].ops[o] >= disk[f].ops[o]
  BY <1>1, <1>4, EditStep
<1> QED
  BY <1>2, <1>3, <1>4, DiskSteps

LEMMA StagedOps ==
  ASSUME TypeOK, NEW S, Stage(S), NEW f \in Files
  PROVE  staged'[f] = disk[f] \/ staged'[f] = staged[f]
BY DEF Stage, TypeOK

LEMMA CommittedOps ==
  ASSUME TypeOK, NEW v, CommitIndex(v), NEW f \in Files
  PROVE  /\ head'[f] = IF InVault(f, v) THEN staged'[f] ELSE head[f]
         /\ history'[f] = history[f] \union {head'[f]}
BY DEF CommitIndex, TypeOK

\* HEAD never loses a change, and the index stays between it and the files.
LEMMA GitGrows ==
  ASSUME IInv, IndexBetween, [Next]_vars, NEW f \in Files, NEW o \in Ops
  PROVE  /\ head'[f].ops[o] >= head[f].ops[o]
         /\ head'[f].ops[o] <= staged'[f].ops[o]
         /\ staged'[f].ops[o] <= disk'[f].ops[o]
         /\ history[f] \subseteq history'[f]
<1>1. /\ head[f].ops[o] \in Nat /\ staged[f].ops[o] \in Nat /\ disk[f].ops[o] \in Nat
      /\ head[f].ops[o] <= staged[f].ops[o] /\ staged[f].ops[o] <= disk[f].ops[o]
  BY DEF IInv, TypeOK, Content, IndexBetween
<1>2. CASE UNCHANGED gitVars
  <2>1. disk'[f].ops[o] >= disk[f].ops[o] /\ disk'[f].ops[o] \in Nat
    BY DiskGrows, NextTypeOK DEF IInv, TypeOK, Content
  <2> QED
    BY <1>1, <1>2, <2>1 DEF gitVars
<1>3. ASSUME UNCHANGED disk, NEW S, Stage(S), UNCHANGED <<head, history>>
      PROVE  /\ head'[f].ops[o] >= head[f].ops[o]
             /\ head'[f].ops[o] <= staged'[f].ops[o]
             /\ staged'[f].ops[o] <= disk'[f].ops[o]
             /\ history[f] \subseteq history'[f]
  BY <1>1, <1>3, StagedOps DEF IInv
<1>4. ASSUME UNCHANGED disk, NEW S, Stage(S), NEW v, CommitIndex(v)
      PROVE  /\ head'[f].ops[o] >= head[f].ops[o]
             /\ head'[f].ops[o] <= staged'[f].ops[o]
             /\ staged'[f].ops[o] <= disk'[f].ops[o]
             /\ history[f] \subseteq history'[f]
  <2>1. staged'[f] = disk[f] \/ staged'[f] = staged[f]
    BY <1>4, StagedOps DEF IInv
  <2>2. head'[f] = staged'[f] \/ head'[f] = head[f]
    BY <1>4, CommittedOps DEF IInv
  <2>3. history[f] \subseteq history'[f]
    BY <1>4, CommittedOps DEF IInv
  <2> QED
    BY <1>1, <1>4, <2>1, <2>2, <2>3
<1>5. CASE /\ UNCHANGED disk
           /\ \E S : Stage(S)
           /\ UNCHANGED <<head, history>> \/ \E v : CommitIndex(v)
  BY <1>3, <1>4, <1>5
<1> QED
  BY <1>2, <1>5, GitSteps

LEMMA NextBetween == IInv /\ IndexBetween /\ [Next]_vars => IndexBetween'
BY GitGrows DEF IndexBetween

LEMMA InitBetween == Init => IndexBetween
BY DEF Init, IndexBetween, Absent, Empty

-----------------------------------------------------------------------------
\* A vault that was rightly called applied stays so: HEAD only grows.
LEMMA HonestLater ==
  ASSUME IInv, IndexBetween, [Next]_vars, NEW x, NEW a, Honest(x, a, head)
  PROVE  Honest(x, a, head')
<1> SUFFICES ASSUME NEW o \in Ops, OpApply[o] = a, x[VaultOf[OpFile[o]]] = "applied"
             PROVE  head'[OpFile[o]].ops[o] >= 1
  BY DEF Honest
<1>1. OpFile[o] \in Files
  BY ConstantsAssumption
<1>2. head[OpFile[o]].ops[o] >= 1
  BY DEF Honest
<1>3. head[OpFile[o]].ops[o] \in Nat /\ head'[OpFile[o]].ops[o] \in Nat
  BY <1>1, NextTypeOK DEF IInv, TypeOK, Content
<1> QED
  BY <1>1, <1>2, <1>3, GitGrows

LEMMA NoResultIsHonest ==
  ASSUME NEW a, NEW h PROVE Honest(NoResult, a, h)
BY ConstantsAssumption DEF Honest, NoResult

LEMMA OneMoreResult ==
  ASSUME NEW x \in Results, NEW a, NEW h, NEW v, NEW status, Honest(x, a, h),
         status = "applied" => \A o \in Ops :
            OpApply[o] = a /\ VaultOf[OpFile[o]] = v => h[OpFile[o]].ops[o] >= 1
  PROVE  Honest([x EXCEPT ![v] = status], a, h)
<1> SUFFICES ASSUME NEW o \in Ops, OpApply[o] = a,
                    [x EXCEPT ![v] = status][VaultOf[OpFile[o]]] = "applied"
             PROVE  h[OpFile[o]].ops[o] >= 1
  BY DEF Honest
<1>1. VaultOf[OpFile[o]] \in Vaults
  BY ConstantsAssumption
<1> QED
  BY <1>1 DEF Honest, Results

\* The steps of an execution within a vault that do not end its turn.
LEMMA StepsInVault ==
  ASSUME TypeOK, NEW r \in Requests, Receive(r) \/ Step(r),
         pc'[r] \in Sync \union {"reindex"}
  PROVE  \/ /\ pc[r] = "identity" /\ pc'[r] = "snapshot"
            /\ Stale(r) = {} /\ left'[r] = FilesIn(ApplyOf[r], cur[r])
            /\ UNCHANGED <<disk, gitVars, expected, cur, written, snap>>
         \/ /\ pc[r] = "snapshot" /\ pc'[r] = "files" /\ Snapshot(r)
            /\ UNCHANGED <<disk, expected, cur, left, written, target>>
         \/ /\ pc[r] = "files" /\ pc'[r] = "write"
            /\ target'[r] \in left[r] /\ left'[r] = left[r] \ {target'[r]}
            /\ UNCHANGED <<disk, gitVars, expected, cur, written, snap>>
         \/ /\ pc[r] = "write" /\ pc'[r] = "files"
            /\ disk' = [disk EXCEPT ![target[r]] = buf[r]]
            /\ written'[r] = written[r] \union {target[r]}
            /\ UNCHANGED <<gitVars, expected, cur, left, snap>>
         \/ /\ pc[r] = "files" /\ pc'[r] = "reindex" /\ left[r] = {}
            /\ Stage(written[r]) /\ CommitIndex(cur[r])
            /\ UNCHANGED <<disk, expected, localVars, answer>>
<1> USE DEF TypeOK, Sync
<1>1. ASSUME NEW l, Goto(r, l) PROVE pc'[r] = l
  BY <1>1 DEF Goto
<1>2. ASSUME NEW status PROVE ~EndVault(r, status)
  BY DEF EndVault, Goto
<1>3. ~Raise(r)
  BY DEF Raise, Goto
<1>4. ~Receive(r)
  BY DEF Receive, Goto
<1>5. ~Acquire(r) /\ ~Reject(r) /\ ~SaveInProgress(r) /\ ~Complete(r) /\ ~Unlock(r)
  BY DEF Acquire, Reject, SaveInProgress, Complete, Unlock, Goto
<1>6. ~Reindex(r) /\ \A v \in Vaults : ~StartVault(r, v)
  BY <1>2, <1>3 DEF Reindex, StartVault, Goto
<1>7. CASE Preflight(r)
  BY <1>2, <1>3, <1>7 DEF Preflight, Goto
<1>8. CASE Snapshot(r)
  BY <1>3, <1>8, GitRaisesGit DEF Snapshot, Goto
<1>9. CASE \E f \in Files : ReadFile(r, f)
  BY <1>2, <1>3, <1>9 DEF ReadFile, FailVault, Goto
<1>10. CASE WriteFile(r)
  BY <1>2, <1>3, <1>10 DEF WriteFile, FailVault, Goto
<1>11. CASE Commit(r)
  BY <1>2, <1>3, <1>11, GitRaisesGit DEF Commit, Goto
<1> QED
  BY <1>4, <1>5, <1>6, <1>7, <1>8, <1>9, <1>10, <1>11 DEF Step

Marked(r, v, status) == res'[r] = [res[r] EXCEPT ![v] = status]

\* Where results come from: a vault is called applied after the commit only.
LEMMA ResultSteps ==
  ASSUME TypeOK, NEW r \in Requests, Receive(r) \/ Step(r)
  PROVE  /\ \/ res'[r] = res[r] \/ res'[r] = NoResult
            \/ \E v : Marked(r, v, "failed") \/ Marked(r, v, "conflict") \/ Marked(r, v, "manual")
            \/ pc[r] = "reindex" /\ Marked(r, cur[r], "applied")
         /\ \/ answer'[r] = answer[r]
            \/ answer'[r].results \in {NoResult, res[r], cached[ApplyOf[r]]}
         /\ \A a \in Applies :
              \/ cached'[a] = cached[a] \/ cached'[a] = NoResult
              \/ a = ApplyOf[r] /\ cached'[a] = res[r]
<1> USE DEF TypeOK
<1>1. ASSUME NEW status, EndVault(r, status)
      PROVE  Marked(r, cur[r], status) /\ answer' = answer
  BY <1>1 DEF EndVault, Marked
<1>2. ASSUME Raise(r) PROVE answer'[r].results = NoResult /\ res' = res
  BY <1>2 DEF Raise, Answer, localVars
<1>3. CASE Receive(r)
  BY <1>3 DEF Receive, Answer, localVars, redisVars
<1>4. CASE Acquire(r) \/ Reject(r)
  BY <1>4 DEF Acquire, Reject, Answer, localVars, redisVars
<1>5. CASE SaveInProgress(r)
  BY <1>5 DEF SaveInProgress
<1>6. CASE \E v \in Vaults : StartVault(r, v)
  <2>1. PICK v \in Vaults : StartVault(r, v)
    BY <1>6
  <2>2. UNCHANGED cached
    BY <2>1 DEF StartVault, redisVars
  <2>3. Raise(r) \/ (UNCHANGED answer /\ (res'[r] = res[r] \/ Marked(r, v, "failed")))
    BY <2>1 DEF StartVault, Marked
  <2> QED
    BY <1>2, <2>2, <2>3
<1>7. CASE Preflight(r)
  BY <1>1, <1>2, <1>7 DEF Preflight, redisVars
<1>8. CASE Snapshot(r)
  BY <1>2, <1>8, GitRaisesGit DEF Snapshot, redisVars
<1>9. CASE \E f \in Files : ReadFile(r, f)
  BY <1>1, <1>2, <1>9 DEF ReadFile, FailVault, redisVars
<1>10. CASE WriteFile(r)
  BY <1>1, <1>2, <1>10 DEF WriteFile, FailVault, redisVars
<1>11. CASE Commit(r)
  BY <1>1, <1>2, <1>11, GitRaisesGit DEF Commit, redisVars, localVars
<1>12. CASE Reindex(r)
  BY <1>1, <1>12 DEF Reindex, redisVars
<1>13. CASE Complete(r)
  BY <1>13 DEF Complete, Answer, localVars
<1>14. CASE Unlock(r)
  BY <1>14 DEF Unlock
<1> QED
  BY <1>3, <1>4, <1>5, <1>6, <1>7, <1>8, <1>9, <1>10, <1>11, <1>12, <1>13, <1>14 DEF Step

LEMMA FilesInFacts ==
  ASSUME NEW a, NEW v
  PROVE  /\ \A f \in FilesIn(a, v) : f \in Files /\ InVault(f, v)
         /\ \A f : OpsOf(a, f) \subseteq Ops
         /\ \A o \in Ops : OpApply[o] = a /\ VaultOf[OpFile[o]] = v =>
              OpFile[o] \in FilesIn(a, v) /\ o \in OpsOf(a, OpFile[o])
BY ConstantsAssumption DEF FilesIn, OpsOf, InVault

\* What holds of an execution that stands still holds when the files and HEAD grow.
LEMMA WrittenLater ==
  ASSUME IInv, OnThePath, IndexBetween, [Next]_vars,
         NEW q \in Requests, UNCHANGED LocalsOf(q), Written(q)
  PROVE  Written(q)'
<1>1. UNCHANGED <<pc[q], cur[q], written[q]>>
  BY DEF LocalsOf
<1>2. ASSUME pc[q] \in Sync, NEW f \in written[q], NEW o \in OpsOf(ApplyOf[q], f)
      PROVE  disk'[f].ops[o] >= 1
  <2>1. f \in Files /\ o \in Ops
    BY <1>2, FilesInFacts DEF OnThePath, Path
  <2>2. disk[f].ops[o] >= 1 /\ disk'[f].ops[o] >= disk[f].ops[o]
    BY <1>2, <2>1, DiskGrows DEF Written
  <2>3. disk[f].ops[o] \in Nat /\ disk'[f].ops[o] \in Nat
    BY <2>1, NextTypeOK DEF IInv, TypeOK, Content
  <2> QED
    BY <2>2, <2>3
<1>3. ASSUME pc[q] = "reindex", NEW f \in FilesIn(ApplyOf[q], cur[q]),
             NEW o \in OpsOf(ApplyOf[q], f)
      PROVE  head'[f].ops[o] >= 1
  <2>1. f \in Files /\ o \in Ops
    BY FilesInFacts
  <2>2. head[f].ops[o] >= 1 /\ head'[f].ops[o] >= head[f].ops[o]
    BY <1>3, <2>1, GitGrows DEF Written
  <2>3. head[f].ops[o] \in Nat /\ head'[f].ops[o] \in Nat
    BY <2>1, NextTypeOK DEF IInv, TypeOK, Content
  <2> QED
    BY <2>2, <2>3
<1> QED
  BY <1>1, <1>2, <1>3 DEF Written

LEMMA WrittenStep ==
  ASSUME IInv, TypeOK', OnThePath, NEW r \in Requests, Receive(r) \/ Step(r), Written(r)
  PROVE  Written(r)'
<1> SUFFICES ASSUME pc'[r] \in Sync \union {"reindex"}
             PROVE  Written(r)'
  BY DEF Written
<1> USE DEF Sync
<1>1. TypeOK /\ Path(r)
  BY DEF IInv, OnThePath
<1>2. CASE pc'[r] = "snapshot" /\ pc[r] = "identity" /\ UNCHANGED written
  BY <1>1, <1>2 DEF Written, Path, BeforeFiles
<1>3. CASE pc'[r] = "files" /\ pc[r] = "snapshot" /\ UNCHANGED written
  BY <1>1, <1>3 DEF Written, Path, BeforeFiles
<1>4. CASE pc'[r] = "write" /\ pc[r] = "files" /\ UNCHANGED <<written, disk>>
  BY <1>4 DEF Written
<1>5. CASE /\ pc[r] = "write" /\ pc'[r] = "files"
           /\ disk' = [disk EXCEPT ![target[r]] = buf[r]]
           /\ written'[r] = written[r] \union {target[r]}
  <2> DEFINE f == target[r]
             S == OpsOf(ApplyOf[r], f)
  <2>1. /\ f \in Files
        /\ \A g \in Files : g # f => disk'[g] = disk[g]
        /\ \A o \in Ops : disk'[f].ops[o] = IF o \in S THEN disk[f].ops[o] + 1
                                                       ELSE disk[f].ops[o]
    BY <1>5, WriteChangesOneBatch
  <2>2. ASSUME NEW o \in S PROVE disk'[f].ops[o] >= 1
    <3>1. o \in Ops
      BY FilesInFacts
    <3>2. disk[f].ops[o] \in Nat
      BY <2>1, <3>1, OpsAreNat
    <3> QED
      BY <2>1, <3>1, <3>2
  <2>3. \A g \in written[r] : g \in Files
    BY <1>1, <1>5, FilesInFacts DEF Path
  <2>4. \A g \in written[r] : g # f => \A o \in OpsOf(ApplyOf[r], g) : disk'[g].ops[o] >= 1
    BY <1>5, <2>1, <2>3 DEF Written
  <2> QED
    BY <1>5, <2>2, <2>4 DEF Written
<1>6. CASE /\ pc[r] = "files" /\ pc'[r] = "reindex" /\ left[r] = {}
           /\ Stage(written[r]) /\ CommitIndex(cur[r])
           /\ UNCHANGED localVars
  <2>1. written[r] = FilesIn(ApplyOf[r], cur[r])
    BY <1>1, <1>6 DEF Path, Ahead
  <2>2. \A f \in written[r] : f \in Files /\ staged'[f] = disk[f] /\ head'[f] = staged'[f]
    BY <1>1, <1>6, <2>1, FilesInFacts, CommittedOps DEF Stage
  <2>3. cur' = cur
    BY <1>6 DEF localVars
  <2> QED
    BY <1>6, <2>1, <2>2, <2>3 DEF Written
<1> QED
  BY <1>1, <1>2, <1>3, <1>4, <1>5, <1>6, StepsInVault

LEMMA NextWritten ==
  IInv /\ OnThePath /\ IndexBetween /\ WrittenIsThere /\ [Next]_vars => WrittenIsThere'
<1> SUFFICES ASSUME IInv, OnThePath, IndexBetween, WrittenIsThere, [Next]_vars,
                    NEW q \in Requests
             PROVE  Written(q)'
  BY DEF WrittenIsThere
<1>1. TypeOK /\ TypeOK' /\ Written(q)
  BY NextTypeOK DEF IInv, WrittenIsThere
<1>2. CASE \E r \in Requests : Receive(r) \/ Step(r)
  BY <1>1, <1>2, WrittenStep, OthersStandStill, WrittenLater
<1>3. CASE Crash
  BY <1>3 DEF Crash, InFlight, Written, Sync
<1>4. CASE StandStill
  BY <1>1, <1>4, WrittenLater DEF StandStill
<1> QED
  BY <1>1, <1>2, <1>3, <1>4, OutsideSteps DEF Next

LEMMA NextHonest ==
  CommitInv /\ [Next]_vars => ResultsAreHonest'
<1> SUFFICES ASSUME CommitInv, [Next]_vars PROVE ResultsAreHonest'
  OBVIOUS
<1>1. /\ TypeOK /\ IInv /\ IndexBetween /\ OnThePath /\ WrittenIsThere
      /\ \A a \in Applies : Honest(cached[a], a, head)
      /\ \A r \in Requests : /\ Honest(res[r], ApplyOf[r], head)
                             /\ Honest(answer[r].results, ApplyOf[r], head)
      /\ \A r \in Requests : ApplyOf[r] \in Applies
  BY ConstantsAssumption DEF CommitInv, IInv, ResultsAreHonest
<1>2. /\ \A a \in Applies : Honest(cached[a], a, head')
      /\ \A r \in Requests : /\ Honest(res[r], ApplyOf[r], head')
                             /\ Honest(answer[r].results, ApplyOf[r], head')
  BY <1>1, HonestLater
<1>3. ASSUME NEW r \in Requests, Receive(r) \/ Step(r)
      PROVE  ResultsAreHonest'
  <2>1. \A a \in Applies : Honest(cached'[a], a, head')
    BY <1>1, <1>2, <1>3, ResultSteps, NoResultIsHonest
  <2>2. Honest(answer'[r].results, ApplyOf[r], head')
    BY <1>1, <1>2, <1>3, ResultSteps, NoResultIsHonest
  <2>3. Honest(res'[r], ApplyOf[r], head')
    <3>1. res[r] \in Results
      BY <1>1 DEF TypeOK
    <3>2. ASSUME NEW v, NEW status, status # "applied", Marked(r, v, status)
          PROVE  Honest(res'[r], ApplyOf[r], head')
      <4>1. Honest([res[r] EXCEPT ![v] = status], ApplyOf[r], head')
        <5> HIDE DEF Honest
        <5> QED
          BY <1>2, <3>1, <3>2, OneMoreResult
      <4> QED
        BY <3>2, <4>1 DEF Marked
    <3>3. ASSUME pc[r] = "reindex", Marked(r, cur[r], "applied")
          PROVE  Honest(res'[r], ApplyOf[r], head')
      <4>1. Written(r)
        BY <1>1 DEF WrittenIsThere
      <4>2. \A f \in FilesIn(ApplyOf[r], cur[r]) : \A o \in OpsOf(ApplyOf[r], f) :
              head[f].ops[o] >= 1
        BY <3>3, <4>1 DEF Written
      <4>3. \A o \in Ops : OpApply[o] = ApplyOf[r] /\ VaultOf[OpFile[o]] = cur[r] =>
              head[OpFile[o]].ops[o] >= 1
        BY <4>2, FilesInFacts
      <4>4. ASSUME NEW o \in Ops, OpApply[o] = ApplyOf[r], VaultOf[OpFile[o]] = cur[r]
            PROVE  head'[OpFile[o]].ops[o] >= 1
        <5>1. OpFile[o] \in Files
          BY ConstantsAssumption
        <5>2. head[OpFile[o]].ops[o] \in Nat /\ head'[OpFile[o]].ops[o] \in Nat
          BY <5>1, NextTypeOK, <1>1 DEF TypeOK, Content
        <5> QED
          BY <1>1, <4>3, <4>4, <5>1, <5>2, GitGrows
      <4>5. Honest([res[r] EXCEPT ![cur[r]] = "applied"], ApplyOf[r], head')
        BY <1>2, <3>1, <4>4, OneMoreResult
      <4> QED
        BY <3>3, <4>5 DEF Marked
    <3> QED
      BY <1>1, <1>2, <1>3, <3>2, <3>3, ResultSteps, NoResultIsHonest
  <2>4. \A q \in Requests : q # r => res'[q] = res[q] /\ answer'[q] = answer[q]
    BY <1>1, <1>3, OthersStandStill DEF LocalsOf
  <2> QED
    BY <1>2, <2>1, <2>2, <2>3, <2>4 DEF ResultsAreHonest
<1>4. CASE Crash
  BY <1>2, <1>4, NoResultIsHonest DEF Crash, redisVars, ResultsAreHonest
<1>5. CASE StandStill /\ UNCHANGED cached
  BY <1>2, <1>5 DEF StandStill, LocalsOf, ResultsAreHonest
<1>6. CASE \E a \in Applies : ExpireRecord(a)
  <2>1. PICK a \in Applies : cached' = [cached EXCEPT ![a] = NoResult]
    BY <1>6 DEF ExpireRecord
  <2>2. \A b \in Applies : cached'[b] \in {NoResult, cached[b]}
    BY <1>1, <2>1 DEF TypeOK
  <2>3. \A b \in Applies : Honest(cached'[b], b, head')
    BY <1>2, <2>2, NoResultIsHonest
  <2>4. UNCHANGED <<res, answer>>
    BY <1>6 DEF ExpireRecord, localVars
  <2> QED
    BY <1>2, <2>3, <2>4 DEF ResultsAreHonest
<1>7. ASSUME \/ \E o \in Ops : Resolve(o)
             \/ \E a \in Applies : ExpireLock(a)
             \/ \E e \in Edits : UserEdit(e)
             \/ UNCHANGED vars
      PROVE  ResultsAreHonest'
  <2>1. UNCHANGED cached
    BY <1>7 DEF Resolve, ExpireLock, UserEdit, vars, redisVars
  <2>2. StandStill
    BY <1>1, <1>7, OutsideSteps
  <2> QED
    BY <1>5, <2>1, <2>2
<1> QED
  BY <1>3, <1>4, <1>6, <1>7 DEF Next

\* A vault that is answered applied has every change of the apply in HEAD,
\* whatever requests, crashes and retries came between.
THEOREM AppliedMeansCommitted == Spec => []AppliedIsCommitted
<1>1. Init => CommitInv
  <2> SUFFICES ASSUME Init PROVE CommitInv
    OBVIOUS
  <2>1. IInv /\ OnThePath /\ IndexBetween
    BY InitIInv, InitPath, InitBetween
  <2>2. WrittenIsThere
    BY DEF Init, WrittenIsThere, Written, Sync
  <2>3. ResultsAreHonest
    BY NoResultIsHonest DEF Init, ResultsAreHonest, Answer
  <2> QED
    BY <2>1, <2>2, <2>3 DEF CommitInv
<1>2. CommitInv /\ [Next]_vars => CommitInv'
  BY NextIInv, NextTypeOK, NextPath, NextBetween, NextWritten, NextHonest DEF CommitInv, IInv
<1>3. CommitInv => AppliedIsCommitted
  BY DEF CommitInv, ResultsAreHonest, Honest, AppliedIsCommitted
<1> QED
  BY <1>1, <1>2, <1>3, PTL DEF Spec

-----------------------------------------------------------------------------
LEMMA HistoryGrows ==
  ASSUME IInv, [Next]_vars, NEW f \in Files
  PROVE  history[f] \subseteq history'[f]
<1>1. CASE UNCHANGED history
  BY <1>1
<1>2. ASSUME NEW v, CommitIndex(v) PROVE history[f] \subseteq history'[f]
  BY <1>2, CommittedOps DEF IInv
<1> QED
  BY <1>1, <1>2, GitSteps DEF gitVars

\* A text that has been reviewed is not reviewed again.
LEMMA ReviewedOnce ==
  ASSUME IInv, [Next]_vars
  PROVE  \/ UNCHANGED expected
         \/ \E o \in Ops : /\ Resolve(o) /\ expected[o] = None
                           /\ expected'[o] = IF Rank[o] = Create THEN Absent ELSE disk[OpFile[o]]
                           /\ Rank[o] # Create => disk[OpFile[o]].exists
                           /\ \A p \in Ops : p # o => expected'[p] = expected[p]
<1>1. ASSUME NEW o \in Ops, Resolve(o)
      PROVE  /\ expected[o] = None
             /\ expected'[o] = IF Rank[o] = Create THEN Absent ELSE disk[OpFile[o]]
             /\ Rank[o] # Create => disk[OpFile[o]].exists
             /\ \A p \in Ops : p # o => expected'[p] = expected[p]
  BY <1>1 DEF Resolve, IInv, TypeOK
<1>2. ASSUME NEW r \in Requests, Receive(r) \/ Step(r) PROVE UNCHANGED expected
  BY <1>2 DEF Receive, Step, Acquire, Reject, SaveInProgress, StartVault, Preflight, Snapshot,
              ReadFile, WriteFile, Commit, Reindex, Complete, Unlock
<1>3. ASSUME \/ \E a \in Applies : ExpireLock(a) \/ ExpireRecord(a)
             \/ Crash \/ UNCHANGED vars
             \/ \E e \in Edits : UserEdit(e)
      PROVE  UNCHANGED expected
  BY <1>3 DEF ExpireLock, ExpireRecord, Crash, vars, UserEdit
<1> QED
  BY <1>1, <1>2, <1>3 DEF Next

LEMMA NextReviewedExists ==
  IInv /\ ReviewedExists /\ [Next]_vars => ReviewedExists'
BY ReviewedOnce DEF ReviewedExists

LEMMA ReviewsFacts ==
  ASSUME NEW r \in Requests, NEW f, NEW o \in Reviews(ApplyOf[r], f)
  PROVE  /\ o \in Ops /\ OpApply[o] = ApplyOf[r] /\ Rank[o] # Create
         /\ o \in OpsOf(ApplyOf[r], f) /\ IsUpdate(ApplyOf[r], f)
BY DEF Reviews, OpsOf, IsUpdate

\* While an execution is in the section without awaits only the user's editor
\* touches the files beside it.
LEMMA OnlyTheUser ==
  ASSUME IInv, [Next]_vars, NEW q \in Requests, pc[q] = "snapshot", UNCHANGED LocalsOf(q),
         NEW f \in Files
  PROVE  /\ disk'[f].ops = disk[f].ops /\ disk[f].edits \subseteq disk'[f].edits
         /\ disk[f].exists => disk'[f].exists
<1>1. ASSUME NEW r \in Requests, pc[r] = "write" PROVE FALSE
  BY <1>1 DEF IInv, OneInSync, Sync
<1>2. ASSUME NEW e \in Edits, UserEdit(e)
      PROVE  /\ disk'[f].ops = disk[f].ops /\ disk[f].edits \subseteq disk'[f].edits
             /\ disk[f].exists => disk'[f].exists
  BY <1>2, ConstantsAssumption DEF UserEdit, IInv, TypeOK
<1> QED
  BY <1>1, <1>2, DiskSteps

LEMMA SnapshottedLater ==
  ASSUME IInv, OnThePath, [Next]_vars, NEW q \in Requests, UNCHANGED LocalsOf(q), Snapshotted(q)
  PROVE  Snapshotted(q)'
<1>1. UNCHANGED <<pc[q], left[q], written[q], target[q], snap[q], cur[q]>> /\ Ahead(q)' = Ahead(q)
  BY DEF LocalsOf, Ahead
<1>2. ASSUME pc[q] # "idle", NEW f, NEW o \in Reviews(ApplyOf[q], f)
      PROVE  expected'[o] = expected[o]
  <2>1. o \in Ops /\ expected[o] # None
    BY <1>2, ReviewsFacts DEF IInv, ResolvedFirst
  <2> QED
    BY <2>1, ReviewedOnce
<1>3. ASSUME pc[q] = "snapshot", NEW f \in left[q], NEW o \in Reviews(ApplyOf[q], f)
      PROVE  disk'[f].exists /\ Carries(disk'[f], expected'[o])
  <2>1. f \in Files
    BY <1>3 DEF IInv, TypeOK
  <2> QED
    BY <1>2, <1>3, <2>1, OnlyTheUser DEF Snapshotted, Carries
<1>4. ASSUME snap[q], NEW f \in Ahead(q) \union written[q], NEW o \in Reviews(ApplyOf[q], f)
      PROVE  \E h \in history'[f] : Carries(h, expected'[o])
  <2>1. pc[q] # "idle"
    BY <1>4 DEF OnThePath, Path, BeforeFiles
  <2>2. f \in Files
    BY <1>4, ReviewsFacts, ConstantsAssumption DEF Reviews, OpsOf
  <2>3. PICK h \in history[f] : Carries(h, expected[o])
    BY <1>4 DEF Snapshotted
  <2> QED
    BY <1>2, <2>1, <2>2, <2>3, HistoryGrows
<1> QED
  BY <1>1, <1>3, <1>4 DEF Snapshotted

\* The other steps of an execution leave the snapshot of its vault or forget it.
LEMMA StepsOutsideVault ==
  ASSUME TypeOK, NEW r \in Requests, Receive(r) \/ Step(r),
         pc'[r] \notin Sync \union {"reindex"}
  PROVE  \/ ~snap'[r]
         \/ snap'[r] = snap[r] /\ pc[r] \in BeforeFiles
         \/ pc'[r] = "unlock" /\ UNCHANGED <<left, written, snap>>
<1> USE DEF TypeOK, Sync, BeforeFiles
<1>1. ASSUME NEW status, EndVault(r, status) PROVE ~snap'[r]
  BY <1>1 DEF EndVault
<1>2. ASSUME Raise(r) PROVE pc'[r] = "unlock" /\ UNCHANGED <<left, written, snap>>
  BY <1>2 DEF Raise, Goto, localVars
<1>3. CASE Receive(r) \/ Acquire(r) \/ Reject(r) \/ SaveInProgress(r) \/ Complete(r) \/ Unlock(r)
  BY <1>3 DEF Receive, Acquire, Reject, SaveInProgress, Complete, Unlock, localVars
<1>4. CASE \E v \in Vaults : StartVault(r, v)
  BY <1>2, <1>4 DEF StartVault
<1>5. CASE Preflight(r)
  BY <1>1, <1>2, <1>5 DEF Preflight, Goto
<1>6. CASE Snapshot(r)
  BY <1>2, <1>6, GitRaisesGit DEF Snapshot, Goto
<1>7. CASE \E f \in Files : ReadFile(r, f)
  BY <1>1, <1>2, <1>7 DEF ReadFile, FailVault, Goto
<1>8. CASE WriteFile(r)
  BY <1>1, <1>2, <1>8 DEF WriteFile, FailVault, Goto
<1>9. CASE Commit(r)
  BY <1>1, <1>2, <1>9, GitRaisesGit DEF Commit, Goto
<1>10. CASE Reindex(r)
  BY <1>1, <1>10 DEF Reindex
<1> QED
  BY <1>3, <1>4, <1>5, <1>6, <1>7, <1>8, <1>9, <1>10 DEF Step

\* The comparison of preflight makes the texts the reviewed ones; the snapshot
\* commits them before the first is overwritten.
LEMMA SnapshottedStep ==
  ASSUME IInv, OnThePath, ReviewedExists, [Next]_vars,
         NEW r \in Requests, Receive(r) \/ Step(r), Snapshotted(r)
  PROVE  Snapshotted(r)'
<1> USE DEF Sync
<1>1. TypeOK /\ TypeOK' /\ Path(r)
  BY NextTypeOK DEF IInv, OnThePath
<1>2. UNCHANGED expected
  BY DEF Receive, Step, Acquire, Reject, SaveInProgress, StartVault, Preflight, Snapshot,
         ReadFile, WriteFile, Commit, Reindex, Complete, Unlock
<1>3. ASSUME pc'[r] # "snapshot", snap[r],
             Ahead(r)' \union written'[r] \subseteq Ahead(r) \union written[r]
      PROVE  Snapshotted(r)'
  <2> SUFFICES ASSUME NEW f \in Ahead(r) \union written[r], NEW o \in Reviews(ApplyOf[r], f)
               PROVE  \E h \in history'[f] : Carries(h, expected[o])
    BY <1>2, <1>3 DEF Snapshotted
  <2>1. f \in Files
    BY ReviewsFacts, ConstantsAssumption DEF Reviews, OpsOf
  <2> QED
    BY <1>3, <2>1, HistoryGrows DEF Snapshotted
<1>4. ASSUME pc'[r] # "snapshot", ~snap'[r] PROVE Snapshotted(r)'
  BY <1>4 DEF Snapshotted
<1>5. CASE pc'[r] \notin Sync \union {"reindex"}
  <2>1. ~snap'[r] \/ (pc'[r] = "unlock" /\ UNCHANGED <<left, written, snap>>)
    BY <1>1, <1>5, StepsOutsideVault DEF Path
  <2>2. CASE pc'[r] = "unlock" /\ UNCHANGED <<left, written, snap>>
    <3>1. Ahead(r)' \union written'[r] \subseteq Ahead(r) \union written[r]
      BY <2>2 DEF Ahead
    <3> QED
      BY <1>3, <1>4, <2>2, <3>1
  <2> QED
    BY <1>4, <1>5, <2>1, <2>2
<1>6. CASE /\ pc[r] = "identity" /\ pc'[r] = "snapshot" /\ Stale(r) = {}
           /\ left'[r] = FilesIn(ApplyOf[r], cur[r])
           /\ UNCHANGED <<disk, snap>>
  <2>1. ~snap'[r]
    BY <1>1, <1>6 DEF Path, BeforeFiles
  <2>2. ASSUME NEW f \in FilesIn(ApplyOf[r], cur[r]), NEW o \in Reviews(ApplyOf[r], f)
        PROVE  disk[f].exists /\ Carries(disk[f], expected[o])
    <3>1. disk[f] = expected[o]
      BY <1>6, <2>2 DEF Stale, Reviews
    <3>2. expected[o] # None /\ o \in Ops /\ Rank[o] # Create
      BY <1>6, ReviewsFacts DEF IInv, ResolvedFirst
    <3> QED
      BY <3>1, <3>2 DEF ReviewedExists, Carries
  <2> QED
    BY <1>2, <1>6, <2>1, <2>2 DEF Snapshotted
<1>7. CASE /\ pc[r] = "snapshot" /\ pc'[r] = "files" /\ Snapshot(r)
           /\ UNCHANGED <<disk, cur, left, written>>
  <2> SUFFICES ASSUME snap'[r], NEW f \in left[r], NEW o \in Reviews(ApplyOf[r], f)
               PROVE  \E h \in history'[f] : Carries(h, expected[o])
    BY <1>1, <1>2, <1>7 DEF Snapshotted, Path, BeforeFiles, Ahead
  <2> DEFINE T == {g \in left[r] : IsUpdate(ApplyOf[r], g) /\ disk[g].exists}
  <2>1. ~snap[r] /\ left[r] = FilesIn(ApplyOf[r], cur[r])
    BY <1>1, <1>7 DEF Path, BeforeFiles, Ahead
  <2>2. Stage(T) /\ CommitIndex(cur[r])
    <3>1. ~Raise(r)
      BY <1>1, <1>7 DEF Raise, Goto, TypeOK
    <3> QED
      BY <1>1, <1>7, <2>1, <3>1, GitRaisesGit DEF Snapshot, TypeOK
  <2>3. f \in Files /\ InVault(f, cur[r])
    BY <2>1, FilesInFacts
  <2>4. disk[f].exists /\ Carries(disk[f], expected[o])
    BY <1>7 DEF Snapshotted
  <2>5. f \in T
    BY <2>4, ReviewsFacts
  <2>6. staged'[f] = disk[f]
    BY <2>2, <2>3, <2>5 DEF Stage
  <2>7. disk[f] \in history'[f]
    BY <1>1, <2>2, <2>3, <2>6, CommittedOps
  <2> QED
    BY <2>4, <2>7
<1>8. CASE /\ pc[r] = "files" /\ pc'[r] = "write"
           /\ target'[r] \in left[r] /\ left'[r] = left[r] \ {target'[r]}
           /\ UNCHANGED <<written, snap>>
  <2>1. Ahead(r)' \union written'[r] \subseteq Ahead(r) \union written[r]
    BY <1>8 DEF Ahead
  <2> QED
    BY <1>3, <1>4, <1>8, <2>1
<1>9. CASE /\ pc[r] = "write" /\ pc'[r] = "files"
           /\ written'[r] = written[r] \union {target[r]}
           /\ UNCHANGED <<left, snap>>
  <2>1. Ahead(r)' \union written'[r] \subseteq Ahead(r) \union written[r]
    BY <1>9 DEF Ahead
  <2> QED
    BY <1>3, <1>4, <1>9, <2>1
<1>10. CASE pc[r] = "files" /\ pc'[r] = "reindex" /\ UNCHANGED localVars
  <2>1. Ahead(r)' \union written'[r] \subseteq Ahead(r) \union written[r] /\ snap' = snap
    BY <1>10 DEF Ahead, localVars
  <2> QED
    BY <1>3, <1>4, <1>10, <2>1
<1> QED
  BY <1>1, <1>5, <1>6, <1>7, <1>8, <1>9, <1>10, StepsInVault

\* The reviewed text of every file that is overwritten after a snapshot commit
\* can be taken from the history of the vault.
THEOREM OverwrittenIsInHistory == Spec => []PreImageInHistory
<1>1. Init => HistoryInv
  <2> SUFFICES ASSUME Init PROVE HistoryInv
    OBVIOUS
  <2>1. IInv /\ OnThePath
    BY InitIInv, InitPath
  <2>2. SnapshotsReviewed
    BY DEF Init, SnapshotsReviewed, ReviewedExists, Snapshotted
  <2> QED
    BY <2>1, <2>2 DEF HistoryInv
<1>2. HistoryInv /\ [Next]_vars => HistoryInv'
  <2> SUFFICES ASSUME HistoryInv, [Next]_vars PROVE HistoryInv'
    OBVIOUS
  <2>1. IInv /\ OnThePath /\ ReviewedExists /\ TypeOK /\ TypeOK' /\ IInv' /\ OnThePath'
    BY NextIInv, NextTypeOK, NextPath DEF HistoryInv, IInv, SnapshotsReviewed
  <2>2. ReviewedExists'
    BY <2>1, NextReviewedExists
  <2>3. ASSUME NEW q \in Requests PROVE Snapshotted(q)'
    <3>1. Snapshotted(q)
      BY DEF HistoryInv, SnapshotsReviewed
    <3>2. CASE \E r \in Requests : Receive(r) \/ Step(r)
      <4>1. PICK r \in Requests : Receive(r) \/ Step(r)
        BY <3>2
      <4>2. CASE r = q
        BY <2>1, <3>1, <4>1, <4>2, SnapshottedStep
      <4>3. CASE r # q
        BY <2>1, <3>1, <4>1, <4>3, OthersStandStill, SnapshottedLater
      <4> QED
        BY <4>2, <4>3
    <3>3. CASE Crash
      BY <3>3 DEF Crash, InFlight, Snapshotted
    <3>4. CASE StandStill
      BY <2>1, <3>1, <3>4, SnapshottedLater DEF StandStill
    <3> QED
      BY <2>1, <3>2, <3>3, <3>4, OutsideSteps DEF Next
  <2> QED
    BY <2>1, <2>2, <2>3 DEF HistoryInv, SnapshotsReviewed
<1>3. HistoryInv => PreImageInHistory
  BY DEF HistoryInv, SnapshotsReviewed, Snapshotted, Reviews, Carries, PreImageInHistory
<1> QED
  BY <1>1, <1>2, <1>3, PTL DEF Spec

-----------------------------------------------------------------------------
LEMMA EndVaultReports ==
  ASSUME TypeOK, NEW r \in Requests, NEW status, EndVault(r, status), Path(r),
         pc[r] \in InVaultPCs, NEW o \in Ops, ApplyOf[r] = OpApply[o],
         \/ res[r][VaultOf[OpFile[o]]] = "manual"
         \/ status = "manual" /\ cur[r] = VaultOf[OpFile[o]]
  PROVE  Responsible(r, o)'
<1>1. pc'[r] = "next" /\ res'[r] = [res[r] EXCEPT ![cur[r]] = status]
  BY DEF EndVault, Goto, TypeOK
<1>2. VaultOf[OpFile[o]] \in Vaults /\ res[r] \in Results /\ res[r][cur[r]] = "none"
  BY ConstantsAssumption DEF TypeOK, Path
<1>3. res'[r][VaultOf[OpFile[o]]] = "manual"
  BY <1>1, <1>2 DEF Results
<1> QED
  BY <1>1, <1>3 DEF Responsible, Answered

LEMMA RaiseReports ==
  ASSUME TypeOK, NEW r \in Requests, Raise(r), NEW o \in Ops, ApplyOf[r] = OpApply[o]
  PROVE  Responsible(r, o)'
BY DEF Raise, Answer, Responsible, TypeOK

\* The end of one vault does not hide that another needs manual recovery.
LEMMA ManualStays ==
  ASSUME TypeOK, NEW r \in Requests, Receive(r) \/ Step(r), Path(r),
         NEW o \in Ops, ApplyOf[r] = OpApply[o],
         pc[r] \notin Answered, res[r][VaultOf[OpFile[o]]] = "manual"
  PROVE  Responsible(r, o)'
<1> DEFINE v == VaultOf[OpFile[o]]
<1> USE DEF Answered
<1>1. v \in Vaults
  BY ConstantsAssumption
<1>2. pc[r] \notin {"idle", "locking", "begin"} /\ v \notin todo[r]
  BY <1>1 DEF Path, NoResult
<1>3. ASSUME NEW l, Goto(r, l), l \notin Answered, UNCHANGED res PROVE Responsible(r, o)'
  BY <1>3 DEF Responsible, Goto, TypeOK
<1>4. ~Receive(r) /\ ~Acquire(r) /\ ~Reject(r) /\ ~SaveInProgress(r) /\ ~Unlock(r)
  BY <1>2 DEF Receive, Acquire, Reject, SaveInProgress, Unlock
<1>5. CASE \E u \in Vaults : StartVault(r, u)
  <2>1. PICK u \in Vaults : StartVault(r, u)
    BY <1>5
  <2>2. CASE Raise(r)
    BY <2>2, RaiseReports
  <2>3. CASE ~Raise(r)
    <3>1. /\ pc[r] = "next" /\ u \in todo[r]
          /\ res' = res \/ res' = [res EXCEPT ![r][u] = "failed"]
          /\ pc' = pc \/ pc' = [pc EXCEPT ![r] = "identity"]
      BY <2>1, <2>3 DEF StartVault, Goto
    <3>2. u # v /\ pc'[r] \notin Answered
      BY <1>2, <3>1 DEF TypeOK
    <3>3. res'[r][v] = "manual"
      BY <1>1, <3>1, <3>2 DEF TypeOK, Results
    <3> QED
      BY <3>2, <3>3 DEF Responsible
  <2> QED
    BY <2>2, <2>3
<1>6. CASE Preflight(r)
  <2>1. pc[r] = "identity" /\ pc[r] \in InVaultPCs
    BY <1>6 DEF Preflight, InVaultPCs
  <2> QED
    BY <1>3, <1>6, <2>1, EndVaultReports, RaiseReports DEF Preflight
<1>7. CASE Snapshot(r)
  BY <1>3, <1>7, RaiseReports, GitRaisesGit DEF Snapshot
<1>8. CASE \E f \in Files : ReadFile(r, f)
  <2>1. pc[r] = "files" /\ pc[r] \in InVaultPCs
    BY <1>8 DEF ReadFile, InVaultPCs, Sync
  <2> QED
    BY <1>3, <1>8, <2>1, EndVaultReports, RaiseReports DEF ReadFile, FailVault
<1>9. CASE WriteFile(r)
  <2>1. pc[r] = "write" /\ pc[r] \in InVaultPCs
    BY <1>9 DEF WriteFile, InVaultPCs, Sync
  <2> QED
    BY <1>3, <1>9, <2>1, EndVaultReports, RaiseReports DEF WriteFile, FailVault
<1>10. CASE Commit(r)
  <2>1. pc[r] = "files" /\ pc[r] \in InVaultPCs
    BY <1>10 DEF Commit, InVaultPCs, Sync
  <2> QED
    BY <1>3, <1>10, <2>1, EndVaultReports, RaiseReports, GitRaisesGit DEF Commit, localVars
<1>11. CASE Reindex(r)
  <2>1. pc[r] = "reindex" /\ pc[r] \in InVaultPCs
    BY <1>11 DEF Reindex, InVaultPCs
  <2> QED
    BY <1>11, <2>1, EndVaultReports DEF Reindex
<1>12. CASE Complete(r)
  BY <1>12 DEF Complete, Answer, Responsible, TypeOK
<1> QED
  BY <1>4, <1>5, <1>6, <1>7, <1>8, <1>9, <1>10, <1>11, <1>12 DEF Step

\* An execution that has written a file commits it, or says that it could not.
LEMMA WrittenIsReported ==
  ASSUME TypeOK, TypeOK', NEW r \in Requests, Receive(r) \/ Step(r), Path(r),
         NEW o \in Ops, ApplyOf[r] = OpApply[o], pc[r] \in Sync, OpFile[o] \in written[r]
  PROVE  Responsible(r, o)' \/ disk'[OpFile[o]].ops[o] <= head'[OpFile[o]].ops[o]
<1> DEFINE f == OpFile[o]
<1> USE DEF Sync
<1>1. f \in Files /\ InVault(f, cur[r]) /\ written[r] # {} /\ pc[r] \in InVaultPCs
  BY FilesInFacts DEF Path, InVaultPCs
<1>2. ASSUME EndVault(r, "manual") \/ FailVault(r) PROVE Responsible(r, o)'
  BY <1>1, <1>2, EndVaultReports DEF FailVault, InVault
<1>3. ASSUME pc'[r] \in Sync, written[r] \subseteq written'[r] PROVE Responsible(r, o)'
  BY <1>3 DEF Responsible
<1>4. pc[r] # "snapshot"
  BY <1>1 DEF Path, BeforeFiles
<1>5. CASE \E g \in Files : ReadFile(r, g)
  BY <1>2, <1>3, <1>5, RaiseReports DEF ReadFile, Goto, TypeOK
<1>6. CASE WriteFile(r)
  BY <1>2, <1>3, <1>6, RaiseReports DEF WriteFile, Goto, TypeOK
<1>7. CASE Commit(r)
  <2>1. CASE EndVault(r, "manual")
    BY <1>2, <2>1
  <2>2. CASE Stage(written[r]) /\ CommitIndex(cur[r])
    <3>1. disk'[f] = disk[f] /\ staged'[f] = disk[f] /\ head'[f] = staged'[f]
      BY <1>1, <1>7, <2>2, CommittedOps DEF Commit, Stage
    <3>2. disk[f].ops[o] \in Nat
      BY <1>1 DEF TypeOK, Content
    <3> QED
      BY <3>1, <3>2
  <2> QED
    BY <1>7, <2>1, <2>2, RaiseReports, GitRaisesGit DEF Commit
<1> QED
  BY <1>4, <1>5, <1>6, <1>7, RaiseReports
     DEF Receive, Step, Acquire, Reject, SaveInProgress, StartVault, Preflight, Snapshot,
         Reindex, Complete, Unlock

LEMMA AnswerStays ==
  ASSUME TypeOK, NEW r \in Requests, Receive(r) \/ Step(r), Path(r),
         NEW o \in Ops, ApplyOf[r] = OpApply[o],
         \/ answer[r].code = 500
         \/ answer[r].results[VaultOf[OpFile[o]]] = "manual"
  PROVE  Responsible(r, o)'
<1>1. VaultOf[OpFile[o]] \in Vaults
  BY ConstantsAssumption
<1>2. pc[r] \in Answered
  BY <1>1 DEF Path, Answer, NoResult
<1>3. Unlock(r)
  BY <1>2 DEF Receive, Step, Acquire, Reject, SaveInProgress, StartVault, Preflight, Snapshot,
              ReadFile, WriteFile, Commit, Reindex, Complete, Answered
<1>4. UNCHANGED answer
  BY <1>3 DEF Unlock
<1> QED
  BY <1>4 DEF Responsible

LEMMA StepResponsible ==
  ASSUME IInv, OnThePath, [Next]_vars, NEW r \in Requests, NEW o \in Ops, Responsible(r, o)
  PROVE  Responsible(r, o)' \/ disk'[OpFile[o]].ops[o] <= head'[OpFile[o]].ops[o]
<1>1. TypeOK /\ TypeOK' /\ Path(r) /\ VaultOf[OpFile[o]] \in Vaults /\ ApplyOf[r] = OpApply[o]
  BY NextTypeOK, ConstantsAssumption DEF IInv, OnThePath, Responsible
<1>2. CASE Receive(r) \/ Step(r)
  <2>1. pc[r] # "dead"
    BY <1>2 DEF Receive, Step, Acquire, Reject, SaveInProgress, StartVault, Preflight, Snapshot,
                ReadFile, WriteFile, Commit, Reindex, Complete, Unlock
  <2> QED
    BY <1>1, <1>2, <2>1, ManualStays, WrittenIsReported, AnswerStays DEF Responsible
<1>3. CASE UNCHANGED LocalsOf(r)
  BY <1>3 DEF LocalsOf, Responsible
<1>4. CASE Crash
  <2>1. /\ pc'[r] = IF pc[r] \in {"idle", "done", "dead"} THEN pc[r] ELSE "dead"
        /\ answer' = answer
    BY <1>4 DEF Crash, InFlight
  <2>2. pc[r] = "idle" => res[r][VaultOf[OpFile[o]]] # "manual"
    BY <1>1 DEF Path, NoResult
  <2> QED
    BY <1>1, <2>1, <2>2 DEF Responsible, Sync, Answered
<1>5. CASE \E q \in Requests : Receive(q) \/ Step(q)
  BY <1>1, <1>2, <1>3, <1>5, OthersStandStill
<1> QED
  BY <1>1, <1>3, <1>4, <1>5, OutsideSteps DEF Next, StandStill

LEMMA NextResponsible ==
  IInv /\ OnThePath /\ IndexBetween /\ SomebodyIsResponsible /\ [Next]_vars
    => SomebodyIsResponsible'
<1> SUFFICES ASSUME IInv, OnThePath, IndexBetween, SomebodyIsResponsible, [Next]_vars,
                    NEW o \in Ops, disk'[OpFile[o]].ops[o] > head'[OpFile[o]].ops[o]
             PROVE  \E r \in Requests : Responsible(r, o)'
  BY DEF SomebodyIsResponsible
<1> DEFINE f == OpFile[o]
<1>1. /\ f \in Files /\ TypeOK /\ TypeOK'
      /\ disk[f].ops[o] \in Nat /\ head[f].ops[o] \in Nat
      /\ disk'[f].ops[o] \in Nat /\ head'[f].ops[o] \in Nat
      /\ head'[f].ops[o] >= head[f].ops[o]
  <2>1. f \in Files /\ TypeOK /\ TypeOK'
    BY NextTypeOK, ConstantsAssumption DEF IInv
  <2> QED
    BY <2>1, GitGrows DEF TypeOK, Content
<1>2. CASE disk[f].ops[o] > head[f].ops[o]
  <2>1. PICK r \in Requests : Responsible(r, o)
    BY <1>2 DEF SomebodyIsResponsible
  <2>2. ~(disk'[f].ops[o] <= head'[f].ops[o])
    BY <1>1
  <2> QED
    BY <2>1, <2>2, StepResponsible
<1>3. CASE ~(disk[f].ops[o] > head[f].ops[o])
  <2>1. disk'[f].ops[o] # disk[f].ops[o]
    BY <1>1, <1>3
  <2>2. \A e \in Edits : ~UserEdit(e)
    BY <1>1, <2>1, EditStep
  <2>3. disk' # disk
    BY <2>1
  <2>4. PICK r \in Requests : pc[r] = "write" /\ disk' = [disk EXCEPT ![target[r]] = buf[r]]
    BY <2>2, <2>3, DiskSteps
  <2>5. /\ \A g \in Files : g # target[r] => disk'[g] = disk[g]
        /\ \A p \in Ops : disk'[target[r]].ops[p] =
             IF p \in OpsOf(ApplyOf[r], target[r]) THEN disk[target[r]].ops[p] + 1
                                                   ELSE disk[target[r]].ops[p]
    BY <2>4, WriteChangesOneBatch
  <2>6. f = target[r] /\ OpApply[o] = ApplyOf[r]
    BY <1>1, <2>1, <2>5 DEF OpsOf
  <2>7. WriteFile(r)
    <3>1. PICK q \in Requests : WriteFile(q)
      BY <2>2, <2>3 DEF Next, Step, Acquire, Reject, SaveInProgress, StartVault, Preflight,
         Snapshot, ReadFile, Commit, Reindex, Complete, Unlock, Resolve, Receive, ExpireLock,
         ExpireRecord, Crash, vars
    <3>2. q = r
      BY <2>4, <3>1 DEF WriteFile, IInv, OneInSync, Sync
    <3> QED
      BY <3>1, <3>2
  <2>8. pc'[r] = "files" /\ written'[r] = written[r] \union {f}
    BY <1>1, <2>3, <2>6, <2>7 DEF WriteFile, Goto, TypeOK
  <2> QED
    BY <2>6, <2>8 DEF Responsible, Sync
<1> QED
  BY <1>2, <1>3

\* When all requests of an apply have their answers, a change that is on disk and
\* not in HEAD has been reported: some answer asks for manual recovery or is an error.
THEOREM NothingStaysUncommittedInSilence == Spec => []UncommittedIsReported
<1>1. Init => ReportInv
  <2> SUFFICES ASSUME Init PROVE ReportInv
    OBVIOUS
  <2>1. SomebodyIsResponsible
    <3> SUFFICES ASSUME NEW o \in Ops PROVE ~(disk[OpFile[o]].ops[o] > head[OpFile[o]].ops[o])
      BY DEF SomebodyIsResponsible
    <3>1. OpFile[o] \in Files
      BY ConstantsAssumption
    <3> QED
      BY <3>1 DEF Init, Absent, Empty
  <2> QED
    BY <2>1, InitIInv, InitPath, InitBetween DEF ReportInv
<1>2. ReportInv /\ [Next]_vars => ReportInv'
  BY NextIInv, NextTypeOK, NextPath, NextBetween, NextResponsible DEF ReportInv, IInv
<1>3. ReportInv => UncommittedIsReported
  <2> SUFFICES ASSUME ReportInv, NEW o \in Ops, Uncommitted(o)
               PROVE  \E r \in Requests : \/ ManualFor(r, o)
                                          \/ ApplyOf[r] = OpApply[o] /\ answer[r].code = 500
    BY DEF UncommittedIsReported
  <2>1. PICK r \in Requests : Responsible(r, o)
    BY DEF Uncommitted, ReportInv, SomebodyIsResponsible
  <2>2. pc[r] \in {"idle", "done"} /\ Path(r) /\ VaultOf[OpFile[o]] \in Vaults
    BY <2>1, ConstantsAssumption DEF Uncommitted, Settled, Responsible, ReportInv, OnThePath
  <2> QED
    BY <2>1, <2>2 DEF Responsible, ManualFor, Path, NoResult, Sync, Answered
<1> QED
  BY <1>1, <1>2, <1>3, PTL DEF Spec
=============================================================================
