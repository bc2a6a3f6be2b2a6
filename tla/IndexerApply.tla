---------------------------- MODULE IndexerApply ----------------------------
(***************************************************************************)
(* rag-indexer, update mode: /resolve and /apply.  The executions of       *)
(* apply_changes in one asyncio process, the Redis record and lock of each *)
(* apply_id, the vault files, the git index and HEAD of every vault, and   *)
(* the user who edits vault files from outside.                            *)
(*                                                                         *)
(* The process is single threaded: a coroutine gives up the event loop     *)
(* only at an await.  Between the answer of the identity query and the     *)
(* start of the reindex task apply_changes awaits nothing, so while one    *)
(* execution is in that section (Sync) no other coroutine runs.  A crash,  *)
(* an expiring Redis key and the user's editor do not wait for it.         *)
(***************************************************************************)
EXTENDS Naturals, FiniteSets

CONSTANTS
  Requests,        \* executions of apply_changes
  Applies,         \* apply ids
  ApplyOf,         \* ApplyOf[r] : the apply id request r carries
  Vaults, Files,
  VaultOf,         \* VaultOf[f] : the vault a file lives in
  Ops,             \* accepted changes; an op is its resolve_order
  OpApply,         \* OpApply[o] : the apply an op belongs to
  OpFile,          \* OpFile[o] : the file it changes
  Rank,            \* Rank[o] : 0 delete, 1 replace, 2 append, 3 create
  Edits,           \* what the user does with an editor
  EditFile,        \* EditFile[e] : the file an edit goes to
  Breaks,          \* pairs <<x, o>>: op or edit x removes the anchor of op o
  Existing,        \* files present, and committed, at the start
  LockCanExpire,   \* the 30 s lock key may expire while its holder works
  RecordCanExpire, \* the 3 h record may expire before a late retry
  CanCrash,        \* the process may die and be restarted
  DiskCanFail,     \* a vault root, a read or a write may fail
  GitCanFail,      \* git may return non-zero, or not start at all
  None

Create == 3

ASSUME ConstantsAssumption ==
  /\ ApplyOf \in [Requests -> Applies]
  /\ VaultOf \in [Files -> Vaults]
  /\ Ops \subseteq Nat
  /\ OpApply \in [Ops -> Applies]
  /\ OpFile \in [Ops -> Files]
  /\ Rank \in [Ops -> 0..Create]
  /\ EditFile \in [Edits -> Files]
  /\ Breaks \subseteq (Ops \union Edits) \X Ops
  /\ Existing \subseteq Files
  /\ {LockCanExpire, RecordCanExpire, CanCrash, DiskCanFail, GitCanFail}
       \subseteq BOOLEAN

(***************************************************************************)
(* File contents: how often each op has been applied to the text and which *)
(* user edits it carries.  Equal contents have equal sha256.               *)
(***************************************************************************)
Content == [exists : BOOLEAN, ops : [Ops -> Nat], edits : SUBSET Edits]
Absent  == [exists |-> FALSE, ops |-> [o \in Ops |-> 0], edits |-> {}]
Empty   == [Absent EXCEPT !.exists = TRUE]

ASSUME NoneAssumption == None \notin Content

\* The batch of a file: one per (vault_id, file_path), ordered by
\* resolve_order; the first op gives the batch its action and its sha.
OpsOf(a, f)    == {o \in Ops : OpApply[o] = a /\ OpFile[o] = f}
Batch(o)       == OpsOf(OpApply[o], OpFile[o])
IsFirst(o)     == \A p \in Batch(o) : o <= p
IsUpdate(a, f) == \E o \in OpsOf(a, f) : IsFirst(o) /\ Rank[o] # Create
FilesIn(a, v)  == {f \in Files : VaultOf[f] = v /\ OpsOf(a, f) # {}}
VaultsOf(a)    == {VaultOf[OpFile[o]] : o \in {p \in Ops : OpApply[p] = a}}

\* The anchor of op o is still in text c.
AnchorIn(c, o) ==
  \A x \in Ops \union Edits :
     <<x, o>> \in Breaks => x \notin c.edits /\ (x \in Ops => c.ops[x] = 0)

\* apply_op runs over the batch, sorted by rank, on one buffer: an op finds
\* its anchor if neither the text nor an op before it has removed it.
Before(p, o) == Rank[p] < Rank[o] \/ (Rank[p] = Rank[o] /\ p < o)
AnchorsFound(c, S) ==
  \A o \in S : /\ AnchorIn(c, o)
               /\ \A p \in S : Before(p, o) => <<p, o>> \notin Breaks

\* Mutant: the batch loses its first op.
ApplyRestOfBatch(c, S) ==
  [exists |-> TRUE,
   ops    |-> [o \in Ops |-> IF o \in S /\ ~IsFirst(o) THEN c.ops[o] + 1 ELSE c.ops[o]],
   edits  |-> c.edits]

ApplyBatch(c, S) ==
  [exists |-> TRUE,
   ops    |-> [o \in Ops |-> IF o \in S THEN c.ops[o] + 1 ELSE c.ops[o]],
   edits  |-> c.edits]

\* The op that carries the sha stays first when the batch is sorted by rank;
\* otherwise building the sorted batch raises a validation error.
ShaStaysFirst(a, f) ==
  \A o \in OpsOf(a, f) : IsFirst(o) => \A p \in OpsOf(a, f) : Rank[o] <= Rank[p]

VARIABLES
  \* Redis
  record,   \* record[a] : status of the idempotency record
  cached,   \* cached[a] : the per-vault results stored with it
  lock,     \* lock[a] : None, or the request whose SET NX made the key
  \* vaults, per file: working tree, git index, HEAD, and every content that
  \* some commit holds
  disk, staged, head, history,
  expected, \* expected[o] : the text /resolve read for op o, None before it
  \* executions of apply_changes and their local variables
  pc, todo, cur, left, written, buf, target, snap, res,
  answer,   \* answer[r] : HTTP code (0: none yet) and per-vault results
  \* the user
  edited,   \* edits made
  exposed   \* edits made while a write of the same file was in flight

redisVars == <<record, cached, lock>>
gitVars   == <<staged, head, history>>
localVars == <<todo, cur, left, written, buf, target, snap, res>>
userVars  == <<edited, exposed>>
vars == <<redisVars, disk, gitVars, expected, pc, localVars, answer, userVars>>

Sync     == {"snapshot", "files", "write"}
PCs      == Sync \union {"idle", "locking", "begin", "next", "identity",
                         "reindex", "unlock", "done", "dead"}
Results  == [Vaults -> {"none", "applied", "conflict", "failed", "manual"}]
NoResult == [v \in Vaults |-> "none"]
Answer(code, results) == [code |-> code, results |-> results]

TypeOK ==
  /\ record \in [Applies -> {"none", "in_progress", "completed"}]
  /\ cached \in [Applies -> Results]
  /\ lock \in [Applies -> Requests \union {None}]
  /\ disk \in [Files -> Content]
  /\ staged \in [Files -> Content]
  /\ head \in [Files -> Content]
  /\ history \in [Files -> SUBSET Content]
  /\ expected \in [Ops -> Content \union {None}]
  /\ pc \in [Requests -> PCs]
  /\ todo \in [Requests -> SUBSET Vaults]
  /\ cur \in [Requests -> Vaults \union {None}]
  /\ left \in [Requests -> SUBSET Files]
  /\ written \in [Requests -> SUBSET (Files \union {None})]
  /\ buf \in [Requests -> Content]
  /\ target \in [Requests -> Files \union {None}]
  /\ snap \in [Requests -> BOOLEAN]
  /\ res \in [Requests -> Results]
  /\ answer \in [Requests -> [code : {0, 200, 409, 500}, results : Results]]
  /\ edited \in SUBSET Edits
  /\ exposed \in SUBSET edited

Init ==
  /\ record = [a \in Applies |-> "none"]
  /\ cached = [a \in Applies |-> NoResult]
  /\ lock = [a \in Applies |-> None]
  /\ disk = [f \in Files |-> IF f \in Existing THEN Empty ELSE Absent]
  /\ staged = disk
  /\ head = disk
  /\ history = [f \in Files |-> {disk[f]}]
  /\ expected = [o \in Ops |-> None]
  /\ pc = [r \in Requests |-> "idle"]
  /\ todo = [r \in Requests |-> {}]
  /\ cur = [r \in Requests |-> None]
  /\ left = [r \in Requests |-> {}]
  /\ written = [r \in Requests |-> {}]
  /\ buf = [r \in Requests |-> Absent]
  /\ target = [r \in Requests |-> None]
  /\ snap = [r \in Requests |-> FALSE]
  /\ res = [r \in Requests |-> NoResult]
  /\ answer = [r \in Requests |-> Answer(0, NoResult)]
  /\ edited = {}
  /\ exposed = {}

-----------------------------------------------------------------------------
\* Mutant: handlers run in threads.
Threads(r) == TRUE

\* Event loop: nobody else is between two awaits.
LoopFree(r) == \A q \in Requests \ {r} : pc[q] \notin Sync

Goto(r, l) == pc' = [pc EXCEPT ![r] = l]

\* _apply_vault returns a result for the current vault: on to the next one.
EndVault(r, status) ==
  /\ res' = [res EXCEPT ![r][cur[r]] = status]
  /\ cur' = [cur EXCEPT ![r] = None]
  /\ left' = [left EXCEPT ![r] = {}]
  /\ written' = [written EXCEPT ![r] = {}]
  /\ target' = [target EXCEPT ![r] = None]
  /\ buf' = [buf EXCEPT ![r] = Absent]
  /\ snap' = [snap EXCEPT ![r] = FALSE]
  /\ Goto(r, "next")
  /\ UNCHANGED <<todo, answer>>

\* Mutant: written_paths is not looked at.
FailVaultPlainly(r) == EndVault(r, "failed")

\* A failure after the first write asks for manual recovery.
FailVault(r) == EndVault(r, IF written[r] = {} THEN "failed" ELSE "manual")

\* Mutant: no finally block.
RaiseWithoutFinally(r) ==
  /\ answer' = [answer EXCEPT ![r] = Answer(500, NoResult)]
  /\ Goto(r, "done")
  /\ UNCHANGED localVars

\* An exception leaves _apply_vault: HTTP 500 by way of the finally block.
Raise(r) ==
  /\ answer' = [answer EXCEPT ![r] = Answer(500, NoResult)]
  /\ Goto(r, "unlock")
  /\ UNCHANGED localVars

-----------------------------------------------------------------------------
\* /resolve reads the file of one intent and tries the op on its text; the
\* intents of a proposal are resolved in order, with an await before each.
Resolve(o) ==
  LET f == OpFile[o] IN
  /\ \A r \in Requests : pc[r] \notin Sync
  /\ expected[o] = None
  /\ \A p \in Ops : OpApply[p] = OpApply[o] /\ p < o => expected[p] # None
  /\ IF Rank[o] = Create
     THEN expected' = [expected EXCEPT ![o] = Absent]
     ELSE /\ disk[f].exists
          /\ AnchorIn(disk[f], o)
          /\ expected' = [expected EXCEPT ![o] = disk[f]]
  /\ UNCHANGED <<redisVars, disk, gitVars, pc, localVars, answer, userVars>>

\* The request arrives; a completed record answers it.
Receive(r) ==
  LET a == ApplyOf[r] IN
  /\ pc[r] = "idle"
  /\ LoopFree(r)
  /\ \A o \in Ops : OpApply[o] = a => expected[o] # None
  /\ IF record[a] = "completed"
     THEN /\ answer' = [answer EXCEPT ![r] = Answer(200, cached[a])]
          /\ Goto(r, "done")
     ELSE Goto(r, "locking") /\ UNCHANGED answer
  /\ UNCHANGED <<redisVars, disk, gitVars, expected, localVars, userVars>>

\* SET lock NX; whoever finds the key answers 409.
LockIsFree(a) == lock[a] = None

Acquire(r) ==
  LET a == ApplyOf[r] IN
  /\ pc[r] = "locking"
  /\ LoopFree(r)
  /\ LockIsFree(a)
  /\ lock' = [lock EXCEPT ![a] = r]
  /\ Goto(r, "begin")
  /\ UNCHANGED <<record, cached, disk, gitVars, expected, localVars, answer, userVars>>

\* Mutant: a code the client does not know.
Locked423 == 423

InProgress == 409

Reject(r) ==
  /\ pc[r] = "locking"
  /\ LoopFree(r)
  /\ ~LockIsFree(ApplyOf[r])
  /\ answer' = [answer EXCEPT ![r] = Answer(InProgress, NoResult)]
  /\ Goto(r, "done")
  /\ UNCHANGED <<redisVars, disk, gitVars, expected, localVars, userVars>>

SaveInProgress(r) ==
  LET a == ApplyOf[r] IN
  /\ pc[r] = "begin"
  /\ LoopFree(r)
  /\ record' = [record EXCEPT ![a] = "in_progress"]
  /\ cached' = [cached EXCEPT ![a] = NoResult]
  /\ todo' = [todo EXCEPT ![r] = VaultsOf(a)]
  /\ Goto(r, "next")
  /\ UNCHANGED <<lock, disk, gitVars, expected, cur, left, written, buf, target,
                 snap, res, answer, userVars>>

\* Vault root and git init, then the query for the git identity.
StartVault(r, v) ==
  /\ pc[r] = "next"
  /\ LoopFree(r)
  /\ v \in todo[r]
  /\ \/ /\ todo' = [todo EXCEPT ![r] = @ \ {v}]
        /\ cur' = [cur EXCEPT ![r] = v]
        /\ Goto(r, "identity")
        /\ UNCHANGED <<left, written, buf, target, snap, res, answer>>
     \/ /\ DiskCanFail \/ GitCanFail
        /\ todo' = [todo EXCEPT ![r] = @ \ {v}]
        /\ res' = [res EXCEPT ![r][v] = "failed"]
        /\ UNCHANGED <<cur, pc, left, written, buf, target, snap, answer>>
     \/ (DiskCanFail \/ GitCanFail) /\ Raise(r)
  /\ UNCHANGED <<redisVars, disk, gitVars, expected, userVars>>

-----------------------------------------------------------------------------
\* Mutant: no comparison with expected_sha256.
NeverStale(r) == {}

\* The files of the current vault that changed since /resolve.
Stale(r) ==
  {f \in FilesIn(ApplyOf[r], cur[r]) :
     \E o \in OpsOf(ApplyOf[r], f) :
        IsFirst(o) /\ Rank[o] # Create /\ disk[f] # expected[o]}

\* Sort the batches, then compare every update file with its sha.  Nothing catches the
\* error of a file that cannot be read.
Preflight(r) ==
  LET F == FilesIn(ApplyOf[r], cur[r]) IN
  /\ pc[r] = "identity"
  /\ LoopFree(r)
  /\ IF \E f \in F : IsUpdate(ApplyOf[r], f) /\ ~ShaStaysFirst(ApplyOf[r], f)
     THEN Raise(r)
     ELSE \/ Stale(r) # {} /\ EndVault(r, "conflict")
          \/ /\ Stale(r) = {}
             /\ left' = [left EXCEPT ![r] = F]
             /\ Goto(r, "snapshot")
             /\ UNCHANGED <<todo, cur, written, buf, target, snap, res, answer>>
          \/ /\ DiskCanFail
             /\ \E f \in F : IsUpdate(ApplyOf[r], f) /\ disk[f].exists
             /\ Raise(r)
  /\ UNCHANGED <<redisVars, disk, gitVars, expected, userVars>>

InVault(f, v) == VaultOf[f] = v

\* Mutant: the return code of git commit is not looked at.
CommitUnchecked(v) == UNCHANGED <<head, history>>

\* git commit takes the whole index of the vault.
CommitIndex(v) ==
  /\ head' = [f \in Files |-> IF InVault(f, v) THEN staged'[f] ELSE head[f]]
  /\ history' = [f \in Files |-> history[f] \union {head'[f]}]

\* Mutant: git add is forgotten; --allow-empty hides it.
StageNothing(S) == UNCHANGED staged

Stage(S) == staged' = [f \in Files |-> IF f \in S THEN disk[f] ELSE staged[f]]

\* Git cannot be started for some file, for the commit or for the sha of the commit it
\* has made: not a GitError.
GitRaises(r, T) ==
  /\ GitCanFail
  /\ \/ (\E S \in SUBSET T : Stage(S)) /\ UNCHANGED <<head, history>>
     \/ Stage(T) /\ CommitIndex(cur[r])
  /\ Raise(r)

\* git_snapshot: a GitError leaves what was added in the index and is ignored.
Snapshot(r) ==
  LET T == {f \in left[r] : IsUpdate(ApplyOf[r], f) /\ disk[f].exists}
      goOn == Goto(r, "files") /\ UNCHANGED <<todo, cur, left, written, buf, target, res, answer>> IN
  /\ pc[r] = "snapshot"
  /\ \/ /\ T # {}
        /\ Stage(T)
        /\ CommitIndex(cur[r])
        /\ snap' = [snap EXCEPT ![r] = TRUE]
        /\ goOn
     \/ /\ T # {}
        /\ GitCanFail
        /\ \E S \in SUBSET T : Stage(S)
        /\ UNCHANGED <<head, history, snap>>
        /\ goOn
     \/ T # {} /\ GitRaises(r, T)
     \/ /\ T = {}
        /\ UNCHANGED <<gitVars, snap>>
        /\ goOn
  /\ UNCHANGED <<redisVars, disk, expected, userVars>>

\* Mutant: the text kept from /resolve instead of the file.
ReviewedText(r, f) ==
  IF IsUpdate(ApplyOf[r], f)
  THEN expected[CHOOSE o \in OpsOf(ApplyOf[r], f) : IsFirst(o)]
  ELSE disk[f]

CurrentText(r, f) == disk[f]

\* Read one file, apply its batch in memory.
ReadFile(r, f) ==
  LET S == OpsOf(ApplyOf[r], f)
      c == CurrentText(r, f) IN
  /\ pc[r] = "files"
  /\ f \in left[r]
  /\ \/ /\ ~AnchorsFound(c, S)
        /\ FailVault(r)
     \/ /\ AnchorsFound(c, S)
        /\ buf' = [buf EXCEPT ![r] = ApplyBatch(c, S)]
        /\ target' = [target EXCEPT ![r] = f]
        /\ left' = [left EXCEPT ![r] = @ \ {f}]
        /\ Goto(r, "write")
        /\ UNCHANGED <<todo, cur, written, snap, res, answer>>
     \/ DiskCanFail /\ Raise(r)
  /\ UNCHANGED <<redisVars, disk, gitVars, expected, userVars>>

\* atomic_write renames a temporary file over the target.
WriteFile(r) ==
  LET f == target[r] IN
  /\ pc[r] = "write"
  /\ \/ /\ disk' = [disk EXCEPT ![f] = buf[r]]
        /\ written' = [written EXCEPT ![r] = @ \union {f}]
        /\ target' = [target EXCEPT ![r] = None]
        /\ buf' = [buf EXCEPT ![r] = Absent]
        /\ Goto(r, "files")
        /\ UNCHANGED <<todo, cur, left, snap, res, answer>>
     \/ DiskCanFail /\ FailVault(r) /\ UNCHANGED disk
     \/ DiskCanFail /\ Raise(r) /\ UNCHANGED disk
  /\ UNCHANGED <<redisVars, gitVars, expected, userVars>>

\* git_apply_commit: without --allow-empty it fails on an unchanged index.
Commit(r) ==
  LET v == cur[r] IN
  /\ pc[r] = "files"
  /\ left[r] = {}
  /\ \/ /\ Stage(written[r])
        /\ \E f \in Files : InVault(f, v) /\ staged'[f] # head[f]
        /\ CommitIndex(v)
        /\ Goto(r, "reindex")
        /\ UNCHANGED <<localVars, answer>>
     \/ /\ Stage(written[r])
        /\ \A f \in Files : InVault(f, v) => staged'[f] = head[f]
        /\ EndVault(r, "manual")
        /\ UNCHANGED <<head, history>>
     \/ /\ GitCanFail
        /\ \E S \in SUBSET written[r] : Stage(S)
        /\ EndVault(r, "manual")
        /\ UNCHANGED <<head, history>>
     \/ GitRaises(r, written[r])
  /\ UNCHANGED <<redisVars, disk, expected, userVars>>

\* start_task; the vault is applied whether or not the reindex starts.
Reindex(r) ==
  /\ pc[r] = "reindex"
  /\ LoopFree(r)
  /\ EndVault(r, "applied")
  /\ UNCHANGED <<redisVars, disk, gitVars, expected, userVars>>

Complete(r) ==
  LET a == ApplyOf[r] IN
  /\ pc[r] = "next"
  /\ LoopFree(r)
  /\ todo[r] = {}
  /\ record' = [record EXCEPT ![a] = "completed"]
  /\ cached' = [cached EXCEPT ![a] = res[r]]
  /\ answer' = [answer EXCEPT ![r] = Answer(200, res[r])]
  /\ Goto(r, "unlock")
  /\ UNCHANGED <<lock, disk, gitVars, expected, localVars, userVars>>

\* finally: DEL lock, whoever owns the key; the local variables are gone.
Unlock(r) ==
  /\ pc[r] = "unlock"
  /\ LoopFree(r)
  /\ lock' = [lock EXCEPT ![ApplyOf[r]] = None]
  /\ todo' = [todo EXCEPT ![r] = {}]
  /\ cur' = [cur EXCEPT ![r] = None]
  /\ left' = [left EXCEPT ![r] = {}]
  /\ written' = [written EXCEPT ![r] = {}]
  /\ buf' = [buf EXCEPT ![r] = Absent]
  /\ target' = [target EXCEPT ![r] = None]
  /\ snap' = [snap EXCEPT ![r] = FALSE]
  /\ res' = [res EXCEPT ![r] = NoResult]
  /\ Goto(r, "done")
  /\ UNCHANGED <<record, cached, disk, gitVars, expected, answer, userVars>>

-----------------------------------------------------------------------------
\* Redis time-outs.  The key of a dead process always expires.
ExpireLock(a) ==
  /\ lock[a] # None
  /\ LockCanExpire \/ pc[lock[a]] = "dead"
  /\ lock' = [lock EXCEPT ![a] = None]
  /\ UNCHANGED <<record, cached, disk, gitVars, expected, pc, localVars, answer, userVars>>

ExpireRecord(a) ==
  /\ RecordCanExpire
  /\ record[a] # "none"
  /\ record' = [record EXCEPT ![a] = "none"]
  /\ cached' = [cached EXCEPT ![a] = NoResult]
  /\ UNCHANGED <<lock, disk, gitVars, expected, pc, localVars, answer, userVars>>

\* The process dies and is restarted: its coroutines are gone, Redis, the
\* working trees and the git repositories stay.
InFlight == {r \in Requests : pc[r] \notin {"idle", "done", "dead"}}

Crash ==
  /\ CanCrash
  /\ InFlight # {}
  /\ pc' = [r \in Requests |-> IF r \in InFlight THEN "dead" ELSE pc[r]]
  /\ todo' = [r \in Requests |-> {}]
  /\ cur' = [r \in Requests |-> None]
  /\ left' = [r \in Requests |-> {}]
  /\ written' = [r \in Requests |-> {}]
  /\ buf' = [r \in Requests |-> Absent]
  /\ target' = [r \in Requests |-> None]
  /\ snap' = [r \in Requests |-> FALSE]
  /\ res' = [r \in Requests |-> NoResult]
  /\ UNCHANGED <<redisVars, disk, gitVars, expected, answer, userVars>>

\* The user saves a file of a vault from an editor.
UserEdit(e) ==
  LET f == EditFile[e] IN
  /\ e \notin edited
  /\ edited' = edited \union {e}
  /\ disk' = [disk EXCEPT ![f] =
       [exists |-> TRUE, ops |-> @.ops, edits |-> @.edits \union {e}]]
  /\ exposed' = IF \E r \in Requests : pc[r] = "write" /\ target[r] = f
                THEN exposed \union {e} ELSE exposed
  /\ UNCHANGED <<redisVars, gitVars, expected, pc, localVars, answer>>

Step(r) ==
  \/ Acquire(r) \/ Reject(r) \/ SaveInProgress(r)
  \/ \E v \in Vaults : StartVault(r, v)
  \/ Preflight(r) \/ Snapshot(r)
  \/ \E f \in Files : ReadFile(r, f)
  \/ WriteFile(r) \/ Commit(r) \/ Reindex(r) \/ Complete(r) \/ Unlock(r)

Next ==
  \/ \E o \in Ops : Resolve(o)
  \/ \E r \in Requests : Receive(r) \/ Step(r)
  \/ \E a \in Applies : ExpireLock(a) \/ ExpireRecord(a)
  \/ Crash
  \/ \E e \in Edits : UserEdit(e)

Spec == Init /\ [][Next]_vars

\* The event loop runs every coroutine that can go on; Redis drops the key of
\* a dead holder when its time is over.
Fairness ==
  /\ \A r \in Requests : WF_vars(Step(r))
  /\ \A a \in Applies : WF_vars(ExpireLock(a))

FairSpec == Spec /\ Fairness

-----------------------------------------------------------------------------
IsUpdateOp(o) == IsUpdate(OpApply[o], OpFile[o])

\* An accepted change of an existing file reaches its text at most once,
\* whatever duplicates, expiring locks and records, crashes and retries do: a
\* text that already holds it no longer has the reviewed sha256.
UpdateAppliedOnce ==
  \A o \in Ops : IsUpdateOp(o) => disk[OpFile[o]].ops[o] <= 1

\* The changes of one batch reach the file together or not at all.
BatchIsAtomic ==
  \A o \in Ops : \A p \in Batch(o) : disk[OpFile[o]].ops[o] = disk[OpFile[o]].ops[p]

\* An edit the user makes during apply is overwritten only if it lands between
\* the read and the rename of its file.
NoLostEdit ==
  \A e \in edited \ exposed : e \in disk[EditFile[e]].edits

\* Once the snapshot commit succeeded, the reviewed text of every file that
\* apply_changes overwrites is in the git history.
PreImageInHistory ==
  \A r \in Requests : \A f \in written[r] : \A o \in OpsOf(ApplyOf[r], f) :
     snap[r] /\ IsFirst(o) /\ Rank[o] # Create
       => \E h \in history[f] : /\ h.ops = expected[o].ops
                                /\ expected[o].edits \subseteq h.edits

\* A vault answered "applied" has every change of the apply in HEAD.
AppliedIsCommitted ==
  \A r \in Requests, o \in Ops :
     OpApply[o] = ApplyOf[r] /\ answer[r].results[VaultOf[OpFile[o]]] = "applied"
       => head[OpFile[o]].ops[o] >= 1

\* A change that is on disk but not in HEAD when every request of its apply has
\* been answered: some answer asks for manual recovery or is an error.
Settled(a) == \A r \in Requests : ApplyOf[r] = a => pc[r] \in {"idle", "done"}
Uncommitted(o) ==
  /\ Settled(OpApply[o])
  /\ disk[OpFile[o]].ops[o] > head[OpFile[o]].ops[o]
ManualFor(r, o) ==
  /\ ApplyOf[r] = OpApply[o]
  /\ answer[r].results[VaultOf[OpFile[o]]] = "manual"

UncommittedIsReported ==
  \A o \in Ops : Uncommitted(o) =>
     \E r \in Requests : \/ ManualFor(r, o)
                         \/ ApplyOf[r] = OpApply[o] /\ answer[r].code = 500

\* No write takes back a change that another apply has put in the file.
NoLostChange ==
  [][\A o \in Ops : disk'[OpFile[o]].ops[o] >= disk[OpFile[o]].ops[o]]_vars

\* Every execution ends, by an answer or by the death of the process, and
\* gives its lock back.
RequestEnds ==
  \A r \in Requests :
     pc[r] = "locking" ~> pc[r] \in {"done", "dead"} /\ lock[ApplyOf[r]] # r

\* The vault files as their abstract specification sees them: every batch is
\* put into its file in one step, and a batch of an existing file only once.
Reviewed == INSTANCE ReviewedFiles WITH
  Batches <- {Batch(o) : o \in Ops},
  Once    <- {Batch(o) : o \in {p \in Ops : IsUpdateOp(p)}},
  text    <- [f \in Files |-> [ops |-> disk[f].ops, edits |-> disk[f].edits]]

ImplementsReviewedFiles == Reviewed!Spec

-----------------------------------------------------------------------------
\* What the documentation says and the code does not do.

\* "A repeated request with the same apply_id returns the same result and makes
\* no second commit": no change, created files included, is applied twice.
ReplayAppliesNothing ==
  \A o \in Ops : disk[OpFile[o]].ops[o] <= 1
=============================================================================
