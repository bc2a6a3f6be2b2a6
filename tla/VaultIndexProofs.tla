-------------------------- MODULE VaultIndexProofs --------------------------
(***************************************************************************)
(* Proofs about VaultIndex for every set of files, texts, documents and    *)
(* tasks, whatever calls fail, tasks overlap, files vanish or processes die *)
(* in between.                                                             *)
(***************************************************************************)
EXTENDS VaultIndex, TLAPS

-----------------------------------------------------------------------------
(* Types: what is present has a text, and a task has what it works on. *)

FilePcs == {"lookup", "insert", "wipe", "pending", "reread", "parse", "upsert", "mark", "cache"}
DocPcs  == {"wipe", "pending", "upsert", "mark", "cache"}
TaskPcs == FilePcs \union {"free", "dead", "begin", "scan", "compare", "loop", "rollback",
                           "unbind", "error", "bound"}

HasText(s) == s.here => s.text \in Texts
Fit(j) ==
  /\ j \in Jobs
  /\ \A f \in Files : HasText(j.scan[f])
  /\ j.pc \in FilePcs => j.file \in Files /\ j.scan[j.file].here
  /\ j.pc \in DocPcs => j.doc \in Docs
  /\ j.pc \in {"upsert", "mark", "cache"} => j.text \in Texts

DiskTypes  == disk \in [Files -> Snapshot] /\ \A f \in Files : HasText(disk[f])
RowTypes   == row \in [Files -> Rows \union {NoRow}]
ChunkTypes == chunks \in [Docs -> [Slots -> 0..MaxText]]
CacheTypes == cache \in [Files -> Entries \union {NoEntry}]
KeyTypes ==
  /\ binding \in {"unbound", "indexing", "bound", "error"}
  /\ status \in [Tasks -> {"none", "running", "done", "error", "cancelled"}]
  /\ cancel \in SUBSET Tasks
  /\ acts \in 0..MaxActs /\ crashes \in 0..MaxCrashes
JobTypes == job \in [Tasks -> Jobs] /\ \A t \in Tasks : Fit(job[t])
WatchTypes ==
  /\ wd \in Iterations
  /\ \A f \in Files : HasText(wd.disk[f])
  /\ wd.pc \in {"chunks", "row"} => wd.doc \in Docs
  /\ wd.pc \in {"chunks", "row", "entry"} => wd.file \in Files
Types ==
  DiskTypes /\ RowTypes /\ ChunkTypes /\ CacheTypes /\ KeyTypes /\ JobTypes /\ WatchTypes

-----------------------------------------------------------------------------
(* Types of what the actions compute. *)

LEMMA TextsAreNumbers ==
  /\ MaxText \in Nat \ {0} /\ MaxMtime \in Nat /\ MaxActs \in Nat /\ MaxCrashes \in Nat
  /\ Size \in [Texts -> Nat]
  /\ Texts \subseteq Nat \ {0} /\ 1 \in Texts /\ Texts \subseteq 0..MaxText /\ 0 \in 0..MaxText
BY ConstantsAssumption DEF Texts

LEMMA GoneIs ==
  Gone \in Snapshot /\ ~Gone.here /\ [f \in Files |-> Gone] \in [Files -> Snapshot]
BY TextsAreNumbers DEF Gone, Snapshot

LEMMA IdleIs == Fit(Idle) /\ Idle.pc = "free" /\ Idle.forced = FALSE
BY GoneIs, TextsAreNumbers DEF Idle, Fit, Jobs, HasText, FilePcs, DocPcs

LEMMA QuietIs ==
  /\ Quiet \in Iterations /\ Quiet.pc = "idle" /\ Quiet.todo = {}
  /\ \A f \in Files : ~Quiet.disk[f].here
<1>1. [f \in Files |-> NoEntry] \in [Files -> Entries \union {NoEntry}]
  OBVIOUS
<1> QED
  BY <1>1, GoneIs DEF Quiet, Iterations

LEMMA NoChunksType == NoChunks \in [Slots -> 0..MaxText]
BY TextsAreNumbers DEF NoChunks

LEMMA UpsertedType ==
  ASSUME ChunkTypes, NEW d, NEW x \in Texts, NEW slots
  PROVE  Upserted(d, x, slots) \in [Docs -> [Slots -> 0..MaxText]]
<1>1. x \in 0..MaxText
  BY TextsAreNumbers
<1>2. CASE d \in Docs
  <2> DEFINE new == [i \in Slots |-> IF i \in slots THEN x ELSE chunks[d][i]]
  <2>1. new \in [Slots -> 0..MaxText]
    BY <1>1, <1>2 DEF ChunkTypes
  <2>2. Upserted(d, x, slots) = [chunks EXCEPT ![d] = new]
    BY <1>2 DEF Upserted, ChunkTypes
  <2> HIDE DEF new
  <2> QED
    BY <2>1, <2>2 DEF ChunkTypes
<1>3. CASE d \notin Docs
  <2>1. Upserted(d, x, slots) = chunks
    BY <1>3 DEF Upserted, ChunkTypes
  <2> QED
    BY <2>1 DEF ChunkTypes
<1> QED
  BY <1>2, <1>3

LEMMA RebuiltType ==
  ASSUME RowTypes, NEW s
  PROVE  Rebuilt(s) \in [Files -> Entries \union {NoEntry}]
<1> SUFFICES ASSUME NEW f \in Files PROVE Rebuilt(s)[f] \in Entries \union {NoEntry}
  BY DEF Rebuilt
<1>1. row[f] = NoRow \/ row[f].md5 \in 0..MaxText
  BY TextsAreNumbers DEF RowTypes, Rows
<1> QED
  BY <1>1, TextsAreNumbers DEF Rebuilt, Entries

LEMMA ScanType ==
  ASSUME DiskTypes
  PROVE  Scan \in [Files -> Snapshot] /\ \A f \in Files : HasText(Scan[f]) /\ (Scan[f].here => Scan[f] = disk[f])
BY GoneIs DEF DiskTypes, Scan, HasText

\* A task that becomes what fits leaves its type.
LEMMA Becomes ==
  ASSUME JobTypes, NEW t \in Tasks, NEW j, Fit(j), Become(t, j)
  PROVE  JobTypes' /\ job'[t] = j /\ \A u \in Tasks \ {t} : job'[u] = job[u]
<1>1. j \in Jobs
  BY DEF Fit
<1> QED
  BY <1>1 DEF JobTypes, Become

\* One that goes where its file, document and text are not used, or where it has them.
LEMMA GoesFit ==
  ASSUME JobTypes, NEW t \in Tasks, NEW pc \in TaskPcs,
         pc \in FilePcs => job[t].pc \in FilePcs,
         pc \in DocPcs => job[t].doc \in Docs,
         pc \in {"upsert", "mark", "cache"} => job[t].text \in Texts
  PROVE  Fit([job[t] EXCEPT !.pc = pc]) /\ [job[t] EXCEPT !.pc = pc].pc = pc
<1>1. Fit(job[t]) /\ job[t] \in Jobs
  BY DEF JobTypes
<1> DEFINE j == [job[t] EXCEPT !.pc = pc]
<1>2. j \in Jobs /\ j.pc = pc /\ j.scan = job[t].scan /\ j.file = job[t].file /\ j.doc = job[t].doc
      /\ j.text = job[t].text
  BY <1>1 DEF Jobs, TaskPcs, FilePcs
<1> HIDE DEF j
<1>3. Fit(j)
  BY <1>1, <1>2 DEF Fit
<1> QED
  BY <1>2, <1>3 DEF j

LEMMA Goes ==
  ASSUME JobTypes, NEW t \in Tasks, NEW pc \in TaskPcs, Goto(t, pc),
         pc \in FilePcs => job[t].pc \in FilePcs,
         pc \in DocPcs => job[t].doc \in Docs,
         pc \in {"upsert", "mark", "cache"} => job[t].text \in Texts
  PROVE  /\ JobTypes' /\ job'[t] = [job[t] EXCEPT !.pc = pc]
         /\ \A u \in Tasks \ {t} : job'[u] = job[u]
BY GoesFit, Becomes DEF Goto

LEMMA NextFileType ==
  ASSUME JobTypes, NEW t \in Tasks, NextFile(t)
  PROVE  JobTypes'
<1>1. Fit(job[t]) /\ job[t] \in Jobs
  BY DEF JobTypes
<1> DEFINE j == [job[t] EXCEPT !.pc = "loop", !.file = NoFile, !.doc = NoDoc, !.text = 0,
                               !.scan[job[t].file] = Gone]
<1>2. j \in Jobs /\ j.pc = "loop" /\ j.scan = [job[t].scan EXCEPT ![job[t].file] = Gone]
  BY <1>1, GoneIs, TextsAreNumbers DEF Jobs
<1>3. Become(t, j)
  BY DEF NextFile
<1> HIDE DEF j
<1>4. \A f \in Files : HasText(j.scan[f])
  BY <1>1, <1>2, GoneIs DEF Fit, HasText, Jobs
<1>5. Fit(j)
  BY <1>2, <1>4 DEF Fit, FilePcs, DocPcs
<1> QED
  BY <1>3, <1>5, Becomes

-----------------------------------------------------------------------------
(* Every step keeps the types. *)

LEMMA InitTypes == Init => Types
<1> SUFFICES ASSUME Init PROVE Types
  OBVIOUS
<1> USE TextsAreNumbers DEF Init
<1>1. DiskTypes
  <2> DEFINE first == [Gone EXCEPT !.here = TRUE, !.text = 1]
  <2>1. first \in Snapshot /\ HasText(first) /\ Gone \in Snapshot /\ HasText(Gone)
    BY GoneIs DEF Gone, Snapshot, HasText
  <2>2. disk \in [Files -> {first, Gone}]
    OBVIOUS
  <2> HIDE DEF first
  <2> QED
    BY <2>1, <2>2 DEF DiskTypes
<1>2. RowTypes
  <2>1. NoRow \in Rows \union {NoRow}
    OBVIOUS
  <2> QED
    BY <2>1 DEF RowTypes
<1>3. ChunkTypes
  BY NoChunksType DEF ChunkTypes
<1>4. CacheTypes
  <2>1. NoEntry \in Entries \union {NoEntry}
    OBVIOUS
  <2> QED
    BY <2>1 DEF CacheTypes
<1>5. KeyTypes
  BY DEF KeyTypes
<1>6. JobTypes
  BY IdleIs DEF JobTypes, Fit
<1>7. WatchTypes
  BY QuietIs DEF WatchTypes, HasText
<1> QED
  BY <1>1, <1>2, <1>3, <1>4, <1>5, <1>6, <1>7 DEF Types

\* Who leaves what alone: users change the files, the watchdog itself, the tasks the rest.
LEMMA UserSteps ==
  ASSUME NEW f \in Files, Edit(f) \/ Touch(f) \/ RemoveFile(f)
  PROVE  UNCHANGED <<row, chunks, cache, binding, job, status, cancel, wd, crashes>>
BY DEF Edit, Touch, RemoveFile, Change

LEMMA TaskSteps ==
  ASSUME NEW t \in Tasks,
         Request(t) \/ CancelTask(t) \/ ExpireCancel(t) \/ Work(t) \/ Fail(t) \/ Expire(t)
  PROVE  UNCHANGED <<disk, wd>>
<1> USE DEF world
<1>1. CASE Request(t) \/ CancelTask(t) \/ ExpireCancel(t) \/ Expire(t)
  BY <1>1 DEF Request, CancelTask, ExpireCancel, Expire
<1>2. CASE Fail(t)
  BY <1>2 DEF Fail, Abort, FileFails, TaskFails, MarkFails
<1>3. CASE \/ Bind(t) \/ ScanVault(t) \/ Compare(t) \/ Register(t) \/ Cancelled(t) \/ Pick(t)
           \/ Lookup(t) \/ InsertRow(t) \/ Wipe(t) \/ MarkPending(t)
  BY <1>3 DEF Bind, ScanVault, Compare, Register, Cancelled, Pick, Lookup, InsertRow, Wipe,
     MarkPending
<1>4. CASE \/ Reread(t) \/ Parse(t) \/ Upsert(t) \/ MarkRowIndexed(t) \/ CacheIndexed(t)
           \/ Rollback(t) \/ Unbind(t) \/ MarkTaskError(t) \/ MarkTaskDone(t) \/ MarkBound(t)
  BY <1>4 DEF Reread, Parse, Upsert, MarkRowIndexed, CacheIndexed, Rollback, Unbind,
     MarkTaskError, MarkTaskDone, MarkBound
<1> QED
  BY <1>1, <1>2, <1>3, <1>4 DEF Work

LEMMA WatchSteps ==
  ASSUME Watchdog \/ WatchFails \/ Crash
  PROVE  disk' = disk
BY DEF Watchdog, WatchScan, WatchCache, WatchLookup, WatchDropChunks, WatchDropRow, WatchDropEntry,
   WatchChanged, WatchMark, WatchStart, WatchFails, Crash, world

\* Only users write the files.
LEMMA DiskTypesStep == ASSUME Types, [Next]_vars PROVE DiskTypes'
<1> USE TextsAreNumbers DEF Types, vars, stores, world, tasks
<1>0. ASSUME NEW f \in Files, NEW s \in Snapshot, HasText(s), Change(f, s) PROVE DiskTypes'
  BY <1>0 DEF Change, DiskTypes
<1>1. ASSUME NEW f \in Files, Edit(f) PROVE DiskTypes'
  <2>1. PICK x \in Texts : Change(f, [disk[f] EXCEPT !.here = TRUE, !.text = x])
    BY <1>1 DEF Edit
  <2> DEFINE s == [disk[f] EXCEPT !.here = TRUE, !.text = x]
  <2>2. s \in Snapshot /\ s.text = x
    BY DEF DiskTypes, Snapshot
  <2> HIDE DEF s
  <2>3. Change(f, s)
    BY <2>1 DEF s
  <2> QED
    BY <1>0, <2>2, <2>3 DEF HasText
<1>2. ASSUME NEW f \in Files, Touch(f) PROVE DiskTypes'
  <2> DEFINE s == [disk[f] EXCEPT !.mtime = @ + 1]
  <2>0. disk[f].mtime + 1 \in 0..MaxMtime
    BY <1>2 DEF DiskTypes, Snapshot, Touch
  <2>1. s \in Snapshot /\ s.text = disk[f].text /\ s.here = disk[f].here
    BY <2>0 DEF DiskTypes, Snapshot
  <2>2. Change(f, s)
    BY <1>2 DEF Touch
  <2> HIDE DEF s
  <2> QED
    BY <1>0, <2>1, <2>2 DEF HasText, DiskTypes
<1>3. ASSUME NEW f \in Files, RemoveFile(f) PROVE DiskTypes'
  <2> DEFINE s == [disk[f] EXCEPT !.here = FALSE]
  <2>1. s \in Snapshot /\ ~s.here
    BY Zenon DEF DiskTypes, Snapshot
  <2>2. Change(f, s)
    BY <1>3 DEF RemoveFile
  <2> HIDE DEF s
  <2> QED
    BY <1>0, <2>1, <2>2 DEF HasText
<1>4. CASE UNCHANGED disk
  BY <1>4 DEF DiskTypes
<1> QED
  BY <1>1, <1>2, <1>3, <1>4, TaskSteps, WatchSteps DEF Next

\* Only these steps write the documents, the chunks or the cache.
LEMMA StoresStep ==
  ASSUME [Next]_vars
  PROVE  /\ \/ UNCHANGED row \/ WatchDropRow
            \/ \E t \in Tasks : InsertRow(t) \/ MarkPending(t) \/ MarkRowIndexed(t)
         /\ \/ UNCHANGED chunks \/ WatchDropChunks
            \/ \E t \in Tasks : Wipe(t) \/ Upsert(t) \/ FileFails(t) \/ Rollback(t)
         /\ \/ UNCHANGED cache \/ WatchCache \/ WatchDropEntry \/ WatchMark \/ Crash
            \/ \E t \in Tasks : CacheIndexed(t)
<1> USE DEF vars, stores, world, tasks
<1>1. CASE \E f \in Files : Edit(f) \/ Touch(f) \/ RemoveFile(f)
  BY <1>1 DEF Edit, Touch, RemoveFile, Change
<1>2. CASE \E t \in Tasks : Request(t) \/ CancelTask(t) \/ ExpireCancel(t) \/ Expire(t) \/ Fail(t)
  BY <1>2 DEF Request, CancelTask, ExpireCancel, Expire, Fail, Abort, FileFails, TaskFails, MarkFails
<1>3. CASE \E t \in Tasks : Bind(t) \/ ScanVault(t) \/ Compare(t) \/ Register(t) \/ Cancelled(t)
  BY <1>3 DEF Bind, ScanVault, Compare, Register, Cancelled
<1>6. CASE \E t \in Tasks :
             Pick(t) \/ Lookup(t) \/ InsertRow(t) \/ Wipe(t) \/ MarkPending(t) \/ Reread(t)
  BY <1>6 DEF Pick, Lookup, InsertRow, Wipe, MarkPending, Reread
<1>7. CASE \E t \in Tasks :
             Parse(t) \/ Upsert(t) \/ MarkRowIndexed(t) \/ CacheIndexed(t) \/ Rollback(t)
  BY <1>7 DEF Parse, Upsert, MarkRowIndexed, CacheIndexed, Rollback
<1>8. CASE \E t \in Tasks : Unbind(t) \/ MarkTaskError(t) \/ MarkTaskDone(t) \/ MarkBound(t)
  BY <1>8 DEF Unbind, MarkTaskError, MarkTaskDone, MarkBound
<1>4. CASE Watchdog \/ WatchFails \/ Crash
  BY <1>4 DEF Watchdog, WatchScan, WatchCache, WatchLookup, WatchDropChunks, WatchDropRow,
     WatchDropEntry, WatchChanged, WatchMark, WatchStart, WatchFails, Crash
<1>5. CASE UNCHANGED vars
  BY <1>5
<1> QED
  BY <1>1, <1>2, <1>3, <1>4, <1>5, <1>6, <1>7, <1>8 DEF Next, Work

LEMMA RowTypesStep == ASSUME Types, [Next]_vars PROVE RowTypes'
<1> USE TextsAreNumbers DEF Types
<1>1. CASE UNCHANGED row
  BY <1>1 DEF RowTypes
<1>2. CASE WatchDropRow
  BY <1>2 DEF WatchDropRow, RowTypes
<1>3. ASSUME NEW t \in Tasks, job[t].pc \in FilePcs
      PROVE  LET s == job[t].scan[job[t].file]
             IN job[t].file \in Files /\ s.text \in Texts /\ s.mtime \in 0..MaxMtime
  BY <1>3 DEF JobTypes, Fit, HasText, Jobs, Snapshot
<1>4. ASSUME NEW t \in Tasks, InsertRow(t) PROVE RowTypes'
  <2> DEFINE s == job[t].scan[job[t].file]
  <2>1. CASE UNCHANGED row
    BY <1>1, <2>1
  <2>2. ASSUME NEW d \in Docs,
               row' = [row EXCEPT ![job[t].file] = [id |-> d, md5 |-> s.text,
                             mtime |-> s.mtime, status |-> "pending"]]
        PROVE  RowTypes'
    <3>1. s.text \in Texts /\ s.mtime \in 0..MaxMtime
      BY <1>3, <1>4 DEF InsertRow, At, FilePcs
    <3> QED
      BY <2>2, <3>1 DEF RowTypes, Rows
  <2> QED
    BY <1>4, <2>1, <2>2 DEF InsertRow
<1>5. ASSUME NEW t \in Tasks, MarkPending(t) PROVE RowTypes'
  <2> DEFINE s == job[t].scan[job[t].file]
             new(f) == [row[f] EXCEPT !.md5 = s.text, !.mtime = s.mtime, !.status = "pending"]
  <2>1. s.text \in Texts /\ s.mtime \in 0..MaxMtime
    BY <1>3, <1>5 DEF MarkPending, At, FilePcs
  <2>2. \A f \in Files : HasId(f, job[t].doc) => row[f] \in Rows
    BY DEF HasId, RowTypes
  <2>3. \A f \in Files : HasId(f, job[t].doc) => new(f) \in Rows
    BY <2>1, <2>2 DEF Rows
  <2>4. row' = [f \in Files |-> IF HasId(f, job[t].doc) THEN new(f) ELSE row[f]]
    BY <1>5 DEF MarkPending
  <2> HIDE DEF new
  <2> QED
    BY <2>3, <2>4 DEF RowTypes
<1>6. ASSUME NEW t \in Tasks, MarkRowIndexed(t) PROVE RowTypes'
  <2> DEFINE new(f) == [row[f] EXCEPT !.status = "indexed"]
  <2>1. \A f \in Files : HasId(f, job[t].doc) => row[f] \in Rows
    BY DEF HasId, RowTypes
  <2>2. \A f \in Files : HasId(f, job[t].doc) => new(f) \in Rows
    BY <2>1 DEF Rows
  <2>3. row' = [f \in Files |-> IF HasId(f, job[t].doc) THEN new(f) ELSE row[f]]
    BY <1>6 DEF MarkRowIndexed
  <2> HIDE DEF new
  <2> QED
    BY <2>2, <2>3 DEF RowTypes
<1> QED
  BY <1>1, <1>2, <1>4, <1>5, <1>6, StoresStep

LEMMA ChunkTypesStep == ASSUME Types, [Next]_vars PROVE ChunkTypes'
<1> USE NoChunksType DEF Types
<1>1. CASE UNCHANGED chunks
  BY <1>1 DEF ChunkTypes
<1>2. ASSUME NEW d, chunks' = [chunks EXCEPT ![d] = NoChunks] PROVE ChunkTypes'
  BY <1>2 DEF ChunkTypes
<1>3. CASE WatchDropChunks
  BY <1>1, <1>2, <1>3 DEF WatchDropChunks
<1>4. ASSUME NEW t \in Tasks, Wipe(t) \/ Rollback(t) PROVE ChunkTypes'
  BY <1>1, <1>2, <1>4 DEF Wipe, Rollback
<1>5. ASSUME NEW t \in Tasks, Upsert(t) \/ FileFails(t) PROVE ChunkTypes'
  <2>1. CASE UNCHANGED chunks
    BY <1>1, <2>1
  <2>2. ASSUME NEW slots, At(t, "upsert"), chunks' = Upserted(job[t].doc, job[t].text, slots)
        PROVE  ChunkTypes'
    <3>1. job[t].text \in Texts
      BY <2>2 DEF At, JobTypes, Fit
    <3> QED
      BY <2>2, <3>1, UpsertedType DEF ChunkTypes
  <2> QED
    BY <1>5, <2>1, <2>2 DEF Upsert, FileFails
<1> QED
  BY <1>1, <1>3, <1>4, <1>5, StoresStep

LEMMA CacheTypesStep == ASSUME Types, [Next]_vars PROVE CacheTypes'
<1> USE TextsAreNumbers DEF Types
<1>1. CASE UNCHANGED cache
  BY <1>1 DEF CacheTypes
<1>2. CASE WatchCache
  BY <1>2, RebuiltType DEF WatchCache, CacheTypes
<1>3. CASE WatchDropEntry
  BY <1>3 DEF WatchDropEntry, CacheTypes
<1>4. CASE WatchMark
  <2>1. PICK f \in wd.todo : cache' = [cache EXCEPT ![f] =
                      [md5 |-> IF cache[f] = NoEntry THEN 0 ELSE cache[f].md5,
                       status |-> "pending"]]
    BY <1>4 DEF WatchMark
  <2>2. f \in Files
    BY <2>1 DEF WatchTypes, Iterations
  <2>3. cache[f] = NoEntry \/ cache[f].md5 \in 0..MaxText
    BY <2>2 DEF CacheTypes, Entries
  <2> QED
    BY <2>1, <2>2, <2>3 DEF CacheTypes, Entries
<1>5. CASE Crash
  BY <1>5, RebuiltType DEF Crash, CacheTypes
<1>6. ASSUME NEW t \in Tasks, CacheIndexed(t) PROVE CacheTypes'
  <2>1. job[t].file \in Files /\ job[t].scan[job[t].file].text \in 0..MaxText
    BY <1>6 DEF CacheIndexed, At, JobTypes, Fit, FilePcs, Jobs, Snapshot
  <2> QED
    BY <1>6, <2>1 DEF CacheIndexed, CacheTypes, Entries
<1> QED
  BY <1>1, <1>2, <1>3, <1>4, <1>5, <1>6, StoresStep

LEMMA KeyTypesStep == ASSUME Types, [Next]_vars PROVE KeyTypes'
<1> USE TextsAreNumbers DEF Types, KeyTypes, vars, stores, world, tasks
<1>0. Act => acts' \in 0..MaxActs
  BY DEF Act
<1>1. CASE \E f \in Files : Edit(f) \/ Touch(f) \/ RemoveFile(f)
  BY <1>0, <1>1 DEF Edit, Touch, RemoveFile, Change
<1>2. CASE \E t \in Tasks : Request(t) \/ CancelTask(t)
  BY <1>0, <1>2 DEF Request, StartTask, CancelTask
<1>7. CASE \E t \in Tasks : ExpireCancel(t) \/ Expire(t) \/ Fail(t)
  BY <1>7 DEF ExpireCancel, Expire, Fail, Abort, FileFails, TaskFails, MarkFails
<1>3. CASE \E t \in Tasks :
             Bind(t) \/ ScanVault(t) \/ Compare(t) \/ Register(t) \/ Cancelled(t) \/ Pick(t)
             \/ Lookup(t) \/ InsertRow(t) \/ Wipe(t) \/ MarkPending(t) \/ Reread(t) \/ Parse(t)
  BY Zenon, <1>3 DEF Bind, ScanVault, Compare, Register, Cancelled, Pick, Lookup, InsertRow, Wipe,
     MarkPending, Reread, Parse
<1>4. CASE \E t \in Tasks :
             Upsert(t) \/ MarkRowIndexed(t) \/ CacheIndexed(t) \/ Rollback(t) \/ Unbind(t)
             \/ MarkTaskError(t) \/ MarkTaskDone(t) \/ MarkBound(t)
  BY <1>4 DEF Upsert, MarkRowIndexed, CacheIndexed, Rollback, Unbind, MarkTaskError, MarkTaskDone,
     MarkBound
<1>5. CASE Watchdog \/ WatchFails
  BY <1>5 DEF Watchdog, WatchScan, WatchCache, WatchLookup, WatchDropChunks, WatchDropRow,
     WatchDropEntry, WatchChanged, WatchMark, WatchStart, StartTask, WatchFails
<1>6. CASE Crash \/ UNCHANGED vars
  BY <1>6 DEF Crash
<1> QED
  BY <1>1, <1>2, <1>3, <1>4, <1>5, <1>6, <1>7 DEF Next, Work

\* A new task fits: it has no file yet.
LEMMA StartFits ==
  ASSUME Types, NEW t \in Tasks, NEW forced \in BOOLEAN, NEW only \in SUBSET Files,
         StartTask(t, forced, only)
  PROVE  /\ JobTypes' /\ job'[t].pc = "begin" /\ job'[t].forced = forced
         /\ \A u \in Tasks \ {t} : job'[u] = job[u]
<1> DEFINE j == [Idle EXCEPT !.pc = "begin", !.forced = forced, !.only = only]
<1>1. Idle \in Jobs /\ \A f \in Files : HasText(Idle.scan[f])
  BY IdleIs DEF Fit
<1>2. j \in Jobs /\ j.pc = "begin" /\ j.scan = Idle.scan /\ j.forced = forced
  BY <1>1 DEF Jobs
<1>3. Become(t, j)
  BY DEF StartTask, Become
<1> HIDE DEF j
<1>4. Fit(j)
  BY <1>1, <1>2 DEF Fit, FilePcs, DocPcs
<1> QED
  BY <1>2, <1>3, <1>4, Becomes DEF Types

LEMMA RequestType ==
  ASSUME NEW q \in Requests
  PROVE  q.forced \in BOOLEAN /\ q.only \in SUBSET Files
BY ConstantsAssumption

LEMMA JobTypesStep == ASSUME Types, [Next]_vars PROVE JobTypes'
<1> USE DEF Types
<1>0. CASE UNCHANGED job
  BY <1>0 DEF JobTypes
<1>1. ASSUME NEW t \in Tasks, End(t) PROVE JobTypes'
  BY <1>1, IdleIs, Becomes DEF End
<1>2. ASSUME NEW t \in Tasks, NEW pc \in TaskPcs \ FilePcs, Goto(t, pc) PROVE JobTypes'
  BY <1>2, Goes DEF FilePcs, DocPcs
<1>3. ASSUME NEW t \in Tasks, Request(t) PROVE JobTypes'
  BY <1>3, RequestType, StartFits DEF Request
<1>4. ASSUME NEW t \in Tasks, MarkFails(t) PROVE JobTypes'
  <2> DEFINE j == [Idle EXCEPT !.pc = IF status[t] = "running" THEN "dead" ELSE "free"]
  <2>1. Idle \in Jobs /\ \A f \in Files : HasText(Idle.scan[f])
    BY IdleIs DEF Fit
  <2>2. j \in Jobs /\ j.pc \in {"dead", "free"} /\ j.scan = Idle.scan
    BY <2>1 DEF Jobs
  <2>3. Become(t, j)
    BY <1>4 DEF MarkFails
  <2> HIDE DEF j
  <2>4. Fit(j)
    BY <2>1, <2>2 DEF Fit, FilePcs, DocPcs
  <2> QED
    BY <2>3, <2>4, Becomes
<1>5. ASSUME NEW t \in Tasks, ScanVault(t) PROVE JobTypes'
  <2> DEFINE only  == IF job[t].only = {} THEN Files ELSE job[t].only
             found == [f \in Files |-> IF f \in only THEN Scan[f] ELSE Gone]
             names == {f \in Files : found[f].here}
             left == IF job[t].forced THEN {} ELSE names
             j == [job[t] EXCEPT !.pc = "compare", !.scan = found, !.left = left]
  <2>1. End(t) \/ Become(t, j)
    BY <1>5 DEF ScanVault
  <2>2. found \in [Files -> Snapshot] /\ \A f \in Files : HasText(found[f])
    BY ScanType, GoneIs DEF HasText
  <2>3. left \in SUBSET Files /\ job[t] \in Jobs
    BY DEF JobTypes
  <2> HIDE DEF only, found, left
  <2>4. j \in Jobs /\ j.pc = "compare" /\ j.scan = found
    BY <2>2, <2>3 DEF Jobs
  <2> HIDE DEF j
  <2>5. Fit(j)
    BY <2>2, <2>4 DEF Fit, FilePcs, DocPcs
  <2> QED
    BY <1>1, <2>1, <2>5, Becomes
<1>6. ASSUME NEW t \in Tasks, Compare(t) PROVE JobTypes'
  <2>1. PICK f \in job[t].left :
          Become(t, [job[t] EXCEPT !.left = @ \ {f},
                       !.scan[f] = IF UpToDate(f, @) THEN Gone ELSE @])
    BY <1>6 DEF Compare
  <2> DEFINE scan == [job[t].scan EXCEPT ![f] = IF UpToDate(f, @) THEN Gone ELSE @]
             j == [job[t] EXCEPT !.left = @ \ {f},
                       !.scan[f] = IF UpToDate(f, @) THEN Gone ELSE @]
  <2>2. Fit(job[t]) /\ job[t] \in Jobs /\ job[t].pc = "compare"
    BY <1>6 DEF JobTypes, Compare, At
  <2>3. scan \in [Files -> Snapshot] /\ \A g \in Files : HasText(scan[g])
    BY <2>2, GoneIs DEF Jobs, Fit, HasText
  <2>4. j \in Jobs /\ j.pc = "compare" /\ j.scan = scan
    BY <2>2, <2>3 DEF Jobs
  <2>5. Become(t, j)
    BY <2>1
  <2> HIDE DEF j, scan
  <2>6. Fit(j)
    BY <2>3, <2>4 DEF Fit, FilePcs, DocPcs
  <2> QED
    BY <2>5, <2>6, Becomes
<1>7. ASSUME NEW t \in Tasks, Pick(t) PROVE JobTypes'
  <2>1. PICK f \in Files : /\ job[t].scan[f].here
                           /\ Become(t, [job[t] EXCEPT !.file = f, !.pc = "lookup"])
    BY <1>7 DEF Pick
  <2> DEFINE j == [job[t] EXCEPT !.file = f, !.pc = "lookup"]
  <2>0. job[t] \in Jobs
    BY DEF JobTypes
  <2>2. j \in Jobs /\ j.pc = "lookup" /\ j.scan = job[t].scan /\ j.file = f
    BY <2>0 DEF Jobs
  <2>3. Become(t, j)
    BY <2>1
  <2> HIDE DEF j
  <2>4. Fit(j)
    BY <2>1, <2>2 DEF Fit, JobTypes, FilePcs, DocPcs
  <2> QED
    BY <2>3, <2>4, Becomes
\* A step with a new document, or none, for the file at hand.
<1>8. ASSUME NEW t \in Tasks, NEW pc \in FilePcs \ {"upsert", "mark", "cache"},
             NEW d \in Docs \union {NoDoc}, pc \in DocPcs => d \in Docs, job[t].pc \in FilePcs,
             Become(t, [job[t] EXCEPT !.pc = pc, !.doc = d])
      PROVE  JobTypes'
  <2> DEFINE j == [job[t] EXCEPT !.pc = pc, !.doc = d]
  <2>1. Fit(job[t]) /\ job[t] \in Jobs
    BY DEF JobTypes
  <2>2. j \in Jobs /\ j.pc = pc /\ j.scan = job[t].scan /\ j.file = job[t].file /\ j.doc = d
    BY <2>1 DEF Jobs, FilePcs
  <2> HIDE DEF j
  <2>3. Fit(j)
    BY <1>8, <2>1, <2>2 DEF Fit, FilePcs, DocPcs
  <2>4. Become(t, j)
    BY <1>8 DEF j
  <2> QED
    BY <2>3, <2>4, Becomes
<1>9. ASSUME NEW t \in Tasks, job[t].pc \in FilePcs
      PROVE  row[job[t].file] # NoRow => row[job[t].file].id \in Docs
  BY <1>9 DEF JobTypes, Fit, RowTypes, Rows
<1>10. ASSUME NEW t \in Tasks, Lookup(t) PROVE JobTypes'
  <2>1. job[t].pc \in FilePcs
    BY <1>10 DEF Lookup, At, FilePcs
  <2>2. CASE Goto(t, "insert")
    BY <2>1, <2>2, Goes DEF TaskPcs, FilePcs, DocPcs
  <2>3. CASE row[job[t].file] # NoRow
             /\ Become(t, [job[t] EXCEPT !.pc = "wipe", !.doc = row[job[t].file].id])
    BY <1>8, <1>9, <2>1, <2>3 DEF FilePcs
  <2> QED
    BY <1>10, <2>2, <2>3 DEF Lookup
<1>11. ASSUME NEW t \in Tasks, Reread(t) PROVE JobTypes'
  <2> DEFINE d == IF row[job[t].file] = NoRow THEN NoDoc ELSE row[job[t].file].id
  <2>1. job[t].pc \in FilePcs
    BY <1>11 DEF Reread, At, FilePcs
  <2>2. d \in Docs \union {NoDoc}
    BY <1>9, <2>1
  <2>3. Become(t, [job[t] EXCEPT !.pc = "parse", !.doc = d])
    BY <1>11 DEF Reread
  <2> HIDE DEF d
  <2> QED
    BY <1>8, <2>1, <2>2, <2>3 DEF FilePcs, DocPcs
<1>12. ASSUME NEW t \in Tasks, InsertRow(t) PROVE JobTypes'
  <2>1. CASE Goto(t, "unbind")
    BY <1>2, <2>1 DEF TaskPcs, FilePcs
  <2>2. CASE \E d \in Docs : Become(t, [job[t] EXCEPT !.pc = "parse", !.doc = d])
    <3>1. job[t].pc \in FilePcs
      BY <1>12 DEF InsertRow, At, FilePcs
    <3> QED
      BY <1>8, <2>2, <3>1 DEF FilePcs
  <2> QED
    BY <1>12, <2>1, <2>2 DEF InsertRow
<1>13. ASSUME NEW t \in Tasks, Wipe(t) \/ MarkPending(t) PROVE JobTypes'
  <2>1. job[t].pc \in FilePcs /\ job[t].doc \in Docs
    BY <1>13 DEF Wipe, MarkPending, At, JobTypes, Fit, FilePcs, DocPcs
  <2> QED
    BY Zenon, <1>13, <2>1, Goes DEF Wipe, MarkPending, TaskPcs, FilePcs, DocPcs
<1>14. ASSUME NEW t \in Tasks, Parse(t) PROVE JobTypes'
  <2> DEFINE f == job[t].file
             j == [job[t] EXCEPT !.pc = "upsert", !.text = disk[f].text]
  <2>1. CASE Goto(t, "rollback")
    BY <1>2, <2>1 DEF TaskPcs, FilePcs
  <2>2. CASE disk[f].here /\ job[t].doc # NoDoc /\ Become(t, j)
    <3>1. Fit(job[t]) /\ job[t] \in Jobs /\ job[t].pc = "parse"
      BY <1>14 DEF JobTypes, Parse, At
    <3>2. f \in Files /\ job[t].scan[f].here /\ job[t].doc \in Docs
      BY <2>2, <3>1 DEF Fit, FilePcs, Jobs
    <3>3. disk[f].text \in Texts
      BY <2>2, <3>2 DEF DiskTypes, HasText
    <3>4. /\ j \in Jobs /\ j.pc = "upsert" /\ j.scan = job[t].scan /\ j.file = f
          /\ j.doc = job[t].doc /\ j.text = disk[f].text
      BY <3>1, <3>3, TextsAreNumbers DEF Jobs
    <3> HIDE DEF f, j
    <3>5. Fit(j)
      BY <3>1, <3>2, <3>3, <3>4 DEF Fit
    <3> QED
      BY <2>2, <3>5, Becomes
  <2> QED
    BY <1>14, <2>1, <2>2 DEF Parse
<1>15. ASSUME NEW t \in Tasks, Upsert(t) PROVE JobTypes'
  <2> DEFINE j == [job[t] EXCEPT !.pc = "mark", !.uploaded = @ \union {job[t].doc}]
  <2>1. Fit(job[t]) /\ job[t] \in Jobs /\ job[t].pc = "upsert"
    BY <1>15 DEF JobTypes, Upsert, At
  <2>2. job[t].doc \in Docs /\ job[t].text \in Texts
    BY <2>1 DEF Fit, DocPcs
  <2>3. CASE Goto(t, "mark")
    BY <2>1, <2>2, <2>3, Goes DEF TaskPcs, FilePcs
  <2>4. CASE Become(t, j)
    <3>1. /\ j \in Jobs /\ j.pc = "mark" /\ j.scan = job[t].scan /\ j.file = job[t].file
          /\ j.doc = job[t].doc /\ j.text = job[t].text
      BY <2>1, <2>2 DEF Jobs
    <3> HIDE DEF j
    <3>2. Fit(j)
      BY <2>1, <2>2, <3>1 DEF Fit, FilePcs
    <3> QED
      BY <2>4, <3>2, Becomes
  <2> QED
    BY <1>15, <2>3, <2>4 DEF Upsert
<1>16. ASSUME NEW t \in Tasks, MarkRowIndexed(t) PROVE JobTypes'
  <2>1. job[t].pc \in FilePcs /\ job[t].doc \in Docs /\ job[t].text \in Texts
    BY <1>16 DEF MarkRowIndexed, At, JobTypes, Fit, FilePcs, DocPcs
  <2> QED
    BY <1>16, <2>1, Goes DEF MarkRowIndexed, TaskPcs, FilePcs
<1>17. ASSUME NEW t \in Tasks, CacheIndexed(t) PROVE JobTypes'
  BY <1>2, <1>17, NextFileType DEF CacheIndexed, TaskPcs, FilePcs
<1>18. ASSUME NEW t \in Tasks, Rollback(t) PROVE JobTypes'
  <2>1. CASE Goto(t, "unbind")
    BY <1>2, <2>1 DEF TaskPcs, FilePcs
  <2>2. CASE \E d \in job[t].uploaded : Become(t, [job[t] EXCEPT !.uploaded = @ \ {d}])
    <3>1. PICK d \in job[t].uploaded : Become(t, [job[t] EXCEPT !.uploaded = @ \ {d}])
      BY <2>2
    <3> DEFINE j == [job[t] EXCEPT !.uploaded = @ \ {d}]
    <3>2. Fit(job[t]) /\ job[t] \in Jobs /\ job[t].pc = "rollback"
      BY <1>18 DEF JobTypes, Rollback, At
    <3>3. j \in Jobs /\ j.pc = "rollback" /\ j.scan = job[t].scan
      BY <3>2 DEF Jobs
    <3> HIDE DEF j
    <3>4. Fit(j)
      BY <3>2, <3>3 DEF Fit, FilePcs, DocPcs
    <3>5. Become(t, j)
      BY <3>1 DEF j
    <3> QED
      BY <3>4, <3>5, Becomes
  <2> QED
    BY <1>18, <2>1, <2>2 DEF Rollback
<1>19. ASSUME NEW t \in Tasks,
              Bind(t) \/ Register(t) \/ Unbind(t) \/ MarkTaskDone(t) \/ FileFails(t) \/ TaskFails(t)
       PROVE  JobTypes'
  <2>1. \E pc \in {"scan", "loop", "error", "bound", "rollback", "unbind"} : Goto(t, pc)
    BY <1>19 DEF Bind, Register, Unbind, MarkTaskDone, FileFails, TaskFails
  <2> QED
    BY <1>2, <2>1 DEF TaskPcs, FilePcs
<1>20. ASSUME NEW t \in Tasks,
              Abort(t) \/ Cancelled(t) \/ MarkTaskError(t) \/ MarkBound(t) \/ Expire(t)
       PROVE  JobTypes'
  BY <1>1, <1>20 DEF Abort, Cancelled, MarkTaskError, MarkBound, Expire
<1>21. CASE WatchStart
  <2>1. CASE UNCHANGED job
    BY <1>0, <2>1
  <2>2. CASE \E t \in Tasks : StartTask(t, FALSE, {})
    BY <2>2, StartFits
  <2> QED
    BY <1>21, <2>1, <2>2 DEF WatchStart
<1>22. CASE Crash
  <2> DEFINE j(t) == [Idle EXCEPT !.pc = IF status[t] = "running" THEN "dead" ELSE "free"]
  <2>1. Idle \in Jobs /\ \A f \in Files : HasText(Idle.scan[f])
    BY IdleIs DEF Fit
  <2>2. \A t \in Tasks : j(t) \in Jobs /\ j(t).pc \in {"dead", "free"} /\ j(t).scan = Idle.scan
    BY <2>1 DEF Jobs
  <2>3. job' = [t \in Tasks |-> j(t)]
    BY <1>22 DEF Crash
  <2> HIDE DEF j
  <2>4. \A t \in Tasks : Fit(j(t))
    BY <2>1, <2>2 DEF Fit, FilePcs, DocPcs
  <2> QED
    BY <2>2, <2>3, <2>4 DEF JobTypes
<1>23. CASE \/ \E f \in Files : Edit(f) \/ Touch(f) \/ RemoveFile(f)
            \/ \E t \in Tasks : CancelTask(t) \/ ExpireCancel(t)
            \/ WatchScan \/ WatchCache \/ WatchLookup \/ WatchDropChunks \/ WatchDropRow
            \/ WatchDropEntry \/ WatchChanged \/ WatchMark \/ WatchFails \/ UNCHANGED vars
  BY <1>0, <1>23 DEF Edit, Touch, RemoveFile, Change, CancelTask, ExpireCancel, WatchScan,
     WatchCache, WatchLookup, WatchDropChunks, WatchDropRow, WatchDropEntry, WatchChanged,
     WatchMark, WatchFails, vars, tasks
<1> QED
  BY <1>3, <1>4, <1>5, <1>6, <1>7, <1>10, <1>11, <1>12, <1>13, <1>14, <1>15, <1>16, <1>17, <1>18,
     <1>19, <1>20, <1>21, <1>22, <1>23 DEF Next, Work, Fail, Watchdog

LEMMA WatchTypesStep == ASSUME Types, [Next]_vars PROVE WatchTypes'
<1> USE DEF Types
<1>1. CASE UNCHANGED wd
  BY <1>1 DEF WatchTypes
<1>2. CASE wd' = Quiet
  BY <1>2, QuietIs DEF WatchTypes, HasText
<1>3. CASE WatchScan
  <2>1. wd' = [wd EXCEPT !.pc = "cache", !.disk = Scan]
    BY <1>3 DEF WatchScan, Watch
  <2>2. Scan \in [Files -> Snapshot] /\ \A f \in Files : HasText(Scan[f])
    BY ScanType
  <2> HIDE DEF Scan
  <2>3. wd' \in Iterations /\ wd'.pc = "cache" /\ wd'.disk = Scan
    BY <2>1, <2>2 DEF WatchTypes, Iterations
  <2> QED
    BY <2>2, <2>3 DEF WatchTypes
<1>4. CASE WatchCache
  <2> DEFINE todo == {f \in Files : cache'[f] # NoEntry /\ ~wd.disk[f].here}
  <2>1. wd' = [wd EXCEPT !.pc = "deleted", !.cache = cache', !.todo = todo]
    BY <1>4 DEF WatchCache, Watch
  <2>2. cache' \in [Files -> Entries \union {NoEntry}] /\ todo \in SUBSET Files
    BY CacheTypesStep DEF CacheTypes
  <2> HIDE DEF todo
  <2>3. wd' \in Iterations /\ wd'.pc = "deleted" /\ wd'.disk = wd.disk
    BY <2>1, <2>2 DEF WatchTypes, Iterations
  <2> QED
    BY <2>3 DEF WatchTypes
<1>5. CASE WatchLookup
  <2>1. PICK f \in wd.todo :
          wd' = [wd EXCEPT !.todo = @ \ {f}, !.file = f,
                   !.pc  = IF row[f] = NoRow THEN "entry" ELSE "chunks",
                   !.doc = IF row[f] = NoRow THEN NoDoc ELSE row[f].id]
    BY <1>5 DEF WatchLookup, Watch
  <2>2. f \in Files /\ (row[f] # NoRow => row[f].id \in Docs)
    BY DEF WatchTypes, Iterations, RowTypes, Rows
  <2>3. /\ wd' \in Iterations /\ wd'.disk = wd.disk /\ wd'.file = f
        /\ wd'.pc \in {"entry", "chunks"} /\ (wd'.pc = "chunks" => wd'.doc \in Docs)
    BY <2>1, <2>2 DEF WatchTypes, Iterations
  <2> QED
    BY <2>2, <2>3 DEF WatchTypes
<1>6. CASE WatchDropChunks \/ WatchDropRow
  <2>1. PICK pc \in {"row", "entry"} : wd' = [wd EXCEPT !.pc = pc]
    BY <1>6 DEF WatchDropChunks, WatchDropRow, Watch
  <2>2. wd.doc \in Docs /\ wd.file \in Files
    BY <1>6 DEF WatchDropChunks, WatchDropRow, WatchTypes
  <2>3. wd' \in Iterations /\ wd'.disk = wd.disk /\ wd'.file = wd.file /\ wd'.doc = wd.doc
    BY <2>1 DEF WatchTypes, Iterations
  <2> QED
    BY <2>2, <2>3 DEF WatchTypes
<1>7. CASE WatchDropEntry
  <2>1. wd' = [wd EXCEPT !.pc = "deleted", !.file = NoFile, !.doc = NoDoc]
    BY <1>7 DEF WatchDropEntry, Watch
  <2>2. wd' \in Iterations /\ wd'.disk = wd.disk /\ wd'.pc = "deleted"
    BY <2>1 DEF WatchTypes, Iterations
  <2> QED
    BY <2>2 DEF WatchTypes
<1>8. CASE WatchChanged
  <2>1. wd' = [wd EXCEPT !.pc = "mark", !.todo = Changed \ AutoIndexed]
    BY <1>8 DEF WatchChanged, Watch
  <2>2. Changed \ AutoIndexed \in SUBSET Files
    BY DEF Changed
  <2>3. wd' \in Iterations /\ wd'.disk = wd.disk /\ wd'.pc = "mark"
    BY <2>1, <2>2 DEF WatchTypes, Iterations
  <2> QED
    BY <2>3 DEF WatchTypes
<1>9. CASE WatchMark
  <2>1. PICK f \in wd.todo : wd' = [wd EXCEPT !.todo = @ \ {f}]
    BY <1>9 DEF WatchMark, Watch
  <2>2. wd' \in Iterations /\ wd'.disk = wd.disk /\ wd'.pc = "mark"
    BY <1>9, <2>1 DEF WatchMark, WatchTypes, Iterations
  <2> QED
    BY <2>2 DEF WatchTypes
<1>10. CASE WatchStart \/ WatchFails \/ Crash
  BY <1>2, <1>10 DEF WatchStart, WatchFails, Crash, Watch
<1>13. CASE UNCHANGED vars
  BY <1>1, <1>13 DEF vars
<1> QED
  BY <1>3, <1>4, <1>5, <1>6, <1>7, <1>8, <1>1, <1>9, <1>10, <1>13, UserSteps, TaskSteps
  DEF Next, Watchdog

LEMMA NextTypes == Types /\ [Next]_vars => Types'
BY DiskTypesStep, RowTypesStep, ChunkTypesStep, CacheTypesStep, KeyTypesStep, JobTypesStep,
   WatchTypesStep DEF Types

\* Whatever fails, is cancelled or crashes, and however tasks and the watchdog overlap, a
\* row has the md5 of a text that was there, a chunk is of a text, and a task that works
\* on a file has that file, its document and its text.
THEOREM IndexTypes == Spec => []TypeOK
<1>1. Types => TypeOK
  BY DEF Types, DiskTypes, RowTypes, ChunkTypes, CacheTypes, KeyTypes, JobTypes, WatchTypes, TypeOK
<1> QED
  BY <1>1, InitTypes, NextTypes, PTL DEF Spec

-----------------------------------------------------------------------------
(* Keys: what Redis says of a task and where the task is. *)

KeyFits(t) ==
  /\ job[t].pc \in {"begin", "scan", "compare"} => status[t] = "none"
  /\ job[t].pc = "bound" => status[t] = "done"
  /\ status[t] = "running" => Live(t) \/ At(t, "dead")
KeysFit == \A t \in Tasks : KeyFits(t)

\* The task becomes j.
LEMMA JobIs ==
  ASSUME Types, NEW t \in Tasks, NEW j, Become(t, j)
  PROVE  job'[t] = j /\ job[t] \in Jobs /\ \A u \in Tasks \ {t} : job'[u] = job[u]
BY DEF Become, Types, JobTypes

LEMMA GotoIs ==
  ASSUME Types, NEW t \in Tasks, NEW pc, Goto(t, pc)
  PROVE  /\ job'[t].pc = pc /\ job'[t].file = job[t].file /\ job'[t].doc = job[t].doc
         /\ \A u \in Tasks \ {t} : job'[u] = job[u]
<1> DEFINE j == [job[t] EXCEPT !.pc = pc]
<1>1. job'[t] = j /\ job[t] \in Jobs /\ \A u \in Tasks \ {t} : job'[u] = job[u]
  BY JobIs DEF Goto
<1>2. j.pc = pc /\ j.file = job[t].file /\ j.doc = job[t].doc
  BY <1>1 DEF Jobs
<1> QED
  BY <1>1, <1>2

LEMMA NextFileIs ==
  ASSUME Types, NEW t \in Tasks, NextFile(t)
  PROVE  /\ job'[t].pc = "loop" /\ job'[t].doc = NoDoc
         /\ \A u \in Tasks \ {t} : job'[u] = job[u]
<1> DEFINE j == [job[t] EXCEPT !.pc = "loop", !.file = NoFile, !.doc = NoDoc, !.text = 0,
                               !.scan[job[t].file] = Gone]
<1>1. job'[t] = j /\ job[t] \in Jobs /\ \A u \in Tasks \ {t} : job'[u] = job[u]
  BY JobIs DEF NextFile
<1>2. j.pc = "loop" /\ j.doc = NoDoc
  BY <1>1 DEF Jobs
<1> QED
  BY <1>1, <1>2

LEMMA EndIs ==
  ASSUME Types, NEW t \in Tasks, End(t)
  PROVE  /\ job'[t] = Idle /\ job'[t].pc = "free" /\ job'[t].doc = NoDoc
         /\ \A u \in Tasks \ {t} : job'[u] = job[u]
<1>1. Idle.pc = "free" /\ Idle.doc = NoDoc
  BY DEF Idle
<1> QED
  BY <1>1, JobIs DEF End

\* A task that starts has no key and no document.
LEMMA StartIs ==
  ASSUME Types, NEW t \in Tasks, NEW forced, NEW only, StartTask(t, forced, only)
  PROVE  /\ job'[t].pc = "begin" /\ job'[t].doc = NoDoc /\ status'[t] = "none"
         /\ \A u \in Tasks \ {t} : job'[u] = job[u] /\ status'[u] = status[u]
<1> DEFINE j == [Idle EXCEPT !.pc = "begin", !.forced = forced, !.only = only]
<1>1. job'[t] = j /\ \A u \in Tasks \ {t} : job'[u] = job[u]
  BY JobIs DEF StartTask, Become
<1>2. j.pc = "begin" /\ j.doc = NoDoc
  BY DEF Idle
<1>3. status'[t] = "none" /\ \A u \in Tasks \ {t} : status'[u] = status[u]
  BY DEF StartTask, Types, KeyTypes
<1> QED
  BY <1>1, <1>2, <1>3

\* Those whom the process leaves: nobody, but a key that says "running".
LEMMA LostIs ==
  LET lost(t) == [Idle EXCEPT !.pc = IF status[t] = "running" THEN "dead" ELSE "free"]
  IN \A t \in Tasks : /\ lost(t).pc = IF status[t] = "running" THEN "dead" ELSE "free"
                      /\ lost(t).doc = NoDoc
BY DEF Idle

\* Where a task is before and after each of its steps, and what its key says then.
LEMMA TaskMoves ==
  ASSUME Types, NEW t \in Tasks, Work(t) \/ Fail(t) \/ Expire(t)
  PROVE  /\ \A u \in Tasks \ {t} : job'[u] = job[u] /\ status'[u] = status[u]
         /\ \/ /\ status'[t] = status[t]
               /\ \/ job[t].pc = "begin" /\ job'[t].pc \in {"scan", "free"}
                  \/ job[t].pc = "scan" /\ job'[t].pc = "compare"
                  \/ job[t].pc = "compare" /\ job'[t].pc = "compare"
                  \/ job[t].pc = "bound" /\ job'[t].pc = "free"
                  \/ job'[t].pc \notin {"free", "dead", "begin", "scan", "compare", "bound"}
                  \/ job'[t].pc = IF status[t] = "running" THEN "dead" ELSE "free"
            \/ status'[t] = "running" /\ job'[t].pc = "loop"
            \/ status'[t] = "done" /\ job'[t].pc = "bound"
            \/ status'[t] \notin {"running"} /\ job'[t].pc = "free"
<1> USE DEF At
<1>1. CASE Bind(t) \/ Register(t) \/ Wipe(t) \/ MarkPending(t) \/ MarkRowIndexed(t) \/ Unbind(t)
           \/ MarkTaskDone(t) \/ FileFails(t) \/ TaskFails(t)
  <2>1. PICK pc : /\ Goto(t, pc)
                  /\ \/ pc = "scan" /\ job[t].pc = "begin" /\ status' = status
                     \/ pc = "loop" /\ status' = [status EXCEPT ![t] = "running"]
                     \/ pc = "bound" /\ status' = [status EXCEPT ![t] = "done"]
                     \/ /\ pc \in {"pending", "reread", "cache", "error", "rollback", "unbind"}
                        /\ status' = status
    BY <1>1 DEF Bind, Register, Wipe, MarkPending, MarkRowIndexed, Unbind, MarkTaskDone,
                FileFails, TaskFails
  <2> QED
    BY <2>1, GotoIs DEF Types, KeyTypes
<1>2. CASE Abort(t) \/ MarkBound(t)
  BY <1>2, EndIs DEF Abort, MarkBound
<1>3. CASE Cancelled(t) \/ MarkTaskError(t) \/ Expire(t)
  <2>1. /\ End(t)
        /\ \E x \in {"cancelled", "error", "none"} : status' = [status EXCEPT ![t] = x]
    BY <1>3 DEF Cancelled, MarkTaskError, Expire
  <2> QED
    BY <2>1, EndIs DEF Types, KeyTypes
<1>4. CASE MarkFails(t)
  BY <1>4, LostIs, JobIs DEF MarkFails
<1>5. CASE ScanVault(t)
  <2>1. CASE End(t) /\ status' = [status EXCEPT ![t] = "done"]
    BY <2>1, EndIs DEF Types, KeyTypes
  <2>2. CASE /\ status' = status /\ job[t].pc = "scan"
             /\ \E a, b : Become(t, [job[t] EXCEPT !.pc = "compare", !.scan = a, !.left = b])
    <3>1. PICK a, b : Become(t, [job[t] EXCEPT !.pc = "compare", !.scan = a, !.left = b])
      BY <2>2
    <3>2. job[t] \in Jobs
      BY DEF Types, JobTypes
    <3>3. [job[t] EXCEPT !.pc = "compare", !.scan = a, !.left = b].pc = "compare"
      BY <3>2 DEF Jobs
    <3> QED
      BY <2>2, <3>1, <3>3, JobIs
  <2> QED
    BY <1>5, <2>1, <2>2 DEF ScanVault
<1>6. CASE Compare(t)
  <2>1. PICK f \in job[t].left :
          Become(t, [job[t] EXCEPT !.left = @ \ {f},
                       !.scan[f] = IF UpToDate(f, @) THEN Gone ELSE @])
    BY <1>6 DEF Compare
  <2>2. job[t] \in Jobs /\ job[t].pc = "compare" /\ status' = status
    BY <1>6 DEF Compare, Types, JobTypes
  <2>3. [job[t] EXCEPT !.left = @ \ {f},
           !.scan[f] = IF UpToDate(f, @) THEN Gone ELSE @].pc = "compare"
    BY <2>2 DEF Jobs
  <2> QED
    BY <2>1, <2>2, <2>3, JobIs
<1>7. CASE CacheIndexed(t)
  BY <1>7, NextFileIs, GotoIs DEF CacheIndexed
<1>8. CASE Pick(t) \/ Lookup(t) \/ InsertRow(t) \/ Reread(t) \/ Parse(t) \/ Upsert(t) \/ Rollback(t)
  <2>1. job[t] \in Jobs /\ status' = status
    BY <1>8 DEF Types, JobTypes, Pick, Lookup, InsertRow, Reread, Parse, Upsert, Rollback
  <2>2. ASSUME NEW j, Become(t, j),
               j.pc \in {"lookup", "insert", "wipe", "parse", "unbind", "upsert", "rollback", "mark"}
        PROVE  /\ job'[t].pc \notin {"free", "dead", "begin", "scan", "compare", "bound"}
               /\ \A u \in Tasks \ {t} : job'[u] = job[u]
    BY <2>2, JobIs
  <2>3. /\ job'[t].pc \notin {"free", "dead", "begin", "scan", "compare", "bound"}
        /\ \A u \in Tasks \ {t} : job'[u] = job[u]
    <3>1. CASE Pick(t)
      BY <2>1, <2>2, <3>1 DEF Pick, Jobs
    <3>2. CASE Lookup(t)
      BY <2>1, <2>2, <3>2 DEF Lookup, Goto, Jobs
    <3>3. CASE InsertRow(t)
      BY <2>1, <2>2, <3>3 DEF InsertRow, Goto, Jobs
    <3>4. CASE Reread(t)
      BY <2>1, <2>2, <3>4 DEF Reread, Jobs
    <3>5. CASE Parse(t)
      BY <2>1, <2>2, <3>5 DEF Parse, Goto, Jobs
    <3>6. CASE Upsert(t)
      BY <2>1, <2>2, <3>6 DEF Upsert, Goto, Jobs
    <3>7. CASE Rollback(t)
      BY <2>1, <2>2, <3>7 DEF Rollback, Goto, Jobs
    <3> QED
      BY <1>8, <3>1, <3>2, <3>3, <3>4, <3>5, <3>6, <3>7
  <2> QED
    BY <2>1, <2>3
<1> QED
  BY <1>1, <1>2, <1>3, <1>4, <1>5, <1>6, <1>7, <1>8 DEF Work, Fail

LEMMA KeysStep == ASSUME Types, KeysFit, [Next]_vars PROVE KeysFit'
<1> USE DEF KeysFit, KeyFits, Live, At
<1>1. ASSUME NEW t \in Tasks, Work(t) \/ Fail(t) \/ Expire(t) PROVE KeysFit'
  <2>1. \A u \in Tasks \ {t} : KeyFits(u)'
    BY <1>1, TaskMoves
  <2>2. KeyFits(t)
    OBVIOUS
  <2>3. KeyFits(t)'
    <3>1. \/ status'[t] = status[t] /\ job[t].pc = "begin" /\ job'[t].pc \in {"scan", "free"}
          \/ status'[t] = status[t] /\ job[t].pc = "scan" /\ job'[t].pc = "compare"
          \/ status'[t] = status[t] /\ job[t].pc = "compare" /\ job'[t].pc = "compare"
          \/ status'[t] = status[t] /\ job[t].pc = "bound" /\ job'[t].pc = "free"
          \/ job'[t].pc \notin {"free", "dead", "begin", "scan", "compare", "bound"}
          \/ status'[t] = status[t] /\ job'[t].pc = IF status[t] = "running" THEN "dead" ELSE "free"
          \/ status'[t] = "running" /\ job'[t].pc = "loop"
          \/ status'[t] = "done" /\ job'[t].pc = "bound"
          \/ status'[t] # "running" /\ job'[t].pc = "free"
      BY <1>1, TaskMoves
    <3> QED
      BY <2>2, <3>1
  <2> QED
    BY <2>1, <2>3
<1>2. ASSUME NEW t \in Tasks, NEW forced, NEW only, StartTask(t, forced, only) PROVE KeysFit'
  BY <1>2, StartIs
<1>3. CASE UNCHANGED <<job, status>>
  BY <1>3
<1>4. CASE Crash
  <2>1. \A t \in Tasks : job'[t].pc = IF status[t] = "running" THEN "dead" ELSE "free"
    BY <1>4, LostIs DEF Crash
  <2>2. status' = status
    BY <1>4 DEF Crash
  <2> QED
    BY <2>1, <2>2
<1>5. CASE \E t \in Tasks : Request(t)
  BY <1>2, <1>5 DEF Request
<1>6. CASE WatchStart
  <2>1. CASE \E t \in Tasks : StartTask(t, FALSE, {})
    BY <1>2, <2>1
  <2>2. CASE UNCHANGED job /\ ~\E t \in Tasks : StartTask(t, FALSE, {})
    BY <1>3, <1>6, <2>2 DEF WatchStart
  <2> QED
    BY <1>3, <1>6, <2>1, <2>2 DEF WatchStart
<1>7. CASE \/ \E f \in Files : Edit(f) \/ Touch(f) \/ RemoveFile(f)
           \/ \E t \in Tasks : CancelTask(t) \/ ExpireCancel(t)
           \/ WatchScan \/ WatchCache \/ WatchLookup \/ WatchDropChunks \/ WatchDropRow
           \/ WatchDropEntry \/ WatchChanged \/ WatchMark \/ WatchFails \/ UNCHANGED vars
  <2>1. UNCHANGED <<job, status>>
    BY <1>7 DEF Edit, Touch, RemoveFile, Change, CancelTask, ExpireCancel, WatchScan,
       WatchCache, WatchLookup, WatchDropChunks, WatchDropRow, WatchDropEntry, WatchChanged,
       WatchMark, WatchFails, vars, tasks
  <2> QED
    BY <1>3, <2>1
<1> QED
  BY <1>1, <1>4, <1>5, <1>6, <1>7 DEF Next, Watchdog

\* A key that says "running" always has a task, living or dead, that ends it: no failure,
\* cancellation, crash or reuse of an id leaves one that keeps the watchdog away for ever.
THEOREM RunningKeysEnd == Spec => []RunningHasAnEnd
<1>1. Init => KeysFit
  BY DEF Init, KeysFit, KeyFits, Idle
<1>2. Types /\ KeysFit => RunningHasAnEnd
  BY DEF KeysFit, KeyFits, RunningHasAnEnd
<1> QED
  BY <1>1, <1>2, InitTypes, NextTypes, KeysStep, PTL DEF Spec

-----------------------------------------------------------------------------
(* Documents: whose document is held by whom. *)

\* A task that has not begun with a file has no document.
EmptyHanded(j) == j.pc \in {"begin", "scan", "compare", "loop"} => j.doc = NoDoc
Papers == DocumentsAreNotShared /\ \A t \in Tasks : EmptyHanded(job[t])

\* The task holds what its row says, what it held, or nothing.
Holds(t, f, d) == job[t].file = f /\ job[t].doc = d
KeepsToItsFile(t) == \A f \in Files, d \in Docs : Holds(t, f, d)' => Refers(f, d)

LEMMA RowsKeepIds ==
  ASSUME Types, [Next]_vars, ~\E t \in Tasks : InsertRow(t)
  PROVE  \A f \in Files, d \in Docs : HasId(f, d)' => HasId(f, d)
<1>1. CASE UNCHANGED row
  BY <1>1 DEF HasId
<1>2. CASE WatchDropRow
  BY <1>2 DEF WatchDropRow, HasId
<1>3. ASSUME NEW t \in Tasks, MarkPending(t) \/ MarkRowIndexed(t)
      PROVE  \A f \in Files, d \in Docs : HasId(f, d)' => HasId(f, d)
  <2> SUFFICES ASSUME NEW f \in Files, NEW d \in Docs, HasId(f, d)' PROVE HasId(f, d)
    OBVIOUS
  <2>1. CASE ~HasId(f, job[t].doc)
    <3>1. row'[f] = row[f]
      BY <1>3, <2>1 DEF MarkPending, MarkRowIndexed
    <3> QED
      BY <3>1 DEF HasId
  <2>2. CASE HasId(f, job[t].doc)
    <3>1. row[f] \in Rows
      BY <2>2 DEF HasId, Types, RowTypes
    <3>3. \A z : [row[f] EXCEPT !.status = z].id = row[f].id
      BY <3>1 DEF Rows
    <3>4. row'[f].id = row[f].id
      <4>1. CASE MarkPending(t)
        BY <2>2, <3>1, <4>1 DEF MarkPending, Rows
      <4>2. CASE MarkRowIndexed(t)
        BY <2>2, <3>3, <4>2 DEF MarkRowIndexed
      <4> QED
        BY <1>3, <4>1, <4>2
    <3> QED
      BY <2>2, <3>4 DEF HasId
  <2> QED
    BY <2>1, <2>2
<1> QED
  BY <1>1, <1>2, <1>3, StoresStep

LEMMA TaskKeepsToItsFile ==
  ASSUME Types, Papers, NEW t \in Tasks, Work(t) \/ Fail(t) \/ Expire(t), ~InsertRow(t)
  PROVE  KeepsToItsFile(t) /\ EmptyHanded(job[t])'
<1> USE DEF KeepsToItsFile, Holds, EmptyHanded, At
<1>0. /\ job[t] \in Jobs /\ NoDoc \notin Docs /\ EmptyHanded(job[t])
      /\ \A f \in Files, d \in Docs : Holds(t, f, d) => Refers(f, d)
  BY NothingAssumption DEF Types, JobTypes, Papers, Refers
<1>1. ASSUME job'[t].doc = NoDoc PROVE KeepsToItsFile(t) /\ EmptyHanded(job[t])'
  BY <1>0, <1>1
<1>2. ASSUME job'[t].file = job[t].file, job'[t].doc = job[t].doc, job'[t].pc # "loop",
             job'[t].pc \in {"begin", "scan", "compare"} => job[t].pc \in {"begin", "scan", "compare"}
      PROVE  KeepsToItsFile(t) /\ EmptyHanded(job[t])'
  BY <1>0, <1>2
<1>3. CASE \/ Wipe(t) \/ MarkPending(t) \/ MarkRowIndexed(t) \/ Unbind(t)
           \/ MarkTaskDone(t) \/ FileFails(t) \/ TaskFails(t)
  <2>1. \E pc \in {"pending", "reread", "cache", "error", "bound", "rollback", "unbind"} : Goto(t, pc)
    BY <1>3 DEF Wipe, MarkPending, MarkRowIndexed, Unbind, MarkTaskDone, FileFails, TaskFails
  <2> QED
    BY <1>2, <2>1, GotoIs
<1>18. CASE Bind(t)
  BY <1>2, <1>18, GotoIs DEF Bind
<1>4. CASE Register(t)
  <2>1. Goto(t, "loop") /\ job[t].doc = NoDoc
    BY <1>0, <1>4 DEF Register
  <2> QED
    BY <1>1, <2>1, GotoIs
<1>5. CASE Abort(t) \/ MarkBound(t) \/ Cancelled(t) \/ MarkTaskError(t) \/ Expire(t)
  BY <1>1, <1>5, EndIs DEF Abort, MarkBound, Cancelled, MarkTaskError, Expire
<1>6. CASE MarkFails(t)
  BY <1>1, <1>6, LostIs, JobIs DEF MarkFails
<1>7. CASE ScanVault(t)
  <2>1. CASE End(t)
    BY <1>1, <2>1, EndIs
  <2>2. CASE \E a, b : Become(t, [job[t] EXCEPT !.pc = "compare", !.scan = a, !.left = b])
    <3>1. PICK a, b : Become(t, [job[t] EXCEPT !.pc = "compare", !.scan = a, !.left = b])
      BY <2>2
    <3>2. [job[t] EXCEPT !.pc = "compare", !.scan = a, !.left = b].doc = job[t].doc
      BY <1>0 DEF Jobs
    <3>3. job[t].doc = NoDoc
      BY <1>0, <1>7 DEF ScanVault
    <3> QED
      BY <1>1, <3>1, <3>2, <3>3, JobIs
  <2> QED
    BY <1>7, <2>1, <2>2 DEF ScanVault
<1>8. CASE Compare(t)
  <2>1. PICK f \in job[t].left :
          Become(t, [job[t] EXCEPT !.left = @ \ {f},
                       !.scan[f] = IF UpToDate(f, @) THEN Gone ELSE @])
    BY <1>8 DEF Compare
  <2>2. job[t].doc = NoDoc
    BY <1>0, <1>8 DEF Compare
  <2>3. [job[t] EXCEPT !.left = @ \ {f},
           !.scan[f] = IF UpToDate(f, @) THEN Gone ELSE @].doc = job[t].doc
    BY <1>0 DEF Jobs
  <2> QED
    BY <1>1, <2>1, <2>2, <2>3, JobIs
<1>9. CASE CacheIndexed(t)
  <2>1. CASE NextFile(t)
    BY <1>1, <2>1, NextFileIs
  <2>2. CASE Goto(t, "rollback")
    BY <1>2, <2>2, GotoIs
  <2> QED
    BY <1>9, <2>1, <2>2 DEF CacheIndexed
<1>10. CASE Pick(t)
  <2>1. PICK f \in Files : Become(t, [job[t] EXCEPT !.file = f, !.pc = "lookup"])
    BY <1>10 DEF Pick
  <2>2. [job[t] EXCEPT !.file = f, !.pc = "lookup"].doc = job[t].doc /\ job[t].doc = NoDoc
    BY <1>0, <1>10 DEF Jobs, Pick
  <2> QED
    BY <1>1, <2>1, <2>2, JobIs
<1>11. ASSUME NEW pc, pc \notin {"begin", "scan", "compare", "loop"}, job[t].file \in Files,
              Become(t, [job[t] EXCEPT !.pc = pc, !.doc = row[job[t].file].id]),
              row[job[t].file] # NoRow
       PROVE  KeepsToItsFile(t) /\ EmptyHanded(job[t])'
  <2> DEFINE j == [job[t] EXCEPT !.pc = pc, !.doc = row[job[t].file].id]
  <2>1. job'[t] = j
    BY <1>11, JobIs
  <2>2. j.pc = pc /\ j.file = job[t].file /\ j.doc = row[job[t].file].id
    BY <1>0 DEF Jobs
  <2> HIDE DEF j
  <2> QED
    BY <1>11, <2>1, <2>2 DEF Refers, HasId
<1>12. CASE Lookup(t)
  <2>1. CASE Goto(t, "insert")
    BY <1>2, <2>1, GotoIs
  <2>2. CASE ~Goto(t, "insert")
    BY <1>11, <1>12, <2>2 DEF Lookup, Types, JobTypes, Fit, FilePcs
  <2> QED
    BY <2>1, <2>2
<1>13. CASE Reread(t)
  <2>1. CASE row[job[t].file] = NoRow
    <3>1. Become(t, [job[t] EXCEPT !.pc = "parse", !.doc = NoDoc])
      BY <1>13, <2>1 DEF Reread
    <3>2. [job[t] EXCEPT !.pc = "parse", !.doc = NoDoc].doc = NoDoc
      BY <1>0 DEF Jobs
    <3> QED
      BY <1>1, <3>1, <3>2, JobIs
  <2>2. CASE row[job[t].file] # NoRow
    BY <1>11, <1>13, <2>2 DEF Reread, Types, JobTypes, Fit, FilePcs
  <2> QED
    BY <2>1, <2>2
<1>14. ASSUME NEW j, Become(t, j), j.file = job[t].file, j.doc = job[t].doc,
              j.pc \in {"upsert", "mark", "rollback"}
       PROVE  KeepsToItsFile(t) /\ EmptyHanded(job[t])'
  BY <1>2, <1>14, JobIs
<1>15. CASE Parse(t)
  BY <1>2, <1>0, <1>14, <1>15, GotoIs DEF Parse, Jobs
<1>16. CASE Upsert(t)
  BY <1>2, <1>0, <1>14, <1>16, GotoIs DEF Upsert, Jobs
<1>17. CASE Rollback(t)
  BY <1>2, <1>0, <1>14, <1>17, GotoIs DEF Rollback, Jobs
<1> QED
  BY <1>3, <1>4, <1>5, <1>6, <1>7, <1>8, <1>9, <1>10, <1>12, <1>13, <1>15, <1>16, <1>17,
     <1>18 DEF Work, Fail

\* A new row refers to a document nobody refers to.
LEMMA InsertIsFresh ==
  ASSUME Types, Papers, NEW t \in Tasks, InsertRow(t)
  PROVE  Papers'
<1> DEFINE f == job[t].file
           s == job[t].scan[f]
           new(d) == [id |-> d, md5 |-> s.text, mtime |-> s.mtime, status |-> "pending"]
<1> USE DEF Papers, DocumentsAreNotShared, EmptyHanded
<1>0. f \in Files /\ job[t] \in Jobs /\ wd' = wd
  BY DEF InsertRow, At, Types, JobTypes, Fit, FilePcs
<1>1. CASE Goto(t, "unbind") /\ UNCHANGED row
  <2>1. \A g \in Files, d \in Docs : Refers(g, d)' => Refers(g, d)
    BY <1>0, <1>1, GotoIs DEF Refers, HasId
  <2> QED
    BY <1>1, <2>1, GotoIs
<1>2. ASSUME NEW d \in Docs, Fresh(d), row' = [row EXCEPT ![f] = new(d)],
             Become(t, [job[t] EXCEPT !.pc = "parse", !.doc = d])
      PROVE  Papers'
  <2> DEFINE j == [job[t] EXCEPT !.pc = "parse", !.doc = d]
  <2>1. job'[t] = j /\ \A u \in Tasks \ {t} : job'[u] = job[u]
    BY <1>2, JobIs
  <2>2. j.pc = "parse" /\ j.file = f /\ j.doc = d
    BY <1>0 DEF Jobs
  <2> HIDE DEF j
  <2>3. new(d).id = d
    OBVIOUS
  <2> HIDE DEF new
  <2>4. \A g \in Files \ {f} : row'[g] = row[g]
    BY <1>2 DEF Types, RowTypes
  <2>5. row'[f] = new(d)
    BY <1>0, <1>2 DEF Types, RowTypes
  <2> HIDE DEF f
  <2>6. \A g \in Files, e \in Docs : Refers(g, e)' => Refers(g, e) \/ (g = f /\ e = d)
    BY <1>0, <2>1, <2>2, <2>3, <2>4, <2>5 DEF Refers, HasId
  <2>7. \A g \in Files : ~Refers(g, d)
    BY <1>2 DEF Fresh, Refers, HasId
  <2> QED
    BY <2>1, <2>2, <2>6, <2>7
<1> QED
  BY <1>1, <1>2 DEF InsertRow

LEMMA PapersStep == ASSUME Types, Papers, [Next]_vars PROVE Papers'
<1> SUFFICES ASSUME ~\E t \in Tasks : InsertRow(t) PROVE Papers'
  BY InsertIsFresh
<1>1. ASSUME \A t \in Tasks : KeepsToItsFile(t) /\ EmptyHanded(job[t])',
             \A f \in Files, d \in Docs : wd'.file = f /\ wd'.doc = d => Refers(f, d)
      PROVE  Papers'
  <2>1. \A f \in Files, d \in Docs : HasId(f, d)' => Refers(f, d)
    BY RowsKeepIds DEF Refers
  <2>2. \A f \in Files, d \in Docs : Refers(f, d)' => Refers(f, d)
    BY <1>1, <2>1 DEF Refers, KeepsToItsFile, Holds
  <2> QED
    BY <1>1, <2>2 DEF Papers, DocumentsAreNotShared
<1>2. NoDoc \notin Docs /\ wd \in Iterations
  BY NothingAssumption DEF Types, WatchTypes
\* What does not touch a task, or leaves it without a document.
<1>3. ASSUME NEW t \in Tasks, job'[t] = job[t] \/ job'[t].doc = NoDoc
      PROVE  KeepsToItsFile(t) /\ EmptyHanded(job[t])'
  BY <1>2, <1>3 DEF KeepsToItsFile, Holds, Refers, EmptyHanded, Papers
\* What does not touch the watchdog, or leaves it without a document.
<1>4. ASSUME (wd'.file = wd.file /\ wd'.doc = wd.doc) \/ wd'.doc = NoDoc
      PROVE  \A f \in Files, d \in Docs : wd'.file = f /\ wd'.doc = d => Refers(f, d)
  BY <1>2, <1>4 DEF Refers
<1>5. Quiet.doc = NoDoc
  BY DEF Quiet
<1>6. ASSUME NEW t \in Tasks, Work(t) \/ Fail(t) \/ Expire(t) PROVE Papers'
  <2>1. wd' = wd
    BY <1>6, TaskSteps
  <2>2. \A u \in Tasks : KeepsToItsFile(u) /\ EmptyHanded(job[u])'
    BY <1>3, <1>6, TaskMoves, TaskKeepsToItsFile
  <2> QED
    BY <1>1, <1>4, <2>1, <2>2
<1>7. ASSUME NEW t \in Tasks, NEW forced, NEW only, StartTask(t, forced, only)
      PROVE  \A u \in Tasks : KeepsToItsFile(u) /\ EmptyHanded(job[u])'
  BY <1>3, <1>7, StartIs
<1>8. ASSUME UNCHANGED job PROVE \A u \in Tasks : KeepsToItsFile(u) /\ EmptyHanded(job[u])'
  BY <1>3, <1>8
<1>9. CASE \E t \in Tasks : Request(t)
  BY <1>1, <1>4, <1>7, <1>9 DEF Request
<1>10. CASE Crash
  <2>1. \A t \in Tasks : job'[t].doc = NoDoc
    BY <1>10, LostIs DEF Crash
  <2> QED
    BY <1>1, <1>3, <1>4, <1>5, <1>10, <2>1 DEF Crash
<1>11. CASE WatchStart
  <2>1. wd'.doc = NoDoc
    BY <1>5, <1>11 DEF WatchStart, Watch
  <2>2. \A u \in Tasks : KeepsToItsFile(u) /\ EmptyHanded(job[u])'
    BY <1>7, <1>8, <1>11 DEF WatchStart
  <2> QED
    BY <1>1, <1>4, <2>1, <2>2
<1>12. CASE WatchLookup
  <2>1. PICK f \in wd.todo :
          Watch([wd EXCEPT !.todo = @ \ {f}, !.file = f,
                 !.pc  = IF row[f] = NoRow THEN "entry" ELSE "chunks",
                 !.doc = IF row[f] = NoRow THEN NoDoc ELSE row[f].id])
    BY <1>12 DEF WatchLookup
  <2>2. wd'.file = f /\ wd'.doc = IF row[f] = NoRow THEN NoDoc ELSE row[f].id
    BY <1>2, <2>1 DEF Watch, Iterations
  <2>3. \A g \in Files, d \in Docs : wd'.file = g /\ wd'.doc = d => Refers(g, d)
    BY <1>2, <2>2 DEF Refers, HasId
  <2>4. UNCHANGED job
    BY <1>12 DEF WatchLookup, tasks
  <2> QED
    BY <1>1, <1>8, <2>3, <2>4
<1>13. CASE WatchScan \/ WatchCache \/ WatchDropChunks \/ WatchDropRow \/ WatchChanged \/ WatchMark
  <2>1. UNCHANGED job
    BY <1>13 DEF WatchScan, WatchCache, WatchDropChunks, WatchDropRow, WatchChanged, WatchMark,
       tasks
  <2>2. wd'.file = wd.file /\ wd'.doc = wd.doc
    BY <1>2, <1>13 DEF WatchScan, WatchCache, WatchDropChunks, WatchDropRow, WatchChanged,
       WatchMark, Watch, Iterations
  <2> QED
    BY <1>1, <1>4, <1>8, <2>1, <2>2
<1>14. CASE WatchDropEntry \/ WatchFails
  <2>1. UNCHANGED job /\ wd'.doc = NoDoc
    BY <1>2, <1>5, <1>14 DEF WatchDropEntry, WatchFails, Watch, tasks, Iterations
  <2> QED
    BY <1>1, <1>4, <1>8, <2>1
<1>15. CASE \/ \E f \in Files : Edit(f) \/ Touch(f) \/ RemoveFile(f)
            \/ \E t \in Tasks : CancelTask(t) \/ ExpireCancel(t)
            \/ UNCHANGED vars
  <2>1. UNCHANGED <<job, wd>>
    BY <1>15 DEF Edit, Touch, RemoveFile, Change, CancelTask, ExpireCancel, vars
  <2> QED
    BY <1>1, <1>4, <1>8, <2>1
<1> QED
  BY <1>6, <1>9, <1>10, <1>11, <1>12, <1>13, <1>14, <1>15 DEF Next, Watchdog

\* Two files never share a document, whatever overlaps, fails or crashes between the look-up
\* of a document and the use of its id: no task wipes, stores or marks, and the watchdog
\* never drops, what belongs to another file.
THEOREM DocumentsStayApart == Spec => []DocumentsAreNotShared
<1>1. Init => Papers
  <2>1. ASSUME Init PROVE Papers
    <3>1. /\ \A f \in Files : row[f] = NoRow
          /\ \A t \in Tasks : job[t].doc = NoDoc
          /\ wd.doc = NoDoc /\ NoDoc \notin Docs
      BY <2>1, NothingAssumption DEF Init, Idle, Quiet
    <3> QED
      BY <3>1 DEF Papers, DocumentsAreNotShared, EmptyHanded, Refers, HasId
  <2> QED
    BY <2>1
<1>2. Papers => DocumentsAreNotShared
  BY DEF Papers
<1> QED
  BY <1>1, <1>2, InitTypes, NextTypes, PapersStep, PTL DEF Spec
=============================================================================
