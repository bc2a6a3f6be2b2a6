----------------------------- MODULE VaultIndex -----------------------------
(***************************************************************************)
(* rag-indexer, the index of one vault.  Four stores hold what is known of *)
(* a file: the disk, the documents table (PostgreSQL), the chunks          *)
(* (LanceDB, behind db-api-server) and the file cache (Redis).  The        *)
(* indexing tasks (run_indexing) and the watchdog move a file from the     *)
(* first to the other three; nothing makes the three change together.      *)
(*                                                                         *)
(* One action is the code between two awaits that reach a store.  A scan   *)
(* of the vault is one action: what it reads of two files may in fact be   *)
(* some seconds apart.                                                     *)
(***************************************************************************)
EXTENDS Naturals, FiniteSets

CONSTANTS
  Files,        \* source paths
  AutoIndexed,  \* those whose extension is in watchdog_auto_index_extensions
  MaxText,      \* texts are 1..MaxText; equal texts have equal md5
  Size,         \* Size[x] : the number of chunks text x is cut into
  MaxMtime,
  Docs,         \* document ids; one that nothing refers to is a fresh uuid
  Tasks,        \* task ids; a finished one is reused for a fresh uuid
  Requests,     \* [forced, only] of the tasks users and update mode start
  MaxActs,      \* bound on edits, requests and cancellations
  Missing,      \* files may be missing, at the start or later
  Reverts,      \* an edit may bring an earlier text back
  Overlap,      \* a task may be started while another one works
  Cancels,      \* tasks may be cancelled
  MaxCrashes,   \* bound on crashes of rag-indexer
  Faults        \* calls to the parser, the embedder or a store may fail

ASSUME ConstantsAssumption ==
  /\ AutoIndexed \subseteq Files
  /\ MaxText \in Nat \ {0}
  /\ {MaxMtime, MaxActs, MaxCrashes} \subseteq Nat
  /\ Size \in [1..MaxText -> Nat]
  /\ Requests \subseteq [forced : BOOLEAN, only : SUBSET Files]
  /\ {Missing, Reverts, Overlap, Cancels, Faults} \subseteq BOOLEAN

CONSTANTS NoFile, NoDoc, NoRow, NoEntry

VARIABLES
  disk,     \* the vault's files
  row,      \* documents: unique (vault_id, source_path)
  chunks,   \* chunks[d][i] : the text chunk i of document d was cut from, or 0
  cache,    \* vault:{vault_id}:files
  binding,  \* vaults.binding_status
  job,      \* the coroutines of run_indexing
  status,   \* task:{task_id}.status
  cancel,   \* cancel:{task_id}
  wd,       \* the watchdog's iteration
  acts,     \* edits, requests and cancellations so far
  crashes

stores == <<row, chunks, cache>>
world  == <<disk, acts, crashes>>
tasks  == <<binding, job, status, cancel>>
vars   == <<disk, row, chunks, cache, binding, job, status, cancel, wd, acts,
            crashes>>

---------------------------------------------------------------------------
(* What the stores hold *)

Texts    == 1..MaxText
Slots    == UNION {1..Size[x] : x \in Texts}
Snapshot == [here : BOOLEAN, text : 0..MaxText, mtime : 0..MaxMtime]
Gone     == [here |-> FALSE, text |-> 0, mtime |-> 0]
Rows     == [id : Docs, md5 : Texts, mtime : 0..MaxMtime,
             status : {"pending", "indexed"}]
Entries  == [md5 : 0..MaxText,
             status : {"pending", "stale", "indexed", "deleted"}]

ASSUME NothingAssumption == NoRow \notin Rows /\ NoDoc \notin Docs

\* build_chunk_records: a text becomes the chunks 1..Size of its document.
NoChunks    == [i \in Slots |-> 0]
ChunksOf(x) == [i \in Slots |-> IF i <= Size[x] THEN x ELSE 0]

\* scan_vault returns the files present.
Scan == [f \in Files |-> IF disk[f].here THEN disk[f] ELSE Gone]

\* rebuild_vault_cache, from the documents and a scan s.
Rebuilt(s) ==
  [f \in Files |->
     LET md5 == IF row[f] = NoRow THEN 0 ELSE row[f].md5
     IN  IF ~s[f].here /\ row[f] = NoRow THEN NoEntry
         ELSE IF ~s[f].here THEN [md5 |-> 0, status |-> "deleted"]
         ELSE IF row[f] = NoRow \/ (row[f] # NoRow /\ row[f].status # "indexed")
              THEN [md5 |-> 0, status |-> "pending"]
         ELSE IF s[f].text = md5 THEN [md5 |-> md5, status |-> "indexed"]
         ELSE [md5 |-> 0, status |-> "stale"]]

Live(t) == job[t].pc \notin {"free", "dead"}

\* A uuid no store and no coroutine knows.
Fresh(d) ==
  /\ chunks[d] = NoChunks
  /\ \A f \in Files : row[f] # NoRow => row[f].id # d
  /\ \A t \in Tasks : job[t].doc # d /\ d \notin job[t].uploaded
  /\ wd.doc # d

\* is_vault_indexing looks at Redis; a task is there once create_task ran.
VaultIndexing == \E t \in Tasks : status[t] = "running"

Idle  == [pc |-> "free", forced |-> FALSE, only |-> {},
          scan |-> [f \in Files |-> Gone], left |-> {}, file |-> NoFile,
          doc |-> NoDoc, text |-> 0, uploaded |-> {}]
Quiet == [pc |-> "idle", disk |-> [f \in Files |-> Gone],
          cache |-> [f \in Files |-> NoEntry], todo |-> {}, file |-> NoFile,
          doc |-> NoDoc]

Init ==
  /\ disk \in [Files -> {[Gone EXCEPT !.here = TRUE, !.text = 1]}
                         \union IF Missing THEN {Gone} ELSE {}]
  /\ row = [f \in Files |-> NoRow]
  /\ chunks = [d \in Docs |-> NoChunks]
  /\ cache = [f \in Files |-> NoEntry]
  /\ binding = "unbound"
  /\ job = [t \in Tasks |-> Idle]
  /\ status = [t \in Tasks |-> "none"]
  /\ cancel = {}
  /\ wd = Quiet
  /\ acts = 0 /\ crashes = 0

---------------------------------------------------------------------------
(* The vault's files *)

Act == acts < MaxActs /\ acts' = acts + 1

Change(f, s) ==
  /\ Act
  /\ disk' = [disk EXCEPT ![f] = s]
  /\ UNCHANGED <<row, chunks, cache, binding, job, status, cancel, wd, crashes>>

\* The text a removed file had is remembered to tell a revert from an edit.
Edit(f) == \E x \in Texts :
  /\ IF Reverts THEN ~disk[f].here \/ x # disk[f].text ELSE x > disk[f].text
  /\ Change(f, [disk[f] EXCEPT !.here = TRUE, !.text = x])

Touch(f) ==
  /\ disk[f].here /\ disk[f].mtime < MaxMtime
  /\ Change(f, [disk[f] EXCEPT !.mtime = @ + 1])

RemoveFile(f) ==
  /\ Missing /\ disk[f].here
  /\ Change(f, [disk[f] EXCEPT !.here = FALSE])

---------------------------------------------------------------------------
(* IndexerService *)

\* start_task: no look at what else runs.  The task sees no trace of the
\* earlier uses of its id.
StartTask(t, forced, only) ==
  /\ job[t].pc = "free"
  /\ Overlap \/ \A u \in Tasks : ~Live(u)
  /\ job' = [job EXCEPT ![t] = [Idle EXCEPT !.pc = "begin", !.forced = forced,
                                            !.only = only]]
  /\ status' = [status EXCEPT ![t] = "none"]
  /\ cancel' = cancel \ {t}

Request(t) ==
  /\ Act
  /\ \E q \in Requests : StartTask(t, q.forced, q.only)
  /\ UNCHANGED <<disk, crashes, stores, binding, wd>>

CancelTask(t) ==
  /\ Cancels /\ Live(t) /\ t \notin cancel
  /\ Act
  /\ cancel' = cancel \union {t}
  /\ UNCHANGED <<disk, crashes, stores, binding, job, status, wd>>

\* CANCEL_TTL, after an hour; embedding one file may take longer.
ExpireCancel(t) ==
  /\ t \in cancel
  /\ cancel' = cancel \ {t}
  /\ UNCHANGED <<world, stores, binding, job, status, wd>>

---------------------------------------------------------------------------
(* run_indexing *)

At(t, pc)  == job[t].pc = pc
Become(t, j) == job' = [job EXCEPT ![t] = j]
Goto(t, pc) == Become(t, [job[t] EXCEPT !.pc = pc])

\* The scan entry of the file at hand is dropped: it is done with.
NextFile(t) == Become(t, [job[t] EXCEPT !.pc = "loop", !.file = NoFile,
                 !.doc = NoDoc, !.text = 0, !.scan[job[t].file] = Gone])

\* The task ends.  A dead task's key stays "running" in Redis.
End(t) == Become(t, Idle)

\* No vault, a disabled one, no usable embedding model: the task returns
\* before it is registered.
Abort(t) ==
  /\ Faults /\ At(t, "begin")
  /\ binding' \in {binding, "error"}
  /\ End(t)
  /\ UNCHANGED <<world, stores, status, cancel, wd>>

Bind(t) ==
  /\ At(t, "begin")
  /\ binding' = "indexing"
  /\ Goto(t, "scan")
  /\ UNCHANGED <<world, stores, status, cancel, wd>>

\* scan_vault and the restriction to source_paths.  When none of them is in
\* the vault the task is registered and done at once.
ScanVault(t) ==
  LET only  == IF job[t].only = {} THEN Files ELSE job[t].only
      found == [f \in Files |-> IF f \in only THEN Scan[f] ELSE Gone]
      names == {f \in Files : found[f].here}
  IN /\ At(t, "scan")
     /\ \/ /\ job[t].only # {} /\ names = {}
           /\ status' = [status EXCEPT ![t] = "done"]
           /\ End(t)
        \/ /\ job[t].only = {} \/ names # {}
           /\ Become(t, [job[t] EXCEPT !.pc = "compare", !.scan = found,
                                       !.left = IF job[t].forced THEN {} ELSE names])
           /\ UNCHANGED status
     /\ UNCHANGED <<world, stores, binding, cancel, wd>>

\* Mutant: a row that is only pending is taken for up to date.
SameFile(f, s) ==
  row[f] # NoRow /\ row[f].md5 = s.text /\ row[f].mtime = s.mtime

UpToDate(f, s) ==
  /\ row[f] # NoRow
  /\ row[f].md5 = s.text /\ row[f].mtime = s.mtime /\ row[f].status = "indexed"

Compare(t) ==
  /\ At(t, "compare")
  /\ \E f \in job[t].left :
       Become(t, [job[t] EXCEPT !.left = @ \ {f},
                    !.scan[f] = IF UpToDate(f, @) THEN Gone ELSE @])
  /\ UNCHANGED <<world, stores, binding, status, cancel, wd>>

\* create_task
Register(t) ==
  /\ At(t, "compare") /\ job[t].left = {}
  /\ status' = [status EXCEPT ![t] = "running"]
  /\ Goto(t, "loop")
  /\ UNCHANGED <<world, stores, binding, cancel, wd>>

\* is_cancelled at the head of the loop, around the parser and the embedder,
\* and after the last file.
Cancelled(t) ==
  /\ job[t].pc \in {"loop", "parse", "upsert"} /\ t \in cancel
  /\ status' = [status EXCEPT ![t] = "cancelled"]
  /\ End(t)
  /\ UNCHANGED <<world, stores, binding, cancel, wd>>

Pick(t) ==
  /\ At(t, "loop") /\ t \notin cancel
  /\ \E f \in Files :
       /\ job[t].scan[f].here
       /\ Become(t, [job[t] EXCEPT !.file = f, !.pc = "lookup"])
  /\ UNCHANGED <<world, stores, binding, status, cancel, wd>>

\* get_document_by_path, before the file is worked on and again after the
\* row was set to pending.
Lookup(t) ==
  LET r == row[job[t].file] IN
  /\ At(t, "lookup")
  /\ IF r = NoRow THEN Goto(t, "insert")
                  ELSE Become(t, [job[t] EXCEPT !.pc = "wipe", !.doc = r.id])
  /\ UNCHANGED <<world, stores, binding, status, cancel, wd>>

Reread(t) ==
  LET r == row[job[t].file] IN
  /\ At(t, "reread")
  /\ Become(t, [job[t] EXCEPT !.pc = "parse",
                              !.doc = IF r = NoRow THEN NoDoc ELSE r.id])
  /\ UNCHANGED <<world, stores, binding, status, cancel, wd>>

\* create_document.  A row of the same path breaks the unique constraint.
InsertRow(t) ==
  LET f == job[t].file
      s == job[t].scan[f]
  IN /\ At(t, "insert")
     /\ \/ /\ row[f] = NoRow
           /\ \E d \in Docs :
                /\ Fresh(d)
                /\ row' = [row EXCEPT ![f] = [id |-> d, md5 |-> s.text,
                             mtime |-> s.mtime, status |-> "pending"]]
                /\ Become(t, [job[t] EXCEPT !.pc = "parse", !.doc = d])
        \/ /\ row[f] # NoRow
           /\ Goto(t, "unbind")
           /\ UNCHANGED row
     /\ UNCHANGED <<world, chunks, cache, binding, status, cancel, wd>>

\* Mutant: the old chunks are left for upsert to replace.
WipeNothing(t) ==
  /\ At(t, "wipe")
  /\ Goto(t, "pending")
  /\ UNCHANGED <<world, stores, binding, status, cancel, wd>>

\* _delete_chunks_from_lancedb swallows a failure.
Wipe(t) ==
  /\ At(t, "wipe")
  /\ \/ chunks' = [chunks EXCEPT ![job[t].doc] = NoChunks]
     \/ Faults /\ UNCHANGED chunks
  /\ Goto(t, "pending")
  /\ UNCHANGED <<world, row, cache, binding, status, cancel, wd>>

\* update_document_status goes by id: without the row it changes nothing.
HasId(f, d) == row[f] # NoRow /\ row[f].id = d

MarkPending(t) ==
  LET s == job[t].scan[job[t].file] IN
  /\ At(t, "pending")
  /\ row' = [f \in Files |->
       IF HasId(f, job[t].doc)
       THEN [row[f] EXCEPT !.md5 = s.text, !.mtime = s.mtime,
                           !.status = "pending"]
       ELSE row[f]]
  /\ Goto(t, "reread")
  /\ UNCHANGED <<world, chunks, cache, binding, status, cancel, wd>>

\* _process_file reads the file now, not the text the scan saw.  A file or a
\* row that is gone is an error.
Parse(t) ==
  LET now == disk[job[t].file] IN
  /\ At(t, "parse") /\ t \notin cancel
  /\ IF now.here /\ job[t].doc # NoDoc
     THEN Become(t, [job[t] EXCEPT !.pc = "upsert", !.text = now.text])
     ELSE Goto(t, "rollback")
  /\ UNCHANGED <<world, stores, binding, status, cancel, wd>>

\* LanceDBStore.upsert replaces by chunk id: what the document has at higher
\* indices stays.
Upserted(d, x, slots) ==
  [chunks EXCEPT ![d] = [i \in Slots |-> IF i \in slots THEN x ELSE @[i]]]

\* Embedding and upsert_with_retry.  A text without chunks is not stored.
Upsert(t) ==
  LET x == job[t].text
      d == job[t].doc
  IN /\ At(t, "upsert") /\ t \notin cancel
     /\ IF Size[x] = 0
        THEN Goto(t, "mark") /\ UNCHANGED chunks
        ELSE /\ chunks' = Upserted(d, x, 1..Size[x])
             /\ Become(t, [job[t] EXCEPT !.pc = "mark", !.uploaded = @ \union {d}])
     /\ UNCHANGED <<world, row, cache, binding, status, cancel, wd>>

\* Mutant: the status the documentation names.
MarkRowDone(t) ==
  /\ At(t, "mark")
  /\ row' = [f \in Files |-> IF HasId(f, job[t].doc)
                             THEN [row[f] EXCEPT !.status = "done"]
                             ELSE row[f]]
  /\ Goto(t, "cache")
  /\ UNCHANGED <<world, chunks, cache, binding, status, cancel, wd>>

\* The document becomes "indexed" under the md5 its row has, whoever wrote it.
MarkRowIndexed(t) ==
  /\ At(t, "mark")
  /\ row' = [f \in Files |-> IF HasId(f, job[t].doc)
                             THEN [row[f] EXCEPT !.status = "indexed"]
                             ELSE row[f]]
  /\ Goto(t, "cache")
  /\ UNCHANGED <<world, chunks, cache, binding, status, cancel, wd>>

\* Mutant: mark_file_indexed with the md5 of the text that was parsed.
CacheParsed(t) ==
  /\ At(t, "cache")
  /\ cache' = [cache EXCEPT ![job[t].file] = [md5 |-> job[t].text,
                                              status |-> "indexed"]]
  /\ NextFile(t)
  /\ UNCHANGED <<world, row, chunks, binding, status, cancel, wd>>

\* mark_file_indexed, with the md5 of the scan.  The entry stays when the chunk count of
\* the vault, which is added to after it, cannot be written.
CacheIndexed(t) ==
  LET f == job[t].file IN
  /\ At(t, "cache")
  /\ cache' = [cache EXCEPT ![f] = [md5 |-> job[t].scan[f].text,
                                    status |-> "indexed"]]
  /\ \/ NextFile(t)
     \/ Faults /\ Goto(t, "rollback")
  /\ UNCHANGED <<world, row, chunks, binding, status, cancel, wd>>

\* An exception in _process_file or after it.  A failed upsert may have
\* stored some of the chunks.
FileFails(t) ==
  LET x == job[t].text
      d == job[t].doc
  IN /\ Faults /\ job[t].pc \in {"parse", "upsert", "mark", "cache"}
     /\ IF At(t, "upsert")
        THEN \E slots \in SUBSET (1..Size[x]) : chunks' = Upserted(d, x, slots)
        ELSE UNCHANGED chunks
     /\ Goto(t, "rollback")
     /\ UNCHANGED <<world, row, cache, binding, status, cancel, wd>>

\* An exception anywhere else goes to the outer handler: no rollback.
TaskFails(t) ==
  /\ Faults
  /\ job[t].pc \in {"begin", "scan", "compare", "loop", "lookup", "insert",
                   "pending", "reread", "bound"}
  /\ Goto(t, "unbind")
  /\ UNCHANGED <<world, stores, binding, status, cancel, wd>>

\* The chunks of every document this task has stored are deleted, the rows
\* stay as they are.  A failing delete is logged.
Rollback(t) ==
  /\ At(t, "rollback")
  /\ \/ /\ job[t].uploaded = {}
        /\ Goto(t, "unbind")
        /\ UNCHANGED chunks
     \/ \E d \in job[t].uploaded :
          /\ \/ chunks' = [chunks EXCEPT ![d] = NoChunks]
             \/ Faults /\ UNCHANGED chunks
          /\ Become(t, [job[t] EXCEPT !.uploaded = @ \ {d}])
  /\ UNCHANGED <<world, row, cache, binding, status, cancel, wd>>

\* The outer handler logs it when its own calls fail.
Unbind(t) ==
  /\ At(t, "unbind")
  /\ \/ binding' = "error"
     \/ Faults /\ UNCHANGED binding
  /\ Goto(t, "error")
  /\ UNCHANGED <<world, stores, status, cancel, wd>>

\* Mutant: the outer handler forgets the task's key.
LeaveRunning(t) ==
  /\ At(t, "error")
  /\ End(t)
  /\ UNCHANGED <<world, stores, binding, status, cancel, wd>>

MarkTaskError(t) ==
  /\ At(t, "error")
  /\ status' = [status EXCEPT ![t] = "error"]
  /\ End(t)
  /\ UNCHANGED <<world, stores, binding, cancel, wd>>

\* Redis does not learn of the end; a key that says "running" expires.
MarkFails(t) ==
  /\ Faults /\ At(t, "error")
  /\ Become(t, [Idle EXCEPT !.pc = IF status[t] = "running" THEN "dead" ELSE "free"])
  /\ UNCHANGED <<world, stores, binding, status, cancel, wd>>

\* mark_task_done comes before the binding is set.
MarkTaskDone(t) ==
  /\ At(t, "loop") /\ t \notin cancel
  /\ \A f \in Files : ~job[t].scan[f].here
  /\ status' = [status EXCEPT ![t] = "done"]
  /\ Goto(t, "bound")
  /\ UNCHANGED <<world, stores, binding, cancel, wd>>

MarkBound(t) ==
  /\ At(t, "bound")
  /\ binding' = "bound"
  /\ End(t)
  /\ UNCHANGED <<world, stores, status, cancel, wd>>

Work(t) ==
  \/ Bind(t) \/ ScanVault(t) \/ Compare(t) \/ Register(t) \/ Cancelled(t)
  \/ Pick(t) \/ Lookup(t) \/ InsertRow(t) \/ Wipe(t) \/ MarkPending(t)
  \/ Reread(t) \/ Parse(t) \/ Upsert(t) \/ MarkRowIndexed(t)
  \/ CacheIndexed(t) \/ Rollback(t) \/ Unbind(t) \/ MarkTaskError(t)
  \/ MarkTaskDone(t) \/ MarkBound(t)

Fail(t) == Abort(t) \/ FileFails(t) \/ TaskFails(t) \/ MarkFails(t)

---------------------------------------------------------------------------
(* The watchdog *)

Watch(w) == wd' = w

WatchScan ==
  /\ wd.pc = "idle"
  /\ Watch([wd EXCEPT !.pc = "cache", !.disk = Scan])
  /\ UNCHANGED <<world, stores, tasks>>

\* The cache is read, and rebuilt from the documents first if it is empty (the
\* reads and the write of the rebuild are one step here).  Then the files that
\* are in the cache and not on disk are forgotten.
WatchCache ==
  LET empty == \A f \in Files : cache[f] = NoEntry
      seen  == IF empty THEN Rebuilt(wd.disk) ELSE cache
  IN /\ wd.pc = "cache"
     /\ cache' = seen
     /\ Watch([wd EXCEPT !.pc = "deleted", !.cache = seen,
          !.todo = {f \in Files : seen[f] # NoEntry /\ ~wd.disk[f].here}])
     /\ UNCHANGED <<world, row, chunks, tasks>>

\* _handle_deleted
WatchLookup ==
  /\ wd.pc = "deleted"
  /\ \E f \in wd.todo :
       Watch([wd EXCEPT !.todo = @ \ {f}, !.file = f,
         !.pc  = IF row[f] = NoRow THEN "entry" ELSE "chunks",
         !.doc = IF row[f] = NoRow THEN NoDoc ELSE row[f].id])
  /\ UNCHANGED <<world, stores, tasks>>

WatchDropChunks ==
  /\ wd.pc = "chunks"
  /\ \/ chunks' = [chunks EXCEPT ![wd.doc] = NoChunks]
     \/ Faults /\ UNCHANGED chunks
  /\ Watch([wd EXCEPT !.pc = "row"])
  /\ UNCHANGED <<world, row, cache, tasks>>

WatchDropRow ==
  /\ wd.pc = "row"
  /\ \/ row' = [f \in Files |-> IF HasId(f, wd.doc) THEN NoRow ELSE row[f]]
     \/ Faults /\ UNCHANGED row
  /\ Watch([wd EXCEPT !.pc = "entry"])
  /\ UNCHANGED <<world, chunks, cache, tasks>>

WatchDropEntry ==
  /\ wd.pc = "entry"
  /\ cache' = [cache EXCEPT ![wd.file] = NoEntry]
  /\ Watch([wd EXCEPT !.pc = "deleted", !.file = NoFile, !.doc = NoDoc])
  /\ UNCHANGED <<world, row, chunks, tasks>>

\* By md5 alone, and by what the cache said when the iteration read it.
Changed == {f \in Files : /\ wd.disk[f].here
                          /\ \/ wd.cache[f] = NoEntry
                             \/ wd.disk[f].text # wd.cache[f].md5
                             \/ wd.cache[f].status \in {"pending", "stale"}}

WatchChanged ==
  /\ wd.pc = "deleted" /\ wd.todo = {}
  /\ Watch([wd EXCEPT !.pc = "mark", !.todo = Changed \ AutoIndexed])
  /\ UNCHANGED <<world, stores, tasks>>

\* mark_file_pending keeps indexed_md5.
WatchMark ==
  /\ wd.pc = "mark"
  /\ \E f \in wd.todo :
       /\ cache' = [cache EXCEPT ![f] =
                      [md5 |-> IF cache[f] = NoEntry THEN 0 ELSE cache[f].md5,
                       status |-> "pending"]]
       /\ Watch([wd EXCEPT !.todo = @ \ {f}])
  /\ UNCHANGED <<world, row, chunks, tasks>>

\* One task for the whole vault, unless Redis knows a running one.
WatchStart ==
  /\ wd.pc = "mark" /\ wd.todo = {}
  /\ \/ /\ Changed \intersect AutoIndexed = {} \/ VaultIndexing
        /\ UNCHANGED <<job, status, cancel>>
     \/ /\ Changed \intersect AutoIndexed # {} /\ ~VaultIndexing
        /\ \E t \in Tasks : StartTask(t, FALSE, {})
  /\ Watch(Quiet)
  /\ UNCHANGED <<world, stores, binding>>

\* An exception leaves the vault to the next iteration.
WatchFails ==
  /\ Faults /\ wd.pc \in {"cache", "deleted", "entry", "mark"}
  /\ Watch(Quiet)
  /\ UNCHANGED <<world, stores, tasks>>

Watchdog == \/ WatchScan \/ WatchCache \/ WatchLookup \/ WatchDropChunks
            \/ WatchDropRow \/ WatchDropEntry \/ WatchChanged \/ WatchMark
            \/ WatchStart

---------------------------------------------------------------------------
(* The process *)

\* Every coroutine is lost; the lifespan rebuilds the cache before the
\* watchdog is started.  What Redis says of a running task stays.
Crash ==
  /\ crashes < MaxCrashes
  /\ crashes' = crashes + 1
  /\ cache' = Rebuilt(Scan)
  /\ job' = [t \in Tasks |-> [Idle EXCEPT
               !.pc = IF status[t] = "running" THEN "dead" ELSE "free"]]
  /\ wd' = Quiet
  /\ UNCHANGED <<disk, acts, row, chunks, binding, status, cancel>>

\* TASK_TTL, after 24 hours.
Expire(t) ==
  /\ At(t, "dead")
  /\ status' = [status EXCEPT ![t] = "none"]
  /\ End(t)
  /\ UNCHANGED <<world, stores, binding, cancel, wd>>

Next ==
  \/ \E f \in Files : Edit(f) \/ Touch(f) \/ RemoveFile(f)
  \/ \E t \in Tasks : Request(t) \/ CancelTask(t) \/ ExpireCancel(t) \/ Work(t)
                    \/ Fail(t) \/ Expire(t)
  \/ Watchdog \/ WatchFails
  \/ Crash

Spec == Init /\ [][Next]_vars

\* A coroutine at an await is resumed, the watchdog loops, a key with a TTL
\* expires.  Nothing makes users act, calls fail or the process crash.
Fairness == /\ \A t \in Tasks : WF_vars(Work(t)) /\ WF_vars(Expire(t))
            /\ WF_vars(Watchdog)

FairSpec == Spec /\ Fairness

---------------------------------------------------------------------------
(* Properties *)

Jobs == [pc : {"free", "dead", "begin", "scan", "compare", "loop", "lookup",
               "insert", "wipe", "pending", "reread", "parse", "upsert", "mark",
               "cache", "rollback", "unbind", "error", "bound"},
         forced : BOOLEAN, only : SUBSET Files, scan : [Files -> Snapshot],
         left : SUBSET Files, file : Files \union {NoFile},
         doc : Docs \union {NoDoc}, text : 0..MaxText, uploaded : SUBSET Docs]

Iterations == [pc : {"idle", "cache", "deleted", "chunks", "row", "entry", "mark"},
               disk : [Files -> Snapshot],
               cache : [Files -> Entries \union {NoEntry}],
               todo : SUBSET Files, file : Files \union {NoFile},
               doc : Docs \union {NoDoc}]

\* Every variable holds a value of its type: a row has a scanned md5, a
\* chunk a text, and a coroutine is at one of its awaits.
TypeOK ==
  /\ disk \in [Files -> Snapshot]
  /\ row \in [Files -> Rows \union {NoRow}]
  /\ chunks \in [Docs -> [Slots -> 0..MaxText]]
  /\ cache \in [Files -> Entries \union {NoEntry}]
  /\ binding \in {"unbound", "indexing", "bound", "error"}
  /\ job \in [Tasks -> Jobs]
  /\ status \in [Tasks -> {"none", "running", "done", "error", "cancelled"}]
  /\ cancel \in SUBSET Tasks
  /\ wd \in Iterations
  /\ acts \in 0..MaxActs /\ crashes \in 0..MaxCrashes

\* A task works on f, or the watchdog is about to forget it.
AtWork(f) == wd.file = f \/ \E t \in Tasks : Live(t) /\ job[t].file = f

\* The index never passes an old text off as the present one: when the row of
\* a file says "indexed" under the md5 the file has, and nothing is at work on
\* the file, its chunks are exactly the chunks of that text.  Nobody looks at
\* such a file again: Compare skips it and the watchdog sees no change.
IndexedIsCurrent ==
  \A f \in Files :
    (/\ row[f] # NoRow /\ row[f].status = "indexed"
     /\ disk[f].here /\ disk[f].text = row[f].md5
     /\ ~AtWork(f))
    => chunks[row[f].id] = ChunksOf(disk[f].text)

\* The watchdog passes over a file because of the cache, the worker because
\* of the row.  When the cache says "indexed" under the md5 the file has, and
\* nothing is at work on the file, so does the row: no file is left unindexed
\* while the watchdog takes it for done.
CacheIsHonest ==
  \A f \in Files :
    (/\ cache[f] # NoEntry /\ cache[f].status = "indexed"
     /\ disk[f].here /\ disk[f].text = cache[f].md5
     /\ ~AtWork(f))
    => /\ row[f] # NoRow /\ row[f].status = "indexed"
       /\ row[f].md5 = disk[f].text

\* Document d is that of file f for its row, for a task at work on f, or for the watchdog
\* that is forgetting f.
Refers(f, d) ==
  \/ HasId(f, d)
  \/ \E t \in Tasks : job[t].file = f /\ job[t].doc = d
  \/ wd.file = f /\ wd.doc = d

\* Two files never share a document, however tasks and the watchdog overlap, fail and
\* crash between the look-up of a document and its use: what is wiped, stored, marked or
\* dropped by id is never the document of another file.
DocumentsAreNotShared ==
  \A f, g \in Files, d \in Docs : Refers(f, d) /\ Refers(g, d) => f = g

\* A key that says "running", which keeps the watchdog from the vault, is that of a task
\* that lives and will write its end, or of a dead one, which the TTL removes: no path
\* through failures, cancellation and reused ids leaves it with nobody.
RunningHasAnEnd ==
  \A t \in Tasks : status[t] = "running" => Live(t) \/ At(t, "dead")

\* The file is indexed as it is on disk, or is gone everywhere.
InSync(f) ==
  IF disk[f].here
  THEN /\ row[f] # NoRow /\ row[f].status = "indexed"
       /\ row[f].md5 = disk[f].text
       /\ chunks[row[f].id] = ChunksOf(disk[f].text)
  ELSE row[f] = NoRow

\* Once the files are left alone, every file of an auto-indexed extension is
\* indexed as it is and stays so.
Converges == <>[](\A f \in AutoIndexed : InSync(f))

\* A task comes to its end whatever fails on the way, and then its key in
\* Redis does not say "running", which would keep the watchdog from the vault;
\* if that write fails as well, the key is left to its TTL.
TasksEnd ==
  \A t \in Tasks : Live(t) ~> (~Live(t) /\ (status[t] # "running" \/ At(t, "dead")))
=============================================================================
