---------------------------- MODULE CampaignState ----------------------------
(***************************************************************************)
(* The state of one campaign: its configurable fields, the numbered        *)
(* versions that hold the fields' values, and the proposal a language      *)
(* model drafts as the first version (campaign_state_service.py,           *)
(* campaign_state_value_service.py, campaign_state_initial_service.py,     *)
(* campaign_state_stale_service.py, campaign_state_compiler.py).           *)
(*                                                                         *)
(* Every request runs in its own database session.  A step that holds the  *)
(* lock on the campaign's row, from SELECT ... FOR UPDATE to the commit,   *)
(* is one action: nobody else who takes the lock sees it half done.  What  *)
(* a request reads BEFORE it takes the lock is a step of its own.  A       *)
(* session keeps a row it has read only as long as the handler refers to   *)
(* it: Update Mode does, so the SELECT ... FOR UPDATE of its patch leaves  *)
(* the campaign at the config_version read before the lock.  The apply of  *)
(* a first version does not, and works on the row as it is under the lock. *)
(***************************************************************************)
EXTENDS Naturals, Sequences, FiniteSets

CONSTANTS Admin,       \* requests that change the configuration of the fields
          Editor,      \* requests that patch the state through the API
          Session,     \* Update Mode sessions, which apply reviewed operations
          ReviewedOps, \* the types of the operations the sessions apply
          Drafter,     \* requests that draft or apply a first version
          Key,         \* field keys
          ListKey,     \* the keys whose fields have mode "list"
          Doc,         \* Markdown documents of the vaults
          Configured,  \* the keys whose fields exist from the start
          Suggestible, \* the keys the model may suggest as new fields
          MaxField, MaxVersion, MaxConfig, MaxItem, MaxContent

ASSUME CampaignAssumption ==
  /\ ListKey \subseteq Key /\ Suggestible \subseteq Key /\ Configured \subseteq Key
  /\ IsFiniteSet(Key) /\ Cardinality(Configured) <= MaxField
  /\ {MaxField, MaxVersion, MaxConfig, MaxItem, MaxContent} \subseteq Nat \ {0}

VARIABLES
  fields,    \* the configured fields: a row id to [key, enabled, suggested]
  nextField, \* the next row id (a UUID of the code: never used twice)
  config,    \* Campaign.config_version
  versions,  \* the state versions, the last one active
  proposal,  \* the drafted first version in Redis, or None
  docs,      \* the documents as Postgres and the indexer's cache have them
  req,       \* what each client's request has read and where it is
  seen       \* what each client's editor shows

vars == <<fields, nextField, config, versions, proposal, docs, req, seen>>

Client == Admin \cup Editor \cup Session \cup Drafter
None == [op |-> "none"]
Idle == [op |-> "idle"]
Live == DOMAIN fields
KeysOf(fs) == {fs[f].key : f \in DOMAIN fs}
EnabledKeys(fs) == {fs[f].key : f \in {g \in DOMAIN fs : fs[g].enabled}}
FieldOf(fs, k) == CHOOSE f \in DOMAIN fs : fs[f].key = k
Without(fs, f) == [g \in (DOMAIN fs) \ {f} |-> fs[g]]
Range_(s) == {s[i] : i \in DOMAIN s}

(***************************************************************************)
(* A version is its rows: a single value is a row with item 0, a list item *)
(* a row with the number of its key ("npcs-02" is 2).  "born" tells rows   *)
(* apart: the version that first had the value or the item.  "refs" are    *)
(* the documents the value cites, with the content cited.                  *)
(***************************************************************************)
Row(f, item, born, refs) == [field |-> f, item |-> item, born |-> born, refs |-> refs]
Active == IF versions = <<>> THEN {} ELSE versions[Len(versions)].rows
ItemsIn(rows, f) == {r.item : r \in {q \in rows : q.field = f}}

Version(cfg, kind, rows) ==
  [config |-> cfg, kind |-> kind, base |-> Len(versions), rows |-> rows]

\* Mutant: the count alone names the next item.
NextItemKeyByCount(used) == Cardinality(used) + 1

\* The first number from one past the count of the field's items that is free.
NextItemKey(used) ==
  CHOOSE n \in 1 .. MaxItem + 1 :
    /\ n > Cardinality(used) /\ n \notin used
    /\ \A i \in 1 .. n - 1 : i > Cardinality(used) => i \in used

\* The fields fs with one more for each key of ks, their ids starting at n.
NewField(k, suggested) == [key |-> k, enabled |-> TRUE, suggested |-> suggested]
WithNew(fs, n, ks, suggested) ==
  LET size == Cardinality(ks)
      pick == CHOOSE g \in [1 .. size -> ks] : Range_(g) = ks
  IN [f \in DOMAIN fs \cup n .. n + size - 1 |->
        IF f \in DOMAIN fs THEN fs[f] ELSE NewField(pick[f - n + 1], suggested)]

Init ==
  /\ fields = WithNew(<<>>, 1, Configured, FALSE)
  /\ nextField = 1 + Cardinality(Configured)
  /\ config = 1 /\ versions = <<>>
  /\ proposal = None
  /\ docs = [d \in Doc |-> [md5 |-> 1, at |-> "indexed"]]
  /\ req = [c \in Client |-> Idle]
  /\ seen = [c \in Editor |-> None]

Answer(c) == req' = [req EXCEPT ![c] = Idle]
Begin(c, r) == req[c] = Idle /\ req' = [req EXCEPT ![c] = r]

-----------------------------------------------------------------------------
(* The editor loads the active state, if there is one.  The config_version *)
(* it sends back is that of the version: no answer holds the campaign's.    *)

SeeState(c) ==
  /\ req[c] = Idle /\ versions # <<>>
  /\ seen' = [seen EXCEPT ![c] =
        [op |-> "state", config |-> versions[Len(versions)].config,
         base |-> Len(versions), rows |-> Active]]
  /\ UNCHANGED <<fields, nextField, config, versions, proposal, docs, req>>

-----------------------------------------------------------------------------
(* The configuration of the fields. *)

CreateField(c, k) ==
  /\ req[c] = Idle /\ nextField <= MaxField /\ config < MaxConfig
  /\ k \notin KeysOf(fields)                   \* otherwise 409, rolled back
  /\ fields' = WithNew(fields, nextField, {k}, FALSE)
  /\ nextField' = nextField + 1
  /\ config' = config + 1
  /\ UNCHANGED <<versions, proposal, docs, req, seen>>

\* update_field and delete_field read the row first and lock the campaign then.
BeginFieldChange(c, f, op) ==
  /\ f \in Live
  /\ Begin(c, [op |-> op, field |-> f])
  /\ UNCHANGED <<fields, nextField, config, versions, proposal, docs, seen>>

\* A row deleted meanwhile makes the UPDATE match nothing: StaleDataError.
UpdateField(c) ==
  /\ req[c].op = "update" /\ config < MaxConfig
  /\ LET f == req[c].field IN
     IF f \in Live
     THEN /\ fields' = [fields EXCEPT ![f].enabled = ~@]
          /\ config' = config + 1
     ELSE UNCHANGED <<fields, config>>
  /\ Answer(c)
  /\ UNCHANGED <<nextField, versions, proposal, docs, seen>>

\* The rows of older versions refer to the field with ON DELETE RESTRICT.
Restricted(f) == \E i \in 1 .. Len(versions) - 1 : f \in {r.field : r \in versions[i].rows}

\* What delete_field leaves of the versions: the field's rows are taken out of the
\* active one, and a new version is added, with no rows at all.
VersionsWithout(f) ==
  IF versions = <<>> THEN <<>>
  ELSE Append([versions EXCEPT ![Len(versions)].rows = {r \in @ : r.field # f}],
              Version(config, "patch", {}))

\* A row deleted meanwhile makes the DELETE match nothing, which only warns.
DeleteField(c) ==
  /\ req[c].op = "delete" /\ config < MaxConfig /\ Len(versions) < MaxVersion
  /\ LET f == req[c].field IN
     IF Restricted(f)
     THEN UNCHANGED <<fields, config, versions>>     \* IntegrityError, rolled back
     ELSE /\ versions' = VersionsWithout(f)
          /\ fields' = Without(fields, f)
          /\ config' = config + 1
  /\ Answer(c)
  /\ UNCHANGED <<nextField, proposal, docs, seen>>

\* The order itself is data; that it counts as a change of configuration is not.
ReorderFields(c) ==
  /\ req[c] = Idle /\ config < MaxConfig
  /\ Live # {}                                \* the ids sent are exactly these
  /\ config' = config + 1
  /\ UNCHANGED <<fields, nextField, versions, proposal, docs, req, seen>>

-----------------------------------------------------------------------------
(* Patches. *)

SingleOps == {"replace", "clear"}
ItemOps == {"touch", "remove"}       \* touch: update_list_item, resolve_list_item

Operation ==
  [type : SingleOps, key : Key \ ListKey, item : {0}]
    \cup [type : {"add"}, key : ListKey, item : {0}]
    \cup [type : ItemOps, key : ListKey, item : 1 .. MaxItem]

\* The fail-fast validation: the field is configured (a disabled one will do) and
\* the item is one of the base version.
ValidOp(o, rows) ==
  /\ o.key \in KeysOf(fields)
  /\ o.type \in ItemOps => o.item \in ItemsIn(rows, FieldOf(fields, o.key))

Patched(rows, o, n) ==
  LET f == FieldOf(fields, o.key)
      mine == {r \in rows : r.field = f}
      here == {r \in mine : r.item = o.item}
  IN CASE o.type = "replace" -> (rows \ mine) \cup {Row(f, 0, n, {})}
       [] o.type = "clear"   -> rows \ mine
       [] o.type = "add"     -> rows \cup {Row(f, NextItemKey(ItemsIn(rows, f)), n, {})}
       [] o.type = "touch"   -> (rows \ here) \cup {[r EXCEPT !.refs = {}] : r \in here}
       [] o.type = "remove"  -> rows \ here

\* Mutant: base_state_version is not compared.
ApplyPatchUnbased(o, cfg, wantConfig, wantBase) ==
  /\ Len(versions) < MaxVersion
  /\ wantConfig = cfg /\ ValidOp(o, Active)
  /\ o.type = "add" => NextItemKey(ItemsIn(Active, FieldOf(fields, o.key))) <= MaxItem
  /\ versions' = Append(versions, Version(cfg, "patch", Patched(Active, o, Len(versions) + 1)))
  /\ UNCHANGED <<fields, nextField, config, proposal, docs>>

\* Mutant: the new version is stamped with the number of its base.
ApplyPatchAtBase(o, cfg, wantConfig, wantBase) ==
  /\ Len(versions) < MaxVersion
  /\ wantConfig = cfg /\ wantBase = Len(versions) /\ ValidOp(o, Active)
  /\ versions' = Append(versions, Version(cfg, "patch", Patched(Active, o, Len(versions))))
  /\ UNCHANGED <<fields, nextField, config, proposal, docs>>

\* apply_patch under the lock: cfg is the config_version the session's copy has.
ApplyPatch(o, cfg, wantConfig, wantBase) ==
  /\ Len(versions) < MaxVersion
  /\ wantConfig = cfg /\ wantBase = Len(versions) /\ ValidOp(o, Active)
  /\ o.type = "add" => NextItemKey(ItemsIn(Active, FieldOf(fields, o.key))) <= MaxItem
  /\ versions' = Append(versions, Version(cfg, "patch", Patched(Active, o, Len(versions) + 1)))
  /\ UNCHANGED <<fields, nextField, config, proposal, docs>>

\* POST /state/patch: the lock is the first statement, the campaign is read under it.
Patch(c, o) ==
  /\ req[c] = Idle /\ seen[c].op = "state"
  /\ ApplyPatch(o, config, seen[c].config, seen[c].base)
  /\ UNCHANGED <<req, seen>>

\* Update Mode applies an operation reviewed earlier: it reads the active version
\* and the campaign itself and sends their numbers back as the client's.  It holds on
\* to the campaign, so the number is compared with itself.
BeginSessionPatch(c, o) ==
  /\ Begin(c, [op |-> "session", patch |-> o, base |-> Len(versions), config |-> config])
  /\ UNCHANGED <<fields, nextField, config, versions, proposal, docs, seen>>

SessionPatch(c) ==
  /\ req[c].op = "session"
  /\ ApplyPatch(req[c].patch, req[c].config, req[c].config, req[c].base)
  /\ Answer(c) /\ UNCHANGED seen

SessionPatchFails(c) ==
  /\ req[c].op = "session"
  /\ req[c].base # Len(versions) \/ ~ValidOp(req[c].patch, Active)
  /\ Answer(c)
  /\ UNCHANGED <<fields, nextField, config, versions, proposal, docs, seen>>

-----------------------------------------------------------------------------
(* The first version, drafted by a language model. *)

Readable == {d \in Doc : docs[d].at = "indexed"}

\* start_preview reads the campaign, its enabled fields and the documents ...
BeginPreview(c) ==
  /\ \E ds \in (SUBSET Readable) \ {{}} :
       Begin(c, [op |-> "preview", config |-> config, keys |-> EnabledKeys(fields),
                 snap |-> [d \in ds |-> docs[d].md5]])
  /\ EnabledKeys(fields) = {} => Suggestible # {}
  /\ UNCHANGED <<fields, nextField, config, versions, proposal, docs, seen>>

\* ... then the documents' texts, of those that can still be rebuilt ...
Rebuildable(snap) == {d \in DOMAIN snap : docs[d].at \in {"indexed", "changed"}}

FetchTexts(c) ==
  /\ req[c].op = "preview"
  /\ IF Rebuildable(req[c].snap) = {}
     THEN Answer(c)                                  \* 422 no_markdown_documents
     ELSE req' = [req EXCEPT ![c] =
            [op |-> "draft", config |-> req[c].config, keys |-> req[c].keys,
             snap |-> req[c].snap,
             text |-> [d \in Rebuildable(req[c].snap) |-> docs[d].md5]]]
  /\ UNCHANGED <<fields, nextField, config, versions, proposal, docs, seen>>

\* What is kept of the model's answer: fields of the configuration it was shown,
\* and suggestions that are not among them (a disabled field's key may be).
NormalizedFields(raw, keys) == raw \cap keys
NormalizedSuggestions(raw, keys) == (raw \cap Suggestible) \ keys

\* Mutant: the snapshot is taken when the draft is stored.
StorePreviewLateSnapshot(c) ==
  /\ req[c].op = "draft"
  /\ \E raw \in SUBSET Key :
       proposal' =
         [op |-> "proposal", config |-> req[c].config,
          snap |-> [d \in DOMAIN req[c].snap |-> docs[d].md5], text |-> req[c].text,
          keys |-> NormalizedFields(raw, req[c].keys),
          suggested |-> NormalizedSuggestions(raw, req[c].keys)]
  /\ Answer(c)
  /\ UNCHANGED <<fields, nextField, config, versions, docs, seen>>

\* The provider's answer arrives, after one repair at most, and the draft is stored
\* over whatever draft is there.
StorePreview(c) ==
  /\ req[c].op = "draft" /\ nextField <= MaxField
  /\ \E raw \in SUBSET Key :
       proposal' =
         [op |-> "proposal", config |-> req[c].config,
          snap |-> req[c].snap, text |-> req[c].text,
          keys |-> NormalizedFields(raw, req[c].keys),
          suggested |-> NormalizedSuggestions(raw, req[c].keys)]
  /\ Answer(c)
  /\ UNCHANGED <<fields, nextField, config, versions, docs, seen>>

\* The provider is not configured, or its answer is invalid twice.
PreviewFails(c) ==
  /\ req[c].op = "draft" /\ Answer(c)
  /\ UNCHANGED <<fields, nextField, config, versions, proposal, docs, seen>>

ProposalExpires ==
  /\ proposal # None /\ proposal' = None
  /\ UNCHANGED <<fields, nextField, config, versions, docs, req, seen>>

\* apply reads the stored draft, before any lock.  A request that names another draft,
\* or none, is answered 404 and changes nothing.  The client sends the draft's
\* config_version.
BeginInitial(c) ==
  /\ proposal # None
  /\ \E accepted \in SUBSET proposal.suggested :
       Begin(c, [op |-> "initial", accepted |-> accepted, proposal |-> proposal])
  /\ UNCHANGED <<fields, nextField, config, versions, proposal, docs, seen>>

StaleSnapshot(snap) == {d \in DOMAIN snap : docs[d].at # "gone" /\ docs[d].md5 # snap[d]}

\* The rows of the first version: fields no longer configured or enabled are skipped.
InitialRows(p, accepted, fs) ==
  {Row(f, IF fs[f].key \in ListKey THEN 1 ELSE 0, 1, {<<d, p.snap[d]>> : d \in DOMAIN p.snap}) :
     f \in {g \in DOMAIN fs : fs[g].enabled /\ fs[g].key \in p.keys \cup accepted}}

\* Mutant: an existing version is not looked for.
InitialAcceptedAgain(r) ==
  /\ r.accepted \cap KeysOf(fields) = {}
  /\ r.accepted = {} => r.proposal.config = config
  /\ StaleSnapshot(r.proposal.snap) = {}

\* With fields to create, config_version is read again after the bumps, under the lock
\* the first of them took, and nothing is compared with the draft's.
InitialAccepted(r) ==
  /\ r.accepted \cap KeysOf(fields) = {}
  /\ r.accepted = {} => r.proposal.config = config
  /\ versions = <<>>
  /\ StaleSnapshot(r.proposal.snap) = {}

CommitInitial(c) ==
  /\ req[c].op = "initial" /\ InitialAccepted(req[c])
  /\ LET r == req[c]
         n == Cardinality(r.accepted)
         cfg == config + n
         fs == WithNew(fields, nextField, r.accepted, TRUE)
     IN /\ nextField + n - 1 <= MaxField /\ cfg <= MaxConfig
        /\ fields' = fs
        /\ nextField' = nextField + n
        /\ config' = cfg
        /\ versions' = Append(versions,
                         Version(cfg, "initial", InitialRows(r.proposal, r.accepted, fs)))
  /\ req' = [req EXCEPT ![c] = [op |-> "drop"]]
  /\ UNCHANGED <<proposal, docs, seen>>

\* Mutant: each suggested field is committed when it is created.
InitialFailsHalfway(c) ==
  /\ req[c].op = "initial" /\ ~InitialAccepted(req[c])
  /\ LET new == req[c].accepted \ KeysOf(fields)
         n == Cardinality(new)
     IN /\ nextField + n - 1 <= MaxField
        /\ fields' = WithNew(fields, nextField, new, TRUE)
        /\ nextField' = nextField + n
  /\ Answer(c)
  /\ UNCHANGED <<config, versions, proposal, docs, seen>>

\* 409: nothing of the transaction stays, the draft does.
InitialFails(c) ==
  /\ req[c].op = "initial" /\ ~InitialAccepted(req[c])
  /\ Answer(c)
  /\ UNCHANGED <<fields, nextField, config, versions, proposal, docs, seen>>

\* The draft is deleted after the commit, whichever draft it is by then.
DropProposal(c) ==
  /\ req[c].op = "drop"
  /\ proposal' = None
  /\ Answer(c)
  /\ UNCHANGED <<fields, nextField, config, versions, docs, seen>>

\* The process dies: its transaction is rolled back, what was committed stays.
Crash(c) ==
  /\ req[c] # Idle /\ Answer(c)
  /\ UNCHANGED <<fields, nextField, config, versions, proposal, docs, seen>>

-----------------------------------------------------------------------------
(* The documents: edited on disk, indexed again, removed.  The indexer's    *)
(* cache knows of an edit or a removal before Postgres does.                 *)

DocStep(d) ==
  /\ \/ docs[d].at = "indexed" /\ docs' = [docs EXCEPT ![d].at = "changed"]
     \/ /\ docs[d].at = "changed" /\ docs[d].md5 < MaxContent
        /\ docs' = [docs EXCEPT ![d] = [md5 |-> @.md5 + 1, at |-> "indexed"]]
     \/ docs[d].at = "indexed" /\ docs' = [docs EXCEPT ![d].at = "missing"]
     \/ docs[d].at = "missing" /\ docs' = [docs EXCEPT ![d].at = "gone"]
  /\ UNCHANGED <<fields, nextField, config, versions, proposal, req, seen>>

\* compute_stale_status: the documents the active version cites, by what the cache
\* says of them now; which content was cited does not matter.
StaleDocuments ==
  {d \in Doc : /\ \E r \in Active : d \in {x[1] : x \in r.refs}
               /\ docs[d].at \in {"changed", "missing"}}

Next ==
  \/ \E c \in Editor : SeeState(c)
  \/ \E c \in Admin :
       \/ UpdateField(c) \/ DeleteField(c) \/ ReorderFields(c)
       \/ \E k \in Key : CreateField(c, k)
       \/ \E f \in 1 .. MaxField, op \in {"update", "delete"} : BeginFieldChange(c, f, op)
  \/ \E c \in Editor, o \in Operation : Patch(c, o)
  \/ \E c \in Session :
       \/ SessionPatch(c) \/ SessionPatchFails(c)
       \/ \E o \in {q \in Operation : q.type \in ReviewedOps} : BeginSessionPatch(c, o)
  \/ \E c \in Drafter :
       \/ BeginPreview(c) \/ FetchTexts(c) \/ StorePreview(c) \/ PreviewFails(c)
       \/ BeginInitial(c) \/ CommitInitial(c) \/ InitialFails(c) \/ DropProposal(c)
  \/ \E c \in Client : Crash(c)
  \/ ProposalExpires
  \/ \E d \in Doc : DocStep(d)

Spec == Init /\ [][Next]_vars

-----------------------------------------------------------------------------
(* Properties. *)

RowSet == [field : 1 .. MaxField, item : 0 .. MaxItem, born : 1 .. MaxVersion,
           refs : SUBSET (Doc \X (1 .. MaxContent))]

TypeOK ==
  /\ Live \subseteq 1 .. MaxField /\ nextField \in 1 .. MaxField + 1
  /\ \A f \in Live : fields[f] \in [key : Key, enabled : BOOLEAN, suggested : BOOLEAN]
  /\ config \in 1 .. MaxConfig
  /\ Len(versions) <= MaxVersion
  /\ \A i \in DOMAIN versions : versions[i].rows \subseteq RowSet

\* campaign_state_list_items and campaign_state_values have no two rows of one key,
\* no row of a field that is gone, and a single value and list items never mix: what
\* the constraints of the tables would otherwise answer with an uncaught error.
RowsAreKeyed ==
  \A i \in DOMAIN versions : \A r \in versions[i].rows :
    /\ r.field \in Live
    /\ r.item = 0 <=> fields[r.field].key \notin ListKey
    /\ \A q \in versions[i].rows : q.field = r.field /\ q.item = r.item => q = r

\* The first version is drafted once: an apply repeated after its answer was lost, or
\* two applies at once, never make a second one, and the draft is never laid over a
\* version that a patch has made meanwhile.
InitialOnce == \A i \in DOMAIN versions : versions[i].kind = "initial" => i = 1

\* A draft becomes the first version only while every document it was shown, and that
\* still exists, has the very content the model read, however long the model took.
InitialReadsCurrent ==
  [][\A c \in Drafter : CommitInitial(c) =>
       \A d \in DOMAIN req[c].proposal.text :
         docs[d].at # "gone" => req[c].proposal.text[d] = docs[d].md5]_vars

\* Suggested fields come with the first version or not at all: no failure between
\* their creation and the version's leaves them in the configuration.
NoOrphanFields == \A f \in Live : fields[f].suggested => versions # <<>>

\* A patch through the API replaces the very rows its author saw: no version came in
\* between, whoever made it.
PatchOnSeenRows ==
  [][\A c \in Editor, o \in Operation : Patch(c, o) => seen[c].rows = Active]_vars

\* Deleting a field takes away the values of that field only.
DeleteKeepsTheRest ==
  [][\A c \in Admin : DeleteField(c) =>
       \A r \in Active : r.field # req[c].field => r \in versions'[Len(versions')].rows]_vars

\* A document that no longer has the content the active version cites is reported.
StaleSignalled ==
  \A r \in Active : \A x \in r.refs :
    docs[x[1]].at # "gone" /\ docs[x[1]].md5 # x[2] => x[1] \in StaleDocuments
=============================================================================
