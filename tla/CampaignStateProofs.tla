------------------------- MODULE CampaignStateProofs ------------------------
(***************************************************************************)
(* Proofs about CampaignState for every set of clients, keys, documents    *)
(* and operations and every bound.                                         *)
(***************************************************************************)
EXTENDS CampaignState, FiniteSetTheorems, SequenceTheorems, WellFoundedInduction, TLAPS

-----------------------------------------------------------------------------
(* Lemmas about the operators. *)

LEMMA Bounds ==
  MaxField \in Nat \ {0} /\ MaxVersion \in Nat \ {0} /\ MaxConfig \in Nat \ {0}
  /\ MaxItem \in Nat \ {0} /\ MaxContent \in Nat \ {0}
BY CampaignAssumption

\* A set of natural numbers that is not empty has a least one.
LEMMA Least ==
  ASSUME NEW S \in SUBSET Nat, S # {}
  PROVE  \E n \in S : \A m \in S : n <= m
<1> DEFINE R == OpToRel(<, Nat)
<1>1. IsWellFoundedOn(R, Nat)
  BY NatLessThanWellFounded
<1>2. \A x, y \in Nat : x < y => <<x, y>> \in R
  BY DEF OpToRel
<1> HIDE DEF R
<1>3. PICK n \in S : \A m \in S : ~ (<<m, n>> \in R)
  BY <1>1, WFMin
<1>4. ASSUME NEW m \in S PROVE ~(m < n)
  BY <1>2, <1>3
<1> QED
  BY <1>4

\* The number given to a new list item is not the number of another one, deleted
\* ones in the middle included, and is past the bound by one at most.
LEMMA NextItemKeyIsFree ==
  ASSUME NEW used \in SUBSET (1 .. MaxItem)
  PROVE  NextItemKey(used) \in 1 .. MaxItem + 1 /\ NextItemKey(used) \notin used
<1> DEFINE size == Cardinality(used)
           free == {n \in 1 .. MaxItem + 1 : n > size /\ n \notin used}
<1>1. IsFiniteSet(1 .. MaxItem) /\ Cardinality(1 .. MaxItem) = MaxItem
  BY FS_Interval, Bounds
<1>2. size \in Nat /\ size <= MaxItem
  BY <1>1, FS_Subset, FS_CardinalityType
<1> HIDE DEF size
<1>3. free \subseteq Nat /\ MaxItem + 1 \in free
  BY <1>2, Bounds
<1>4. PICK n \in free : \A m \in free : n <= m
  BY <1>3, Least
<1>5. \A i \in 1 .. n - 1 : i > size => i \in used
  BY <1>2, <1>4, Bounds
<1>6. \E k \in 1 .. MaxItem + 1 :
        k > size /\ k \notin used /\ \A i \in 1 .. k - 1 : i > size => i \in used
  BY <1>4, <1>5
<1> QED
  BY <1>6 DEF NextItemKey, size

\* New fields do not disturb the old ones, and their keys are the ones asked for.
LEMMA WithNewFields ==
  ASSUME NEW fs, NEW n \in Nat, NEW ks \in SUBSET Key, NEW sug
  PROVE  /\ Cardinality(ks) \in Nat
         /\ \A f : f \in DOMAIN WithNew(fs, n, ks, sug)
                  <=> f \in DOMAIN fs \/ f \in n .. n + Cardinality(ks) - 1
         /\ \A f \in DOMAIN fs : WithNew(fs, n, ks, sug)[f] = fs[f]
         /\ \A f \in (DOMAIN WithNew(fs, n, ks, sug)) \ DOMAIN fs :
              \E k \in ks : WithNew(fs, n, ks, sug)[f] = NewField(k, sug)
<1> DEFINE size == Cardinality(ks)
           pick == CHOOSE g \in [1 .. size -> ks] : Range_(g) = ks
<1>1. IsFiniteSet(ks)
  BY CampaignAssumption, FS_Subset
<1>2. size \in Nat /\ ExistsBijection(1 .. size, ks)
  BY <1>1, FS_CardinalityType
<1>3. \E g \in [1 .. size -> ks] : Range_(g) = ks
  BY <1>2 DEF ExistsBijection, Bijection, Injection, Surjection, Range_
<1>4. pick \in [1 .. size -> ks]
  BY <1>3
<1> HIDE DEF pick, size
<1>5. WithNew(fs, n, ks, sug) =
        [f \in DOMAIN fs \cup n .. n + size - 1 |->
           IF f \in DOMAIN fs THEN fs[f] ELSE NewField(pick[f - n + 1], sug)]
  BY DEF WithNew, pick, size
<1>6. \A f \in n .. n + size - 1 : pick[f - n + 1] \in ks
  BY <1>2, <1>4
<1> DEFINE new == WithNew(fs, n, ks, sug)
<1>7. /\ \A f : f \in DOMAIN new <=> f \in DOMAIN fs \/ f \in n .. n + size - 1
      /\ \A f \in DOMAIN fs : new[f] = fs[f]
  BY <1>5
<1>8. ASSUME NEW f \in (DOMAIN new) \ DOMAIN fs
      PROVE  \E k \in ks : new[f] = NewField(k, sug)
  <2>1. f \in n .. n + size - 1 /\ new[f] = NewField(pick[f - n + 1], sug)
    BY <1>5, <1>7
  <2> QED
    BY <1>6, <2>1
<1> QED
  BY <1>2, <1>7, <1>8 DEF size

LEMMA FieldOfKey ==
  ASSUME NEW fs, NEW k \in KeysOf(fs)
  PROVE  FieldOf(fs, k) \in DOMAIN fs /\ fs[FieldOf(fs, k)].key = k
BY DEF KeysOf, FieldOf

-----------------------------------------------------------------------------
(* The inductive invariant. *)

\* The rows of one version, as RowsAreKeyed asks for them.
Keyed(fs, rows) ==
  \A r \in rows :
    /\ r.field \in DOMAIN fs
    /\ r.item = 0 <=> fs[r.field].key \notin ListKey
    /\ \A q \in rows : q.field = r.field /\ q.item = r.item => q = r

VersionSet == [config : Nat, kind : {"initial", "patch"}, base : Nat, rows : SUBSET RowSet]

\* Contents a request has read are contents the documents had: never newer than
\* what they have now, and a text never older than the snapshot taken before it.
Snapshot(snap, now) ==
  DOMAIN snap \subseteq Doc /\ \A d \in DOMAIN snap : snap[d] \in 1 .. now[d].md5
Texts(snap, text, now) ==
  DOMAIN text \subseteq DOMAIN snap /\ \A d \in DOMAIN text : text[d] \in snap[d] .. now[d].md5

Draft(p, now) ==
  /\ p.keys \subseteq Key /\ p.suggested \subseteq Key
  /\ Snapshot(p.snap, now) /\ Texts(p.snap, p.text, now)

Request(r, now) ==
  /\ r.op = "session" => r.patch \in Operation /\ r.config \in Nat
  /\ r.op \in {"preview", "draft"} => r.keys \subseteq Key /\ Snapshot(r.snap, now)
  /\ r.op = "draft" => Texts(r.snap, r.text, now)
  /\ r.op = "initial" => r.accepted \subseteq Key /\ Draft(r.proposal, now)

Typed ==
  /\ TypeOK
  /\ versions \in Seq(VersionSet)
  /\ docs \in [Doc -> [md5 : 1 .. MaxContent, at : {"indexed", "changed", "missing", "gone"}]]
  /\ DOMAIN req = Client /\ DOMAIN seen = Editor

Requests == \A c \in Client : Request(req[c], docs)
Proposal == proposal # None => Draft(proposal, docs)

\* An editor's copy that still names the last version holds its rows.
Shown ==
  \A c \in Editor : seen[c].op = "state" =>
    /\ seen[c].base \in 0 .. Len(versions)
    /\ seen[c].base = Len(versions) => seen[c].rows = Active

CampaignInv == Typed /\ Requests /\ Proposal /\ RowsAreKeyed /\ InitialOnce /\ NoOrphanFields /\ Shown

LEMMA OperationTypes ==
  ASSUME NEW o \in Operation
  PROVE  /\ o.key \in Key /\ o.item \in 0 .. MaxItem
         /\ o.type \in {"replace", "clear", "add", "touch", "remove"}
         /\ o.type \in {"replace", "clear"} => o.key \notin ListKey
         /\ o.type \in {"add", "touch", "remove"} => o.key \in ListKey
BY CampaignAssumption, Bounds DEF Operation, SingleOps, ItemOps

LEMMA PatchedRows ==
  ASSUME Live \subseteq 1 .. MaxField,
         NEW rows \in SUBSET RowSet, Keyed(fields, rows),
         NEW o \in Operation, ValidOp(o, rows),
         o.type = "add" => NextItemKey(ItemsIn(rows, FieldOf(fields, o.key))) <= MaxItem,
         NEW n \in 1 .. MaxVersion
  PROVE  Patched(rows, o, n) \subseteq RowSet /\ Keyed(fields, Patched(rows, o, n))
<1> DEFINE f == FieldOf(fields, o.key)
           new == Patched(rows, o, n)
           mine == {r \in rows : r.field = f}
           here == {r \in mine : r.item = o.item}
<1>1. f \in Live /\ fields[f].key = o.key
  BY FieldOfKey DEF ValidOp, Live
<1> HIDE DEF f
<1>2. CASE o.type = "replace"
  <2>1. new = (rows \ mine) \cup {Row(f, 0, n, {})}
    BY <1>2 DEF Patched, f
  <2>2. Row(f, 0, n, {}) \in RowSet
    BY <1>1, Bounds DEF Row, RowSet
  <2>3. o.key \notin ListKey
    BY <1>2, OperationTypes
  <2>4. \A r \in new : (r \in rows /\ r.field # f) \/ r = Row(f, 0, n, {})
    BY <2>1
  <2>5. Row(f, 0, n, {}).field = f /\ Row(f, 0, n, {}).item = 0
    BY DEF Row
  <2>6. new \subseteq RowSet
    BY <2>1, <2>2
  <2> QED
    BY <1>1, <2>3, <2>4, <2>5, <2>6 DEF Keyed, Live
<1>3. CASE o.type = "clear"
  <2>1. new = rows \ mine
    BY <1>3 DEF Patched, f
  <2> QED
    BY <2>1 DEF Keyed, Live
<1>4. CASE o.type = "add"
  <2> DEFINE item == NextItemKey(ItemsIn(rows, f))
  <2>1. new = rows \cup {Row(f, item, n, {})}
    BY <1>4 DEF Patched, f
  <2>2. o.key \in ListKey
    BY <1>4, OperationTypes
  <2>3. ItemsIn(rows, f) \in SUBSET (1 .. MaxItem)
    BY <1>1, <2>2, Bounds DEF Keyed, Live, ItemsIn, RowSet
  <2>4. item \in 1 .. MaxItem /\ item \notin ItemsIn(rows, f)
    BY <1>4, <2>3, NextItemKeyIsFree, Bounds DEF f
  <2> HIDE DEF item
  <2>5. Row(f, item, n, {}) \in RowSet
    BY <1>1, <2>4, Bounds DEF Row, RowSet
  <2>6. \A r \in rows : r.field = f => r.item # item
    BY <2>4 DEF ItemsIn
  <2>7. Row(f, item, n, {}).field = f /\ Row(f, item, n, {}).item = item
    BY DEF Row
  <2>8. \A r \in new : r \in rows \/ r = Row(f, item, n, {})
    BY <2>1
  <2>9. new \subseteq RowSet
    BY <2>1, <2>5
  <2>10. item # 0
    BY <2>4
  <2> QED
    BY <1>1, <2>2, <2>6, <2>7, <2>8, <2>9, <2>10 DEF Keyed, Live
<1>5. CASE o.type = "touch"
  <2>1. new = (rows \ here) \cup {[r EXCEPT !.refs = {}] : r \in here}
    BY <1>5 DEF Patched, f
  <2>2. \A r \in here : /\ [r EXCEPT !.refs = {}] \in RowSet
                        /\ [r EXCEPT !.refs = {}].field = r.field
                        /\ [r EXCEPT !.refs = {}].item = r.item
    BY DEF RowSet
  <2>3. \A r, q \in here : r = q
    BY DEF Keyed, Live
  <2>4. new \subseteq RowSet
    BY <2>1, <2>2
  <2>5. \A q \in new : \E r \in rows :
          /\ q.field = r.field /\ q.item = r.item
          /\ q = IF r \in here THEN [r EXCEPT !.refs = {}] ELSE r
    BY <2>1, <2>2
  <2>6. ASSUME NEW q \in new
        PROVE  /\ q.field \in Live /\ (q.item = 0 <=> fields[q.field].key \notin ListKey)
               /\ \A p \in new : p.field = q.field /\ p.item = q.item => p = q
    <3>1. PICK r \in rows : /\ q.field = r.field /\ q.item = r.item
                            /\ q = IF r \in here THEN [r EXCEPT !.refs = {}] ELSE r
      BY <2>5
    <3>2. ASSUME NEW p \in new, p.field = q.field, p.item = q.item PROVE p = q
      <4>1. PICK s \in rows : /\ p.field = s.field /\ p.item = s.item
                              /\ p = IF s \in here THEN [s EXCEPT !.refs = {}] ELSE s
        BY <2>5
      <4>2. r = s
        BY <3>1, <3>2, <4>1 DEF Keyed, Live
      <4> QED
        BY <3>1, <4>1, <4>2
    <3>3. r.field \in Live /\ (r.item = 0 <=> fields[r.field].key \notin ListKey)
      BY DEF Keyed, Live
    <3> QED
      BY <3>1, <3>2, <3>3
  <2> QED
    BY <2>4, <2>6 DEF Keyed, Live
<1>6. CASE o.type = "remove"
  <2>1. new = rows \ here
    BY <1>6 DEF Patched, f
  <2> QED
    BY <2>1 DEF Keyed, Live
<1> QED
  BY <1>2, <1>3, <1>4, <1>5, <1>6, OperationTypes

-----------------------------------------------------------------------------
(* What requests hold: drafts, snapshots, reviewed operations. *)

\* Documents change, but a document never gets an earlier content back.
Later(now, then) ==
  \A d \in Doc : now[d].md5 \in Nat /\ then[d].md5 \in Nat /\ now[d].md5 <= then[d].md5

LEMMA RequestStays ==
  ASSUME NEW now, NEW then, Later(now, then)
  PROVE  /\ \A p : Draft(p, now) => Draft(p, then)
         /\ \A r : Request(r, now) => Request(r, then)
<1>1. \A s : Snapshot(s, now) => Snapshot(s, then)
  BY DEF Later, Snapshot
<1>2. \A s, t : Snapshot(s, now) /\ Texts(s, t, now) => Texts(s, t, then)
  BY DEF Later, Snapshot, Texts
<1>3. \A p : Draft(p, now) => Draft(p, then)
  BY <1>1, <1>2 DEF Draft
<1> QED
  BY <1>1, <1>2, <1>3 DEF Request

LEMMA DocsGetLater == Typed /\ [Next]_vars => Later(docs, docs')
<1> SUFFICES ASSUME Typed, [Next]_vars PROVE Later(docs, docs')
  OBVIOUS
<1>1. CASE UNCHANGED docs
  BY <1>1 DEF Typed, Later
<1>2. ASSUME NEW d \in Doc, DocStep(d) PROVE Later(docs, docs')
  <2>1. DOMAIN docs = Doc /\ \A e \in Doc : docs[e].md5 \in Nat
    BY DEF Typed
  <2>2. /\ docs'[d].md5 \in {docs[d].md5, docs[d].md5 + 1}
        /\ \A e \in Doc : e # d => docs'[e] = docs[e]
    BY <1>2, <2>1 DEF DocStep, Typed
  <2> QED
    BY <2>1, <2>2 DEF Later
<1>3. (\E d \in Doc : DocStep(d)) \/ UNCHANGED docs
  BY DEF Next, vars, SeeState, UpdateField, DeleteField, ReorderFields, CreateField,
         BeginFieldChange, Patch, SessionPatch, SessionPatchFails, BeginSessionPatch, ApplyPatch,
         BeginPreview, FetchTexts, StorePreview, PreviewFails, BeginInitial, CommitInitial,
         InitialFails, DropProposal, Crash, ProposalExpires
<1> QED
  BY <1>1, <1>2, <1>3

LEMMA NextRequests ==
  Typed /\ Requests /\ Proposal /\ [Next]_vars => Requests' /\ Proposal'
<1> SUFFICES ASSUME Typed, Requests, Proposal, [Next]_vars PROVE Requests' /\ Proposal'
  OBVIOUS
<1> USE DEF Answer, Begin
<1>1. /\ \A p : Draft(p, docs) => Draft(p, docs')
      /\ \A r : Request(r, docs) => Request(r, docs')
  BY DocsGetLater, RequestStays
<1>2. /\ DOMAIN req = Client
      /\ \A d \in Doc : docs[d].md5 \in Nat \ {0}
  BY DEF Typed
<1>3. Request(Idle, docs') /\ Request([op |-> "drop"], docs')
  BY DEF Request, Idle
<1>4. \A f, op : op \in {"update", "delete"} => Request([op |-> op, field |-> f], docs')
  BY DEF Request
<1>5. \A b : \A o \in Operation, g \in Nat :
        Request([op |-> "session", patch |-> o, base |-> b, config |-> g], docs')
  BY DEF Request
<1> DEFINE Kept == proposal' = None \/ proposal' = proposal
<1>6. ASSUME Kept, \E c \in Client : \E r : req' = [req EXCEPT ![c] = r] /\ Request(r, docs')
      PROVE  Requests' /\ Proposal'
  BY <1>1, <1>2, <1>6 DEF Requests, Proposal
<1>7. ASSUME Kept, UNCHANGED req PROVE Requests' /\ Proposal'
  BY <1>1, <1>7 DEF Requests, Proposal
<1>8. ASSUME NEW c \in Drafter, BeginPreview(c) PROVE Requests' /\ Proposal'
  <2>1. PICK ds \in (SUBSET Readable) \ {{}} :
          req' = [req EXCEPT ![c] = [op |-> "preview", config |-> config,
                                     keys |-> EnabledKeys(fields),
                                     snap |-> [d \in ds |-> docs[d].md5]]]
    BY <1>8 DEF BeginPreview
  <2>2. Snapshot([d \in ds |-> docs[d].md5], docs)
    BY <1>2 DEF Readable, Snapshot
  <2>3. EnabledKeys(fields) \subseteq Key
    BY DEF Typed, TypeOK, Live, EnabledKeys
  <2>4. UNCHANGED <<docs, proposal>>
    BY <1>8 DEF BeginPreview
  <2> DEFINE snap == [d \in ds |-> docs[d].md5]
  <2>5. Request([op |-> "preview", config |-> config, keys |-> EnabledKeys(fields),
                 snap |-> snap], docs')
    <3> HIDE DEF snap
    <3> QED
      BY <2>2, <2>3, <2>4 DEF Request, snap
  <2> QED
    BY <1>6, <2>1, <2>4, <2>5 DEF Client
<1>9. ASSUME NEW c \in Drafter, FetchTexts(c) PROVE Requests' /\ Proposal'
  <2> DEFINE snap == req[c].snap
             text == [d \in Rebuildable(snap) |-> docs[d].md5]
  <2>1. UNCHANGED <<docs, proposal>> /\ req[c].op = "preview"
    BY <1>9 DEF FetchTexts
  <2>2. req[c].keys \subseteq Key /\ Snapshot(snap, docs)
    BY <2>1 DEF Requests, Request, Client
  <2>3. Texts(snap, text, docs)
    BY <1>2, <2>2 DEF Snapshot, Texts, Rebuildable
  <2>4. Request([op |-> "draft", config |-> req[c].config, keys |-> req[c].keys,
                 snap |-> snap, text |-> text], docs')
    BY <2>1, <2>2, <2>3 DEF Request
  <2> QED
    BY <1>3, <1>6, <1>9, <2>1, <2>4 DEF FetchTexts, Client
<1>10. ASSUME NEW c \in Drafter, StorePreview(c) PROVE Requests' /\ Proposal'
  <2>1. PICK raw \in SUBSET Key :
          proposal' = [op |-> "proposal", config |-> req[c].config,
                       snap |-> req[c].snap, text |-> req[c].text,
                       keys |-> NormalizedFields(raw, req[c].keys),
                       suggested |-> NormalizedSuggestions(raw, req[c].keys)]
    BY <1>10 DEF StorePreview
  <2>2. /\ UNCHANGED docs /\ req[c].op = "draft" /\ req' = [req EXCEPT ![c] = Idle]
    BY <1>10 DEF StorePreview
  <2>3. /\ req[c].keys \subseteq Key /\ Snapshot(req[c].snap, docs)
        /\ Texts(req[c].snap, req[c].text, docs)
    BY <2>2 DEF Requests, Request, Client
  <2>4. Draft(proposal', docs')
    BY <2>1, <2>2, <2>3 DEF Draft, NormalizedFields, NormalizedSuggestions
  <2> QED
    BY <1>1, <1>2, <1>3, <2>2, <2>4 DEF Requests, Proposal
<1>11. ASSUME NEW c \in Drafter, BeginInitial(c) PROVE Requests' /\ Proposal'
  <2>1. PICK accepted \in SUBSET proposal.suggested :
          req' = [req EXCEPT ![c] = [op |-> "initial", accepted |-> accepted,
                                     proposal |-> proposal]]
    BY <1>11 DEF BeginInitial
  <2>2. proposal # None /\ UNCHANGED <<docs, proposal>>
    BY <1>11 DEF BeginInitial
  <2>3. Draft(proposal, docs)
    BY <2>2 DEF Proposal
  <2>4. Request([op |-> "initial", accepted |-> accepted,
                 proposal |-> proposal], docs')
    BY <2>2, <2>3 DEF Request, Draft, Typed, TypeOK
  <2> QED
    BY <1>6, <2>1, <2>2, <2>4 DEF Client
<1>12. ASSUME NEW c \in Admin, NEW f, NEW op \in {"update", "delete"}, BeginFieldChange(c, f, op)
       PROVE  Requests' /\ Proposal'
  BY <1>4, <1>6, <1>12 DEF BeginFieldChange, Client
<1>13. ASSUME NEW c \in Session, NEW o \in Operation, BeginSessionPatch(c, o)
       PROVE  Requests' /\ Proposal'
  <2>1. config \in Nat
    BY Bounds DEF Typed, TypeOK
  <2> QED
    BY <1>5, <1>6, <1>13, <2>1 DEF BeginSessionPatch, Client
<1>14. ASSUME NEW c \in Client,
              \/ UpdateField(c) \/ DeleteField(c) \/ SessionPatch(c) \/ SessionPatchFails(c)
              \/ PreviewFails(c) \/ InitialFails(c) \/ DropProposal(c) \/ Crash(c)
       PROVE  Requests' /\ Proposal'
  <2>1. Kept /\ req' = [req EXCEPT ![c] = Idle]
    BY <1>14 DEF UpdateField, DeleteField, SessionPatch, SessionPatchFails, ApplyPatch,
                 PreviewFails, InitialFails, DropProposal, Crash
  <2> QED
    BY <1>3, <1>6, <2>1
<1>15. ASSUME NEW c \in Drafter, CommitInitial(c) PROVE Requests' /\ Proposal'
  BY <1>3, <1>6, <1>15 DEF CommitInitial, Client
<1>16. ASSUME NEW c \in Client,
              \/ SeeState(c) \/ ReorderFields(c)
              \/ \E k \in Key : CreateField(c, k)
              \/ \E o \in Operation : Patch(c, o)
       PROVE  Requests' /\ Proposal'
  BY <1>7, <1>16 DEF SeeState, ReorderFields, CreateField, Patch, ApplyPatch
<1>17. ASSUME ProposalExpires \/ \E d \in Doc : DocStep(d) PROVE Requests' /\ Proposal'
  BY <1>7, <1>17 DEF ProposalExpires, DocStep
<1>18. CASE UNCHANGED vars
  BY <1>7, <1>18 DEF vars
<1> QED
  BY <1>8, <1>9, <1>10, <1>11, <1>12, <1>13, <1>14, <1>15, <1>16, <1>17, <1>18 DEF Next, Client

-----------------------------------------------------------------------------
(* Fields and versions. *)

FieldSet == [key : Key, enabled : BOOLEAN, suggested : BOOLEAN]

FieldsOK ==
  /\ Live \subseteq 1 .. MaxField /\ nextField \in 1 .. MaxField + 1
  /\ \A f \in Live : fields[f] \in FieldSet

VersionsOK == versions \in Seq(VersionSet) /\ Len(versions) <= MaxVersion

State ==
  /\ FieldsOK /\ VersionsOK /\ config \in 1 .. MaxConfig
  /\ RowsAreKeyed /\ InitialOnce /\ NoOrphanFields

LEMMA StateIsTyped == State => TypeOK /\ versions \in Seq(VersionSet)
<1>1. VersionsOK => \A i \in DOMAIN versions : versions[i].rows \subseteq RowSet
  <2>1. \A v \in VersionSet : v.rows \subseteq RowSet
    BY DEF VersionSet
  <2>2. VersionsOK => \A i \in DOMAIN versions : versions[i] \in VersionSet
    BY DEF VersionsOK
  <2> QED
    BY <2>1, <2>2
<1> QED
  BY <1>1 DEF State, FieldsOK, FieldSet, VersionsOK, TypeOK

LEMMA TypedIsState ==
  TypeOK /\ versions \in Seq(VersionSet) /\ RowsAreKeyed /\ InitialOnce /\ NoOrphanFields => State
BY DEF State, FieldsOK, FieldSet, VersionsOK, TypeOK

\* The fields a version's rows are about survive, with their keys.
KeepsFields == \A f \in Live : f \in Live' /\ fields'[f].key = fields[f].key

LEMMA KeyedStays == KeepsFields => \A rows : Keyed(fields, rows) => Keyed(fields', rows)
BY DEF KeepsFields, Keyed, Live

LEMMA KeepsRows ==
  ASSUME RowsAreKeyed, InitialOnce, KeepsFields, UNCHANGED versions
  PROVE  RowsAreKeyed' /\ InitialOnce'
BY DEF KeepsFields, RowsAreKeyed, InitialOnce

\* New fields are fields, and the old ones stay as they are.
LEMMA AddedFields ==
  ASSUME FieldsOK, NEW ks \in SUBSET Key, NEW sug \in BOOLEAN,
         nextField + Cardinality(ks) - 1 <= MaxField,
         fields' = WithNew(fields, nextField, ks, sug),
         nextField' = nextField + Cardinality(ks)
  PROVE  /\ FieldsOK'
         /\ \A f \in Live : f \in Live' /\ fields'[f] = fields[f]
         /\ \A f \in Live' : f \in Live \/ fields'[f].suggested = sug
<1>1. nextField \in Nat \ {0} /\ Cardinality(ks) \in Nat
  BY WithNewFields DEF FieldsOK
<1>2. \A f : f \in Live' <=> f \in Live \/ f \in nextField .. nextField + Cardinality(ks) - 1
  BY <1>1, WithNewFields DEF Live
<1>3. \A f \in Live : fields'[f] = fields[f]
  BY <1>1, WithNewFields DEF Live
<1>4. \A f \in Live' \ Live : \E k \in ks : fields'[f] = NewField(k, sug)
  BY <1>1, WithNewFields DEF Live
<1>5. \A k \in ks : NewField(k, sug) \in FieldSet /\ NewField(k, sug).suggested = sug
  BY DEF NewField, FieldSet
<1>6. \A f \in Live' : fields'[f] \in FieldSet
  BY <1>2, <1>3, <1>4, <1>5 DEF FieldsOK
<1>7. nextField' \in 1 .. MaxField + 1
  BY <1>1, Bounds DEF FieldsOK
<1>8. \A f \in nextField .. nextField + Cardinality(ks) - 1 : f \in 1 .. MaxField
  BY <1>1, Bounds
<1>9. \A f \in Live' : f \in 1 .. MaxField
  BY <1>2, <1>8 DEF FieldsOK
<1> QED
  BY <1>2, <1>3, <1>4, <1>5, <1>6, <1>7, <1>9 DEF FieldsOK

\* The rows of the last version are replaced, and versions are added, one at a time.
LEMMA ActiveRows == VersionsOK /\ RowsAreKeyed => Active \subseteq RowSet /\ Keyed(fields, Active)
<1> SUFFICES ASSUME VersionsOK, RowsAreKeyed PROVE Active \subseteq RowSet /\ Keyed(fields, Active)
  OBVIOUS
<1>1. CASE versions = <<>>
  BY <1>1 DEF Active, Keyed
<1>2. CASE versions # <<>>
  <2>1. Len(versions) \in DOMAIN versions /\ versions[Len(versions)] \in VersionSet
    BY <1>2, EmptySeq DEF VersionsOK
  <2>2. versions[Len(versions)].rows \subseteq RowSet
    BY <2>1 DEF VersionSet
  <2>3. Keyed(fields, versions[Len(versions)].rows)
    BY <2>1 DEF RowsAreKeyed, Keyed, Live
  <2> QED
    BY <1>2, <2>2, <2>3 DEF Active
<1> QED
  BY <1>1, <1>2

LEMMA NewVersion ==
  ASSUME VersionsOK, RowsAreKeyed, InitialOnce, Len(versions) < MaxVersion,
         NEW v \in VersionSet, v.kind = "initial" => versions = <<>>,
         versions' = Append(versions, v), KeepsFields, Keyed(fields', v.rows)
  PROVE  VersionsOK' /\ RowsAreKeyed' /\ InitialOnce' /\ versions' # <<>>
<1>1. /\ versions' \in Seq(VersionSet) /\ Len(versions') = Len(versions) + 1
      /\ DOMAIN versions' = 1 .. Len(versions) + 1 /\ DOMAIN versions = 1 .. Len(versions)
      /\ \A i \in 1 .. Len(versions) : versions'[i] = versions[i]
      /\ versions'[Len(versions) + 1] = v
  BY AppendProperties DEF VersionsOK
<1>2. Len(versions) \in Nat /\ (versions = <<>> => Len(versions) = 0)
  BY DEF VersionsOK
<1>3. VersionsOK'
  BY <1>1, <1>2, Bounds DEF VersionsOK
<1>4. RowsAreKeyed'
  <2>1. \A i \in DOMAIN versions : Keyed(fields, versions[i].rows)
    BY DEF RowsAreKeyed, Keyed, Live
  <2>2. \A i \in DOMAIN versions : Keyed(fields', versions[i].rows)
    BY <2>1, KeyedStays
  <2>3. \A i \in DOMAIN versions' : Keyed(fields', versions'[i].rows)
    BY <1>1, <1>2, <2>2
  <2> QED
    BY <2>3 DEF RowsAreKeyed, Keyed, Live
<1>5. InitialOnce'
  BY <1>1, <1>2 DEF InitialOnce
<1> QED
  BY <1>1, <1>2, <1>3, <1>4, <1>5, EmptySeq

\* Each action that changes fields or versions keeps what State says of them.
LEMMA ApplyPatchState ==
  ASSUME State, NEW o \in Operation, NEW cfg \in Nat, NEW want, NEW base,
         ApplyPatch(o, cfg, want, base)
  PROVE  State'
<1> DEFINE n == Len(versions) + 1
           new == Patched(Active, o, n)
           v == Version(cfg, "patch", new)
<1>1. /\ Len(versions) < MaxVersion /\ ValidOp(o, Active)
      /\ o.type = "add" => NextItemKey(ItemsIn(Active, FieldOf(fields, o.key))) <= MaxItem
      /\ versions' = Append(versions, v) /\ UNCHANGED <<fields, nextField, config>>
  BY DEF ApplyPatch
<1>2. n \in 1 .. MaxVersion /\ Len(versions) \in Nat
  BY <1>1, Bounds DEF State, VersionsOK
<1>3. new \subseteq RowSet /\ Keyed(fields, new)
  BY <1>1, <1>2, ActiveRows, PatchedRows DEF State, FieldsOK
<1> HIDE DEF new
<1>4. v \in VersionSet /\ v.rows = new /\ v.kind = "patch"
  BY <1>2, <1>3 DEF Version, VersionSet
<1> HIDE DEF v
<1>5. KeepsFields
  BY <1>1 DEF KeepsFields, Live
<1>6. VersionsOK' /\ RowsAreKeyed' /\ InitialOnce' /\ versions' # <<>>
  BY <1>1, <1>3, <1>4, <1>5, NewVersion DEF State
<1> QED
  BY <1>1, <1>6 DEF State, FieldsOK, NoOrphanFields, Live

LEMMA CreateFieldState ==
  ASSUME State, NEW c, NEW k \in Key, CreateField(c, k)
  PROVE  State'
<1>1. /\ nextField \in Nat /\ nextField <= MaxField /\ config + 1 \in 1 .. MaxConfig
      /\ fields' = WithNew(fields, nextField, {k}, FALSE) /\ nextField' = nextField + 1
      /\ config' = config + 1 /\ UNCHANGED versions
  BY Bounds DEF CreateField, State, FieldsOK
<1>2. Cardinality({k}) = 1 /\ nextField + 1 - 1 = nextField
  BY <1>1, FS_Singleton
<1>3. /\ FieldsOK' /\ \A f \in Live : f \in Live' /\ fields'[f] = fields[f]
      /\ \A f \in Live' : f \in Live \/ fields'[f].suggested = FALSE
  BY <1>1, <1>2, AddedFields DEF State
<1>4. RowsAreKeyed' /\ InitialOnce'
  BY <1>1, <1>3, KeepsRows DEF State, KeepsFields
<1>5. NoOrphanFields'
  BY <1>1, <1>3 DEF State, NoOrphanFields
<1> QED
  BY <1>1, <1>3, <1>4, <1>5 DEF State, VersionsOK

LEMMA UpdateFieldState ==
  ASSUME State, NEW c, UpdateField(c)
  PROVE  State'
<1> DEFINE f == req[c].field
<1>1. CASE f \notin Live
  BY <1>1 DEF UpdateField, State, FieldsOK, VersionsOK, RowsAreKeyed, InitialOnce, NoOrphanFields, Live
<1>2. CASE f \in Live
  <2>1. /\ fields' = [fields EXCEPT ![f].enabled = ~@] /\ UNCHANGED <<versions, nextField>>
        /\ config' \in 1 .. MaxConfig
    BY <1>2, Bounds DEF UpdateField, State
  <2>2. /\ Live' = Live
        /\ \A g \in Live : /\ fields'[g].key = fields[g].key
                           /\ fields'[g].suggested = fields[g].suggested
                           /\ fields'[g] \in FieldSet
    BY <2>1 DEF State, FieldsOK, FieldSet, Live
  <2>3. RowsAreKeyed' /\ InitialOnce'
    BY <2>1, <2>2, KeepsRows DEF State, KeepsFields
  <2> QED
    BY <2>1, <2>2, <2>3 DEF State, FieldsOK, VersionsOK, NoOrphanFields
<1> QED
  BY <1>1, <1>2

LEMMA DeleteFieldState ==
  ASSUME State, NEW c, DeleteField(c)
  PROVE  State'
<1> DEFINE f == req[c].field
           n == Len(versions)
<1>1. CASE Restricted(f)
  BY <1>1 DEF DeleteField, State, FieldsOK, VersionsOK, RowsAreKeyed, InitialOnce, NoOrphanFields, Live
<1>2. CASE ~Restricted(f)
  <2>1. /\ versions' = VersionsWithout(f) /\ fields' = Without(fields, f)
        /\ config' \in 1 .. MaxConfig /\ UNCHANGED nextField /\ n < MaxVersion
    BY <1>2, Bounds DEF DeleteField, State
  <2>2. /\ \A g : g \in Live' <=> g \in Live /\ g # f
        /\ \A g \in Live' : fields'[g] = fields[g]
    BY <2>1 DEF Without, Live
  <2>3. FieldsOK'
    BY <2>1, <2>2 DEF State, FieldsOK
  <2>4. CASE versions = <<>>
    <3>1. versions' = <<>>
      BY <2>1, <2>4 DEF VersionsWithout
    <3>2. RowsAreKeyed' /\ InitialOnce' /\ VersionsOK'
      BY <2>4, <3>1 DEF State, RowsAreKeyed, InitialOnce, VersionsOK
    <3>3. NoOrphanFields'
      BY <2>2, <2>4, <3>1 DEF State, NoOrphanFields
    <3> QED
      BY <2>1, <2>3, <3>2, <3>3 DEF State
  <2>5. CASE versions # <<>>
    <3> DEFINE rest == {r \in versions[n].rows : r.field # f}
               cut == [versions EXCEPT ![n].rows = rest]
               v == Version(config, "patch", {})
    <3>1. n \in Nat \ {0} /\ versions[n] \in VersionSet /\ DOMAIN versions = 1 .. n
      BY <2>5, EmptySeq DEF State, VersionsOK
    <3>2. [versions[n] EXCEPT !.rows = rest] \in VersionSet
      BY <3>1 DEF VersionSet
    <3>3. /\ cut \in Seq(VersionSet) /\ Len(cut) = n
          /\ \A i \in 1 .. n - 1 : cut[i] = versions[i]
          /\ cut[n].rows = rest /\ cut[n].kind = versions[n].kind
      BY <3>1, <3>2, ExceptSeq DEF State, VersionsOK, VersionSet
    <3>4. v \in VersionSet /\ v.rows = {} /\ v.kind = "patch"
      BY <3>1 DEF Version, VersionSet, State
    <3> HIDE DEF cut, v
    <3>5. versions' = Append(cut, v)
      BY <2>1, <2>5 DEF VersionsWithout, cut, v
    <3>6. /\ versions' \in Seq(VersionSet) /\ Len(versions') = n + 1
          /\ DOMAIN versions' = 1 .. n + 1
          /\ \A i \in 1 .. n : versions'[i] = cut[i]
          /\ versions'[n + 1] = v
      BY <3>3, <3>4, <3>5, AppendProperties
    <3>7. VersionsOK'
      BY <2>1, <3>1, <3>6, Bounds DEF VersionsOK
    <3>8. RowsAreKeyed'
      <4>1. \A i \in 1 .. n - 1 : \A r \in versions[i].rows : r.field # f
        BY <1>2 DEF Restricted
      <4>2. \A i \in 1 .. n : /\ versions'[i].rows \subseteq versions[i].rows
                              /\ \A r \in versions'[i].rows : r.field # f
        BY <3>1, <3>3, <3>6, <4>1
      <4>3. versions'[n + 1].rows = {}
        BY <3>4, <3>6
      <4>4. \A i \in DOMAIN versions' : i \in DOMAIN versions \/ i = n + 1
        BY <3>1, <3>6
      <4> QED
        BY <2>2, <3>1, <4>2, <4>3, <4>4 DEF State, RowsAreKeyed
    <3>9. InitialOnce'
      BY <3>1, <3>3, <3>4, <3>6 DEF State, InitialOnce
    <3>10. NoOrphanFields'
      BY <3>1, <3>6 DEF NoOrphanFields
    <3> QED
      BY <2>1, <2>3, <3>7, <3>8, <3>9, <3>10 DEF State
  <2> QED
    BY <2>4, <2>5
<1> QED
  BY <1>1, <1>2

LEMMA CommitInitialState ==
  ASSUME State, Requests, NEW c \in Client, CommitInitial(c),
         \A d \in Doc : docs[d].md5 \in 1 .. MaxContent
  PROVE  State'
<1> DEFINE r == req[c]
           n == Cardinality(r.accepted)
           cfg == config + n
           rows == InitialRows(r.proposal, r.accepted, fields')
           v == Version(cfg, "initial", rows)
<1>1. /\ r.op = "initial" /\ versions = <<>> /\ nextField + n - 1 <= MaxField /\ cfg <= MaxConfig
      /\ fields' = WithNew(fields, nextField, r.accepted, TRUE) /\ nextField' = nextField + n
      /\ config' = cfg
      /\ versions' = Append(versions, v)
  BY DEF CommitInitial, InitialAccepted
<1>2. r.accepted \subseteq Key /\ Draft(r.proposal, docs)
  BY <1>1 DEF Requests, Request
<1>3. n \in Nat
  BY <1>2, WithNewFields
<1>4. FieldsOK' /\ \A f \in Live : f \in Live' /\ fields'[f] = fields[f]
  BY <1>1, <1>2, AddedFields DEF State
<1>5. KeepsFields /\ DOMAIN fields' = Live'
  BY <1>4 DEF KeepsFields, Live
<1> DEFINE snap == r.proposal.snap
           refs == {<<d, snap[d]>> : d \in DOMAIN snap}
<1>6. refs \in SUBSET (Doc \X (1 .. MaxContent))
  <2>1. \A d \in DOMAIN snap : d \in Doc /\ snap[d] \in 1 .. docs[d].md5
    BY <1>2 DEF Draft, Snapshot
  <2>2. \A d \in DOMAIN snap : snap[d] \in 1 .. MaxContent
    BY <2>1, Bounds
  <2> QED
    BY <2>1, <2>2
<1>7. \A x \in rows : \E f \in Live' : x = Row(f, IF fields'[f].key \in ListKey THEN 1 ELSE 0, 1, refs)
  BY <1>5 DEF InitialRows
<1> HIDE DEF refs, rows, snap
<1>8. rows \subseteq RowSet
  <2>1. \A f \in Live' : f \in 1 .. MaxField
    BY <1>4 DEF FieldsOK
  <2>2. \A f \in 1 .. MaxField, i \in {0, 1} : Row(f, i, 1, refs) \in RowSet
    BY <1>6, Bounds DEF Row, RowSet
  <2> QED
    BY <1>7, <2>1, <2>2
<1>9. Keyed(fields', rows)
  <2>1. \A f, i : Row(f, i, 1, refs).field = f /\ Row(f, i, 1, refs).item = i
    BY DEF Row
  <2> QED
    BY <1>5, <1>7, <2>1 DEF Keyed
<1>10. v \in VersionSet /\ v.rows = rows
  BY <1>1, <1>2, <1>3, <1>8, EmptySeq DEF Version, VersionSet, State, VersionsOK
<1> HIDE DEF v
<1>11. VersionsOK' /\ RowsAreKeyed' /\ InitialOnce' /\ versions' # <<>>
  <2>1. Len(versions) = 0
    BY <1>1, EmptySeq
  <2>2. Len(versions) < MaxVersion
    BY <2>1, Bounds
  <2>3. versions' = Append(versions, v) /\ Keyed(fields', v.rows)
    BY <1>1, <1>9, <1>10
  <2> QED
    BY <1>1, <1>5, <1>10, <2>2, <2>3, NewVersion DEF State
<1>12. config' \in 1 .. MaxConfig
  BY <1>1, <1>2, <1>3, Bounds DEF State
<1> QED
  BY <1>4, <1>11, <1>12 DEF State, NoOrphanFields

\* An action that leaves the fields and the versions alone.
LEMMA QuietState ==
  State /\ UNCHANGED <<fields, nextField, versions>> /\ config' \in 1 .. MaxConfig => State'
BY DEF State, FieldsOK, VersionsOK, RowsAreKeyed, InitialOnce, NoOrphanFields, Live

LEMMA NextState ==
  CampaignInv /\ [Next]_vars => State'
<1> SUFFICES ASSUME CampaignInv, [Next]_vars PROVE State'
  OBVIOUS
<1>1. State
  BY TypedIsState DEF CampaignInv, Typed
<1>2. Requests /\ \A d \in Doc : docs[d].md5 \in 1 .. MaxContent
  BY DEF CampaignInv, Typed
<1>3. config \in 1 .. MaxConfig
  BY <1>1 DEF State
<1> DEFINE Quiet == UNCHANGED <<fields, nextField, versions>> /\ config' \in 1 .. MaxConfig
<1>4. Quiet => State'
  BY <1>1, QuietState
<1>5. ASSUME NEW c \in Editor, SeeState(c) PROVE State'
  BY <1>3, <1>4, <1>5 DEF SeeState
<1>6. ASSUME NEW c \in Admin, UpdateField(c) \/ DeleteField(c) PROVE State'
  BY <1>1, <1>6, UpdateFieldState, DeleteFieldState
<1>7. ASSUME NEW c \in Admin, ReorderFields(c) PROVE State'
  BY <1>3, <1>4, <1>7, Bounds DEF ReorderFields
<1>8. ASSUME NEW c \in Admin, NEW k \in Key, CreateField(c, k) PROVE State'
  BY <1>1, <1>8, CreateFieldState
<1>9. ASSUME NEW c \in Admin, NEW f, NEW op, BeginFieldChange(c, f, op) PROVE State'
  BY <1>3, <1>4, <1>9 DEF BeginFieldChange
<1>10. ASSUME NEW c \in Editor, NEW o \in Operation, Patch(c, o) PROVE State'
  <2>1. config \in Nat /\ ApplyPatch(o, config, seen[c].config, seen[c].base)
    BY <1>3, <1>10, Bounds DEF Patch
  <2> QED
    BY <1>1, <2>1, ApplyPatchState
<1>11. ASSUME NEW c \in Session, SessionPatch(c) PROVE State'
  <2>1. /\ req[c].patch \in Operation
        /\ ApplyPatch(req[c].patch, req[c].config, req[c].config, req[c].base)
    BY <1>2, <1>11 DEF SessionPatch, Requests, Request, Client
  <2>2. req[c].config \in Nat
    BY <1>2, <1>11 DEF SessionPatch, Requests, Request, Client
  <2> QED
    BY <1>1, <2>1, <2>2, ApplyPatchState
<1>12. ASSUME NEW c \in Session, SessionPatchFails(c) PROVE State'
  BY <1>3, <1>4, <1>12 DEF SessionPatchFails
<1>13. ASSUME NEW c \in Session, NEW o, BeginSessionPatch(c, o) PROVE State'
  BY <1>3, <1>4, <1>13 DEF BeginSessionPatch
<1>14. ASSUME NEW c \in Drafter, CommitInitial(c) PROVE State'
  BY <1>1, <1>2, <1>14, CommitInitialState DEF Client
<1>15. ASSUME NEW c \in Drafter,
              \/ BeginPreview(c) \/ FetchTexts(c) \/ StorePreview(c) \/ PreviewFails(c)
              \/ BeginInitial(c) \/ InitialFails(c) \/ DropProposal(c)
       PROVE  State'
  BY <1>3, <1>4, <1>15 DEF BeginPreview, FetchTexts, StorePreview, PreviewFails, BeginInitial,
                           InitialFails, DropProposal
<1>16. ASSUME \/ \E c \in Client : Crash(c)
              \/ ProposalExpires \/ \E d \in Doc : DocStep(d)
       PROVE  State'
  BY <1>3, <1>4, <1>16 DEF Crash, ProposalExpires, DocStep
<1>17. CASE UNCHANGED vars
  BY <1>3, <1>4, <1>17 DEF vars
<1> QED
  BY <1>5, <1>6, <1>7, <1>8, <1>9, <1>10, <1>11, <1>12, <1>13, <1>14, <1>15, <1>16, <1>17 DEF Next

-----------------------------------------------------------------------------
(* The rest of the invariant. *)

LEMMA NextTyped == CampaignInv /\ [Next]_vars => Typed'
<1> SUFFICES ASSUME CampaignInv, [Next]_vars PROVE Typed'
  OBVIOUS
<1> DEFINE Documents == [Doc -> [md5 : 1 .. MaxContent,
                                 at : {"indexed", "changed", "missing", "gone"}]]
<1>1. Typed
  BY DEF CampaignInv
<1>2. TypeOK' /\ versions' \in Seq(VersionSet)
  <2>1. State'
    BY NextState
  <2>2. (State => TypeOK /\ versions \in Seq(VersionSet))'
    BY StateIsTyped, PTL
  <2> QED
    BY <2>1, <2>2
<1>3. docs' \in Documents
  <2>1. docs \in Documents
    BY <1>1 DEF Typed
  <2>2. ASSUME NEW d \in Doc, DocStep(d) PROVE docs' \in Documents
    <3>1. \A at \in {"indexed", "changed", "missing", "gone"} :
            [docs EXCEPT ![d].at = at] \in Documents
      BY <2>1
    <3>2. \A m \in 1 .. MaxContent : [docs EXCEPT ![d] = [md5 |-> m, at |-> "indexed"]] \in Documents
      BY <2>1
    <3>3. docs[d].md5 < MaxContent => docs[d].md5 + 1 \in 1 .. MaxContent
      BY <2>1, Bounds
    <3> QED
      BY <2>2, <3>1, <3>2, <3>3 DEF DocStep
  <2>3. (\E d \in Doc : DocStep(d)) \/ UNCHANGED docs
    BY DEF Next, vars, SeeState, UpdateField, DeleteField, ReorderFields, CreateField,
           BeginFieldChange, Patch, SessionPatch, SessionPatchFails, BeginSessionPatch, ApplyPatch,
           BeginPreview, FetchTexts, StorePreview, PreviewFails, BeginInitial, CommitInitial,
           InitialFails, DropProposal, Crash, ProposalExpires
  <2> QED
    BY <2>1, <2>2, <2>3
<1>4. DOMAIN req' = DOMAIN req /\ DOMAIN seen' = DOMAIN seen
  BY DEF Next, vars, Answer, Begin, SeeState, UpdateField, DeleteField, ReorderFields,
         CreateField, BeginFieldChange, Patch, SessionPatch, SessionPatchFails, BeginSessionPatch,
         ApplyPatch, BeginPreview, FetchTexts, StorePreview, PreviewFails, BeginInitial,
         CommitInitial, InitialFails, DropProposal, Crash, ProposalExpires, DocStep
<1> QED
  BY <1>1, <1>2, <1>3, <1>4 DEF Typed

\* Versions are only ever added: a change of the last one comes with another one after it.
LEMMA VersionsGrow ==
  CampaignInv /\ [Next]_vars => Len(versions') > Len(versions) \/ UNCHANGED versions
<1> SUFFICES ASSUME CampaignInv, [Next]_vars
             PROVE  Len(versions') > Len(versions) \/ UNCHANGED versions
  OBVIOUS
<1>1. versions \in Seq(VersionSet) /\ Len(versions) \in Nat
  BY DEF CampaignInv, Typed
<1>2. \A v : versions' = Append(versions, v) => Len(versions') > Len(versions)
  BY <1>1
<1>3. ASSUME NEW c \in Admin, DeleteField(c)
      PROVE  Len(versions') > Len(versions) \/ UNCHANGED versions
  <2> DEFINE f == req[c].field
             n == Len(versions)
             rest == {r \in versions[n].rows : r.field # f}
             cut == [versions EXCEPT ![n].rows = rest]
             v == Version(config, "patch", {})
  <2>1. versions' = versions \/ (versions # <<>> /\ versions' = Append(cut, v))
    <3>1. versions' = versions \/ versions' = VersionsWithout(f)
      BY <1>3 DEF DeleteField
    <3>2. CASE versions = <<>>
      BY <3>1, <3>2 DEF VersionsWithout
    <3>3. CASE versions # <<>>
      BY <3>1, <3>3 DEF VersionsWithout
    <3> QED
      BY <3>2, <3>3
  <2>2. ASSUME versions # <<>> PROVE cut \in Seq(VersionSet) /\ Len(cut) = n
    <3>1. n \in Nat \ {0} /\ versions[n] \in VersionSet
      BY <1>1, <2>2, EmptySeq
    <3>2. [versions[n] EXCEPT !.rows = rest] \in VersionSet
      BY <3>1 DEF VersionSet
    <3> QED
      BY <1>1, <3>1, <3>2, ExceptSeq
  <2> HIDE DEF cut, v
  <2>3. versions # <<>> => Len(Append(cut, v)) = n + 1
    BY <2>2
  <2> QED
    BY <1>1, <2>1, <2>3
<1>4. \/ \E c \in Admin : DeleteField(c)
      \/ \E v : versions' = Append(versions, v)
      \/ UNCHANGED versions
  BY DEF Next, vars, SeeState, UpdateField, ReorderFields, CreateField,
         BeginFieldChange, Patch, SessionPatch, SessionPatchFails, BeginSessionPatch, ApplyPatch,
         BeginPreview, FetchTexts, StorePreview, PreviewFails, BeginInitial, CommitInitial,
         InitialFails, DropProposal, Crash, ProposalExpires, DocStep
<1> QED
  BY <1>2, <1>3, <1>4

LEMMA NextShown == CampaignInv /\ [Next]_vars => Shown'
<1> SUFFICES ASSUME CampaignInv, [Next]_vars PROVE Shown'
  OBVIOUS
<1>1. /\ Len(versions) \in Nat /\ DOMAIN seen = Editor
      /\ \A c \in Editor : seen[c].op = "state" =>
           /\ seen[c].base \in 0 .. Len(versions)
           /\ seen[c].base = Len(versions) => seen[c].rows = Active
  BY DEF CampaignInv, Typed, Shown
<1>2. Len(versions') \in Nat
  BY NextTyped DEF Typed
<1>3. CASE UNCHANGED seen
  <2>1. CASE UNCHANGED versions
    BY <1>1, <1>3, <2>1 DEF Shown, Active
  <2>2. CASE Len(versions') > Len(versions)
    BY <1>1, <1>2, <1>3, <2>2 DEF Shown
  <2> QED
    BY <2>1, <2>2, VersionsGrow
<1>5. ASSUME NEW c \in Editor, SeeState(c) PROVE Shown'
  BY <1>1, <1>5 DEF SeeState, Shown, Active
<1>6. (\E c \in Editor : SeeState(c)) \/ UNCHANGED seen
  BY DEF Next, vars, UpdateField, DeleteField, ReorderFields, CreateField,
         BeginFieldChange, Patch, SessionPatch, SessionPatchFails, BeginSessionPatch, ApplyPatch,
         BeginPreview, FetchTexts, StorePreview, PreviewFails, BeginInitial, CommitInitial,
         InitialFails, DropProposal, Crash, ProposalExpires, DocStep
<1> QED
  BY <1>3, <1>5, <1>6

LEMMA InitInv == Init => CampaignInv
<1> SUFFICES ASSUME Init PROVE CampaignInv
  OBVIOUS
<1>1. /\ fields = WithNew(<<>>, 1, Configured, FALSE) /\ nextField = 1 + Cardinality(Configured)
      /\ config = 1 /\ versions = <<>>
  BY DEF Init
<1>2. /\ Configured \in SUBSET Key /\ Cardinality(Configured) \in Nat
      /\ Cardinality(Configured) <= MaxField
  BY CampaignAssumption, WithNewFields
<1>3. DOMAIN <<>> = {}
  OBVIOUS
<1>4. \A f : f \in Live <=> f \in 1 .. 1 + Cardinality(Configured) - 1
  BY <1>1, <1>2, <1>3, WithNewFields DEF Live
<1> PICK sug \in BOOLEAN : ~sug /\ fields = WithNew(<<>>, 1, Configured, sug)
  BY <1>1
<1>5. \A f \in Live : \E k \in Configured : fields[f] = NewField(k, sug)
  BY <1>2, <1>3, WithNewFields DEF Live
<1>6. \A k \in Configured : NewField(k, sug) \in FieldSet /\ ~NewField(k, sug).suggested
  BY <1>2 DEF NewField, FieldSet
<1>7. FieldsOK /\ NoOrphanFields
  <2>1. \A f \in Live : f \in 1 .. MaxField
    BY <1>2, <1>4, Bounds
  <2>2. nextField \in 1 .. MaxField + 1
    BY <1>1, <1>2, Bounds
  <2> QED
    BY <1>5, <1>6, <2>1, <2>2 DEF FieldsOK, NoOrphanFields
<1>8. State
  <2>1. versions \in Seq(VersionSet) /\ Len(versions) = 0 /\ DOMAIN versions = {}
    BY <1>1, EmptySeq
  <2> QED
    BY <1>1, <1>7, <2>1, Bounds DEF State, VersionsOK, RowsAreKeyed, InitialOnce
<1>9. Typed
  <2>1. docs \in [Doc -> [md5 : 1 .. MaxContent, at : {"indexed", "changed", "missing", "gone"}]]
    BY Bounds DEF Init
  <2>2. DOMAIN req = Client /\ DOMAIN seen = Editor
    BY DEF Init
  <2> QED
    BY <1>8, <2>1, <2>2, StateIsTyped DEF State, VersionsOK, Typed
<1>10. Requests /\ Proposal /\ Shown
  BY DEF Init, Requests, Request, Proposal, Shown, Idle, None
<1> QED
  BY <1>8, <1>9, <1>10 DEF State, CampaignInv

LEMMA NextInv == CampaignInv /\ [Next]_vars => CampaignInv'
<1> SUFFICES ASSUME CampaignInv, [Next]_vars PROVE CampaignInv'
  OBVIOUS
<1>1. Typed' /\ Shown' /\ State'
  BY NextTyped, NextShown, NextState
<1>2. Requests' /\ Proposal'
  BY NextRequests DEF CampaignInv
<1> QED
  BY <1>1, <1>2 DEF CampaignInv, State

-----------------------------------------------------------------------------
(* What the service promises. *)

\* Every reachable state satisfies the inductive invariant: rows, drafts and what the
\* editors show stay consistent with the fields and the versions.
THEOREM CampaignInvariant == Spec => []CampaignInv
<1>1. CampaignInv /\ [Next]_vars => CampaignInv'
  BY NextInv
<1> QED
  BY InitInv, <1>1, PTL DEF Spec

\* The numbers of fields, configurations, versions and items stay within their bounds,
\* and every row of every version is one the tables can hold.
THEOREM CampaignTypes == Spec => []TypeOK
<1>1. CampaignInv => TypeOK
  BY DEF CampaignInv, Typed
<1> QED
  BY <1>1, CampaignInvariant, PTL

\* The values and list items of every version are those of configured fields, one row
\* to a key, under every interleaving of patches and changes of the configuration.
THEOREM ValuesAreKeyed == Spec => []RowsAreKeyed
<1>1. CampaignInv => RowsAreKeyed
  BY DEF CampaignInv
<1> QED
  BY <1>1, CampaignInvariant, PTL

\* However many applies run at once or are repeated, only the first version is drafted.
THEOREM OneDraftedVersion == Spec => []InitialOnce
<1>1. CampaignInv => InitialOnce
  BY DEF CampaignInv
<1> QED
  BY <1>1, CampaignInvariant, PTL

\* Suggested fields are created together with the first version or not at all.
THEOREM SuggestionsComeWithState == Spec => []NoOrphanFields
<1>1. CampaignInv => NoOrphanFields
  BY DEF CampaignInv
<1> QED
  BY <1>1, CampaignInvariant, PTL

\* A patch through the API replaces the rows its author saw: the number of the version
\* is enough, because a change of the last version's rows is followed by another one.
THEOREM PatchesReplaceSeenRows == Spec => PatchOnSeenRows
<1>1. ASSUME CampaignInv, NEW c \in Editor, NEW o \in Operation, Patch(c, o)
      PROVE  seen[c].rows = Active
  BY <1>1 DEF Patch, ApplyPatch, CampaignInv, Shown
<1>2. CampaignInv => [\A c \in Editor, o \in Operation : Patch(c, o) => seen[c].rows = Active]_vars
  BY <1>1
<1> QED
  BY <1>2, CampaignInvariant, PTL DEF PatchOnSeenRows

\* A draft becomes the first version only while the documents it was shown have the
\* content the model read: the snapshot, taken before the texts are fetched, is enough.
THEOREM DraftsAreOfCurrentTexts == Spec => InitialReadsCurrent
<1> DEFINE Current(c) ==
      \A d \in DOMAIN req[c].proposal.text :
        docs[d].at # "gone" => req[c].proposal.text[d] = docs[d].md5
<1>1. ASSUME CampaignInv, NEW c \in Drafter, CommitInitial(c) PROVE Current(c)
  <2> DEFINE p == req[c].proposal
  <2>1. req[c].op = "initial" /\ StaleSnapshot(p.snap) = {}
    BY <1>1 DEF CommitInitial, InitialAccepted
  <2>2. Snapshot(p.snap, docs) /\ Texts(p.snap, p.text, docs)
    BY <1>1, <2>1 DEF CampaignInv, Requests, Request, Draft, Client
  <2>3. \A d \in DOMAIN p.snap : docs[d].at # "gone" => docs[d].md5 = p.snap[d]
    BY <2>1 DEF StaleSnapshot
  <2>4. \A d \in DOMAIN p.text : d \in DOMAIN p.snap /\ p.text[d] \in p.snap[d] .. docs[d].md5
    BY <2>2 DEF Texts
  <2>5. \A d \in DOMAIN p.snap : p.snap[d] \in Nat /\ d \in Doc
    BY <2>2 DEF Snapshot
  <2>6. \A d \in Doc : docs[d].md5 \in Nat
    BY <1>1 DEF CampaignInv, Typed
  <2> QED
    BY <2>3, <2>4, <2>5, <2>6
<1>2. CampaignInv => [\A c \in Drafter : CommitInitial(c) => Current(c)]_vars
  BY <1>1
<1> QED
  BY <1>2, CampaignInvariant, PTL DEF InitialReadsCurrent
=============================================================================
