---------------------------- MODULE MediaLibrary ----------------------------
(***************************************************************************)
(* The media library: MediaService over PostgreSQL and an object store     *)
(* that share no transaction.  An upload writes its objects first and its  *)
(* row last; a removal deletes the row first and the objects after.        *)
(*                                                                         *)
(* An upload creates at most one asset, so an asset's id is the upload     *)
(* that created it.  Every object of an upload lies under a random prefix  *)
(* of its own: the upload again.                                           *)
(*                                                                         *)
(* A definition marked "Fault" is no part of the specification: it is the  *)
(* next definition with a plausible bug, which some property must notice.  *)
(***************************************************************************)
EXTENDS MediaProcessing

CONSTANTS
  Uploads,        \* POST /admin/media requests
  Removals,       \* DELETE /admin/media/:id requests
  Owners,         \* columns that may reference an asset (cover, og image, ...)
  Slot,           \* what each may reference
  NoAsset,
  MaxConcurrent,  \* MAX_CONCURRENT_PROCESSING
  MaxLeft,        \* bound: how many keys a failing deletion leaves behind
  MetaTarget      \* may a P2002 error name its columns in meta.target:
                  \* a set of truth values

(* The settings' resume takes a PDF; their portrait and the pages' SEO     *)
(* image take a picture; articles, projects and testimonials take any      *)
(* asset and expect a picture.                                             *)
ASSUME SlotType == Slot \in [Owners -> {"resume", "picture", "any"}]
ASSUME UploadsFinite == IsFiniteSet(Uploads)
ASSUME CapType    == MaxConcurrent \in Nat \ {0}
ASSUME LeftType   == MaxLeft \in Nat
ASSUME MetaType   == MetaTarget \subseteq BOOLEAN
ASSUME DistinctRequests == Uploads \intersect Removals = {} /\ NoAsset \notin Uploads

VARIABLES
  assets,     \* media_assets with their variants
  objects,    \* keys present in the object store
  refs,       \* the asset each owner references
  active,     \* ProcessingConcurrencyLimiter.active
  pc,         \* where each request stands
  content,    \* what each upload carries: its submission
  uploaded,   \* keys whose put() resolved in this request
  target,     \* the asset each removal is about
  doomed,     \* the keys a removal read from the row it deletes
  mishaps     \* what has gone wrong beyond an honest rejection (history)

vars == <<assets, objects, refs, active, pc, content, uploaded, target, doomed, mishaps>>

(* A put or a create took effect although it rejected; a deletion left     *)
(* keys behind, or that of a row did although it rejected; the process     *)
(* died.                                                                   *)
Mishaps == {"lostPut", "lostCreate", "delete", "crash"}

(* Fault: the prefix is the content hash. *)
KeyByContent(u, s, part) == [prefix |-> s.file, piece |-> Pieces[s][part]]

(* masterKey, variantKey, pdfKey: the prefix is random, hence the upload.  *)
Key(u, s, part) == [prefix |-> u, piece |-> Pieces[s][part]]

KeysOf(u, s) == {Key(u, s, part) : part \in 1 .. Len(Pieces[s])}
AllKeys      == UNION {KeysOf(u, s) : u \in Uploads, s \in Submissions}


Asset == [hash : Files, kind : Kinds, keys : SUBSET AllKeys, overBudget : SUBSET PieceType]

ASSUME NoAssetIsNone == NoAsset \notin Asset

Requests   == Uploads \union Removals
Processing == {"processing", "storing", "creating", "compensating", "raceLost", "rereading"}
Ended      == {"created", "deduplicated", "busy", "failed", "unprocessable", "tooLarge",
               "removed", "inUse", "notFound", "gone"}

TypeOK ==
  /\ assets \in [Uploads -> Asset \union {NoAsset}]
  /\ objects \subseteq AllKeys
  /\ refs \in [Owners -> Uploads \union {NoAsset}]
  /\ active \in 0 .. MaxConcurrent
  /\ pc \in [Requests -> {"new", "hashed", "unknown", "deleting", "cleaning"} \union Processing \union Ended]
  /\ content \in [Uploads -> Submissions]
  /\ uploaded \in [Uploads -> SUBSET AllKeys]
  /\ target \in [Removals -> Uploads \union {NoAsset}]
  /\ doomed \in [Removals -> SUBSET AllKeys]
  /\ mishaps \subseteq Mishaps

Init ==
  /\ assets = [u \in Uploads |-> NoAsset]
  /\ objects = {}
  /\ refs = [o \in Owners |-> NoAsset]
  /\ active = 0
  /\ pc = [r \in Requests |-> "new"]
  /\ content \in [Uploads -> Submissions]
  /\ uploaded = [u \in Uploads |-> {}]
  /\ target = [d \in Removals |-> NoAsset]
  /\ doomed = [d \in Removals |-> {}]
  /\ mishaps = {}

(***************************************************************************)
(* Helpers.                                                                *)
(***************************************************************************)

Goto(r, label) == pc' = [pc EXCEPT ![r] = label]

(* Fault: no finally. *)
LeaveKeepsSlot(u, label) == Goto(u, label) /\ UNCHANGED active

(* finally { active-- }: a processing upload leaves the limiter. *)
Leave(u, label) == Goto(u, label) /\ active' = active - 1

Stored        == {a \in Uploads : assets[a] # NoAsset}
WithContent(s) == {a \in Stored : assets[a].hash = s.file}
Usages(a)     == {o \in Owners : refs[o] = a}

Note(mishap) == mishaps' = mishaps \union {mishap}

(* deleteMany may leave some of the keys it was given. *)
Delete(keys, left) ==
  /\ Cardinality(left) <= MaxLeft
  /\ objects' = objects \ (keys \ left)
  /\ IF left = {} THEN UNCHANGED mishaps ELSE Note("delete")

(***************************************************************************)
(* upload.                                                                 *)
(***************************************************************************)

(* Fault: only new content is validated, when it is processed. *)
ValidateNothing(u) ==
  /\ pc[u] = "new"
  /\ Goto(u, "hashed")
  /\ UNCHANGED <<assets, objects, refs, active, content, uploaded, target, doomed, mishaps>>

(* The multipart limit; then validateIdentity, before the dedup lookup; then *)
(* the hash of the original bytes. *)
Validate(u) ==
  /\ pc[u] = "new"
  /\ Goto(u, IF File[content[u].file].size > MAX_UPLOAD_BYTES THEN "tooLarge"
             ELSE IF validateIdentity(content[u]) THEN "hashed" ELSE "unprocessable")
  /\ UNCHANGED <<assets, objects, refs, active, content, uploaded, target, doomed, mishaps>>

(* The dedup lookup. *)
Lookup(u) ==
  /\ pc[u] = "hashed"
  /\ Goto(u, IF WithContent(content[u]) # {} THEN "deduplicated" ELSE "unknown")
  /\ UNCHANGED <<assets, objects, refs, active, content, uploaded, target, doomed, mishaps>>

(* The limiter, for content that was new: no queue, a full one refuses. *)
Admit(u) ==
  /\ pc[u] = "unknown"
  /\ \/ active >= MaxConcurrent /\ Goto(u, "busy") /\ UNCHANGED active
     \/ active < MaxConcurrent /\ Goto(u, "processing") /\ active' = active + 1
  /\ UNCHANGED <<assets, objects, refs, content, uploaded, target, doomed, mishaps>>

(* processImage or processPdf, which check the identity once more; Sharp   *)
(* may fail on any picture.  Nothing is stored yet, nothing to compensate. *)
Process(u) ==
  /\ pc[u] = "processing"
  /\ \/ Processable(content[u]) /\ Goto(u, "storing") /\ UNCHANGED active
     \/ Processable(content[u]) /\ Kind(content[u]) = "IMAGE" /\ Leave(u, "failed")
     \/ ~Processable(content[u]) /\ Leave(u, "unprocessable")
  /\ UNCHANGED <<assets, objects, refs, content, uploaded, target, doomed, mishaps>>

NextKey(u) == Key(u, content[u], Cardinality(uploaded[u]) + 1)

(* put() of the next object; only a put that resolves is recorded. *)
Put(u) ==
  /\ pc[u] = "storing"
  /\ objects' = objects \union {NextKey(u)}
  /\ uploaded' = [uploaded EXCEPT ![u] = @ \union {NextKey(u)}]
  /\ Goto(u, IF Cardinality(uploaded[u]) + 1 = Len(Pieces[content[u]]) THEN "creating" ELSE "storing")
  /\ UNCHANGED <<assets, refs, active, content, target, doomed, mishaps>>

(* Fault: a rejected put is rethrown at once. *)
PutRejectedUncompensated(u) ==
  /\ pc[u] = "storing"
  /\ Leave(u, "failed")
  /\ UNCHANGED <<assets, objects, refs, content, uploaded, target, doomed, mishaps>>

(* put() rejects; the object may be there all the same. *)
PutRejected(u) ==
  /\ pc[u] = "storing"
  /\ \/ UNCHANGED <<objects, mishaps>>
     \/ objects' = objects \union {NextKey(u)} /\ Note("lostPut")
  /\ Goto(u, "compensating")
  /\ UNCHANGED <<assets, refs, active, content, uploaded, target, doomed>>

Row(u, s) == [hash |-> s.file, kind |-> Kind(s), keys |-> KeysOf(u, s), overBudget |-> Flagged[s]]

Insert(u) == assets' = [assets EXCEPT ![u] = Row(u, content[u])]

(* Fault: no unique index on the hash. *)
CreateRowUnchecked(u) ==
  /\ pc[u] = "creating"
  /\ Insert(u)
  /\ Leave(u, "created")
  /\ UNCHANGED <<objects, refs, content, uploaded, target, doomed, mishaps>>

(* The row is the commit point. *)
CreateRow(u) ==
  /\ pc[u] = "creating"
  /\ WithContent(content[u]) = {}
  /\ Insert(u)
  /\ Leave(u, "created")
  /\ UNCHANGED <<objects, refs, content, uploaded, target, doomed, mishaps>>

(* P2002: another upload of these bytes committed first.  The code knows   *)
(* it for a lost race only if meta.target names the hash.                  *)
CreateDuplicate(u) ==
  /\ pc[u] = "creating"
  /\ WithContent(content[u]) # {}
  /\ \E named \in MetaTarget : Goto(u, IF named THEN "raceLost" ELSE "compensating")
  /\ UNCHANGED <<assets, objects, refs, active, content, uploaded, target, doomed, mishaps>>

(* The statement rejects for another reason.  That does not prove that     *)
(* PostgreSQL did not commit.                                              *)
CreateRejected(u) ==
  /\ pc[u] = "creating"
  /\ \/ UNCHANGED <<assets, mishaps>>
     \/ WithContent(content[u]) = {} /\ Insert(u) /\ Note("lostCreate")
  /\ Goto(u, "compensating")
  /\ UNCHANGED <<objects, refs, active, content, uploaded, target, doomed>>

(* cleanup(uploaded), which never throws; then the error is rethrown, or   *)
(* the loser of a race looks for the winner.                               *)
Compensate(u) ==
  /\ pc[u] \in {"compensating", "raceLost"}
  /\ \E left \in SUBSET uploaded[u] : Delete(uploaded[u], left)
  /\ IF pc[u] = "raceLost"
     THEN Goto(u, "rereading") /\ UNCHANGED active
     ELSE Leave(u, "failed")
  /\ UNCHANGED <<assets, refs, content, uploaded, target, doomed>>

(* Fault: the loser looks until the winner shows up. *)
RereadUntilFound(u) ==
  /\ pc[u] = "rereading"
  /\ WithContent(content[u]) # {}
  /\ Leave(u, "deduplicated")
  /\ UNCHANGED <<assets, objects, refs, content, uploaded, target, doomed, mishaps>>

(* The winner may have been removed in the meantime. *)
Reread(u) ==
  /\ pc[u] = "rereading"
  /\ Leave(u, IF WithContent(content[u]) # {} THEN "deduplicated" ELSE "failed")
  /\ UNCHANGED <<assets, objects, refs, content, uploaded, target, doomed, mishaps>>

(***************************************************************************)
(* remove.                                                                 *)
(***************************************************************************)

(* The read: 404, 409 with the usages, or the keys to delete later. *)
ReadForRemoval(d) ==
  /\ pc[d] = "new"
  /\ \E a \in Uploads :
       /\ target' = [target EXCEPT ![d] = a]
       /\ IF a \notin Stored
          THEN Goto(d, "notFound") /\ UNCHANGED doomed
          ELSE IF Usages(a) # {}
          THEN Goto(d, "inUse") /\ UNCHANGED doomed
          ELSE Goto(d, "deleting") /\ doomed' = [doomed EXCEPT ![d] = assets[a].keys]
  /\ UNCHANGED <<assets, objects, refs, active, content, uploaded, mishaps>>

(* The RESTRICT foreign keys, read at the moment of deletion. *)
MayDelete(a) == Usages(a) = {}

(* The commit point of a removal: P2025 is 404, P2003 is 409 with the      *)
(* usages read again.                                                      *)
DeleteRow(d) ==
  LET a == target[d]
  IN  /\ pc[d] = "deleting"
      /\ IF a \notin Stored
         THEN Goto(d, "notFound") /\ UNCHANGED assets
         ELSE IF ~MayDelete(a)
         THEN Goto(d, "inUse") /\ UNCHANGED assets
         ELSE /\ assets' = [assets EXCEPT ![a] = NoAsset]
              /\ Goto(d, "cleaning")
      /\ UNCHANGED <<objects, refs, active, content, uploaded, target, doomed, mishaps>>

(* It rejects for another reason, and is rethrown.  The row may be gone    *)
(* all the same, and its objects are left behind.                          *)
DeleteRejected(d) ==
  LET a == target[d]
  IN  /\ pc[d] = "deleting"
      /\ \/ UNCHANGED <<assets, mishaps>>
         \/ /\ a \in Stored /\ MayDelete(a)
            /\ assets' = [assets EXCEPT ![a] = NoAsset]
            /\ Note("delete")
      /\ Goto(d, "failed")
      /\ UNCHANGED <<objects, refs, active, content, uploaded, target, doomed>>

(* cleanupAfterDelete: best effort, never changes the answer. *)
CleanupAfterDelete(d) ==
  /\ pc[d] = "cleaning"
  /\ \E left \in SUBSET doomed[d] : Delete(doomed[d], left)
  /\ Goto(d, "removed")
  /\ UNCHANGED <<assets, refs, active, content, uploaded, target, doomed>>

(***************************************************************************)
(* The rest of the system.                                                 *)
(***************************************************************************)

(* The kind, looked up before the write: an asset keeps its kind. *)
Suits(o, a) ==
  CASE Slot[o] = "resume"  -> assets[a].kind = "PDF"
    [] Slot[o] = "picture" -> assets[a].kind = "IMAGE"
    [] Slot[o] = "any"     -> TRUE

(* Another module points a column at an asset (the FK admits only a stored *)
(* one) or clears it.                                                      *)
Reference(o) ==
  /\ \E a \in Stored \union {NoAsset} :
       /\ refs[o] # a /\ (a # NoAsset => Suits(o, a))
       /\ refs' = [refs EXCEPT ![o] = a]
  /\ UNCHANGED <<assets, objects, active, pc, content, uploaded, target, doomed, mishaps>>

InFlight(r) == pc[r] \in {"hashed", "unknown", "deleting", "cleaning"} \union Processing

(* The process dies: counter and request states are gone, rows and objects *)
(* stay.                                                                   *)
Crash ==
  /\ \E r \in Requests : InFlight(r)
  /\ pc' = [r \in Requests |-> IF InFlight(r) THEN "gone" ELSE pc[r]]
  /\ active' = 0
  /\ Note("crash")
  /\ UNCHANGED <<assets, objects, refs, content, uploaded, target, doomed>>

Upload(u) ==
  \/ Lookup(u)
  \/ Admit(u)
  \/ Process(u)
  \/ Put(u)
  \/ PutRejected(u)
  \/ CreateRow(u)
  \/ CreateDuplicate(u)
  \/ CreateRejected(u)
  \/ Compensate(u)
  \/ Reread(u)

Remove(d) == DeleteRow(d) \/ DeleteRejected(d) \/ CleanupAfterDelete(d)

Next ==
  \/ \E u \in Uploads : Validate(u) \/ Upload(u)
  \/ \E d \in Removals : ReadForRemoval(d) \/ Remove(d)
  \/ \E o \in Owners : Reference(o)
  \/ Crash

(* A request in progress goes on; clients and editors owe nothing. *)
Fairness ==
  /\ \A u \in Uploads : WF_vars(Upload(u))
  /\ \A d \in Removals : WF_vars(Remove(d))

Spec == Init /\ [][Next]_vars /\ Fairness

(***************************************************************************)
(* What the public reads make of a reference: no state changes.            *)
(***************************************************************************)

Renditions(a) == {k \in assets[a].keys : k.piece.role = "rendition"}

(* widestWebp: never an AVIF, never the master. *)
widestWebp(a) ==
  LET webp == {k \in Renditions(a) : k.piece.format = "webp"}
  IN  {k \in webp : \A j \in webp : j.piece.width <= k.piece.width}

(* The url of resolvePdf or resolveImage, or nothing: a slot whose asset   *)
(* does not suit is left empty, and a picture without a WebP is an error.  *)
Url(o) ==
  IF Slot[o] = "resume" THEN {k \in assets[refs[o]].keys : k.piece = Document} ELSE widestWebp(refs[o])

(***************************************************************************)
(* Properties.                                                             *)
(***************************************************************************)

(* The objects of every stored asset exist, through duplicate uploads,     *)
(* compensations that delete objects, removals and crashes.  Only a create *)
(* that committed and still rejected can break it.                         *)
RowsHaveObjects ==
  "lostCreate" \notin mishaps => \A a \in Stored : assets[a].keys \subseteq objects

(* What a page refers to is a stored asset, also while a removal that saw  *)
(* it unused is under way.                                                 *)
ReferencesStored == \A o \in Owners : refs[o] # NoAsset => refs[o] \in Stored

(* Every reference has a descriptor, all of whose objects exist, and its   *)
(* url is the whole document or the picture at its full width, never wider *)
(* than the original: the kind was checked when the column was written,    *)
(* the widths were planned when the file was uploaded.  Articles, projects *)
(* and testimonials look up no kind; a PDF there has no descriptor.        *)
DescriptorsServed ==
  /\ ReferencesStored
  /\ "lostCreate" \notin mishaps => \A o \in Owners : refs[o] # NoAsset =>
       LET a == refs[o]
       IN  \/ Slot[o] = "any" /\ assets[a].kind = "PDF"
           \/ /\ Url(o) # {} /\ Url(o) \union Renditions(a) \subseteq objects
              /\ \A k \in Url(o) :
                   k.piece = IF Slot[o] = "resume" THEN Document
                             ELSE Rendition(FullDetail(assets[a].hash), "webp")

(* A sender whose extension or declared type contradicts the bytes never   *)
(* gets an asset, not even one that others stored from the same bytes.     *)
ForgeriesRefused ==
  \A u \in Uploads : pc[u] \in {"created", "deduplicated"} => validateIdentity(content[u])

(* One asset per content, however many uploads of the same bytes race. *)
OneAssetPerContent == \A a, b \in Stored : assets[a].hash = assets[b].hash => a = b

(* The limiter's counter is the number of uploads inside it: no path out   *)
(* of an upload leaks a slot or frees one twice.                           *)
SlotsAccounted == active = Cardinality({u \in Uploads : pc[u] \in Processing})

(* Rejections that mean what they say leave nothing behind: once no        *)
(* request is in progress, the store holds the objects of the stored       *)
(* assets and no others.                                                   *)
NoOrphans ==
  mishaps = {} /\ (\A r \in Requests : ~InFlight(r))
    => objects = UNION {assets[a].keys : a \in Stored}

(* Of several removals of one asset a single one reports success and      *)
(* cleans up; the others answer 404 or 409.                                *)
RemovedOnce ==
  \A d, e \in Removals :
    {pc[d], pc[e]} \subseteq {"cleaning", "removed"} /\ target[d] = target[e] => d = e

(* Every request ends, and with it the slot it holds. *)
RequestsEnd == \A r \in Requests : InFlight(r) ~> ~InFlight(r)

(* "A duplicate-content race resolves to the winner": an upload whose      *)
(* bytes are stored by another one is answered with that asset, and not    *)
(* with an error.                                                          *)
ResolvesToWinner(u) ==
  WithContent(content[u]) # {} /\ pc'[u] # pc[u] =>
    /\ pc[u] = "creating" => pc'[u] \in {"raceLost", "gone"}
    /\ pc[u] = "rereading" => pc'[u] \in {"deduplicated", "gone"}

RaceResolvesToWinner == [][\A u \in Uploads : ResolvesToWinner(u)]_vars
=============================================================================
