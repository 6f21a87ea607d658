----------------------------- MODULE ContentSync -----------------------------
(***************************************************************************)
(* The canonical content synchronization (prisma/sync) beside the          *)
(* dashboard: a run reads table after table outside any transaction, plans *)
(* how to make the governed rows match its dataset, and applies the plan   *)
(* in one REPEATABLE READ transaction.                                     *)
(***************************************************************************)
EXTENDS Catalogue

CONSTANTS
  Runs,       \* executions of content:sync:apply
  Dataset,    \* run -> the canonical dataset its release ships
  Seeds,      \* databases a run may meet: [rows, links]
  NoPlan

(* What a dataset says of a row: its links and its category by their keys. *)
Entry == [kind : Governed, key : Names, second : Names, body : Bodies,
          public : BOOLEAN, category : Names \union {None}, links : SUBSET Names]

ASSUME RunsAreMakers == Runs \subseteq Makers
(* One entry is the settings; only the owners of a join table have links.  *)
ASSUME DatasetType ==
  \A r \in Runs :
    /\ Dataset[r] \subseteq Entry
    /\ \E e \in Dataset[r] : {f \in Dataset[r] : f.kind = "SiteSettings"} = {e}
    /\ \A e \in Dataset[r] : e.links # {} => e.kind \in {"Experience", "Project", "Article"}
(* What the schema guarantees of a database, and that nobody of this       *)
(* behaviour made it.                                                      *)
ASSUME SeedsType ==
  \A s \in Seeds :
    /\ WellFormed(s.rows, s.links) /\ Unique(s.rows) /\ Referenced(s.rows, s.links)
    /\ \A i \in DOMAIN s.rows : i.by \in Makers \ Runs

VARIABLES
  stage,      \* where each run stands
  seen,       \* what the reads of each run have returned so far
  plan,       \* the plan a run printed
  base,       \* the snapshot of a run's transaction
  since,      \* parts others have written since that snapshot
  disturbed   \* governed content changed under the run since its first read

runVars == <<stage, seen, plan, base, since, disturbed>>
vars == <<catalogueVars, runVars>>

(* A plan names the rows of the entries that have one; its texts are the   *)
(* settings' texts.                                                        *)
Plan ==
  [create : SUBSET Entry, update : SUBSET Entry, hide : SUBSET Ids, delete : SUBSET Ids,
   relink : SUBSET Entry, texts : BOOLEAN, found : SUBSET (Entry \X Ids)]

Nothing == [rows |-> <<>>, links |-> {}, filed |-> {}]

(* The order in which buildPlan reads. *)
Tables == <<"Skill", "Category", "Tag", "Experience", "Project", "Article", "SiteSettings">>

Outcomes == {"refused", "nothing", "applied", "aborted", "gone"}

(***************************************************************************)
(* Building the plan: pure functions of the dataset D and of what was seen.*)
(***************************************************************************)

Entries(D, kind) == {e \in D : e.kind = kind}

Keys(D, kind) == {e.key : e \in Entries(D, kind)}

(* Map.get(natural key); the settings are a singleton and have none. *)
Matches(s, e) ==
  {i \in RowsOf(s.rows, e.kind) : s.rows[i].key = e.key \/ e.kind = "SiteSettings"}

Found(s, e) == CHOOSE i \in Matches(s, e) : TRUE

(* An id that is not among what was seen differs from every canonical key. *)
KeyOf(s, i) == IF i \in DOMAIN s.rows THEN s.rows[i].key ELSE None

(* diffFields: the governed fields of a matched row. *)
Drifted(s, e) ==
  LET row == s.rows[Found(s, e)]
  IN  \/ row.second # e.second
      \/ row.body # e.body
      \/ (e.kind = "Skill" /\ row.public # e.public)
      \/ (e.kind = "Article" /\ KeyOf(s, row.category) # e.category)

Stale(D, s, kind) ==
  {i \in RowsOf(s.rows, kind) : s.rows[i].key # None /\ s.rows[i].key \notin Keys(D, kind)}

Creations(D, s, kind) == {e \in Entries(D, kind) : Matches(s, e) = {}}

Updates(D, s, kind) == {e \in Entries(D, kind) \ Creations(D, s, kind) : Drifted(s, e)}

(* relationDiff. *)
Regrouped(D, s, kind) ==
  {e \in Entries(D, kind) :
     e.links # IF Matches(s, e) = {} THEN {}
               ELSE {KeyOf(s, l[2]) : l \in LinksOf(s.links, Found(s, e))}}

NoChanges == [create |-> {}, update |-> {}, hide |-> {}, delete |-> {}, relink |-> {}]

Skills(D, s) ==
  [NoChanges EXCEPT !.create = Creations(D, s, "Skill"), !.update = Updates(D, s, "Skill"),
                    !.hide = {i \in Stale(D, s, "Skill") : s.rows[i].public}]

(* A stale category goes unless an article keeps it that the plan neither  *)
(* deletes nor moves to a canonical category.                              *)
Survivors(D, s, c) ==
  {a \in {f[2] : f \in {x \in s.filed : x[1] = c}} :
     a \notin {i \in RowsOf(s.rows, "Article") : s.rows[i].key # None}}

Categories(D, s) ==
  [NoChanges EXCEPT !.create = Creations(D, s, "Category"),
                    !.update = Updates(D, s, "Category"),
                    !.delete = {c \in Stale(D, s, "Category") : Survivors(D, s, c) = {}}]

Tags(D, s) ==
  [NoChanges EXCEPT !.create = Creations(D, s, "Tag"), !.update = Updates(D, s, "Tag"),
                    !.delete = Stale(D, s, "Tag")]

Owners(D, s, kind) ==
  [NoChanges EXCEPT !.create = Creations(D, s, kind), !.update = Updates(D, s, kind),
                    !.delete = Stale(D, s, kind), !.relink = Regrouped(D, s, kind)]

Experiences(D, s) == Owners(D, s, "Experience")
Projects(D, s)    == Owners(D, s, "Project")
Articles(D, s)    == Owners(D, s, "Article")

(* The settings' scalars and their texts are records of their own. *)
Settings(D, s) ==
  [NoChanges EXCEPT !.create = Creations(D, s, "SiteSettings"),
                    !.update = {e \in Entries(D, "SiteSettings") :
                                  Matches(s, e) # {} /\ s.rows[Found(s, e)].body # e.body}]

SettingsTexts(D, s) ==
  \A e \in Entries(D, "SiteSettings") :
    Matches(s, e) = {} \/ s.rows[Found(s, e)].second # e.second

(***************************************************************************)
(* What makes a plan unusable.                                             *)
(***************************************************************************)

DuplicateKeys(D) == \E e, f \in D : e # f /\ e.kind = f.kind /\ e.key = f.key

(* A link to a skill or tag, or a category, the dataset does not have. *)
TargetKind(kind) == IF kind = "Article" THEN "Tag" ELSE "Skill"

Unknown(D) ==
  \E e \in D : \/ ~(e.links \subseteq Keys(D, TargetKind(e.kind)))
               \/ (e.kind = "Article" /\ e.category \notin Keys(D, "Category"))

Unnamed(s) ==
  \E i \in DOMAIN s.rows : s.rows[i].kind \notin {"Skill", "SiteSettings"} /\ s.rows[i].key = None

Ambiguous(s) ==
  \E i, j \in DOMAIN s.rows : i # j /\ s.rows[i].kind = s.rows[j].kind /\ s.rows[i].key = s.rows[j].key

(* A new skill whose English label another skill has. *)
SplitIdentity(D, s) ==
  \E e \in Creations(D, s, "Skill"), i \in RowsOf(s.rows, "Skill") : s.rows[i].second = e.second

Stranded(D, s) == \E c \in Stale(D, s, "Category") : Survivors(D, s, c) # {}

(* Fault: stale categories are taken to be deleted first, too. *)
FreedAll(D, s, kind) == Stale(D, s, kind)

(* Rows that are deleted before anything is written; categories go last. *)
FreedBeforeWrites(D, s, kind) == IF kind = "Category" THEN {} ELSE Stale(D, s, kind)

(* detectSlugCollisions; the English slugs are covered by the keys. *)
SlugCollision(D, s) ==
  \E kind \in Slugged : \E e \in Entries(D, kind) :
    \/ \E f \in Entries(D, kind) \ {e} : f.second = e.second
    \/ \E i \in RowsOf(s.rows, kind) \ (Matches(s, e) \union FreedBeforeWrites(D, s, kind)) :
         s.rows[i].second = e.second

Problem(D, s) ==
  \/ DuplicateKeys(D) \/ Unknown(D) \/ Unnamed(s) \/ Ambiguous(s)
  \/ SplitIdentity(D, s) \/ Stranded(D, s) \/ SlugCollision(D, s)

(* buildPlan. *)
PlanOf(D, s) ==
  LET parts == {Skills(D, s), Categories(D, s), Tags(D, s), Experiences(D, s),
                Projects(D, s), Articles(D, s), Settings(D, s)}
  IN  [create |-> UNION {c.create : c \in parts}, update |-> UNION {c.update : c \in parts},
       hide   |-> UNION {c.hide : c \in parts},   delete |-> UNION {c.delete : c \in parts},
       relink |-> UNION {c.relink : c \in parts}, texts  |-> SettingsTexts(D, s),
       found  |-> {<<e, Found(s, e)>> : e \in {x \in D : Matches(s, x) # {}}}]

NoOp(p) ==
  /\ p.create = {} /\ p.update = {} /\ p.hide = {} /\ p.delete = {} /\ p.relink = {}
  /\ ~p.texts

(***************************************************************************)
(* Applying it: each step maps a database [rows, links] to the next.       *)
(***************************************************************************)

CreatedId(r, e) == [by |-> r, kind |-> e.kind, key |-> e.key]

IdsOf(r, p, e) ==
  IF e \in p.create THEN {CreatedId(r, e)} ELSE {f[2] : f \in {x \in p.found : x[1] = e}}

(* mustResolve: the row of a key. *)
Resolve(r, p, kind, key) ==
  UNION {IdsOf(r, p, e) : e \in {x \in p.create \union {f[1] : f \in p.found} :
                                  x.kind = kind /\ x.key = key}}

Wanted(r, p, e) == UNION {Resolve(r, p, TargetKind(e.kind), key) : key \in e.links}

CategoryFor(r, p, e) ==
  IF e.kind = "Article" THEN CHOOSE c \in Resolve(r, p, "Category", e.category) : TRUE ELSE None

RowFor(r, p, e) ==
  [kind |-> e.kind, key |-> IF e.kind = "SiteSettings" THEN None ELSE e.key,
   second |-> e.second, body |-> e.body, public |-> e.public,
   category |-> CategoryFor(r, p, e), own |-> None]

(* Only governed columns; a skill's slug is never written. *)
Governing(r, p, e, row) ==
  [row EXCEPT !.key      = IF e.kind = "Skill" THEN @ ELSE e.key,
              !.second   = e.second,
              !.body     = e.body,
              !.public   = IF e.kind = "Skill" THEN e.public ELSE @,
              !.category = CategoryFor(r, p, e)]

Without(db, gone) ==
  [rows  |-> [i \in DOMAIN db.rows \ gone |-> db.rows[i]],
   links |-> {l \in db.links : l[1] \notin gone /\ (l[2] \notin gone \/ l[2].kind # "Tag")}]

(* Fault: stale rows are deleted at the end. *)
FreeNothing(r, p, db) == db

(* 0. Stale rows first, so that freed slugs can be reused. *)
FreeStale(r, p, db) == Without(db, {i \in p.delete : i.kind # "Category"})

(* Creates, each with its links, and updates of one table. *)
Put(r, p, kind, db) ==
  LET made    == {e \in p.create : e.kind = kind}
      changed == {e \in p.update : e.kind = kind}
      ids     == {CreatedId(r, e) : e \in made}
      entry(i) == CHOOSE e \in made \union changed : i \in IdsOf(r, p, e)
  IN  [rows  |-> [i \in DOMAIN db.rows \union ids |->
                    IF i \in ids THEN RowFor(r, p, entry(i))
                    ELSE IF i \in UNION {IdsOf(r, p, e) : e \in changed}
                    THEN Governing(r, p, entry(i), db.rows[i])
                    ELSE db.rows[i]],
       links |-> db.links \union UNION {{CreatedId(r, e)} \X Wanted(r, p, e) : e \in made}]

(* 1. Skills; those that left the dataset are hidden, never deleted. *)
PutSkills(r, p, db) ==
  LET put == Put(r, p, "Skill", db)
  IN  [rows  |-> [i \in DOMAIN put.rows |-> [put.rows[i] EXCEPT !.public = @ /\ i \notin p.hide]],
       links |-> put.links]

PutCategories(r, p, db)  == Put(r, p, "Category", db)
PutTags(r, p, db)        == Put(r, p, "Tag", db)
PutExperiences(r, p, db) == Put(r, p, "Experience", db)
PutProjects(r, p, db)    == Put(r, p, "Project", db)
PutArticles(r, p, db)    == Put(r, p, "Article", db)

(* Fault: only the owners that are updated anyway get their links. *)
RelateUpdated(r, p, db) ==
  [db EXCEPT !.links = (UNION {IdsOf(r, p, e) \X Wanted(r, p, e) : e \in p.relink \intersect p.update})
     \union {l \in db.links : \A e \in p.relink \intersect p.update : l[1] \notin IdsOf(r, p, e)}]

(* 4b. Relations: what the transaction sees of an owner's links, minus the *)
(* unwanted, plus the missing.                                             *)
Removed(r, p) ==
  {l \in base[r].links : \E e \in p.relink : l[1] \in IdsOf(r, p, e) /\ l[2] \notin Wanted(r, p, e)}

Added(r, p) == (UNION {IdsOf(r, p, e) \X Wanted(r, p, e) : e \in p.relink}) \ base[r].links

Relate(r, p, db) == [db EXCEPT !.links = (@ \ Removed(r, p)) \union Added(r, p)]

(* 5. Stale categories, last. *)
DropCategories(r, p, db) == Without(db, {i \in p.delete : i.kind = "Category"})

(* Fault: the texts are upserted on every run. *)
PutSettingsAlways(r, p, db) ==
  LET e == CHOOSE x \in p.create \union {f[1] : f \in p.found} : x.kind = "SiteSettings"
      s == CHOOSE i \in IdsOf(r, p, e) : TRUE
  IN  [rows  |-> IF e \in p.create THEN With(db.rows, s, RowFor(r, p, e))
                 ELSE [db.rows EXCEPT ![s].body   = IF e \in p.update THEN e.body ELSE @,
                                      ![s].second = e.second],
       links |-> db.links]

(* 6. The singleton: created without an id, otherwise only what the plan   *)
(* reports as changed.                                                     *)
PutSettings(r, p, db) ==
  LET e == CHOOSE x \in p.create \union {f[1] : f \in p.found} : x.kind = "SiteSettings"
      s == CHOOSE i \in IdsOf(r, p, e) : TRUE
  IN  [rows  |-> IF e \in p.create THEN With(db.rows, s, RowFor(r, p, e))
                 ELSE [db.rows EXCEPT ![s].body   = IF e \in p.update THEN e.body ELSE @,
                                      ![s].second = IF p.texts THEN e.second ELSE @],
       links |-> db.links]

(* What stands before the stale categories go, and at the end. *)
Rewritten(r, p, db) ==
  Relate(r, p, PutArticles(r, p, PutProjects(r, p, PutExperiences(r, p,
    PutTags(r, p, PutCategories(r, p, PutSkills(r, p, FreeStale(r, p, db))))))))

Result(r, p, db) == PutSettings(r, p, DropCategories(r, p, Rewritten(r, p, db)))

(***************************************************************************)
(* The transaction's verdict.                                              *)
(***************************************************************************)

Database == [rows |-> rows, links |-> links]

(* Rows the plan names that the snapshot does not have: P2025, or a foreign *)
(* key.                                                                    *)
Named(p) ==
  p.hide \union p.delete \union {f[2] : f \in {x \in p.found : x[1] \in p.update}}
    \union {f[2] : f \in {x \in p.found : p.texts /\ x[1].kind = "SiteSettings"}}

(* The parts a run writes: those of an updated entry, of what it hides and *)
(* deletes, and the links it removes on their own.                         *)
PartsOf(e) ==
  IF e.kind \in {"Category", "Tag"} THEN {"texts"}
  ELSE IF e.kind = "SiteSettings" THEN {"row"} ELSE {"row", "texts"}

Touched(r, p) ==
  (UNION {IdsOf(r, p, e) \X PartsOf(e) : e \in p.update})
    \union (p.hide \X {"row"}) \union (p.delete \X {"row", "texts"})
    \union {<<f[2], "texts">> : f \in {x \in p.found : p.texts /\ x[1].kind = "SiteSettings"}}
    \union LinkParts({l \in Removed(r, p) : l[1] \notin p.delete /\ l[2] \notin p.delete})

(* Fault: READ COMMITTED, the last writer wins. *)
NeverConflicted(r, p) == FALSE

(* REPEATABLE READ: a part someone else wrote after the snapshot is not    *)
(* written again, nor is a link of its own cascaded away.                  *)
Conflicted(r, p) ==
  \/ Touched(r, p) \intersect since[r] # {}
  \/ \E l \in links : /\ <<l[1], "link", l[2]>> \in since[r]
                      /\ (l[1] \in p.delete \/ (l[2] \in p.delete /\ l[2].kind = "Tag"))

Counted(rs) == Cardinality(RowsOf(rs, "Testimonial"))

(* Fault: under READ COMMITTED the second count sees other sessions. *)
CountsMoved(r, p) == Counted(rows) # Counted(base[r].rows)

(* countProtected, twice in one transaction. *)
ProtectedCountsMoved(r, p) == Counted(Result(r, p, base[r]).rows) # Counted(base[r].rows)

Possible(r, p) ==
  /\ Named(p) \subseteq DOMAIN base[r].rows
  /\ ~Conflicted(r, p)
  /\ links \intersect Added(r, p) = {}
  /\ LET put == Rewritten(r, p, Database)
     IN  Unique(put.rows) /\ Referenced(put.rows, put.links)
  /\ LET end == Result(r, p, Database) IN Referenced(end.rows, end.links)
  /\ ~ProtectedCountsMoved(r, p)

(* A text about to be written is still held by a row that is yet to be     *)
(* rewritten: it depends on the order of the keys.                         *)
Awkward(r, p) ==
  \E e \in p.create \union p.update, i \in DOMAIN rows \ p.delete :
    /\ e.kind \in Slugged /\ rows[i].kind = e.kind /\ i \notin IdsOf(r, p, e)
    /\ (rows[i].second = e.second \/ rows[i].key = e.key)

(***************************************************************************)
(* A run.                                                                  *)
(***************************************************************************)

(* Everyone else learns of a commit. *)
Disturb(others, parts) ==
  disturbed' = [r \in Runs |->
    disturbed[r] \/ ( /\ r \in others
                      /\ stage[r] \notin {"new"} \union (Outcomes \ {"applied"})
                      /\ \E x \in parts : x[1].kind \in Governed )]

Late(others, parts) ==
  since' = [r \in Runs |-> IF r \in others /\ stage[r] = "open" THEN since[r] \union parts ELSE since[r]]

Undisturbing == wrote' = {} /\ UNCHANGED <<rows, links, patches, spent, since, disturbed>>

(* One findMany: the rows of a table with what hangs on them. *)
Read(r, n) ==
  LET kind == Tables[n]
      ids  == RowsOf(rows, kind)
  IN  [rows  |-> [i \in ids \union DOMAIN seen[r].rows |->
                    IF i \in ids THEN rows[i] ELSE seen[r].rows[i]],
       links |-> seen[r].links \union {l \in links : l[1] \in ids},
       filed |-> seen[r].filed \union
                   {<<rows[a].category, a>> : a \in {x \in RowsOf(rows, "Article") : kind = "Category"}}]

ReadTable(r) ==
  \E n \in 1 .. 6 :
    /\ stage[r] = IF n = 1 THEN "new" ELSE Tables[n]
    /\ stage' = [stage EXCEPT ![r] = Tables[n + 1]]
    /\ seen' = [seen EXCEPT ![r] = Read(r, n)]
    /\ Undisturbing
    /\ UNCHANGED <<plan, base>>

(* The last table, and the plan: refused, nothing to do, or printed.       *)
BuildPlan(r) ==
  /\ stage[r] = "SiteSettings"
  /\ LET s == Read(r, 7)
         p == PlanOf(Dataset[r], s)
     IN  \/ /\ Problem(Dataset[r], s)
            /\ stage' = [stage EXCEPT ![r] = "refused"]
            /\ UNCHANGED plan
         \/ /\ ~Problem(Dataset[r], s) /\ NoOp(p)
            /\ stage' = [stage EXCEPT ![r] = "nothing"]
            /\ UNCHANGED plan
         \/ /\ ~Problem(Dataset[r], s) /\ ~NoOp(p)
            /\ stage' = [stage EXCEPT ![r] = "planned"]
            /\ plan' = [plan EXCEPT ![r] = p]
  /\ seen' = [seen EXCEPT ![r] = Nothing]
  /\ Undisturbing
  /\ UNCHANGED <<base>>

Begin(r) ==
  /\ stage[r] = "planned"
  /\ stage' = [stage EXCEPT ![r] = "open"]
  /\ base' = [base EXCEPT ![r] = Database]
  /\ Undisturbing
  /\ UNCHANGED <<seen, plan>>

(* A run ends. *)
Close(r, outcome) ==
  /\ stage' = [stage EXCEPT ![r] = outcome]
  /\ plan' = [plan EXCEPT ![r] = NoPlan]
  /\ base' = [base EXCEPT ![r] = NoPlan]
  /\ seen' = [seen EXCEPT ![r] = Nothing]
  /\ UNCHANGED <<patches, spent>>

Commit(r) ==
  /\ stage[r] = "open" /\ Possible(r, plan[r])
  /\ rows' = Result(r, plan[r], Database).rows
  /\ links' = Result(r, plan[r], Database).links
  /\ wrote' = Touched(r, plan[r]) \union LinkParts(Added(r, plan[r]) \union (links \ links'))
                \union UNION {{CreatedId(r, e)} \X {"row", "texts"} : e \in plan[r].create}
  /\ Close(r, "applied")
  /\ Disturb(Runs \ {r}, wrote')
  /\ since' = [x \in Runs |-> IF x = r THEN {} ELSE
                 IF stage[x] = "open" THEN since[x] \union wrote' ELSE since[x]]

Abort(r) ==
  /\ stage[r] = "open" /\ (~Possible(r, plan[r]) \/ Awkward(r, plan[r]))
  /\ Close(r, "aborted")
  /\ wrote' = {}
  /\ since' = [since EXCEPT ![r] = {}]
  /\ UNCHANGED <<rows, links, disturbed>>

(* The transaction's 120 seconds are over, the database ends it (the       *)
(* victim of a deadlock, a connection lost), or the process dies; a run    *)
(* that dies earlier is one that takes no further step.                    *)
GiveUp(r) ==
  /\ stage[r] = "open"
  /\ Close(r, "gone")
  /\ wrote' = {}
  /\ since' = [since EXCEPT ![r] = {}]
  /\ UNCHANGED <<rows, links, disturbed>>

Edit ==
  /\ CatalogueNext
  /\ Disturb(Runs, wrote')
  /\ Late(Runs, wrote')
  /\ UNCHANGED <<stage, seen, plan, base>>

Init ==
  /\ \E s \in Seeds : rows = s.rows /\ links = s.links
  /\ patches = <<>> /\ spent = {} /\ wrote = {}
  /\ stage = [r \in Runs |-> "new"]
  /\ seen = [r \in Runs |-> Nothing]
  /\ plan = [r \in Runs |-> NoPlan]
  /\ base = [r \in Runs |-> NoPlan]
  /\ since = [r \in Runs |-> {}]
  /\ disturbed = [r \in Runs |-> FALSE]

Next ==
  \/ Edit
  \/ \E r \in Runs : ReadTable(r) \/ BuildPlan(r) \/ Begin(r) \/ Commit(r) \/ Abort(r) \/ GiveUp(r)

Spec == Init /\ [][Next]_vars

(***************************************************************************)
(* Properties.                                                             *)
(***************************************************************************)

(* Types of every variable. *)
TypeOK ==
  /\ CatalogueTypeOK
  /\ stage \in [Runs -> {"new", "planned", "open"} \union {Tables[n] : n \in 2 .. 7} \union Outcomes]
  /\ \A r \in Runs :
       /\ WellFormed(seen[r].rows, seen[r].links)
       /\ seen[r].filed \subseteq (Ids \union {None}) \X Ids
       /\ stage[r] \in {"planned", "open"} => plan[r] \in Plan
       /\ stage[r] = "open" => WellFormed(base[r].rows, base[r].links)
       /\ since[r] \subseteq Parts
  /\ disturbed \in [Runs -> BOOLEAN]

(* What seven reads see if nobody writes between them. *)
Content ==
  [rows  |-> [i \in {x \in DOMAIN rows : rows[x].kind \in Governed} |-> rows[i]],
   links |-> links,
   filed |-> {<<rows[a].category, a>> : a \in RowsOf(rows, "Article")}]

(* The preview predicts the apply: a plan that was printed without a       *)
(* problem is never refused by the database or by the protected counts     *)
(* unless somebody else wrote governed content after the run's first read; *)
(* protected tables may change under it as they like.                      *)
PreviewHolds == \A r \in Runs : stage[r] = "aborted" => disturbed[r]

(* The zero-change second run: as long as nobody else writes, the plan of  *)
(* a second run after an applied one has no problem and no change.         *)
SecondRunIsNoOp ==
  \A r \in Runs : stage[r] = "applied" /\ ~disturbed[r] =>
    ~Problem(Dataset[r], Content) /\ NoOp(PlanOf(Dataset[r], Content))

Applies(r) == stage[r] = "open" /\ stage'[r] = "applied"

(* The report is what happens: whatever was written between the plan and   *)
(* the commit, a run deletes, changes and creates only rows its plan       *)
(* names, regroups only owners it names, and leaves the operator's columns *)
(* and the protected tables alone.                                         *)
TouchesOnlyPlanned ==
  [][\A r \in Runs : Applies(r) =>
       LET p == plan[r]
       IN  /\ DOMAIN rows \ DOMAIN rows' \subseteq p.delete
           /\ DOMAIN rows' \ DOMAIN rows \subseteq {CreatedId(r, e) : e \in p.create}
           /\ \A i \in DOMAIN rows \intersect DOMAIN rows' :
                /\ rows'[i] # rows[i] => i \in Named(p)
                /\ rows'[i].own = rows[i].own
           /\ \A l \in (links \ links') \union (links' \ links) :
                \/ l[1] \in p.delete \union UNION {IdsOf(r, p, e) : e \in p.relink}
                \/ l[2] \in p.delete]_vars

(* No lost update: what another session committed after a run's snapshot   *)
(* is neither overwritten nor removed by the run's commit.  (A link that   *)
(* others have added and removed again since is as absent as it was.)      *)
KeepsLateWrites ==
  [][\A r \in Runs : Applies(r) =>
       \A x \in since[r] :
         /\ x[2] = "link" /\ <<x[1], x[3]>> \in links \union base[r].links =>
              (<<x[1], x[3]>> \in links <=> <<x[1], x[3]>> \in links')
         /\ x[2] # "link" /\ x[1] \in DOMAIN rows =>
              /\ x[1] \in DOMAIN rows'
              /\ x[2] = "texts" => /\ rows'[x[1]].key = rows[x[1]].key
                                   /\ rows'[x[1]].second = rows[x[1]].second
              /\ x[2] = "row" => /\ rows'[x[1]].public = rows[x[1]].public
                                 /\ rows'[x[1]].body = rows[x[1]].body]_vars

(* "Hidden, never deleted: the id and every relation survive."  The id     *)
(* does; whoever links a hidden skill is regrouped or deleted.             *)
HiddenKeepsRelations ==
  [][\A r \in Runs : Applies(r) =>
       \A l \in links \ links' : l[2] \notin plan[r].hide]_vars
=============================================================================
