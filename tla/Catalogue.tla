----------------------------- MODULE Catalogue -----------------------------
(***************************************************************************)
(* The content tables and the dashboard's requests that write them: skills,*)
(* categories, tags, experiences, projects, articles, the settings         *)
(* singleton and, as the one protected table kept here, testimonials.      *)
(*                                                                         *)
(* A row's translations are folded into it.  "key" is what identifies the  *)
(* row across databases (the English slug, a skill's slug, an experience's *)
(* English company and role), None without an English translation;         *)
(* "second" is the other text the code compares on its own (the Arabic     *)
(* slug, a skill's English label, the settings' texts); "body" is the rest.*)
(* "own" holds the columns that belong to the operator alone.              *)
(*                                                                         *)
(* A request that is refused (an unknown row, a taken slug, a row still in *)
(* use) leaves everything as it was, so only what succeeds is an action.   *)
(*                                                                         *)
(* A definition marked "Fault" is no part of the specification: it is the  *)
(* next definition with a plausible bug, which some property must notice.  *)
(***************************************************************************)
EXTENDS Integers, FiniteSets

CONSTANTS
  Requests,   \* the dashboard's writes, each performed at most once
  Makers,     \* whatever else creates rows: the seed, synchronization runs
  Names,      \* keys and second texts
  Bodies,
  Drafts,     \* what the dashboard may send
  None

VARIABLES
  rows,       \* id -> row
  links,      \* project_technology, experience_technology, article_tag
  patches,    \* transactions that replace an owner's links, under way
  spent,      \* requests that have been performed
  wrote       \* the parts written by the last commit (history)

catalogueVars == <<rows, links, patches, spent, wrote>>

Slugged  == {"Category", "Tag", "Project", "Article"}
Governed == Slugged \union {"Skill", "Experience", "SiteSettings"}
Kinds    == Governed \union {"Testimonial"}

Ids   == [by : Requests \union Makers, kind : Kinds, key : Names \union {None}]
Draft == [kind : Kinds, key : Names \union {None}, second : Names \union {None},
          body : Bodies, public : BOOLEAN]
Row   == [kind : Kinds, key : Names \union {None}, second : Names \union {None},
          body : Bodies, public : BOOLEAN, category : Ids \union {None}, own : Bodies \union {None}]

(* What a commit writes: a base row, its translations, a link. *)
Parts == (Ids \X {"row", "texts"}) \union (Ids \X {"link"} \X Ids)

LinkParts(ls) == {<<l[1], "link", l[2]>> : l \in ls}

(* A replacement of links: the owner, what it asks for, what it deletes. *)
Patch == [owner : Ids, wanted : SUBSET Ids, doomed : SUBSET (Ids \X Ids)]

ASSUME DraftsType ==
  Drafts \subseteq Draft /\ \A d \in Drafts : d.kind = "SiteSettings" => d.key = None
ASSUME RequestsAreNoMakers == Requests \intersect Makers = {}
ASSUME NoneIsNone == None \notin Ids /\ None \notin Names

(* A function with one more element in its domain. *)
With(f, x, value) == [y \in DOMAIN f \union {x} |-> IF y = x THEN value ELSE f[y]]

RowsOf(rs, kind) == {i \in DOMAIN rs : rs[i].kind = kind}
LinksOf(ls, i)   == {l \in ls : l[1] = i}

(***************************************************************************)
(* What PostgreSQL enforces.                                               *)
(***************************************************************************)

(* @@unique([locale, slug]) of the translation tables, Skill.slug. *)
Clash(rs, i, j) ==
  /\ i # j /\ rs[i].kind = rs[j].kind
  /\ \/ rs[i].kind \in Slugged \union {"Skill"} /\ rs[i].key = rs[j].key /\ rs[i].key # None
     \/ rs[i].kind \in Slugged /\ rs[i].second = rs[j].second /\ rs[i].second # None

Unique(rs) == \A i, j \in DOMAIN rs : ~Clash(rs, i, j)

(* Foreign keys: a link has both its ends, an article its category.  A row *)
(* in use is not deleted (Restrict); an owner's links, and a tag's, go     *)
(* with it (Cascade).                                                      *)
Referenced(rs, ls) ==
  /\ \A l \in ls : l[1] \in DOMAIN rs /\ l[2] \in DOMAIN rs
  /\ \A i \in DOMAIN rs : rs[i].category \in DOMAIN rs \union {None}

(* The join tables, and the one foreign key of a base row.  The settings   *)
(* have no key.                                                            *)
LinkFits(l) ==
  \/ l[1].kind \in {"Experience", "Project"} /\ l[2].kind = "Skill"
  \/ l[1].kind = "Article" /\ l[2].kind = "Tag"

RowFits(i, row) ==
  /\ row.kind = i.kind
  /\ row.category # None => i.kind = "Article" /\ row.category.kind = "Category"
  /\ i.kind = "SiteSettings" => row.key = None

WellFormed(rs, ls) ==
  /\ DOMAIN rs \subseteq Ids /\ rs \in [DOMAIN rs -> Row]
  /\ \A i \in DOMAIN rs : RowFits(i, rs[i])
  /\ ls \subseteq Ids \X Ids
  /\ \A l \in ls : LinkFits(l)

Cascaded(i) == {l \in links : l[1] = i \/ (l[2] = i /\ i.kind = "Tag")}

(* The targets an owner may link: the two join tables on skills, the one   *)
(* on tags.                                                                *)
Targets(kind) ==
  CASE kind \in {"Experience", "Project"} -> RowsOf(rows, "Skill")
    [] kind = "Article" -> RowsOf(rows, "Tag")
    [] OTHER -> {}

(***************************************************************************)
(* One transaction of a request.                                           *)
(***************************************************************************)

Perform(q, rs, ls, parts) ==
  /\ Unique(rs) /\ Referenced(rs, ls)
  /\ rows' = rs /\ links' = ls /\ wrote' = parts
  /\ spent' = spent \union {q}
  /\ UNCHANGED patches

New(q, d) == [by |-> q, kind |-> d.kind, key |-> d.key]

Insert(q, d, category, targets) ==
  LET i   == New(q, d)
      row == [kind |-> d.kind, key |-> d.key, second |-> d.second, body |-> d.body,
              public |-> d.public, category |-> category, own |-> d.body]
  IN  Perform(q, With(rows, i, row), links \union ({i} \X targets),
              ({i} \X {"row", "texts"}) \union LinkParts({i} \X targets))

(* The base row is updated when one of its fields is given, translations   *)
(* are upserted; the body has columns of both.                             *)
Revised(row, d, parts) ==
  [row EXCEPT !.key    = IF "texts" \in parts /\ d.key # None THEN d.key ELSE @,
              !.second = IF "texts" \in parts /\ d.second # None THEN d.second ELSE @,
              !.body   = d.body,
              !.public = IF "row" \in parts THEN d.public ELSE @]

Rewrite(q, i, row, parts) ==
  Perform(q, [rows EXCEPT ![i] = row], links, {i} \X parts)

Erase(q, i) ==
  Perform(q, [j \in DOMAIN rows \ {i} |-> rows[j]], links \ Cascaded(i),
          ({i} \X {"row", "texts"}) \union LinkParts(Cascaded(i)))

Given(kind)   == {d \in Drafts : d.kind = kind}
SomeParts     == {{"row"}, {"texts"}, {"row", "texts"}}

(***************************************************************************)
(* Categories and tags: nothing but translations.                          *)
(***************************************************************************)

CreateCategory(q) == \E d \in Given("Category") : Insert(q, d, None, {})

UpdateCategory(q) ==
  \E i \in RowsOf(rows, "Category"), d \in Given("Category") :
    Rewrite(q, i, Revised(rows[i], d, {"texts"}), {"texts"})

(* A category with articles is kept: onDelete Restrict, answered 409. *)
RemoveCategory(q) == \E i \in RowsOf(rows, "Category") : Erase(q, i)

CreateTag(q) == \E d \in Given("Tag") : Insert(q, d, None, {})

UpdateTag(q) ==
  \E i \in RowsOf(rows, "Tag"), d \in Given("Tag") :
    Rewrite(q, i, Revised(rows[i], d, {"texts"}), {"texts"})

RemoveTag(q) == \E i \in RowsOf(rows, "Tag") : Erase(q, i)

(***************************************************************************)
(* Skills: the slug is set once.  A linked skill is kept (409).            *)
(***************************************************************************)

CreateSkill(q) == \E d \in Given("Skill") : Insert(q, d, None, {})

UpdateSkill(q) ==
  \E i \in RowsOf(rows, "Skill"), d \in Given("Skill"), parts \in SomeParts :
    Rewrite(q, i, [Revised(rows[i], d, parts) EXCEPT !.key = rows[i].key], parts)

RemoveSkill(q) == \E i \in RowsOf(rows, "Skill") : Erase(q, i)

(***************************************************************************)
(* Experiences, projects and articles own links.  An update that gives the *)
(* links and a field of the base row deletes and inserts them under that   *)
(* row's lock.  One that gives translations and links holds no such lock;  *)
(* it is one step all the same, and what mingles with others' is the       *)
(* replacement that gives links alone.                                     *)
(***************************************************************************)

Relinked(q, i, row, parts, targets) ==
  Perform(q, [rows EXCEPT ![i] = row], (links \ LinksOf(links, i)) \union ({i} \X targets),
          ({i} \X parts) \union LinkParts(LinksOf(links, i) \union ({i} \X targets)))

CreateOwner(q, kind, category) ==
  \E d \in Given(kind), targets \in SUBSET Targets(kind) : Insert(q, d, category, targets)

UpdateOwner(q, kind, partsGiven) ==
  \E i \in RowsOf(rows, kind), d \in Given(kind), parts \in partsGiven :
    \/ Rewrite(q, i, Revised(rows[i], d, parts), parts)
    \/ \E targets \in SUBSET Targets(kind) :
         Relinked(q, i, Revised(rows[i], d, parts), parts, targets)

CreateExperience(q) == CreateOwner(q, "Experience", None)
UpdateExperience(q) == UpdateOwner(q, "Experience", SomeParts)
RemoveExperience(q) == \E i \in RowsOf(rows, "Experience") : Erase(q, i)

CreateProject(q) == CreateOwner(q, "Project", None)
UpdateProject(q) == UpdateOwner(q, "Project", SomeParts)
RemoveProject(q) == \E i \in RowsOf(rows, "Project") : Erase(q, i)

(* An article is always in a category, and its status is always written:   *)
(* its base row is locked by every update.                                 *)
CreateArticle(q) ==
  \E category \in RowsOf(rows, "Category") : CreateOwner(q, "Article", category)

UpdateArticle(q) == UpdateOwner(q, "Article", {{"row"}, {"row", "texts"}})

Recategorize(q) ==
  \E i \in RowsOf(rows, "Article"), category \in RowsOf(rows, "Category") :
    Rewrite(q, i, [rows[i] EXCEPT !.category = category], {"row"})

RemoveArticle(q) == \E i \in RowsOf(rows, "Article") : Erase(q, i)

(* technologyIds alone: no row is locked.  assertSkillIds, then deleteMany *)
(* takes the links it sees ...                                             *)
StartReplacing(q) ==
  /\ \E i \in RowsOf(rows, "Experience") \union RowsOf(rows, "Project") :
       \E targets \in SUBSET Targets(rows[i].kind) :
         patches' = With(patches, q, [owner |-> i, wanted |-> targets, doomed |-> LinksOf(links, i)])
  /\ spent' = spent \union {q}
  /\ wrote' = {}
  /\ UNCHANGED <<rows, links>>

(* ... and createMany adds the new ones, which must not exist, nor may an  *)
(* end have gone.                                                          *)
FinishReplacing(q) ==
  LET p     == patches[q]
      added == {p.owner} \X p.wanted
      left  == links \ p.doomed
  IN  /\ patches' = [x \in DOMAIN patches \ {q} |-> patches[x]]
      /\ \/ /\ added \intersect left = {}
            /\ Referenced(rows, left \union added)
            /\ links' = left \union added
            /\ wrote' = LinkParts(p.doomed \union added)
         \/ /\ \/ added \intersect left # {}
               \/ ~Referenced(rows, left \union added)
            /\ wrote' = {}
            /\ UNCHANGED links
      /\ UNCHANGED <<rows, spent>>

(***************************************************************************)
(* The settings row is seeded, never created or removed by a request; its  *)
(* body is its scalars alone.  Testimonials.                               *)
(***************************************************************************)

UpdateSettings(q) ==
  \E i \in RowsOf(rows, "SiteSettings"), d \in Given("SiteSettings"), parts \in SomeParts :
    Rewrite(q, i, [Revised(rows[i], d, parts)
                     EXCEPT !.body = IF "row" \in parts THEN @ ELSE rows[i].body,
                            !.own  = IF "row" \in parts THEN d.body ELSE @], parts)

CreateTestimonial(q) == \E d \in Given("Testimonial") : Insert(q, d, None, {})

UpdateTestimonial(q) ==
  \E i \in RowsOf(rows, "Testimonial"), d \in Given("Testimonial"), parts \in SomeParts :
    Rewrite(q, i, Revised(rows[i], d, parts), parts)

RemoveTestimonial(q) == \E i \in RowsOf(rows, "Testimonial") : Erase(q, i)

Request(q) ==
  \/ CreateCategory(q)    \/ UpdateCategory(q)    \/ RemoveCategory(q)
  \/ CreateTag(q)         \/ UpdateTag(q)         \/ RemoveTag(q)
  \/ CreateSkill(q)       \/ UpdateSkill(q)       \/ RemoveSkill(q)
  \/ CreateExperience(q)  \/ UpdateExperience(q)  \/ RemoveExperience(q)
  \/ CreateProject(q)     \/ UpdateProject(q)     \/ RemoveProject(q)
  \/ CreateArticle(q)     \/ UpdateArticle(q)     \/ RemoveArticle(q)
  \/ Recategorize(q)      \/ UpdateSettings(q)    \/ StartReplacing(q)
  \/ CreateTestimonial(q) \/ UpdateTestimonial(q) \/ RemoveTestimonial(q)

CatalogueNext ==
  \/ \E q \in Requests \ spent : Request(q)
  \/ \E q \in DOMAIN patches : FinishReplacing(q)

CatalogueTypeOK ==
  /\ WellFormed(rows, links)
  /\ DOMAIN patches \subseteq Requests /\ patches \in [DOMAIN patches -> Patch]
  /\ spent \subseteq Requests
  /\ wrote \subseteq Parts
=============================================================================
