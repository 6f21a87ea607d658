------------------------- MODULE ContentSync_proofs -------------------------
(***************************************************************************)
(* Proofs about ContentSync, for any runs, datasets, requests, drafts and  *)
(* databases to start from.                                                *)
(*                                                                         *)
(* None of the four properties is inductive.  SafeInv is what holds        *)
(* whatever others write: the types and the store's own constraints        *)
(* (StoreOK), what a half-done replacement of links still holds            *)
(* (PatchesOK), that a plan stays sound (PlanSound: all of it comes from   *)
(* the dataset and from rows that were there, each entry is either created *)
(* or found, and no two find one row), and that the rows of a snapshot are *)
(* of runs and requests that are over (BaseOK), so that nothing is created *)
(* twice.  It carries OnlyPlannedTouched and LateWritesKept: one lemma per *)
(* step of Result says which rows and links that step may change, and      *)
(* Conflicted keeps these apart from the parts in since.                   *)
(*                                                                         *)
(* RunNow is what an undisturbed run knows: it has seen what is there of   *)
(* the tables it has read (SeenNow), its plan is the one that would be     *)
(* made now (PlannedNow), its snapshot differs in protected rows only      *)
(* (BaseNow).  A plan made of what is there is Fresh, and two things       *)
(* follow from its having no Problem.  Its transaction goes through: every *)
(* statement finds its rows, the result has no clash and no dangling       *)
(* reference (UndisturbedCommits).  And what it leaves is Synchronized:    *)
(* every entry of the dataset has its one row, with its columns and its    *)
(* links, and nothing is left over; of such a database a second plan has   *)
(* no problem and no change (NothingLeft).                                 *)
(***************************************************************************)
EXTENDS ContentSync, TLAPS

(* A row that is there already: whoever made it makes no other. *)
Old(i) ==
  /\ i.by \in Requests => i.by \in spent
  /\ i.by \in Runs => stage[i.by] = "applied"

StoreOK ==
  /\ Unique(rows) /\ Referenced(rows, links)
  /\ \A i \in DOMAIN rows : Old(i)

PatchOK(p) ==
  /\ p.owner.kind \in {"Experience", "Project"} /\ Old(p.owner)
  /\ \A t \in p.wanted : t.kind = "Skill"
  /\ \A l \in p.doomed : l[1] = p.owner /\ LinkFits(l)

PatchesOK == \A q \in DOMAIN patches : q \in spent /\ PatchOK(patches[q])

(* The categories the articles are in. *)
Filed == {<<rows[a].category, a>> : a \in RowsOf(rows, "Article")}

(* The kinds a run has read once it stands at this stage. *)
ReadBy(st) == {Tables[m] : m \in {k \in 1 .. 7 : \E n \in 2 .. 7 : st = Tables[n] /\ k < n}}

SeenOK(r) == \A i \in DOMAIN seen[r].rows : i.kind \in Governed /\ Old(i)

(* What a plan is, whatever has happened since it was made. *)
PlanSound(r, p) ==
  LET D == Dataset[r]
  IN  /\ p.create \subseteq D /\ p.update \subseteq D /\ p.relink \subseteq D
      /\ \A e, f \in D : e.kind = f.kind /\ e.key = f.key => e = f
      /\ ~Unknown(D)
      /\ \A e \in p.create : e.links # {} => e \in p.relink
      /\ \A f \in p.found : f[1] \in D \ p.create /\ f[2].kind = f[1].kind /\ Old(f[2])
      /\ \A f, g \in p.found : f[1] = g[1] <=> f[2] = g[2]
      /\ \A e \in D \ p.create : \E f \in p.found : f[1] = e
      /\ p.update \intersect p.create = {}
      /\ \A e \in p.relink : e.kind \in {"Experience", "Project", "Article"}
      /\ \A i \in p.hide : i.kind = "Skill" /\ Old(i)
      /\ \A i \in p.delete : i.kind \in {"Category", "Tag", "Experience", "Project", "Article"} /\ Old(i)
      /\ \A f \in p.found : f[2] \notin p.hide \union p.delete

PlanOK(r) == stage[r] \in {"planned", "open"} => PlanSound(r, plan[r])

BaseOK(r) ==
  stage[r] = "open" => /\ \A i \in DOMAIN base[r].rows : Old(i)
                       /\ \A l \in base[r].links : Old(l[1])

(* Categories and tags have nothing but texts, while they are there.       *)
SinceOK(r) ==
  /\ stage[r] # "open" => since[r] = {}
  /\ stage[r] = "open" =>
       \A i \in DOMAIN base[r].rows \intersect DOMAIN rows :
         i.kind \in {"Category", "Tag"} => <<i, "row">> \notin since[r]

(* One entry of each table to a run. *)
Tabled ==
  /\ seen = [r \in Runs |-> seen[r]] /\ plan = [r \in Runs |-> plan[r]]
  /\ base = [r \in Runs |-> base[r]] /\ since = [r \in Runs |-> since[r]]

SafeInv ==
  /\ TypeOK /\ StoreOK /\ PatchesOK /\ Tabled
  /\ \A r \in Runs : SeenOK(r) /\ PlanOK(r) /\ BaseOK(r) /\ SinceOK(r)

(* Undisturbed, a run has seen what is there of the tables it has read ... *)
SeenNow(r) ==
  LET kinds == ReadBy(stage[r])
  IN  stage[r] \in {"new"} \union {Tables[n] : n \in 2 .. 7} /\ ~disturbed[r] =>
        /\ DOMAIN seen[r].rows = {i \in DOMAIN rows : i.kind \in kinds}
        /\ \A i \in DOMAIN seen[r].rows : seen[r].rows[i] = rows[i]
        /\ seen[r].links = {l \in links : l[1].kind \in kinds}
        /\ seen[r].filed = IF "Category" \in kinds THEN Filed ELSE {}

(* ... its plan is the one that would be made now ...                      *)
PlannedNow(r) ==
  stage[r] \in {"planned", "open"} /\ ~disturbed[r] =>
    plan[r] = PlanOf(Dataset[r], Content) /\ ~Problem(Dataset[r], Content)

(* ... and its snapshot differs from what is there in protected rows only. *)
BaseNow(r) ==
  stage[r] = "open" /\ ~disturbed[r] =>
    /\ base[r].links = links
    /\ \A i \in Ids : i.kind \in Governed =>
         /\ i \in DOMAIN base[r].rows <=> i \in DOMAIN rows
         /\ i \in DOMAIN rows => base[r].rows[i] = rows[i]
    /\ \A x \in since[r] : x[1].kind \notin Governed

(* Where a run stands as long as nobody else writes governed content.      *)
RunNow(r) ==
  /\ SeenNow(r) /\ PlannedNow(r) /\ BaseNow(r)
  /\ stage[r] = "aborted" => disturbed[r]
  /\ stage[r] = "applied" /\ ~disturbed[r] =>
       ~Problem(Dataset[r], Content) /\ NoOp(PlanOf(Dataset[r], Content))

IInv == SafeInv /\ \A r \in Runs : RunNow(r)

(***************************************************************************)
(* The dashboard's steps.                                                  *)
(***************************************************************************)

CatalogueInv == CatalogueTypeOK /\ StoreOK /\ PatchesOK

(* A step says in wrote' which rows and whose links it changed; the rows   *)
(* of categories and tags have nothing but texts.                          *)
Reported ==
  /\ \A i \in Ids :
       (\A x \in wrote' : x[1] # i) =>
          /\ i \in DOMAIN rows <=> i \in DOMAIN rows'
          /\ i \in DOMAIN rows => rows'[i] = rows[i]
  /\ \A l \in (links \ links') \union (links' \ links) : \E x \in wrote' : x[1] = l[1]
  /\ wrote' \subseteq Parts
  /\ \A i \in DOMAIN rows \intersect DOMAIN rows' :
       i.kind \in {"Category", "Tag"} => <<i, "row">> \notin wrote'

(* What is there stays there or is gone for good. *)
Aged ==
  /\ \A i : Old(i) => Old(i)'
  /\ \A i \in DOMAIN rows' \ DOMAIN rows : ~Old(i)

StoreStep == CatalogueInv' /\ Reported /\ Aged

(* A function with one more element. *)
LEMMA WithTyped ==
  ASSUME NEW S, NEW f, f \in [DOMAIN f -> S], NEW x, NEW v \in S
  PROVE  With(f, x, v) \in [DOMAIN f \union {x} -> S]
BY DEF With

LEMMA PartFacts ==
  ASSUME NEW i \in Ids
  PROVE  /\ \A parts \in SUBSET {"row", "texts"} : {i} \X parts \subseteq Parts
         /\ \A ls \in SUBSET (Ids \X Ids) :
              /\ LinkParts(ls) \subseteq Parts
              /\ \A x \in LinkParts(ls) : \E l \in ls : x[1] = l[1] /\ x[2] = "link" /\ x[3] = l[2]
              /\ \A l \in ls : <<l[1], "link", l[2]>> \in LinkParts(ls)
<1>1. \A parts \in SUBSET {"row", "texts"} : {i} \X parts \subseteq Parts
  BY DEF Parts
<1>2. ASSUME NEW ls \in SUBSET (Ids \X Ids)
      PROVE  /\ LinkParts(ls) \subseteq Parts
             /\ \A x \in LinkParts(ls) : \E l \in ls : x[1] = l[1] /\ x[2] = "link" /\ x[3] = l[2]
             /\ \A l \in ls : <<l[1], "link", l[2]>> \in LinkParts(ls)
  <2>1. ASSUME NEW l \in ls
        PROVE  <<l[1], "link", l[2]>> \in Ids \X {"link"} \X Ids
    OBVIOUS
  <2>2. LinkParts(ls) \subseteq Parts
    BY <2>1 DEF LinkParts, Parts
  <2>3. \A x \in LinkParts(ls) : \E l \in ls : x[1] = l[1] /\ x[2] = "link" /\ x[3] = l[2]
    BY DEF LinkParts
  <2>4. \A l \in ls : <<l[1], "link", l[2]>> \in LinkParts(ls)
    BY DEF LinkParts
  <2>5. QED
    BY <2>2, <2>3, <2>4
<1>3. QED
  BY <1>1, <1>2

(* One transaction of a request. *)
LEMMA PerformStep ==
  ASSUME CatalogueInv, NEW q \in Requests \ spent, NEW rs, NEW ls, NEW parts,
         Perform(q, rs, ls, parts), stage' = stage,
         WellFormed(rs, ls), parts \subseteq Parts,
         \A i \in DOMAIN rs \ DOMAIN rows : i.by = q,
         \A i \in Ids : (\A x \in parts : x[1] # i) =>
            /\ i \in DOMAIN rows <=> i \in DOMAIN rs
            /\ i \in DOMAIN rows => rs[i] = rows[i],
         \A l \in (links \ ls) \union (ls \ links) : \E x \in parts : x[1] = l[1],
         \A i \in DOMAIN rows \intersect DOMAIN rs :
           i.kind \in {"Category", "Tag"} => <<i, "row">> \notin parts
  PROVE  StoreStep
<1>1. /\ Unique(rs) /\ Referenced(rs, ls)
      /\ rows' = rs /\ links' = ls /\ wrote' = parts
      /\ spent' = spent \union {q} /\ patches' = patches
  BY DEF Perform
<1>2. \A i : Old(i) => Old(i)'
  BY <1>1 DEF Old
<1>3. \A i : i.by = q => Old(i)' /\ ~Old(i)
  BY <1>1, RequestsAreNoMakers, RunsAreMakers DEF Old
<1>4. \A i \in DOMAIN rows : Old(i)'
  BY <1>2 DEF CatalogueInv, StoreOK
<1>5. CatalogueTypeOK'
  BY <1>1 DEF CatalogueInv, CatalogueTypeOK
<1>6. StoreOK'
  BY <1>1, <1>3, <1>4 DEF StoreOK, Old
<1>7. PatchesOK'
  BY <1>1, <1>2 DEF CatalogueInv, PatchesOK, PatchOK, Old
<1>8. Reported
  BY <1>1 DEF Reported
<1>9. Aged
  BY <1>1, <1>2, <1>3 DEF Aged
<1>10. QED
  BY <1>5, <1>6, <1>7, <1>8, <1>9 DEF StoreStep, CatalogueInv

LEMMA TargetsFacts ==
  ASSUME CatalogueInv, NEW i \in Ids, NEW targets \in SUBSET Targets(i.kind)
  PROVE  /\ {i} \X targets \subseteq Ids \X Ids
         /\ \A l \in {i} \X targets : LinkFits(l)
<1>1. \A t \in DOMAIN rows : t \in Ids /\ t.kind = rows[t].kind
  BY DEF CatalogueInv, CatalogueTypeOK, WellFormed, RowFits
<1>2. CASE i.kind \in {"Experience", "Project"}
  BY <1>1, <1>2 DEF Targets, RowsOf, LinkFits
<1>3. CASE i.kind = "Article"
  BY <1>1, <1>3 DEF Targets, RowsOf, LinkFits
<1>4. CASE i.kind \notin {"Experience", "Project", "Article"}
  BY <1>1, <1>4 DEF Targets, RowsOf, LinkFits
<1>5. QED
  BY <1>2, <1>3, <1>4

LEMMA InsertStep ==
  ASSUME CatalogueInv, stage' = stage, NEW q \in Requests \ spent, NEW d \in Drafts,
         NEW category, category = None \/ (d.kind = "Article" /\ category \in RowsOf(rows, "Category")),
         NEW targets \in SUBSET Targets(d.kind), Insert(q, d, category, targets)
  PROVE  StoreStep
<1> DEFINE i   == New(q, d)
           row == [kind |-> d.kind, key |-> d.key, second |-> d.second, body |-> d.body,
                   public |-> d.public, category |-> category, own |-> d.body]
           rs  == With(rows, i, row)
           ls  == links \union ({i} \X targets)
           parts == ({i} \X {"row", "texts"}) \union LinkParts({i} \X targets)
<1>1. d \in Draft /\ (d.kind = "SiteSettings" => d.key = None)
  BY DraftsType
<1>2. i \in Ids /\ i.kind = d.kind /\ i.by = q
  BY <1>1 DEF New, Ids, Draft
<1>3. WellFormed(rows, links)
  BY DEF CatalogueInv, CatalogueTypeOK
<1>4. i \notin DOMAIN rows
  BY <1>2, RequestsAreNoMakers, RunsAreMakers DEF CatalogueInv, StoreOK, Old
<1>5. category # None => category \in Ids /\ category.kind = "Category"
  BY <1>3 DEF RowsOf, WellFormed, RowFits
<1>6. row \in Row /\ RowFits(i, row)
  BY <1>1, <1>2, <1>5 DEF Row, Draft, RowFits
<1>7. /\ {i} \X targets \subseteq Ids \X Ids
      /\ \A l \in {i} \X targets : LinkFits(l)
  BY <1>2, TargetsFacts
<1>8. /\ DOMAIN rs = DOMAIN rows \union {i} /\ rs[i] = row
      /\ \A y \in DOMAIN rows : rs[y] = rows[y]
      /\ rs \in [DOMAIN rs -> Row]
  <2>1. /\ DOMAIN rs = DOMAIN rows \union {i} /\ rs[i] = row
        /\ \A y \in DOMAIN rows : rs[y] = rows[y]
    <3> HIDE DEF i, row
    <3>1. QED
      BY <1>4 DEF With
  <2>2. rs \in [DOMAIN rs -> Row]
    BY <1>3, <1>6, <2>1, WithTyped DEF WellFormed
  <2>3. QED
    BY <2>1, <2>2
<1>9. WellFormed(rs, ls)
  BY <1>2, <1>3, <1>6, <1>7, <1>8 DEF WellFormed
<1>10. /\ parts \subseteq Parts
       /\ \A x \in parts : x[1] = i
       /\ \E x \in parts : x[1] = i
  <2>1. {i} \X {"row", "texts"} \subseteq Parts
    BY <1>2, PartFacts
  <2>2. /\ LinkParts({i} \X targets) \subseteq Parts
        /\ \A x \in LinkParts({i} \X targets) : \E l \in {i} \X targets : x[1] = l[1]
    BY <1>2, <1>7, PartFacts
  <2>3. \A l \in {i} \X targets : l[1] = i
    OBVIOUS
  <2>4. <<i, "row">> \in parts
    OBVIOUS
  <2> HIDE DEF i
  <2>5. \A x \in {i} \X {"row", "texts"} : x[1] = i
    OBVIOUS
  <2>6. QED
    BY <2>1, <2>2, <2>3, <2>4, <2>5
<1>11. Perform(q, rs, ls, parts)
  BY DEF Insert
<1>12. \A l \in (links \ ls) \union (ls \ links) : l[1] = i
  OBVIOUS
<1>13. \A j \in Ids : (\A x \in parts : x[1] # j) =>
            /\ j \in DOMAIN rows <=> j \in DOMAIN rs
            /\ j \in DOMAIN rows => rs[j] = rows[j]
  BY <1>8, <1>10
<1> HIDE DEF i, row, rs, ls, parts
<1>14. \A j \in DOMAIN rows \intersect DOMAIN rs :
           j.kind \in {"Category", "Tag"} => <<j, "row">> \notin parts
  BY <1>4, <1>10
<1>15. QED
  BY <1>2, <1>8, <1>9, <1>10, <1>11, <1>12, <1>13, <1>14, PerformStep

LEMMA RewriteStep ==
  ASSUME CatalogueInv, stage' = stage, NEW q \in Requests \ spent, NEW i \in DOMAIN rows,
         NEW row \in Row, RowFits(i, row),
         NEW parts \in SomeParts, i.kind \in {"Category", "Tag"} => parts = {"texts"},
         NEW ls, ls \subseteq Ids \X Ids, \A l \in ls : LinkFits(l),
         \A l \in (links \ ls) \union (ls \ links) : l[1] = i,
         NEW moved, moved \subseteq Ids \X Ids, \A l \in moved : l[1] = i,
         Perform(q, [rows EXCEPT ![i] = row], ls, ({i} \X parts) \union LinkParts(moved))
  PROVE  StoreStep
<1> DEFINE rs  == [rows EXCEPT ![i] = row]
           all == ({i} \X parts) \union LinkParts(moved)
<1>1. WellFormed(rows, links)
  BY DEF CatalogueInv, CatalogueTypeOK
<1>2. i \in Ids
  BY <1>1 DEF WellFormed
<1>3. rs \in [DOMAIN rows -> Row] /\ rs[i] = row /\ \A j \in DOMAIN rows : j # i => rs[j] = rows[j]
  BY <1>1 DEF WellFormed
<1>4. WellFormed(rs, ls)
  BY <1>1, <1>3 DEF WellFormed
<1>5. parts \in SUBSET {"row", "texts"} /\ parts # {}
  BY DEF SomeParts
<1>6. all \subseteq Parts
  BY <1>2, <1>5, PartFacts
<1>7. /\ \A x \in {i} \X parts : x[1] = i /\ x[2] \in parts
      /\ \A x \in LinkParts(moved) : x[1] = i /\ x[2] = "link"
  BY <1>2, PartFacts
<1>8. \E x \in all : x[1] = i
  <2>1. PICK c \in parts : TRUE
    BY <1>5
  <2>2. <<i, c>> \in all
    BY <2>1
  <2>3. QED
    BY <2>2
<1> HIDE DEF rs
<1>9. \A j \in Ids : (\A x \in all : x[1] # j) =>
            /\ j \in DOMAIN rows <=> j \in DOMAIN rs
            /\ j \in DOMAIN rows => rs[j] = rows[j]
  BY <1>3, <1>8
<1>10. \A l \in (links \ ls) \union (ls \ links) : \E x \in all : x[1] = l[1]
  BY <1>8
<1>11. \A j \in DOMAIN rows \intersect DOMAIN rs :
           j.kind \in {"Category", "Tag"} => <<j, "row">> \notin all
  <2>1. ASSUME NEW j \in DOMAIN rows, j.kind \in {"Category", "Tag"}, <<j, "row">> \in all
        PROVE  FALSE
    <3>1. j = i /\ "row" \in parts
      BY <1>7, <2>1
    <3>2. QED
      BY <2>1, <3>1
  <2>2. QED
    BY <2>1
<1>12. Perform(q, rs, ls, all)
  BY DEF rs
<1>13. \A j \in DOMAIN rs \ DOMAIN rows : j.by = q
  BY <1>3
<1> HIDE DEF all
<1>14. QED
  BY <1>4, <1>6, <1>9, <1>10, <1>11, <1>12, <1>13, PerformStep

LEMMA RevisedFacts ==
  ASSUME NEW i, NEW row \in Row, RowFits(i, row), NEW d \in Drafts, d.kind = i.kind, NEW parts
  PROVE  Revised(row, d, parts) \in Row /\ RowFits(i, Revised(row, d, parts))
<1>1. d \in Draft /\ (d.kind = "SiteSettings" => d.key = None)
  BY DraftsType
<1> DEFINE new == Revised(row, d, parts)
<1>2. /\ new.kind = row.kind /\ new.category = row.category /\ new.own = row.own
      /\ new.key \in {row.key, d.key} /\ (new.key # row.key => d.key # None)
      /\ new.second \in {row.second, d.second}
      /\ new.body = d.body /\ new.public \in {row.public, d.public}
  BY DEF Revised, Row
<1>3. new \in Row
  BY <1>1 DEF Revised, Row, Draft
<1>4. RowFits(i, new)
  BY <1>1, <1>2 DEF RowFits
<1>5. QED
  BY <1>3, <1>4

LEMMA EraseStep ==
  ASSUME CatalogueInv, stage' = stage, NEW q \in Requests \ spent, NEW i \in DOMAIN rows, Erase(q, i)
  PROVE  StoreStep
<1> DEFINE rs  == [j \in DOMAIN rows \ {i} |-> rows[j]]
           ls  == links \ Cascaded(i)
           all == ({i} \X {"row", "texts"}) \union LinkParts(Cascaded(i))
<1>1. WellFormed(rows, links) /\ Referenced(rows, links)
  BY DEF CatalogueInv, CatalogueTypeOK, StoreOK
<1>2. i \in Ids
  BY <1>1 DEF WellFormed
<1>3. rs \in [DOMAIN rows \ {i} -> Row] /\ \A j \in DOMAIN rs : rs[j] = rows[j]
  BY <1>1 DEF WellFormed
<1>4. WellFormed(rs, ls)
  BY <1>1, <1>3 DEF WellFormed
<1>5. Cascaded(i) \subseteq links /\ links \subseteq Ids \X Ids
  BY <1>1 DEF Cascaded, WellFormed
<1>6. all \subseteq Parts
  BY <1>2, <1>5, PartFacts
<1>7. /\ \A x \in {i} \X {"row", "texts"} : x[1] = i
      /\ \A x \in LinkParts(Cascaded(i)) : \E l \in Cascaded(i) : x[1] = l[1]
      /\ \A l \in Cascaded(i) : <<l[1], "link", l[2]>> \in LinkParts(Cascaded(i))
  BY <1>2, <1>5, PartFacts
<1>8. <<i, "row">> \in all
  OBVIOUS
<1> HIDE DEF rs
<1>9. \A j \in Ids : (\A x \in all : x[1] # j) =>
            /\ j \in DOMAIN rows <=> j \in DOMAIN rs
            /\ j \in DOMAIN rows => rs[j] = rows[j]
  BY <1>3, <1>8
<1>10. \A l \in (links \ ls) \union (ls \ links) : \E x \in all : x[1] = l[1]
  BY <1>7
<1>11. \A j \in DOMAIN rows \intersect DOMAIN rs :
           j.kind \in {"Category", "Tag"} => <<j, "row">> \notin all
  <2>1. ASSUME NEW j \in DOMAIN rs, <<j, "row">> \in all
        PROVE  FALSE
    <3>1. <<j, "row">> \in {i} \X {"row", "texts"} \/ <<j, "row">> \in LinkParts(Cascaded(i))
      BY <2>1
    <3>2. <<j, "row">> \notin LinkParts(Cascaded(i))
      BY <1>2, <1>5, PartFacts
    <3>3. j = i
      BY <1>7, <3>1, <3>2
    <3>4. QED
      BY <1>3, <2>1, <3>3
  <2>2. QED
    BY <2>1
<1>12. Perform(q, rs, ls, all)
  BY DEF rs, Erase
<1>13. \A j \in DOMAIN rs \ DOMAIN rows : j.by = q
  BY <1>3
<1> HIDE DEF all, ls
<1>14. QED
  BY <1>4, <1>6, <1>9, <1>10, <1>11, <1>12, <1>13, PerformStep

(* A row is revised, with or without its links. *)
LEMMA ReviseStep ==
  ASSUME CatalogueInv, stage' = stage, NEW q \in Requests \ spent, NEW kind \in Kinds,
         NEW i \in RowsOf(rows, kind), NEW row \in Row, RowFits(i, row),
         NEW parts \in SomeParts, kind \in {"Category", "Tag"} => parts = {"texts"},
         \/ Rewrite(q, i, row, parts)
         \/ \E targets \in SUBSET Targets(kind) : Relinked(q, i, row, parts, targets)
  PROVE  StoreStep
<1>1. WellFormed(rows, links)
  BY DEF CatalogueInv, CatalogueTypeOK
<1>2. i \in DOMAIN rows /\ i \in Ids /\ i.kind = kind
  BY <1>1 DEF RowsOf, WellFormed, RowFits
<1>3. CASE Rewrite(q, i, row, parts)
  <2>1. LinkParts({}) = {}
    BY DEF LinkParts
  <2>2. Perform(q, [rows EXCEPT ![i] = row], links, ({i} \X parts) \union LinkParts({}))
    BY <1>3, <2>1 DEF Rewrite
  <2>3. links \subseteq Ids \X Ids /\ \A l \in links : LinkFits(l)
    BY <1>1 DEF WellFormed
  <2>4. QED
    BY <1>2, <2>2, <2>3, RewriteStep
<1>4. ASSUME NEW targets \in SUBSET Targets(kind), Relinked(q, i, row, parts, targets)
      PROVE  StoreStep
  <2> DEFINE own   == LinksOf(links, i)
             ls    == (links \ own) \union ({i} \X targets)
             moved == own \union ({i} \X targets)
  <2>1. Perform(q, [rows EXCEPT ![i] = row], ls, ({i} \X parts) \union LinkParts(moved))
    BY <1>4 DEF Relinked
  <2>2. /\ {i} \X targets \subseteq Ids \X Ids
        /\ \A l \in {i} \X targets : LinkFits(l) /\ l[1] = i
    BY <1>2, TargetsFacts
  <2>3. /\ links \subseteq Ids \X Ids /\ \A l \in links : LinkFits(l)
        /\ own \subseteq links /\ \A l \in own : l[1] = i
    BY <1>1 DEF WellFormed, LinksOf
  <2>4. ls \subseteq Ids \X Ids /\ \A l \in ls : LinkFits(l)
    BY <2>2, <2>3
  <2>5. moved \subseteq Ids \X Ids /\ \A l \in moved : l[1] = i
    BY <2>2, <2>3
  <2>6. \A l \in (links \ ls) \union (ls \ links) : l[1] = i
    BY <2>2, <2>3
  <2> HIDE DEF ls, moved
  <2>7. QED
    BY <1>2, <2>1, <2>4, <2>5, <2>6, RewriteStep
<1>5. QED
  BY <1>3, <1>4

(* A replacement of links deletes what it has seen ... *)
LEMMA StartReplacingStep ==
  ASSUME CatalogueInv, stage' = stage, NEW q \in Requests \ spent, StartReplacing(q)
  PROVE  StoreStep
<1>1. WellFormed(rows, links)
  BY DEF CatalogueInv, CatalogueTypeOK
<1>2. PICK i \in RowsOf(rows, "Experience") \union RowsOf(rows, "Project") :
        \E targets \in SUBSET Targets(rows[i].kind) :
          patches' = With(patches, q, [owner |-> i, wanted |-> targets, doomed |-> LinksOf(links, i)])
  BY DEF StartReplacing
<1>3. PICK targets \in SUBSET Targets(rows[i].kind) :
        patches' = With(patches, q, [owner |-> i, wanted |-> targets, doomed |-> LinksOf(links, i)])
  BY <1>2
<1> DEFINE p == [owner |-> i, wanted |-> targets, doomed |-> LinksOf(links, i)]
<1>4. rows' = rows /\ links' = links /\ wrote' = {} /\ spent' = spent \union {q}
  BY DEF StartReplacing
<1>5. /\ i \in DOMAIN rows /\ i \in Ids /\ i.kind = rows[i].kind
      /\ i.kind \in {"Experience", "Project"}
  BY <1>1 DEF RowsOf, WellFormed, RowFits
<1>6. \A t \in targets : t \in Ids /\ t.kind = "Skill"
  BY <1>1, <1>3, <1>5 DEF Targets, RowsOf, WellFormed, RowFits
<1>7. \A l \in LinksOf(links, i) : l \in Ids \X Ids /\ l[1] = i /\ LinkFits(l)
  BY <1>1 DEF LinksOf, WellFormed
<1>8. p \in Patch
  BY <1>5, <1>6, <1>7 DEF Patch
<1>9. \A j : Old(j) => Old(j)'
  BY <1>4 DEF Old
<1>10. /\ p.owner = i /\ i.kind \in {"Experience", "Project"} /\ Old(i)'
       /\ \A t \in p.wanted : t.kind = "Skill"
       /\ \A l \in p.doomed : l[1] = p.owner /\ LinkFits(l)
  BY <1>5, <1>6, <1>7, <1>9 DEF CatalogueInv, StoreOK
<1>11. patches \in [DOMAIN patches -> Patch] /\ DOMAIN patches \subseteq Requests
  BY DEF CatalogueInv, CatalogueTypeOK
<1>12. /\ DOMAIN patches' = DOMAIN patches \union {q}
       /\ patches'[q] = p /\ \A x \in DOMAIN patches : x # q => patches'[x] = patches[x]
  <2> HIDE DEF p
  <2>1. patches' = With(patches, q, p)
    BY <1>3 DEF p
  <2>2. QED
    BY <1>11, <2>1 DEF With
<1>13. patches' \in [DOMAIN patches' -> Patch]
  BY <1>3, <1>8, <1>11, <1>12, WithTyped
<1> HIDE DEF p
<1>14. CatalogueTypeOK'
  BY <1>4, <1>11, <1>12, <1>13 DEF CatalogueInv, CatalogueTypeOK, WellFormed, Parts
<1>15. StoreOK'
  BY <1>4, <1>9 DEF CatalogueInv, StoreOK
<1>16. PatchesOK'
  <2>1. ASSUME NEW x \in DOMAIN patches'
        PROVE  x \in spent' /\ PatchOK(patches[x])'
    <3>1. CASE x = q
      BY <1>4, <1>10, <1>12, <3>1 DEF PatchOK, Old
    <3>2. CASE x # q
      BY <1>4, <1>9, <1>12, <2>1, <3>2 DEF CatalogueInv, PatchesOK, PatchOK
    <3>3. QED
      BY <3>1, <3>2
  <2>2. QED
    BY <2>1 DEF PatchesOK
<1>17. Reported /\ Aged
  BY <1>4, <1>9 DEF Reported, Aged
<1>18. QED
  BY <1>14, <1>15, <1>16, <1>17 DEF StoreStep, CatalogueInv

(* ... and inserts what it wants, or fails. *)
LEMMA FinishReplacingStep ==
  ASSUME CatalogueInv, stage' = stage, NEW q \in DOMAIN patches, FinishReplacing(q)
  PROVE  StoreStep
<1> DEFINE p     == patches[q]
           added == {p.owner} \X p.wanted
           left  == links \ p.doomed
<1>1. /\ patches' = [x \in DOMAIN patches \ {q} |-> patches[x]]
      /\ rows' = rows /\ spent' = spent
      /\ \/ /\ Referenced(rows, left \union added)
            /\ links' = left \union added
            /\ wrote' = LinkParts(p.doomed \union added)
         \/ wrote' = {} /\ links' = links
  BY DEF FinishReplacing
<1>2. /\ WellFormed(rows, links)
      /\ p \in Patch /\ PatchOK(p)
      /\ patches \in [DOMAIN patches -> Patch] /\ DOMAIN patches \subseteq Requests
  BY DEF CatalogueInv, CatalogueTypeOK, PatchesOK
<1>3. \A j : Old(j) <=> Old(j)'
  BY <1>1 DEF Old
<1>4. added \subseteq Ids \X Ids /\ \A l \in added : l[1] = p.owner /\ LinkFits(l)
  BY <1>2 DEF Patch, PatchOK, LinkFits
<1>5. p.doomed \subseteq Ids \X Ids /\ \A l \in p.doomed : l[1] = p.owner
  BY <1>2 DEF Patch, PatchOK
<1>6. p.owner \in Ids
  BY <1>2 DEF Patch
<1> HIDE DEF added, p
<1>7. WellFormed(rows, left \union added)
  BY <1>2, <1>4 DEF WellFormed
<1>8. /\ LinkParts(p.doomed \union added) \subseteq Parts
      /\ \A x \in LinkParts(p.doomed \union added) : x[1] = p.owner /\ x[2] = "link"
      /\ \A l \in p.doomed \union added : <<l[1], "link", l[2]>> \in LinkParts(p.doomed \union added)
  BY <1>4, <1>5, <1>6, PartFacts
<1>9. CatalogueTypeOK'
  BY <1>1, <1>2, <1>7, <1>8 DEF CatalogueInv, CatalogueTypeOK
<1>10. StoreOK'
  BY <1>1, <1>3 DEF CatalogueInv, StoreOK
<1>11. PatchesOK'
  BY <1>1, <1>3 DEF CatalogueInv, PatchesOK, PatchOK
<1>12. \A l \in (links \ links') \union (links' \ links) : \E x \in wrote' : x[1] = l[1]
  BY <1>1, <1>4, <1>5, <1>8
<1>13. \A x \in wrote' : x \in Parts /\ x[2] = "link"
  BY <1>1, <1>8
<1>14. Reported
  BY <1>1, <1>12, <1>13 DEF Reported
<1>15. Aged
  BY <1>1, <1>3 DEF Aged
<1>16. QED
  BY <1>9, <1>10, <1>11, <1>14, <1>15 DEF StoreStep, CatalogueInv

(* Whatever the dashboard does. *)
LEMMA RequestStep ==
  ASSUME CatalogueInv, stage' = stage, NEW q \in Requests \ spent, Request(q)
  PROVE  StoreStep
<1>1. WellFormed(rows, links)
  BY DEF CatalogueInv, CatalogueTypeOK
<1>2. \A kind \in Kinds : \A i \in RowsOf(rows, kind) :
        i \in DOMAIN rows /\ rows[i] \in Row /\ RowFits(i, rows[i]) /\ i.kind = kind
  BY <1>1 DEF RowsOf, WellFormed, RowFits
<1>3. \A kind : \A d \in Given(kind) : d \in Drafts /\ d.kind = kind
  BY DEF Given
<1>4. \A kind \in Kinds : \A i \in RowsOf(rows, kind), d \in Given(kind) : \A parts :
        Revised(rows[i], d, parts) \in Row /\ RowFits(i, Revised(rows[i], d, parts))
  BY <1>2, <1>3, RevisedFacts
<1>5. ASSUME NEW kind, NEW d \in Given(kind), Insert(q, d, None, {})
      PROVE  StoreStep
  <2>1. {} \in SUBSET Targets(d.kind)
    OBVIOUS
  <2>2. QED
    BY <1>3, <1>5, <2>1, InsertStep
<1>6. ASSUME NEW kind \in Kinds, NEW category, CreateOwner(q, kind, category),
             category = None \/ (kind = "Article" /\ category \in RowsOf(rows, "Category"))
      PROVE  StoreStep
  BY <1>3, <1>6, InsertStep DEF CreateOwner
<1>7. ASSUME NEW kind \in Kinds \ {"Category", "Tag"}, NEW given \in SUBSET SomeParts, UpdateOwner(q, kind, given)
      PROVE  StoreStep
  <2>1. PICK i \in RowsOf(rows, kind), d \in Given(kind), parts \in given :
          \/ Rewrite(q, i, Revised(rows[i], d, parts), parts)
          \/ \E targets \in SUBSET Targets(kind) :
               Relinked(q, i, Revised(rows[i], d, parts), parts, targets)
    BY <1>7 DEF UpdateOwner
  <2>2. QED
    BY <1>4, <2>1, ReviseStep
<1>8. ASSUME NEW kind \in Kinds, NEW i \in RowsOf(rows, kind), Erase(q, i)
      PROVE  StoreStep
  BY <1>2, <1>8, EraseStep
<1>9. ASSUME NEW kind \in Kinds, NEW i \in RowsOf(rows, kind), NEW row \in Row, RowFits(i, row),
             NEW parts \in SomeParts, kind \in {"Category", "Tag"} => parts = {"texts"},
             Rewrite(q, i, row, parts)
      PROVE  StoreStep
  BY <1>9, ReviseStep
<1>10. CASE CreateCategory(q) \/ CreateTag(q) \/ CreateSkill(q) \/ CreateTestimonial(q)
  BY <1>5, <1>10 DEF CreateCategory, CreateTag, CreateSkill, CreateTestimonial
<1>11. CASE CreateExperience(q) \/ CreateProject(q) \/ CreateArticle(q)
  BY <1>6, <1>11 DEF CreateExperience, CreateProject, CreateArticle, Kinds, Governed, Slugged
<1>12. CASE RemoveCategory(q) \/ RemoveTag(q) \/ RemoveSkill(q) \/ RemoveExperience(q)
              \/ RemoveProject(q) \/ RemoveArticle(q) \/ RemoveTestimonial(q)
  BY <1>8, <1>12 DEF RemoveCategory, RemoveTag, RemoveSkill, RemoveExperience, RemoveProject,
                     RemoveArticle, RemoveTestimonial, Kinds, Governed, Slugged
<1>13. CASE UpdateCategory(q) \/ UpdateTag(q)
  <2>1. {"texts"} \in SomeParts /\ {"Category", "Tag"} \subseteq Kinds
    BY DEF SomeParts, Kinds, Governed, Slugged
  <2>2. QED
    BY <1>4, <1>9, <1>13, <2>1 DEF UpdateCategory, UpdateTag
<1>14. CASE UpdateTestimonial(q)
  <2>1. "Testimonial" \in Kinds
    BY DEF Kinds
  <2>2. QED
    BY <1>4, <1>9, <1>14, <2>1 DEF UpdateTestimonial
<1>15. CASE UpdateExperience(q) \/ UpdateProject(q) \/ UpdateArticle(q)
  <2>1. SomeParts \in SUBSET SomeParts /\ {{"row"}, {"row", "texts"}} \in SUBSET SomeParts
    BY DEF SomeParts
  <2>2. {"Experience", "Project", "Article"} \subseteq Kinds \ {"Category", "Tag"}
    BY DEF Kinds, Governed, Slugged
  <2>3. QED
    BY <1>7, <1>15, <2>1, <2>2 DEF UpdateExperience, UpdateProject, UpdateArticle
<1>16. CASE UpdateSkill(q)
  <2>1. PICK i \in RowsOf(rows, "Skill"), d \in Given("Skill"), parts \in SomeParts :
          Rewrite(q, i, [Revised(rows[i], d, parts) EXCEPT !.key = rows[i].key], parts)
    BY <1>16 DEF UpdateSkill
  <2> DEFINE new == Revised(rows[i], d, parts)
  <2>2. "Skill" \in Kinds
    BY DEF Kinds, Governed
  <2>3. new \in Row /\ RowFits(i, new) /\ rows[i] \in Row /\ i.kind = "Skill"
    BY <1>2, <1>4, <2>2
  <2> HIDE DEF new
  <2>4. [new EXCEPT !.key = rows[i].key] \in Row /\ RowFits(i, [new EXCEPT !.key = rows[i].key])
    BY <2>3 DEF Row, RowFits
  <2>5. QED
    BY <1>9, <2>1, <2>2, <2>4 DEF new
<1>17. CASE Recategorize(q)
  <2>1. PICK i \in RowsOf(rows, "Article"), category \in RowsOf(rows, "Category") :
          Rewrite(q, i, [rows[i] EXCEPT !.category = category], {"row"})
    BY <1>17 DEF Recategorize
  <2>2. {"Article", "Category"} \subseteq Kinds /\ {"row"} \in SomeParts
    BY DEF Kinds, Governed, Slugged, SomeParts
  <2>3. /\ rows[i] \in Row /\ RowFits(i, rows[i]) /\ i.kind = "Article"
        /\ category \in Ids /\ category.kind = "Category"
    BY <1>1, <1>2, <2>2 DEF WellFormed
  <2>4. [rows[i] EXCEPT !.category = category] \in Row
    BY <2>3 DEF Row
  <2>5. RowFits(i, [rows[i] EXCEPT !.category = category])
    BY <2>3 DEF Row, RowFits
  <2>6. QED
    BY <1>9, <2>1, <2>2, <2>4, <2>5
<1>18. CASE UpdateSettings(q)
  <2>1. PICK i \in RowsOf(rows, "SiteSettings"), d \in Given("SiteSettings"), parts \in SomeParts :
          Rewrite(q, i, [Revised(rows[i], d, parts)
                           EXCEPT !.body = IF "row" \in parts THEN @ ELSE rows[i].body,
                                  !.own  = IF "row" \in parts THEN d.body ELSE @], parts)
    BY <1>18 DEF UpdateSettings
  <2> DEFINE new == Revised(rows[i], d, parts)
             row == [new EXCEPT !.body = IF "row" \in parts THEN @ ELSE rows[i].body,
                                !.own  = IF "row" \in parts THEN d.body ELSE @]
  <2>2. "SiteSettings" \in Kinds
    BY DEF Kinds, Governed
  <2>3. new \in Row /\ RowFits(i, new) /\ rows[i] \in Row /\ i.kind = "SiteSettings"
    BY <1>2, <1>4, <2>2
  <2>4. d.body \in Bodies
    BY <1>3, DraftsType DEF Draft
  <2> HIDE DEF new
  <2>5. row \in Row
    BY <2>3, <2>4 DEF Row
  <2>6. RowFits(i, row)
    BY <2>3 DEF Row, RowFits
  <2>7. Rewrite(q, i, row, parts)
    BY <2>1 DEF new
  <2> HIDE DEF row
  <2>8. QED
    BY <1>9, <2>2, <2>5, <2>6, <2>7
<1>19. CASE StartReplacing(q)
  BY <1>19, StartReplacingStep
<1>20. QED
  BY <1>10, <1>11, <1>12, <1>13, <1>14, <1>15, <1>16, <1>17, <1>18, <1>19 DEF Request

LEMMA CatalogueStep ==
  ASSUME CatalogueInv, stage' = stage, CatalogueNext
  PROVE  StoreStep
BY RequestStep, FinishReplacingStep DEF CatalogueNext

(***************************************************************************)
(* The plan.                                                               *)
(***************************************************************************)

Unslugged == {"Skill", "SiteSettings"}
Deletable == {"Category", "Tag", "Experience", "Project", "Article"}
Linking   == {"Experience", "Project", "Article"}

LEMMA KindFacts ==
  /\ Governed = {"Skill", "Category", "Tag", "Experience", "Project", "Article", "SiteSettings"}
  /\ Kinds = Governed \union {"Testimonial"}
  /\ Slugged = {"Category", "Tag", "Project", "Article"}
BY DEF Governed, Kinds, Slugged

(* What the plan's sets are made of. *)
LEMMA PlanMembers ==
  ASSUME NEW D, NEW s
  PROVE  LET p == PlanOf(D, s)
         IN  /\ p.create = {e \in D : e.kind \in Governed /\ Matches(s, e) = {}}
             /\ p.update = {e \in D : /\ e.kind \in Governed /\ Matches(s, e) # {}
                                      /\ IF e.kind = "SiteSettings" THEN s.rows[Found(s, e)].body # e.body
                                         ELSE Drifted(s, e)}
             /\ p.hide = {i \in Stale(D, s, "Skill") : s.rows[i].public}
             /\ p.delete = {c \in Stale(D, s, "Category") : Survivors(D, s, c) = {}}
                  \union Stale(D, s, "Tag") \union Stale(D, s, "Experience")
                  \union Stale(D, s, "Project") \union Stale(D, s, "Article")
             /\ p.relink = UNION {Regrouped(D, s, kind) : kind \in Linking}
             /\ p.texts = SettingsTexts(D, s)
             /\ p.found = {<<e, Found(s, e)>> : e \in {x \in D : Matches(s, x) # {}}}
<1> DEFINE p == PlanOf(D, s)
           parts == {Skills(D, s), Categories(D, s), Tags(D, s), Experiences(D, s),
                     Projects(D, s), Articles(D, s), Settings(D, s)}
<1>1. /\ Skills(D, s).create = Creations(D, s, "Skill")
      /\ Categories(D, s).create = Creations(D, s, "Category")
      /\ Tags(D, s).create = Creations(D, s, "Tag")
      /\ Experiences(D, s).create = Creations(D, s, "Experience")
      /\ Projects(D, s).create = Creations(D, s, "Project")
      /\ Articles(D, s).create = Creations(D, s, "Article")
      /\ Settings(D, s).create = Creations(D, s, "SiteSettings")
  BY DEF Skills, Categories, Tags, Experiences, Projects, Articles, Settings, Owners, NoChanges
<1>2. /\ Skills(D, s).update = Updates(D, s, "Skill")
      /\ Categories(D, s).update = Updates(D, s, "Category")
      /\ Tags(D, s).update = Updates(D, s, "Tag")
      /\ Experiences(D, s).update = Updates(D, s, "Experience")
      /\ Projects(D, s).update = Updates(D, s, "Project")
      /\ Articles(D, s).update = Updates(D, s, "Article")
      /\ Settings(D, s).update = {e \in Entries(D, "SiteSettings") :
                                    Matches(s, e) # {} /\ s.rows[Found(s, e)].body # e.body}
  BY DEF Skills, Categories, Tags, Experiences, Projects, Articles, Settings, Owners, NoChanges
<1>3. /\ Skills(D, s).hide = {i \in Stale(D, s, "Skill") : s.rows[i].public}
      /\ Categories(D, s).hide = {} /\ Tags(D, s).hide = {} /\ Experiences(D, s).hide = {}
      /\ Projects(D, s).hide = {} /\ Articles(D, s).hide = {} /\ Settings(D, s).hide = {}
  BY DEF Skills, Categories, Tags, Experiences, Projects, Articles, Settings, Owners, NoChanges
<1>4. /\ Skills(D, s).delete = {} /\ Settings(D, s).delete = {}
      /\ Categories(D, s).delete = {c \in Stale(D, s, "Category") : Survivors(D, s, c) = {}}
      /\ Tags(D, s).delete = Stale(D, s, "Tag")
      /\ Experiences(D, s).delete = Stale(D, s, "Experience")
      /\ Projects(D, s).delete = Stale(D, s, "Project")
      /\ Articles(D, s).delete = Stale(D, s, "Article")
  BY DEF Skills, Categories, Tags, Experiences, Projects, Articles, Settings, Owners, NoChanges
<1>5. /\ Skills(D, s).relink = {} /\ Settings(D, s).relink = {}
      /\ Categories(D, s).relink = {} /\ Tags(D, s).relink = {}
      /\ Experiences(D, s).relink = Regrouped(D, s, "Experience")
      /\ Projects(D, s).relink = Regrouped(D, s, "Project")
      /\ Articles(D, s).relink = Regrouped(D, s, "Article")
  BY DEF Skills, Categories, Tags, Experiences, Projects, Articles, Settings, Owners, NoChanges
<1>6. /\ p.create = UNION {c.create : c \in parts} /\ p.update = UNION {c.update : c \in parts}
      /\ p.hide = UNION {c.hide : c \in parts} /\ p.delete = UNION {c.delete : c \in parts}
      /\ p.relink = UNION {c.relink : c \in parts} /\ p.texts = SettingsTexts(D, s)
      /\ p.found = {<<e, Found(s, e)>> : e \in {x \in D : Matches(s, x) # {}}}
  BY DEF PlanOf
<1> HIDE DEF p
<1>7. p.create = {e \in D : e.kind \in Governed /\ Matches(s, e) = {}}
  BY <1>1, <1>6, KindFacts DEF Creations, Entries
<1>8. p.update = {e \in D : /\ e.kind \in Governed /\ Matches(s, e) # {}
                            /\ IF e.kind = "SiteSettings" THEN s.rows[Found(s, e)].body # e.body
                               ELSE Drifted(s, e)}
  BY <1>2, <1>6, KindFacts DEF Updates, Creations, Entries
<1>9. p.hide = {i \in Stale(D, s, "Skill") : s.rows[i].public}
  BY <1>3, <1>6
<1>10. p.delete = {c \in Stale(D, s, "Category") : Survivors(D, s, c) = {}}
                  \union Stale(D, s, "Tag") \union Stale(D, s, "Experience")
                  \union Stale(D, s, "Project") \union Stale(D, s, "Article")
  BY <1>4, <1>6
<1>11. p.relink = UNION {Regrouped(D, s, kind) : kind \in Linking}
  BY <1>5, <1>6 DEF Linking
<1>12. QED
  BY <1>6, <1>7, <1>8, <1>9, <1>10, <1>11 DEF p

(* What a run has seen. *)
View(s) ==
  /\ WellFormed(s.rows, s.links)
  /\ \A i \in DOMAIN s.rows : i.kind \in Governed /\ Old(i)

(* A row is one entry's at most, and an entry has one row at most. *)
LEMMA MatchFacts ==
  ASSUME NEW r \in Runs, NEW s, View(s), ~Problem(Dataset[r], s), NEW e \in Dataset[r]
  PROVE  /\ Matches(s, e) \subseteq {i \in DOMAIN s.rows : i.kind = e.kind}
         /\ \A i, j \in Matches(s, e) : i = j
         /\ Matches(s, e) # {} => Matches(s, e) = {Found(s, e)}
         /\ \A f \in Dataset[r], i \in Matches(s, e) : i \in Matches(s, f) => f = e
<1>1. \A i \in DOMAIN s.rows : s.rows[i].kind = i.kind /\ (i.kind = "SiteSettings" => s.rows[i].key = None)
  BY DEF View, WellFormed, RowFits
<1>2. Matches(s, e) \subseteq {i \in DOMAIN s.rows : i.kind = e.kind}
  BY <1>1 DEF Matches, RowsOf
<1>3. \A i, j \in DOMAIN s.rows : s.rows[i].kind = s.rows[j].kind /\ s.rows[i].key = s.rows[j].key => i = j
  BY DEF Problem, Ambiguous
<1>4. \A i, j \in Matches(s, e) : i = j
  BY <1>1, <1>3 DEF Matches, RowsOf
<1>5. Matches(s, e) # {} => Matches(s, e) = {Found(s, e)}
  BY <1>4 DEF Found
<1>6. ASSUME NEW f \in Dataset[r], NEW i \in Matches(s, e), i \in Matches(s, f)
      PROVE  f = e
  <2>1. f.kind = e.kind
    BY <1>6 DEF Matches, RowsOf
  <2>2. CASE e.kind = "SiteSettings"
    <3>1. PICK x \in Dataset[r] : {y \in Dataset[r] : y.kind = "SiteSettings"} = {x}
      BY DatasetType
    <3>2. QED
      BY <2>1, <2>2, <3>1
  <2>3. CASE e.kind # "SiteSettings"
    <3>1. f.key = e.key
      BY <1>6, <2>1, <2>3 DEF Matches
    <3>2. QED
      BY <2>1, <3>1 DEF Problem, DuplicateKeys
  <2>4. QED
    BY <2>2, <2>3
<1>7. QED
  BY <1>2, <1>4, <1>5, <1>6

LEMMA StaleFacts ==
  ASSUME NEW r \in Runs, NEW s, View(s), NEW kind, NEW i \in Stale(Dataset[r], s, kind)
  PROVE  /\ i \in DOMAIN s.rows /\ i \in Ids /\ i.kind = kind
         /\ kind # "SiteSettings" => \A e \in Dataset[r] : i \notin Matches(s, e)
<1>1. i \in DOMAIN s.rows /\ i \in Ids /\ i.kind = kind /\ s.rows[i].kind = kind
  BY DEF Stale, RowsOf, View, WellFormed, RowFits
<1>2. ASSUME NEW e \in Dataset[r], i \in Matches(s, e), kind # "SiteSettings"
      PROVE  FALSE
  BY <1>1, <1>2 DEF Stale, Matches, RowsOf, Keys, Entries
<1>3. QED
  BY <1>1, <1>2

(* A plan that has no problem is sound. *)
LEMMA PlanSoundness ==
  ASSUME NEW r \in Runs, NEW s, View(s), ~Problem(Dataset[r], s)
  PROVE  PlanOf(Dataset[r], s) \in Plan /\ PlanSound(r, PlanOf(Dataset[r], s))
<1> DEFINE D == Dataset[r]
           p == PlanOf(D, s)
<1>1. D \subseteq Entry
  BY DatasetType
<1>2. \A i \in DOMAIN s.rows : i \in Ids /\ i.kind \in Governed /\ Old(i) /\ s.rows[i].kind = i.kind
  BY DEF View, WellFormed, RowFits
<1>3. \A e \in D : e.kind \in Governed
  BY <1>1 DEF Entry
<1>4. /\ p.create = {e \in D : Matches(s, e) = {}}
      /\ p.update \subseteq {e \in D : Matches(s, e) # {}}
      /\ p.hide \subseteq Stale(D, s, "Skill")
      /\ p.delete \subseteq UNION {Stale(D, s, kind) : kind \in Deletable}
      /\ p.relink = UNION {Regrouped(D, s, kind) : kind \in Linking}
      /\ p.texts = SettingsTexts(D, s)
      /\ p.found = {<<e, Found(s, e)>> : e \in {x \in D : Matches(s, x) # {}}}
  BY <1>3, PlanMembers DEF Deletable
<1>5. p = [create |-> p.create, update |-> p.update, hide |-> p.hide, delete |-> p.delete,
           relink |-> p.relink, texts |-> p.texts, found |-> p.found]
  BY DEF PlanOf
<1> HIDE DEF p
<1>6. \A f \in p.found : /\ f[1] \in D /\ Matches(s, f[1]) = {f[2]} /\ f = <<f[1], f[2]>>
                         /\ f[2] \in DOMAIN s.rows /\ f[2].kind = f[1].kind
  BY <1>4, MatchFacts
<1>7. \A e \in D : Matches(s, e) # {} => <<e, Found(s, e)>> \in p.found
  BY <1>4
<1>8. \A f, g \in p.found : f[1] = g[1] <=> f[2] = g[2]
  <2>1. ASSUME NEW f \in p.found, NEW g \in p.found
        PROVE  f[1] = g[1] <=> f[2] = g[2]
    <3>1. f[1] \in D /\ Matches(s, f[1]) = {f[2]} /\ g[1] \in D /\ Matches(s, g[1]) = {g[2]}
      BY <1>6
    <3>2. f[1] = g[1] => f[2] = g[2]
      BY <3>1
    <3>3. f[2] = g[2] => f[1] = g[1]
      BY <3>1, MatchFacts
    <3>4. QED
      BY <3>2, <3>3
  <2>2. QED
    BY <2>1
<1>9. \A e \in p.relink : e \in D /\ e.kind \in Linking
  BY <1>4 DEF Regrouped, Entries
<1>10. \A i \in p.hide : i \in Ids /\ i.kind = "Skill" /\ i \in DOMAIN s.rows /\ \A e \in D : i \notin Matches(s, e)
  <2>1. ASSUME NEW i \in p.hide
        PROVE  i \in Ids /\ i.kind = "Skill" /\ i \in DOMAIN s.rows /\ \A e \in D : i \notin Matches(s, e)
    <3>1. i \in Stale(D, s, "Skill") /\ "Skill" # "SiteSettings"
      BY <1>4
    <3>2. QED
      BY <3>1, StaleFacts
  <2>2. QED
    BY <2>1
<1>11. \A i \in p.delete : /\ i \in Ids /\ i.kind \in Deletable /\ i \in DOMAIN s.rows
                           /\ \A e \in D : i \notin Matches(s, e)
  <2>1. ASSUME NEW i \in p.delete
        PROVE  /\ i \in Ids /\ i.kind \in Deletable /\ i \in DOMAIN s.rows
               /\ \A e \in D : i \notin Matches(s, e)
    <3>1. PICK kind \in Deletable : i \in Stale(D, s, kind)
      BY <1>4
    <3>2. kind # "SiteSettings"
      BY <3>1 DEF Deletable
    <3>3. QED
      BY <3>1, <3>2, StaleFacts
  <2>2. QED
    BY <2>1
<1>12. \A e, f \in D : e.kind = f.kind /\ e.key = f.key => e = f
  BY DEF Problem, DuplicateKeys
<1>13. p \in Plan
  <2>1. p.create \in SUBSET Entry /\ p.update \in SUBSET Entry /\ p.relink \in SUBSET Entry
    BY <1>1, <1>4, <1>9
  <2>2. p.hide \in SUBSET Ids /\ p.delete \in SUBSET Ids
    BY <1>10, <1>11
  <2>3. p.found \in SUBSET (Entry \X Ids)
    BY <1>1, <1>2, <1>6
  <2>4. p.texts \in BOOLEAN
    BY <1>4 DEF SettingsTexts
  <2>5. QED
    BY <1>5, <2>1, <2>2, <2>3, <2>4 DEF Plan
<1>14. PlanSound(r, p)
  <2>1. p.create \subseteq D /\ p.update \subseteq D /\ p.relink \subseteq D
    BY <1>4, <1>9
  <2>2. \A f \in p.found : f[1] \in D \ p.create /\ f[2].kind = f[1].kind /\ Old(f[2])
    BY <1>2, <1>4, <1>6
  <2>3. \A e \in D \ p.create : \E f \in p.found : f[1] = e
    BY <1>4, <1>7
  <2>4. p.update \intersect p.create = {}
    BY <1>4
  <2>5. \A i \in p.hide : i.kind = "Skill" /\ Old(i)
    BY <1>2, <1>10
  <2>6. \A i \in p.delete : i.kind \in Deletable /\ Old(i)
    BY <1>2, <1>11
  <2>7. \A f \in p.found : f[2] \notin p.hide \union p.delete
    BY <1>6, <1>10, <1>11
  <2>8. ASSUME NEW e \in p.create, e.links # {}
        PROVE  e \in p.relink
    <3>1. e.kind \in Linking /\ e \in D /\ Matches(s, e) = {}
      BY <1>4, <2>8, DatasetType DEF Linking
    <3>2. e \in Regrouped(D, s, e.kind)
      BY <2>8, <3>1 DEF Regrouped, Entries
    <3>3. QED
      BY <1>4, <3>1, <3>2
  <2>9. ~Unknown(D)
    BY DEF Problem
  <2>10. QED
    BY <1>8, <1>9, <1>12, <2>1, <2>2, <2>3, <2>4, <2>5, <2>6, <2>7, <2>8, <2>9
       DEF PlanSound, Deletable, Linking
<1>15. QED
  BY <1>13, <1>14 DEF p

(***************************************************************************)
(* Applying a plan.                                                        *)
(***************************************************************************)

(* The row of an entry, there already or made by the run. *)
Ident(r, p, e) == CHOOSE i \in IdsOf(r, p, e) : TRUE

Writing(r, p) == p \in Plan /\ PlanSound(r, p) /\ stage[r] # "applied"

LEMMA IdFacts ==
  ASSUME NEW r \in Runs, NEW p, Writing(r, p), NEW e \in Dataset[r]
  PROVE  /\ IdsOf(r, p, e) = {Ident(r, p, e)}
         /\ Ident(r, p, e) \in Ids /\ Ident(r, p, e).kind = e.kind
         /\ e \in p.create => Ident(r, p, e) = CreatedId(r, e) /\ Ident(r, p, e).by = r
         /\ e \in p.create <=> ~Old(Ident(r, p, e))
         /\ e \notin p.create => \E f \in p.found : f[1] = e /\ f[2] = Ident(r, p, e)
         /\ Ident(r, p, e) \notin p.hide /\ Ident(r, p, e) \notin p.delete
         /\ \A f \in Dataset[r] : Ident(r, p, f) = Ident(r, p, e) => f = e
<1> DEFINE D == Dataset[r]
<1>1. p \in Plan /\ PlanSound(r, p) /\ stage[r] # "applied"
  BY DEF Writing
<1>2. ASSUME NEW x \in D, x \in p.create
      PROVE  /\ IdsOf(r, p, x) = {CreatedId(r, x)} /\ Ident(r, p, x) = CreatedId(r, x)
             /\ CreatedId(r, x) \in Ids /\ CreatedId(r, x).kind = x.kind /\ CreatedId(r, x).by = r
             /\ CreatedId(r, x).key = x.key /\ ~Old(CreatedId(r, x))
  <2>1. IdsOf(r, p, x) = {CreatedId(r, x)}
    BY <1>2 DEF IdsOf
  <2>2. Ident(r, p, x) = CreatedId(r, x)
    BY <2>1 DEF Ident
  <2>3. x \in Entry
    BY DatasetType
  <2>4. CreatedId(r, x) \in Ids /\ CreatedId(r, x).kind = x.kind /\ CreatedId(r, x).by = r
          /\ CreatedId(r, x).key = x.key
    BY <2>3, RunsAreMakers, KindFacts DEF CreatedId, Ids, Entry
  <2>5. ~Old(CreatedId(r, x))
    BY <1>1, <2>4 DEF Old
  <2>6. QED
    BY <2>1, <2>2, <2>4, <2>5
<1>3. ASSUME NEW x \in D, x \notin p.create
      PROVE  /\ IdsOf(r, p, x) = {Ident(r, p, x)} /\ (\E f \in p.found : f[1] = x /\ f[2] = Ident(r, p, x))
             /\ Ident(r, p, x) \in Ids /\ Ident(r, p, x).kind = x.kind /\ Old(Ident(r, p, x))
             /\ Ident(r, p, x) \notin p.hide /\ Ident(r, p, x) \notin p.delete
  <2>1. PICK f \in p.found : f[1] = x
    BY <1>1, <1>3 DEF PlanSound
  <2>2. \A g \in p.found : g \in Entry \X Ids /\ g = <<g[1], g[2]>>
    BY <1>1 DEF Plan
  <2>3. \A g \in p.found : g[1] = x => g[2] = f[2]
    BY <1>1, <2>1 DEF PlanSound
  <2>4. IdsOf(r, p, x) = {f[2]}
    BY <1>3, <2>1, <2>3 DEF IdsOf
  <2>5. Ident(r, p, x) = f[2]
    BY <2>4 DEF Ident
  <2>6. f[2] \in Ids /\ f = <<x, f[2]>>
    BY <2>1, <2>2
  <2>7. f[2].kind = x.kind /\ Old(f[2]) /\ f[2] \notin p.hide \union p.delete
    BY <1>1, <2>1 DEF PlanSound
  <2>8. QED
    BY <2>4, <2>5, <2>6, <2>7
<1>4. ASSUME NEW f \in D, Ident(r, p, f) = Ident(r, p, e)
      PROVE  f = e
  <2>1. CASE e \in p.create
    <3>1. f \in p.create
      BY <1>2, <1>3, <1>4, <2>1
    <3>2. f.kind = e.kind /\ f.key = e.key
      BY <1>2, <1>4, <2>1, <3>1
    <3>3. QED
      BY <1>1, <3>2 DEF PlanSound
  <2>2. CASE e \notin p.create
    <3>1. f \notin p.create
      BY <1>2, <1>3, <1>4, <2>2
    <3>2. \E g, h \in p.found : g[1] = e /\ h[1] = f /\ g[2] = h[2]
      BY <1>3, <1>4, <2>2, <3>1
    <3>3. QED
      BY <1>1, <3>2 DEF PlanSound
  <2>3. QED
    BY <2>1, <2>2
<1>5. \A i \in p.hide \union p.delete : Old(i)
  BY <1>1 DEF PlanSound
<1>6. CASE e \in p.create
  BY <1>2, <1>4, <1>5, <1>6
<1>7. CASE e \notin p.create
  BY <1>3, <1>4, <1>7
<1>8. QED
  BY <1>6, <1>7

(* The targets and the category of an entry are rows of other entries. *)
LEMMA ResolveFacts ==
  ASSUME NEW r \in Runs, NEW p, Writing(r, p)
  PROVE  /\ \A kind, key : Resolve(r, p, kind, key) =
                 {Ident(r, p, e) : e \in {x \in Dataset[r] : x.kind = kind /\ x.key = key}}
         /\ \A e \in Dataset[r] : Wanted(r, p, e) =
                 {Ident(r, p, f) : f \in {x \in Dataset[r] : x.kind = TargetKind(e.kind) /\ x.key \in e.links}}
         /\ \A e \in Dataset[r] :
              IF e.kind = "Article"
              THEN \E f \in Dataset[r] : /\ f.kind = "Category" /\ f.key = e.category
                                         /\ CategoryFor(r, p, e) = Ident(r, p, f)
              ELSE CategoryFor(r, p, e) = None
<1> DEFINE D == Dataset[r]
<1>1. p \in Plan /\ PlanSound(r, p)
  BY DEF Writing
<1>2. p.create \union {f[1] : f \in p.found} = D
  <2>1. p.create \subseteq D /\ \A f \in p.found : f[1] \in D
    BY <1>1 DEF PlanSound
  <2>2. \A e \in D \ p.create : \E f \in p.found : f[1] = e
    BY <1>1 DEF PlanSound
  <2>3. QED
    BY <2>1, <2>2
<1>3. ASSUME NEW kind, NEW key
      PROVE  Resolve(r, p, kind, key) = {Ident(r, p, e) : e \in {x \in D : x.kind = kind /\ x.key = key}}
  <2>1. Resolve(r, p, kind, key) = UNION {IdsOf(r, p, e) : e \in {x \in D : x.kind = kind /\ x.key = key}}
    BY <1>2 DEF Resolve
  <2>2. \A e \in D : IdsOf(r, p, e) = {Ident(r, p, e)}
    BY IdFacts
  <2>3. QED
    BY <2>1, <2>2
<1>4. ASSUME NEW e \in D
      PROVE  Wanted(r, p, e) =
               {Ident(r, p, f) : f \in {x \in D : x.kind = TargetKind(e.kind) /\ x.key \in e.links}}
  BY <1>3 DEF Wanted
<1>5. ASSUME NEW e \in D, e.kind = "Article"
      PROVE  \E f \in D : f.kind = "Category" /\ f.key = e.category /\ CategoryFor(r, p, e) = Ident(r, p, f)
  <2>1. \E f \in D : f.kind = "Category" /\ f.key = e.category
    BY <1>1, <1>5 DEF PlanSound, Unknown, Keys, Entries
  <2>2. CategoryFor(r, p, e) = CHOOSE c \in Resolve(r, p, "Category", e.category) : TRUE
    BY <1>5 DEF CategoryFor
  <2>3. CategoryFor(r, p, e) \in Resolve(r, p, "Category", e.category)
    BY <1>3, <2>1, <2>2
  <2>4. QED
    BY <1>3, <2>3
<1>6. \A e \in D : e.kind # "Article" => CategoryFor(r, p, e) = None
  BY DEF CategoryFor
<1>7. QED
  BY <1>3, <1>4, <1>5, <1>6

(* What the run writes has the types of the tables. *)
LEMMA WrittenRows ==
  ASSUME NEW r \in Runs, NEW p, Writing(r, p), NEW e \in Dataset[r]
  PROVE  /\ RowFor(r, p, e) \in Row /\ RowFits(Ident(r, p, e), RowFor(r, p, e))
         /\ e.kind # "SiteSettings" =>
              \A row \in Row : RowFits(Ident(r, p, e), row) =>
                /\ Governing(r, p, e, row) \in Row
                /\ RowFits(Ident(r, p, e), Governing(r, p, e, row))
         /\ Wanted(r, p, e) \subseteq Ids
         /\ e.links # {} \/ e \in p.relink => \A t \in Wanted(r, p, e) : LinkFits(<<Ident(r, p, e), t>>)
<1> DEFINE i == Ident(r, p, e)
           c == CategoryFor(r, p, e)
<1>1. i \in Ids /\ i.kind = e.kind
  BY IdFacts
<1>2. e \in Entry /\ e.kind \in Kinds
  BY DatasetType, KindFacts DEF Entry
<1>3. c \in Ids \union {None} /\ (c # None => e.kind = "Article" /\ c.kind = "Category")
  BY ResolveFacts, IdFacts
<1> HIDE DEF c, i
<1>4. RowFor(r, p, e) \in Row
  BY <1>2, <1>3 DEF RowFor, Row, Entry, c
<1>5. RowFits(i, RowFor(r, p, e))
  BY <1>1, <1>3 DEF RowFor, RowFits, c
<1>6. ASSUME e.kind # "SiteSettings", NEW row \in Row, RowFits(i, row)
      PROVE  Governing(r, p, e, row) \in Row /\ RowFits(i, Governing(r, p, e, row))
  <2>1. Governing(r, p, e, row) \in Row
    BY <1>2, <1>3 DEF Governing, Row, Entry, c
  <2>2. Governing(r, p, e, row).kind = row.kind /\ Governing(r, p, e, row).category = c
    BY DEF Governing, Row, c
  <2>3. RowFits(i, Governing(r, p, e, row))
    BY <1>1, <1>3, <1>6, <2>2 DEF RowFits
  <2>4. QED
    BY <2>1, <2>3
<1>7. \A t \in Wanted(r, p, e) : t \in Ids /\ t.kind = TargetKind(e.kind)
  BY ResolveFacts, IdFacts
<1>8. ASSUME e.links # {} \/ e \in p.relink
      PROVE  \A t \in Wanted(r, p, e) : LinkFits(<<i, t>>)
  <2>1. e.kind \in {"Experience", "Project", "Article"}
    BY <1>8, DatasetType DEF Writing, PlanSound
  <2>2. QED
    BY <1>1, <1>7, <2>1 DEF LinkFits, TargetKind
<1>9. QED
  BY <1>4, <1>5, <1>6, <1>7, <1>8 DEF i

(* From a to b the entries of these kinds have been created and updated. *)
Written(r, p, kinds, a, b) ==
  /\ DOMAIN b.rows = DOMAIN a.rows \union {Ident(r, p, e) : e \in {x \in p.create : x.kind \in kinds}}
  /\ \A e \in p.create : e.kind \in kinds => b.rows[Ident(r, p, e)] = RowFor(r, p, e)
  /\ \A e \in p.update : e.kind \in kinds /\ Ident(r, p, e) \in DOMAIN a.rows =>
       b.rows[Ident(r, p, e)] = Governing(r, p, e, a.rows[Ident(r, p, e)])
  /\ \A i \in DOMAIN a.rows :
       (\A e \in p.create \union p.update : e.kind \in kinds => i # Ident(r, p, e)) =>
         b.rows[i] = a.rows[i]
  /\ b.links = a.links \union
       UNION {{Ident(r, p, e)} \X Wanted(r, p, e) : e \in {x \in p.create : x.kind \in kinds}}

LEMMA PutFacts ==
  ASSUME NEW r \in Runs, NEW p, Writing(r, p), NEW kind, NEW db
  PROVE  Written(r, p, {kind}, db, Put(r, p, kind, db))
<1> DEFINE D == Dataset[r]
           made    == {e \in p.create : e.kind = kind}
           changed == {e \in p.update : e.kind = kind}
           ids     == {CreatedId(r, e) : e \in made}
           entry(i) == CHOOSE e \in made \union changed : i \in IdsOf(r, p, e)
           put == Put(r, p, kind, db)
<1>1. p.create \subseteq D /\ p.update \subseteq D /\ p.update \intersect p.create = {}
  BY DEF Writing, PlanSound
<1>2. \A e \in D : IdsOf(r, p, e) = {Ident(r, p, e)}
  BY IdFacts
<1>3. \A e \in made : CreatedId(r, e) = Ident(r, p, e)
  BY <1>1, IdFacts
<1>4. ids = {Ident(r, p, e) : e \in made}
  BY <1>3
<1>5. \A e, f \in D : Ident(r, p, e) = Ident(r, p, f) => e = f
  BY IdFacts
<1>6. ASSUME NEW e \in made \union changed
      PROVE  entry(Ident(r, p, e)) = e
  <2>1. e \in D /\ \A f \in made \union changed : Ident(r, p, e) \in IdsOf(r, p, f) <=> f = e
    BY <1>1, <1>2, <1>5
  <2>2. QED
    BY <2>1
<1>7. UNION {IdsOf(r, p, e) : e \in changed} = {Ident(r, p, e) : e \in changed}
  BY <1>1, <1>2
<1>8. \A e \in changed, f \in made : Ident(r, p, e) # Ident(r, p, f)
  BY <1>1, <1>5
<1>9. put.rows = [i \in DOMAIN db.rows \union ids |->
                    IF i \in ids THEN RowFor(r, p, entry(i))
                    ELSE IF i \in UNION {IdsOf(r, p, e) : e \in changed}
                    THEN Governing(r, p, entry(i), db.rows[i])
                    ELSE db.rows[i]]
  BY DEF Put
<1>10. put.links = db.links \union UNION {{CreatedId(r, e)} \X Wanted(r, p, e) : e \in made}
  BY DEF Put
<1>11. put.links = db.links \union UNION {{Ident(r, p, e)} \X Wanted(r, p, e) : e \in made}
  BY <1>3, <1>10
<1> HIDE DEF entry, put, ids
<1>12. DOMAIN put.rows = DOMAIN db.rows \union ids
  BY <1>9
<1>13. \A e \in made : put.rows[Ident(r, p, e)] = RowFor(r, p, e)
  BY <1>4, <1>6, <1>9
<1>14. \A e \in changed : Ident(r, p, e) \in DOMAIN db.rows =>
         put.rows[Ident(r, p, e)] = Governing(r, p, e, db.rows[Ident(r, p, e)])
  BY <1>4, <1>6, <1>7, <1>8, <1>9
<1>15. \A i \in DOMAIN db.rows : (\A e \in made \union changed : i # Ident(r, p, e)) => put.rows[i] = db.rows[i]
  BY <1>4, <1>7, <1>9
<1>16. {x \in p.create : x.kind \in {kind}} = made
  OBVIOUS
<1>17. QED
  BY <1>4, <1>11, <1>12, <1>13, <1>14, <1>15, <1>16 DEF Written, put

(* One table after the other. *)
LEMMA WrittenThen ==
  ASSUME NEW r \in Runs, NEW p, Writing(r, p), NEW kinds, NEW kind, kind \notin kinds,
         NEW a, NEW b, NEW c, \A e \in p.create : Ident(r, p, e) \notin DOMAIN a.rows,
         Written(r, p, kinds, a, b), Written(r, p, {kind}, b, c)
  PROVE  Written(r, p, kinds \union {kind}, a, c)
<1> DEFINE both == kinds \union {kind}
           made(ks) == {x \in p.create : x.kind \in ks}
<1>1. p.create \subseteq Dataset[r] /\ p.update \subseteq Dataset[r] /\ p.update \intersect p.create = {}
  BY DEF Writing, PlanSound
<1>2. \A e, f \in Dataset[r] : Ident(r, p, e) = Ident(r, p, f) => e = f
  BY IdFacts
<1>3. made(both) = made(kinds) \union made({kind})
  OBVIOUS
<1>4. DOMAIN c.rows = DOMAIN a.rows \union {Ident(r, p, e) : e \in made(both)}
  BY <1>3 DEF Written
<1>5. c.links = a.links \union UNION {{Ident(r, p, e)} \X Wanted(r, p, e) : e \in made(both)}
  <2> DEFINE hers(e) == {Ident(r, p, e)} \X Wanted(r, p, e)
  <2>1. b.links = a.links \union UNION {hers(e) : e \in made(kinds)}
    BY DEF Written
  <2>2. c.links = b.links \union UNION {hers(e) : e \in made({kind})}
    BY DEF Written
  <2> HIDE DEF hers, made
  <2>3. c.links = a.links \union UNION {hers(e) : e \in made(both)}
    BY <1>3, <2>1, <2>2
  <2>4. QED
    BY <2>3 DEF hers
<1>7. ASSUME NEW e \in p.create, e.kind \in both
      PROVE  c.rows[Ident(r, p, e)] = RowFor(r, p, e)
  <2>1. CASE e.kind = kind
    BY <2>1 DEF Written
  <2>2. CASE e.kind # kind
    <3>1. Ident(r, p, e) \in DOMAIN b.rows /\ b.rows[Ident(r, p, e)] = RowFor(r, p, e)
      BY <1>7, <2>2 DEF Written
    <3>2. \A f \in p.create \union p.update : f.kind \in {kind} => Ident(r, p, e) # Ident(r, p, f)
      BY <1>1, <1>2, <2>2
    <3>3. QED
      BY <3>1, <3>2 DEF Written
  <2>3. QED
    BY <2>1, <2>2
<1>8. ASSUME NEW e \in p.update, e.kind \in both, Ident(r, p, e) \in DOMAIN a.rows
      PROVE  c.rows[Ident(r, p, e)] = Governing(r, p, e, a.rows[Ident(r, p, e)])
  <2>1. Ident(r, p, e) \in DOMAIN b.rows
    BY <1>8 DEF Written
  <2>2. CASE e.kind = kind
    <3>1. \A f \in p.create \union p.update : f.kind \in kinds => Ident(r, p, e) # Ident(r, p, f)
      BY <1>1, <1>2, <2>2
    <3>2. b.rows[Ident(r, p, e)] = a.rows[Ident(r, p, e)]
      BY <1>8, <3>1 DEF Written
    <3>3. QED
      BY <2>1, <2>2, <3>2 DEF Written
  <2>3. CASE e.kind # kind
    <3>1. b.rows[Ident(r, p, e)] = Governing(r, p, e, a.rows[Ident(r, p, e)])
      BY <1>8, <2>3 DEF Written
    <3>2. \A f \in p.create \union p.update : f.kind \in {kind} => Ident(r, p, e) # Ident(r, p, f)
      BY <1>1, <1>2, <2>3
    <3>3. QED
      BY <2>1, <3>1, <3>2 DEF Written
  <2>4. QED
    BY <2>2, <2>3
<1>9. ASSUME NEW i \in DOMAIN a.rows,
             \A e \in p.create \union p.update : e.kind \in both => i # Ident(r, p, e)
      PROVE  c.rows[i] = a.rows[i]
  <2>1. i \in DOMAIN b.rows /\ b.rows[i] = a.rows[i]
    BY <1>9 DEF Written
  <2>2. QED
    BY <1>9, <2>1 DEF Written
<1>10. QED
  BY <1>4, <1>5, <1>7, <1>8, <1>9 DEF Written

(* A database whose rows no run of this behaviour is yet to make. *)
Settled(db) == WellFormed(db.rows, db.links) /\ \A i \in DOMAIN db.rows : Old(i)

Hiding(p, db) ==
  [rows  |-> [i \in DOMAIN db.rows |-> IF i \in p.hide THEN [db.rows[i] EXCEPT !.public = FALSE] ELSE db.rows[i]],
   links |-> db.links]

LEMMA PutSkillsFacts ==
  ASSUME NEW r \in Runs, NEW p, Writing(r, p), NEW db, Settled(db)
  PROVE  Written(r, p, {"Skill"}, Hiding(p, db), PutSkills(r, p, db))
<1> DEFINE put == Put(r, p, "Skill", db)
           a == Hiding(p, db)
           b == PutSkills(r, p, db)
<1>1. p.create \subseteq Dataset[r] /\ p.update \subseteq Dataset[r] /\ p.update \intersect p.create = {}
  BY DEF Writing, PlanSound
<1>2. Written(r, p, {"Skill"}, db, put)
  BY PutFacts
<1>3. /\ b.links = put.links /\ DOMAIN b.rows = DOMAIN put.rows
      /\ \A i \in DOMAIN put.rows : b.rows[i] = [put.rows[i] EXCEPT !.public = @ /\ i \notin p.hide]
  BY DEF PutSkills
<1>4. /\ a.links = db.links /\ DOMAIN a.rows = DOMAIN db.rows
      /\ \A i \in DOMAIN db.rows : a.rows[i] = IF i \in p.hide THEN [db.rows[i] EXCEPT !.public = FALSE] ELSE db.rows[i]
  BY DEF Hiding
<1>5. \A e \in p.create \union p.update : Ident(r, p, e) \notin p.hide
  BY <1>1, IdFacts
<1>6. \A row \in Row : [row EXCEPT !.public = @ /\ TRUE] = row /\ [row EXCEPT !.public = @ /\ FALSE] = [row EXCEPT !.public = FALSE]
  BY DEF Row
<1>7. \A i \in DOMAIN db.rows : db.rows[i] \in Row /\ RowFits(i, db.rows[i])
  BY DEF Settled, WellFormed
<1> HIDE DEF put, a, b
<1>8. ASSUME NEW e \in p.create, e.kind \in {"Skill"}
      PROVE  b.rows[Ident(r, p, e)] = RowFor(r, p, e)
  <2>1. put.rows[Ident(r, p, e)] = RowFor(r, p, e) /\ Ident(r, p, e) \in DOMAIN put.rows
    BY <1>2, <1>8 DEF Written
  <2>2. RowFor(r, p, e) \in Row /\ (Ident(r, p, e) \notin p.hide) = TRUE
    BY <1>1, <1>5, WrittenRows
  <2>3. QED
    BY <1>3, <1>6, <2>1, <2>2
<1>9. ASSUME NEW e \in p.update, e.kind \in {"Skill"}, Ident(r, p, e) \in DOMAIN a.rows
      PROVE  b.rows[Ident(r, p, e)] = Governing(r, p, e, a.rows[Ident(r, p, e)])
  <2> DEFINE i == Ident(r, p, e)
  <2>1. i \in DOMAIN db.rows /\ (i \notin p.hide) = TRUE /\ a.rows[i] = db.rows[i]
    BY <1>4, <1>5, <1>9
  <2>2. put.rows[i] = Governing(r, p, e, db.rows[i]) /\ i \in DOMAIN put.rows
    BY <1>2, <1>9, <2>1 DEF Written
  <2>3. Governing(r, p, e, db.rows[i]) \in Row
    BY <1>1, <1>7, <1>9, <2>1, WrittenRows
  <2>4. QED
    BY <1>3, <1>6, <2>1, <2>2, <2>3
<1>10. ASSUME NEW i \in DOMAIN a.rows,
              \A e \in p.create \union p.update : e.kind \in {"Skill"} => i # Ident(r, p, e)
       PROVE  b.rows[i] = a.rows[i]
  <2>1. i \in DOMAIN db.rows /\ put.rows[i] = db.rows[i] /\ i \in DOMAIN put.rows
    BY <1>2, <1>4, <1>10 DEF Written
  <2>2. CASE i \in p.hide
    <3>1. b.rows[i] = [db.rows[i] EXCEPT !.public = @ /\ i \notin p.hide]
      BY <1>3, <2>1
    <3>2. a.rows[i] = [db.rows[i] EXCEPT !.public = FALSE] /\ db.rows[i] \in Row
      BY <1>4, <1>7, <2>1, <2>2
    <3>3. QED
      BY <2>2, <3>1, <3>2 DEF Row
  <2>3. CASE i \notin p.hide
    <3>1. (i \notin p.hide) = TRUE
      BY <2>3
    <3>2. QED
      BY <1>3, <1>4, <1>6, <1>7, <2>1, <2>3, <3>1
  <2>4. QED
    BY <2>2, <2>3
<1>11. /\ DOMAIN b.rows = DOMAIN a.rows \union {Ident(r, p, e) : e \in {x \in p.create : x.kind \in {"Skill"}}}
       /\ b.links = a.links \union
            UNION {{Ident(r, p, e)} \X Wanted(r, p, e) : e \in {x \in p.create : x.kind \in {"Skill"}}}
  BY <1>2, <1>3, <1>4 DEF Written
<1>12. Written(r, p, {"Skill"}, a, b)
  BY <1>8, <1>9, <1>10, <1>11 DEF Written
<1>13. QED
  BY <1>12 DEF a, b

(* Everything but the stale categories and the settings. *)
Scalarless == Governed \ {"SiteSettings"}

Freed(p, db) == Hiding(p, Without(db, {i \in p.delete : i.kind # "Category"}))

LEMMA RewrittenFacts ==
  ASSUME NEW r \in Runs, NEW p, Writing(r, p), NEW db, Settled(db)
  PROVE  \E b : /\ Written(r, p, Scalarless, Freed(p, db), b)
                /\ Rewritten(r, p, db).rows = b.rows
                /\ Rewritten(r, p, db).links = (b.links \ Removed(r, p)) \union Added(r, p)
<1> DEFINE gone == {i \in p.delete : i.kind # "Category"}
           db0 == FreeStale(r, p, db)
           a   == Freed(p, db)
           b1  == PutSkills(r, p, db0)
           b2  == PutCategories(r, p, b1)
           b3  == PutTags(r, p, b2)
           b4  == PutExperiences(r, p, b3)
           b5  == PutProjects(r, p, b4)
           b6  == PutArticles(r, p, b5)
<1>1. Settled(db0)
  <2>1. /\ DOMAIN db0.rows = DOMAIN db.rows \ gone /\ \A i \in DOMAIN db0.rows : db0.rows[i] = db.rows[i]
        /\ db0.rows = [i \in DOMAIN db.rows \ gone |-> db.rows[i]]
        /\ db0.links \subseteq db.links
    BY DEF FreeStale, Without
  <2> HIDE DEF db0, gone
  <2>2. db0.rows \in [DOMAIN db0.rows -> Row]
    BY <2>1 DEF Settled, WellFormed
  <2>3. QED
    BY <2>1, <2>2 DEF Settled, WellFormed
<1>2. Written(r, p, {"Skill"}, a, b1)
  BY <1>1, PutSkillsFacts DEF Freed, FreeStale
<1>3. \A e \in p.create : Ident(r, p, e) \notin DOMAIN a.rows
  <2>1. DOMAIN a.rows = DOMAIN db0.rows
    BY DEF Freed, Hiding, FreeStale
  <2>2. \A e \in p.create : ~Old(Ident(r, p, e))
    BY IdFacts DEF Writing, PlanSound
  <2>3. QED
    BY <1>1, <2>1, <2>2 DEF Settled
<1> HIDE DEF a, b1
<1>4. Written(r, p, {"Skill"} \union {"Category"}, a, b2)
  BY <1>2, <1>3, PutFacts, WrittenThen DEF PutCategories
<1> HIDE DEF b2
<1>5. Written(r, p, ({"Skill"} \union {"Category"}) \union {"Tag"}, a, b3)
  <2>1. "Tag" \notin {"Skill"} \union {"Category"}
    OBVIOUS
  <2>2. QED
    BY <1>3, <1>4, <2>1, PutFacts, WrittenThen DEF PutTags
<1> HIDE DEF b3
<1> DEFINE k3 == ({"Skill"} \union {"Category"}) \union {"Tag"}
<1>6. Written(r, p, k3 \union {"Experience"}, a, b4)
  <2>1. "Experience" \notin k3
    OBVIOUS
  <2>2. QED
    BY <1>3, <1>5, <2>1, PutFacts, WrittenThen DEF PutExperiences
<1> HIDE DEF b4
<1>7. Written(r, p, (k3 \union {"Experience"}) \union {"Project"}, a, b5)
  <2>1. "Project" \notin k3 \union {"Experience"}
    OBVIOUS
  <2>2. QED
    BY <1>3, <1>6, <2>1, PutFacts, WrittenThen DEF PutProjects
<1> HIDE DEF b5
<1>8. Written(r, p, ((k3 \union {"Experience"}) \union {"Project"}) \union {"Article"}, a, b6)
  <2>1. "Article" \notin (k3 \union {"Experience"}) \union {"Project"}
    OBVIOUS
  <2>2. QED
    BY <1>3, <1>7, <2>1, PutFacts, WrittenThen DEF PutArticles
<1>9. ((k3 \union {"Experience"}) \union {"Project"}) \union {"Article"} = Scalarless
  BY KindFacts DEF Scalarless
<1>10. Rewritten(r, p, db) = Relate(r, p, b6)
  BY DEF Rewritten, b1, b2, b3, b4, b5
<1> HIDE DEF b6
<1>11. Relate(r, p, b6).rows = b6.rows /\ Relate(r, p, b6).links = (b6.links \ Removed(r, p)) \union Added(r, p)
  <2>1. b6 = Put(r, p, "Article", b5)
    BY DEF PutArticles, b6
  <2>2. QED
    BY <2>1 DEF Relate, Put
<1>12. QED
  BY <1>8, <1>9, <1>10, <1>11 DEF a

(* The links that no deleted row takes along. *)
Kept(p, ls) == {l \in ls : l[1] \notin p.delete /\ l[2] \notin p.delete}

LinksMade(r, p) == UNION {{Ident(r, p, e)} \X Wanted(r, p, e) : e \in p.create}

Scalars(p, e, row) ==
  [row EXCEPT !.body   = IF e \in p.update THEN e.body ELSE @,
              !.second = IF p.texts THEN e.second ELSE @]

IsSettings(e) == e.kind = "SiteSettings"

(* What a plan makes of a database. *)
Applied(r, p, db, new) ==
  LET D == Dataset[r]
  IN  /\ new.rows = [i \in DOMAIN new.rows |-> new.rows[i]]
      /\ DOMAIN new.rows = (DOMAIN db.rows \ p.delete) \union {Ident(r, p, e) : e \in p.create}
      /\ \A e \in p.create : new.rows[Ident(r, p, e)] = RowFor(r, p, e)
      /\ \A e \in p.update : ~IsSettings(e) /\ Ident(r, p, e) \in DOMAIN db.rows =>
           new.rows[Ident(r, p, e)] = Governing(r, p, e, db.rows[Ident(r, p, e)])
      /\ \A e \in D \ p.create : IsSettings(e) /\ Ident(r, p, e) \in DOMAIN db.rows =>
           new.rows[Ident(r, p, e)] = Scalars(p, e, db.rows[Ident(r, p, e)])
      /\ \A i \in p.hide \intersect DOMAIN db.rows : new.rows[i] = [db.rows[i] EXCEPT !.public = FALSE]
      /\ \A i \in DOMAIN db.rows \ (p.delete \union p.hide) :
           /\ \A e \in p.update : i # Ident(r, p, e)
           /\ \A e \in D \ p.create : IsSettings(e) => i # Ident(r, p, e)
           => new.rows[i] = db.rows[i]
      /\ new.links = ((Kept(p, db.links) \union LinksMade(r, p)) \ Removed(r, p)) \union Added(r, p)

LEMMA KeptFacts ==
  ASSUME NEW r \in Runs, NEW p, Writing(r, p), NEW db, Settled(db)
  PROVE  Freed(p, db).links = Kept(p, db.links)
<1>1. \A i \in p.delete : i.kind \in {"Category", "Tag", "Experience", "Project", "Article"}
  BY DEF Writing, PlanSound
<1>2. \A l \in db.links : LinkFits(l)
  BY DEF Settled, WellFormed
<1>3. Freed(p, db).links =
        {l \in db.links : l[1] \notin {i \in p.delete : i.kind # "Category"}
                         /\ (l[2] \notin {i \in p.delete : i.kind # "Category"} \/ l[2].kind # "Tag")}
  BY DEF Freed, Hiding, Without
<1>4. ASSUME NEW l \in db.links
      PROVE  /\ l[1] \notin {i \in p.delete : i.kind # "Category"}
             /\ (l[2] \notin {i \in p.delete : i.kind # "Category"} \/ l[2].kind # "Tag")
             <=> l[1] \notin p.delete /\ l[2] \notin p.delete
  BY <1>1, <1>2 DEF LinkFits
<1>5. QED
  BY <1>3, <1>4 DEF Kept

(* Whatever ends up linked may be. *)
LEMMA LinksFit ==
  ASSUME NEW r \in Runs, NEW p, Writing(r, p), NEW db, Settled(db)
  PROVE  \A l \in (Kept(p, db.links) \union LinksMade(r, p)) \union Added(r, p) :
           l \in Ids \X Ids /\ LinkFits(l)
<1>1. p.create \subseteq Dataset[r] /\ p.relink \subseteq Dataset[r]
  BY DEF Writing, PlanSound
<1>2. \A l \in Kept(p, db.links) : l \in Ids \X Ids /\ LinkFits(l)
  BY DEF Kept, Settled, WellFormed
<1>3. ASSUME NEW e \in Dataset[r], e.links # {} \/ e \in p.relink,
             NEW l \in {Ident(r, p, e)} \X Wanted(r, p, e)
      PROVE  l \in Ids \X Ids /\ LinkFits(l)
  <2>1. PICK t \in Wanted(r, p, e) : l = <<Ident(r, p, e), t>>
    BY <1>3
  <2>2. t \in Ids /\ LinkFits(<<Ident(r, p, e), t>>) /\ Ident(r, p, e) \in Ids
    BY <1>3, WrittenRows, IdFacts
  <2>3. QED
    BY <2>1, <2>2
<1>4. \A e \in Dataset[r] : e.links = {} => Wanted(r, p, e) = {}
  BY ResolveFacts
<1>5. ASSUME NEW l \in LinksMade(r, p)
      PROVE  l \in Ids \X Ids /\ LinkFits(l)
  <2>1. PICK e \in p.create : l \in {Ident(r, p, e)} \X Wanted(r, p, e)
    BY DEF LinksMade
  <2>2. e.links # {}
    BY <1>1, <1>4, <2>1
  <2>3. QED
    BY <1>1, <1>3, <2>1, <2>2
<1>6. ASSUME NEW l \in Added(r, p)
      PROVE  l \in Ids \X Ids /\ LinkFits(l)
  <2>1. PICK e \in p.relink : l \in IdsOf(r, p, e) \X Wanted(r, p, e)
    BY DEF Added
  <2>2. IdsOf(r, p, e) = {Ident(r, p, e)}
    BY <1>1, IdFacts
  <2>3. QED
    BY <1>1, <1>3, <2>1, <2>2
<1>7. QED
  BY <1>2, <1>5, <1>6

(* No settings are ever deleted, hidden or among the links. *)
LEMMA SettingsFacts ==
  ASSUME NEW r \in Runs, NEW p, Writing(r, p)
  PROVE  \E e \in Dataset[r] :
           /\ IsSettings(e) /\ \A f \in Dataset[r] : IsSettings(f) => f = e
           /\ (CHOOSE x \in p.create \union {f[1] : f \in p.found} : x.kind = "SiteSettings") = e
           /\ (CHOOSE i \in IdsOf(r, p, e) : TRUE) = Ident(r, p, e)
<1>1. PICK e \in Dataset[r] : {f \in Dataset[r] : f.kind = "SiteSettings"} = {e}
  BY DatasetType
<1>2. p.create \union {f[1] : f \in p.found} = Dataset[r]
  <2>1. p.create \subseteq Dataset[r] /\ \A f \in p.found : f[1] \in Dataset[r]
    BY DEF Writing, PlanSound
  <2>2. \A x \in Dataset[r] \ p.create : \E f \in p.found : f[1] = x
    BY DEF Writing, PlanSound
  <2>3. QED
    BY <2>1, <2>2
<1>3. \A x \in Dataset[r] : x.kind = "SiteSettings" <=> x = e
  BY <1>1
<1>4. (CHOOSE x \in p.create \union {f[1] : f \in p.found} : x.kind = "SiteSettings") = e
  BY <1>2, <1>3
<1>5. QED
  BY <1>3, <1>4 DEF IsSettings, Ident

LEMMA ResultFacts ==
  ASSUME NEW r \in Runs, NEW p, Writing(r, p), NEW db, Settled(db)
  PROVE  /\ Applied(r, p, db, Result(r, p, db))
         /\ \A i \in DOMAIN Result(r, p, db).rows : i.kind # "SiteSettings" =>
              /\ i \in DOMAIN Rewritten(r, p, db).rows
              /\ Result(r, p, db).rows[i] = Rewritten(r, p, db).rows[i]
         /\ Rewritten(r, p, db).links = Result(r, p, db).links
         /\ \A i \in DOMAIN Rewritten(r, p, db).rows :
              \/ i \in DOMAIN Result(r, p, db).rows
              \/ i \in p.delete /\ i.kind = "Category"
         /\ \A i \in DOMAIN Rewritten(r, p, db).rows :
              i \in p.delete \/ i.kind = "SiteSettings" =>
                i \in DOMAIN db.rows /\ Rewritten(r, p, db).rows[i] = db.rows[i]
<1> DEFINE D    == Dataset[r]
           gone == {i \in p.delete : i.kind # "Category"}
           cats == {i \in p.delete : i.kind = "Category"}
           I(e) == Ident(r, p, e)
           put  == Rewritten(r, p, db)
           drop == DropCategories(r, p, put)
           new  == Result(r, p, db)
<1>1. PICK b : /\ Written(r, p, Scalarless, Freed(p, db), b)
               /\ put.rows = b.rows
               /\ put.links = (b.links \ Removed(r, p)) \union Added(r, p)
  BY RewrittenFacts
<1>2. PICK e0 \in D :
        /\ IsSettings(e0) /\ \A f \in D : IsSettings(f) => f = e0
        /\ (CHOOSE x \in p.create \union {f[1] : f \in p.found} : x.kind = "SiteSettings") = e0
        /\ (CHOOSE i \in IdsOf(r, p, e0) : TRUE) = I(e0)
  BY SettingsFacts
<1>3. /\ p.create \subseteq D /\ p.update \subseteq D /\ p.update \intersect p.create = {}
      /\ \A i \in p.hide : i.kind = "Skill"
      /\ \A i \in p.delete : i.kind \in {"Category", "Tag", "Experience", "Project", "Article"}
  BY DEF Writing, PlanSound
<1>4. \A e \in D : e.kind \in Scalarless <=> ~IsSettings(e)
  BY DatasetType DEF Scalarless, IsSettings, Entry
<1>5. \A e \in D : I(e) \notin p.hide /\ I(e) \notin p.delete /\ (e \in p.create <=> ~Old(I(e)))
  BY IdFacts
<1>6. \A e, f \in D : I(e) = I(f) => e = f
  BY IdFacts
<1>7. \A i \in DOMAIN db.rows : Old(i)
  BY DEF Settled
<1>8. /\ DOMAIN Freed(p, db).rows = DOMAIN db.rows \ gone
      /\ \A i \in DOMAIN db.rows \ gone : Freed(p, db).rows[i] =
           IF i \in p.hide THEN [db.rows[i] EXCEPT !.public = FALSE] ELSE db.rows[i]
  BY DEF Freed, Hiding, Without
<1>9. Freed(p, db).links = Kept(p, db.links)
  BY KeptFacts
<1> HIDE DEF put, I
<1>10. /\ DOMAIN put.rows = (DOMAIN db.rows \ gone) \union {I(e) : e \in {x \in p.create : ~IsSettings(x)}}
       /\ \A e \in p.create : ~IsSettings(e) => put.rows[I(e)] = RowFor(r, p, e)
       /\ \A e \in p.update : ~IsSettings(e) /\ I(e) \in DOMAIN db.rows =>
            put.rows[I(e)] = Governing(r, p, e, db.rows[I(e)])
       /\ \A i \in DOMAIN db.rows \ gone : (\A e \in p.update : ~IsSettings(e) => i # I(e)) =>
            put.rows[i] = IF i \in p.hide THEN [db.rows[i] EXCEPT !.public = FALSE] ELSE db.rows[i]
  <2>1. {x \in p.create : x.kind \in Scalarless} = {x \in p.create : ~IsSettings(x)}
    BY <1>3, <1>4
  <2>2. DOMAIN put.rows = (DOMAIN db.rows \ gone) \union {I(e) : e \in {x \in p.create : ~IsSettings(x)}}
    BY <1>1, <1>8, <2>1 DEF Written, I
  <2>3. \A e \in p.create : ~IsSettings(e) => put.rows[I(e)] = RowFor(r, p, e)
    BY <1>1, <1>3, <1>4 DEF Written, I
  <2>4. ASSUME NEW e \in p.update, ~IsSettings(e), I(e) \in DOMAIN db.rows
        PROVE  put.rows[I(e)] = Governing(r, p, e, db.rows[I(e)])
    <3>1. I(e) \in DOMAIN Freed(p, db).rows /\ Freed(p, db).rows[I(e)] = db.rows[I(e)]
      BY <1>3, <1>5, <1>8, <2>4
    <3>2. b.rows[I(e)] = Governing(r, p, e, Freed(p, db).rows[I(e)])
      BY <1>1, <1>3, <1>4, <2>4, <3>1 DEF Written, I
    <3>3. QED
      BY <1>1, <3>1, <3>2
  <2>5. ASSUME NEW i \in DOMAIN db.rows \ gone, \A e \in p.update : ~IsSettings(e) => i # I(e)
        PROVE  put.rows[i] = IF i \in p.hide THEN [db.rows[i] EXCEPT !.public = FALSE] ELSE db.rows[i]
    <3>1. \A e \in p.create \union p.update : e.kind \in Scalarless => i # I(e)
      BY <1>3, <1>4, <1>5, <1>7, <2>5
    <3>2. b.rows[i] = Freed(p, db).rows[i]
      BY <1>1, <1>8, <3>1 DEF Written, I
    <3>3. QED
      BY <1>1, <1>8, <3>2
  <2>6. QED
    BY <2>2, <2>3, <2>4, <2>5
<1>11. put.links = ((Kept(p, db.links) \union LinksMade(r, p)) \ Removed(r, p)) \union Added(r, p)
  <2>1. \A e \in D : e.links = {} => Wanted(r, p, e) = {}
    BY ResolveFacts
  <2>2. UNION {{Ident(r, p, e)} \X Wanted(r, p, e) : e \in {x \in p.create : x.kind \in Scalarless}} = LinksMade(r, p)
    <3> DEFINE hers(e) == {Ident(r, p, e)} \X Wanted(r, p, e)
    <3>1. \A e \in p.create : e.kind \notin Scalarless => hers(e) = {}
      BY <1>3, <1>4, <2>1, DatasetType DEF IsSettings
    <3>2. LinksMade(r, p) = UNION {hers(e) : e \in p.create}
      BY DEF LinksMade
    <3> HIDE DEF hers
    <3>3. UNION {hers(e) : e \in {x \in p.create : x.kind \in Scalarless}} = UNION {hers(e) : e \in p.create}
      BY <3>1
    <3>4. QED
      BY <3>2, <3>3 DEF hers
  <2>3. b.links = Kept(p, db.links) \union LinksMade(r, p)
    BY <1>1, <1>9, <2>2 DEF Written
  <2>4. QED
    BY <1>1, <2>3
<1>12. /\ DOMAIN drop.rows = DOMAIN put.rows \ cats /\ \A i \in DOMAIN drop.rows : drop.rows[i] = put.rows[i]
       /\ drop.links = put.links
  <2>1. DOMAIN drop.rows = DOMAIN put.rows \ cats /\ \A i \in DOMAIN drop.rows : drop.rows[i] = put.rows[i]
    BY DEF DropCategories, Without
  <2>2. drop.links = {l \in put.links : l[1] \notin cats /\ (l[2] \notin cats \/ l[2].kind # "Tag")}
    BY DEF DropCategories, Without
  <2>3. \A l \in put.links : LinkFits(l)
    BY <1>11, LinksFit
  <2>4. \A l \in put.links : l[1] \notin cats /\ (l[2] \notin cats \/ l[2].kind # "Tag")
    BY <2>3 DEF LinkFits
  <2>5. QED
    BY <2>1, <2>2, <2>4
<1> DEFINE s == I(e0)
<1>13. /\ new.links = drop.links
       /\ e0 \in p.create => new.rows = With(drop.rows, s, RowFor(r, p, e0))
       /\ e0 \notin p.create => new.rows =
            [drop.rows EXCEPT ![s].body   = IF e0 \in p.update THEN e0.body ELSE @,
                              ![s].second = IF p.texts THEN e0.second ELSE @]
  <2>1. new = PutSettings(r, p, drop)
    BY DEF Result, put
  <2> DEFINE e1 == CHOOSE x \in p.create \union {f[1] : f \in p.found} : x.kind = "SiteSettings"
             s1 == CHOOSE i \in IdsOf(r, p, e1) : TRUE
             upserted(e, i) == IF e \in p.create THEN With(drop.rows, i, RowFor(r, p, e))
                               ELSE [drop.rows EXCEPT ![i].body   = IF e \in p.update THEN e.body ELSE @,
                                                      ![i].second = IF p.texts THEN e.second ELSE @]
  <2>2. PutSettings(r, p, drop) = [rows |-> upserted(e1, s1), links |-> drop.links]
    BY DEF PutSettings
  <2>3. e1 = e0 /\ s1 = s
    BY <1>2
  <2> HIDE DEF drop, new, s, e1, s1
  <2>4. upserted(e1, s1) = upserted(e0, s)
    BY <2>3
  <2> HIDE DEF upserted
  <2>5. new.rows = upserted(e0, s) /\ new.links = drop.links
    BY <2>1, <2>2, <2>4
  <2>6. QED
    BY <2>5 DEF upserted
<1> HIDE DEF drop, new, s, gone, cats
<1>14. /\ DOMAIN drop.rows = (DOMAIN db.rows \ p.delete) \union {I(e) : e \in {x \in p.create : ~IsSettings(x)}}
       /\ \A i \in DOMAIN drop.rows : drop.rows[i] = put.rows[i]
  <2>1. gone \union cats = p.delete
    BY DEF gone, cats
  <2>2. \A e \in p.create : I(e) \notin cats
    BY <1>3, <1>5 DEF cats
  <2>3. QED
    BY <1>10, <1>12, <2>1, <2>2
<1>15. s \notin p.delete /\ \A e \in D : ~IsSettings(e) => I(e) # s
  BY <1>2, <1>5, <1>6 DEF s
<1>16. /\ new.rows = [i \in DOMAIN new.rows |-> new.rows[i]]
       /\ DOMAIN new.rows = DOMAIN drop.rows \union (IF e0 \in p.create THEN {s} ELSE {})
       /\ \A i \in DOMAIN drop.rows : i # s => new.rows[i] = drop.rows[i]
       /\ e0 \in p.create => new.rows[s] = RowFor(r, p, e0)
       /\ e0 \notin p.create /\ s \in DOMAIN drop.rows => new.rows[s] = Scalars(p, e0, drop.rows[s])
  <2>1. CASE e0 \in p.create
    <3>1. new.rows = With(drop.rows, s, RowFor(r, p, e0))
      BY <1>13, <2>1
    <3>2. QED
      BY <2>1, <3>1 DEF With
  <2>2. CASE e0 \notin p.create
    <3> DEFINE x == IF e0 \in p.update THEN e0.body ELSE drop.rows[s].body
               y == IF p.texts THEN e0.second ELSE drop.rows[s].second
    <3>1. new.rows = [drop.rows EXCEPT ![s] = Scalars(p, e0, drop.rows[s])]
      BY <1>13, <2>2 DEF Scalars
    <3>2. drop.rows = [i \in DOMAIN drop.rows |-> drop.rows[i]]
      BY DEF drop, DropCategories, Without
    <3>3. QED
      BY <2>2, <3>1, <3>2
  <2>3. QED
    BY <2>1, <2>2
<1>17. DOMAIN new.rows = (DOMAIN db.rows \ p.delete) \union {I(e) : e \in p.create}
  BY <1>2, <1>3, <1>14, <1>16 DEF s
<1>18. \A e \in p.create : new.rows[I(e)] = RowFor(r, p, e)
  BY <1>2, <1>3, <1>10, <1>14, <1>15, <1>16 DEF s
<1>19. ASSUME NEW e \in p.update, ~IsSettings(e), I(e) \in DOMAIN db.rows
       PROVE  new.rows[I(e)] = Governing(r, p, e, db.rows[I(e)])
  BY <1>3, <1>5, <1>10, <1>14, <1>15, <1>16, <1>19
<1>20. ASSUME NEW e \in D \ p.create, IsSettings(e), I(e) \in DOMAIN db.rows
       PROVE  new.rows[I(e)] = Scalars(p, e, db.rows[I(e)])
  <2>1. e = e0 /\ s = I(e)
    BY <1>2, <1>20 DEF s
  <2>2. s \in DOMAIN drop.rows /\ s \notin gone /\ s \notin p.hide
    BY <1>5, <1>14, <1>15, <1>20, <2>1 DEF gone
  <2>3. drop.rows[s] = put.rows[s] /\ put.rows[s] = db.rows[s]
    BY <1>3, <1>10, <1>14, <1>15, <1>20, <2>1, <2>2
  <2>4. QED
    BY <1>16, <1>20, <2>1, <2>2, <2>3
<1>21. ASSUME NEW i \in p.hide \intersect DOMAIN db.rows
       PROVE  new.rows[i] = [db.rows[i] EXCEPT !.public = FALSE]
  <2>1. i \notin p.delete /\ i \notin gone
    BY <1>3, <1>21 DEF gone
  <2>2. \A e \in D : i # I(e)
    BY <1>5, <1>21
  <2>3. QED
    BY <1>2, <1>3, <1>10, <1>14, <1>16, <2>1, <2>2 DEF s
<1>22. ASSUME NEW i \in DOMAIN db.rows \ (p.delete \union p.hide),
              \A e \in p.update : i # I(e), \A e \in D \ p.create : IsSettings(e) => i # I(e)
       PROVE  new.rows[i] = db.rows[i]
  <2>1. i \notin gone
    BY <1>22 DEF gone
  <2>2. i # s
    BY <1>2, <1>5, <1>7, <1>22 DEF s
  <2>3. QED
    BY <1>10, <1>14, <1>16, <1>22, <2>1, <2>2
<1>23. Applied(r, p, db, new)
  BY <1>11, <1>12, <1>13, <1>16, <1>17, <1>18, <1>19, <1>20, <1>21, <1>22 DEF Applied, I
<1>24. \A i \in DOMAIN new.rows : i.kind # "SiteSettings" => i \in DOMAIN put.rows /\ new.rows[i] = put.rows[i]
  <2>1. s.kind = "SiteSettings"
    BY <1>2, IdFacts DEF s, I, IsSettings
  <2>2. QED
    BY <1>12, <1>14, <1>16, <2>1
<1>25. put.links = new.links
  BY <1>12, <1>13
<1>26. ASSUME NEW i \in DOMAIN put.rows
       PROVE  i \in DOMAIN new.rows \/ (i \in p.delete /\ i.kind = "Category")
  <2>1. CASE i \in {I(e) : e \in {x \in p.create : ~IsSettings(x)}}
    BY <1>17, <2>1
  <2>2. CASE i \in DOMAIN db.rows \ gone
    BY <1>17, <2>2 DEF gone
  <2>3. QED
    BY <1>10, <1>26, <2>1, <2>2
<1>27. ASSUME NEW i \in DOMAIN put.rows, i \in p.delete \/ i.kind = "SiteSettings"
       PROVE  i \in DOMAIN db.rows /\ put.rows[i] = db.rows[i]
  <2>1. \A e \in D : ~IsSettings(e) => I(e) # i
    BY <1>5, <1>27, IdFacts DEF I, IsSettings
  <2>2. i \in DOMAIN db.rows \ gone
    BY <1>3, <1>10, <1>27, <2>1
  <2>3. i \notin p.hide
    BY <1>3, <1>27
  <2>4. QED
    BY <1>3, <1>10, <2>1, <2>2, <2>3
<1>28. QED
  BY <1>23, <1>24, <1>25, <1>26, <1>27 DEF new, put

(* Where a row of the outcome comes from. *)
LEMMA RowCases ==
  ASSUME NEW r \in Runs, NEW p, Writing(r, p), NEW db, Settled(db), NEW new, Applied(r, p, db, new),
         NEW i \in DOMAIN new.rows
  PROVE  \/ /\ i \notin DOMAIN db.rows
            /\ \E e \in p.create : i = Ident(r, p, e) /\ new.rows[i] = RowFor(r, p, e)
         \/ /\ i \in DOMAIN db.rows /\ i \notin p.delete
            /\ \/ \E e \in p.update : /\ i = Ident(r, p, e) /\ ~IsSettings(e) /\ i \notin p.hide
                                      /\ new.rows[i] = Governing(r, p, e, db.rows[i])
               \/ \E e \in Dataset[r] \ p.create : /\ i = Ident(r, p, e) /\ IsSettings(e) /\ i \notin p.hide
                                                   /\ new.rows[i] = Scalars(p, e, db.rows[i])
               \/ i \in p.hide /\ new.rows[i] = [db.rows[i] EXCEPT !.public = FALSE]
               \/ i \notin p.hide /\ new.rows[i] = db.rows[i]
<1> DEFINE D == Dataset[r]
           I(e) == Ident(r, p, e)
<1>1. p.create \subseteq D /\ p.update \subseteq D /\ p.update \intersect p.create = {}
  BY DEF Writing, PlanSound
<1>2. \A e \in D : I(e) \notin p.hide /\ I(e) \notin p.delete /\ (e \in p.create <=> ~Old(I(e)))
  BY IdFacts
<1>3. \A j \in DOMAIN db.rows : Old(j)
  BY DEF Settled
<1>4. i \in (DOMAIN db.rows \ p.delete) \union {I(e) : e \in p.create}
  BY DEF Applied
<1> HIDE DEF I
<1>5. CASE \E e \in p.create : i = I(e)
  <2>1. PICK e \in p.create : i = I(e)
    BY <1>5
  <2>2. new.rows[i] = RowFor(r, p, e)
    BY <2>1 DEF Applied, I
  <2>3. i \notin DOMAIN db.rows
    BY <1>1, <1>2, <1>3, <2>1
  <2>4. QED
    BY <2>1, <2>2, <2>3 DEF I
<1>6. CASE ~\E e \in p.create : i = I(e)
  <2>1. i \in DOMAIN db.rows /\ i \notin p.delete
    BY <1>4, <1>6
  <2>2. CASE \E e \in p.update : i = I(e) /\ ~IsSettings(e)
    <3>1. PICK e \in p.update : i = I(e) /\ ~IsSettings(e)
      BY <2>2
    <3>2. new.rows[i] = Governing(r, p, e, db.rows[i]) /\ i \notin p.hide
      BY <1>1, <1>2, <2>1, <3>1 DEF Applied, I
    <3>3. QED
      BY <2>1, <3>1, <3>2 DEF I
  <2>3. CASE \E e \in D \ p.create : i = I(e) /\ IsSettings(e)
    <3>1. PICK e \in D \ p.create : i = I(e) /\ IsSettings(e)
      BY <2>3
    <3>2. new.rows[i] = Scalars(p, e, db.rows[i]) /\ i \notin p.hide
      BY <1>2, <2>1, <3>1 DEF Applied, I
    <3>3. QED
      BY <2>1, <3>1, <3>2 DEF I
  <2>4. CASE i \in p.hide
    <3>1. new.rows[i] = [db.rows[i] EXCEPT !.public = FALSE]
      BY <2>1, <2>4 DEF Applied
    <3>2. QED
      BY <2>1, <2>4, <3>1
  <2>5. CASE /\ ~\E e \in p.update : i = I(e) /\ ~IsSettings(e)
             /\ ~\E e \in D \ p.create : i = I(e) /\ IsSettings(e)
             /\ i \notin p.hide
    <3>1. /\ \A e \in p.update : i # I(e)
          /\ \A e \in D \ p.create : IsSettings(e) => i # I(e)
      BY <1>1, <2>5
    <3>2. new.rows[i] = db.rows[i]
      BY <2>1, <2>5, <3>1 DEF Applied, I
    <3>3. QED
      BY <2>1, <2>5, <3>2
  <2>6. QED
    BY <2>2, <2>3, <2>4, <2>5
<1>7. QED
  BY <1>5, <1>6

(* The outcome has the types of the tables. *)
LEMMA AppliedTyped ==
  ASSUME NEW r \in Runs, NEW p, Writing(r, p), NEW db, Settled(db), NEW new, Applied(r, p, db, new)
  PROVE  WellFormed(new.rows, new.links)
<1>1. p.create \subseteq Dataset[r] /\ p.update \subseteq Dataset[r]
  BY DEF Writing, PlanSound
<1>2. \A i \in DOMAIN db.rows : i \in Ids /\ db.rows[i] \in Row /\ RowFits(i, db.rows[i])
  BY DEF Settled, WellFormed
<1>3. ASSUME NEW i \in DOMAIN new.rows
      PROVE  i \in Ids /\ new.rows[i] \in Row /\ RowFits(i, new.rows[i])
  <2>1. CASE \E e \in p.create : i = Ident(r, p, e) /\ new.rows[i] = RowFor(r, p, e)
    BY <1>1, <2>1, IdFacts, WrittenRows
  <2>2. CASE i \in DOMAIN db.rows /\ \E e \in p.update : /\ i = Ident(r, p, e) /\ ~IsSettings(e)
                                                         /\ new.rows[i] = Governing(r, p, e, db.rows[i])
    BY <1>1, <1>2, <2>2, WrittenRows DEF IsSettings
  <2>3. CASE i \in DOMAIN db.rows /\ \E e \in Dataset[r] \ p.create : new.rows[i] = Scalars(p, e, db.rows[i])
    <3>1. PICK e \in Dataset[r] \ p.create : new.rows[i] = Scalars(p, e, db.rows[i])
      BY <2>3
    <3>2. e.body \in Bodies /\ e.second \in Names
      BY DatasetType DEF Entry
    <3>3. db.rows[i] \in Row /\ RowFits(i, db.rows[i])
      BY <1>2, <2>3
    <3>4. QED
      BY <1>2, <2>3, <3>1, <3>2, <3>3 DEF Scalars, Row, RowFits
  <2>4. CASE i \in DOMAIN db.rows /\ new.rows[i] = [db.rows[i] EXCEPT !.public = FALSE]
    <3>1. \A row \in Row : /\ [row EXCEPT !.public = FALSE] \in Row
                           /\ RowFits(i, row) => RowFits(i, [row EXCEPT !.public = FALSE])
      BY DEF Row, RowFits
    <3>2. QED
      BY <1>2, <2>4, <3>1
  <2>5. CASE i \in DOMAIN db.rows /\ new.rows[i] = db.rows[i]
    BY <1>2, <2>5
  <2>6. QED
    BY <2>1, <2>2, <2>3, <2>4, <2>5, RowCases
<1>4. new.rows \in [DOMAIN new.rows -> Row]
  <2>1. new.rows = [i \in DOMAIN new.rows |-> new.rows[i]]
    BY DEF Applied
  <2>2. QED
    BY <1>3, <2>1
<1>5. \A l \in new.links : l \in Ids \X Ids /\ LinkFits(l)
  <2>1. \A l \in (Kept(p, db.links) \union LinksMade(r, p)) \union Added(r, p) : l \in Ids \X Ids /\ LinkFits(l)
    BY LinksFit
  <2>2. new.links \subseteq (Kept(p, db.links) \union LinksMade(r, p)) \union Added(r, p)
    BY DEF Applied
  <2>3. QED
    BY <2>1, <2>2
<1>6. QED
  BY <1>3, <1>4, <1>5 DEF WellFormed

(* What a commit has found and what it leaves. *)
LEMMA CommitFacts ==
  ASSUME SafeInv, NEW r \in Runs, Commit(r)
  PROVE  /\ Writing(r, plan[r]) /\ Settled(Database)
         /\ Database.rows = rows /\ Database.links = links
         /\ WellFormed(base[r].rows, base[r].links)
         /\ Applied(r, plan[r], Database, [rows |-> rows', links |-> links'])
         /\ Named(plan[r]) \subseteq DOMAIN base[r].rows /\ ~Conflicted(r, plan[r])
         /\ links \intersect Added(r, plan[r]) = {}
         /\ Unique(rows') /\ Referenced(rows', links')
         /\ stage' = [stage EXCEPT ![r] = "applied"] /\ stage[r] = "open" /\ stage'[r] = "applied"
         /\ patches' = patches /\ spent' = spent
         /\ wrote' = Touched(r, plan[r]) \union LinkParts(Added(r, plan[r]) \union (links \ links'))
                       \union UNION {{CreatedId(r, e)} \X {"row", "texts"} : e \in plan[r].create}
<1> DEFINE p   == plan[r]
           new == Result(r, p, Database)
           put == Rewritten(r, p, Database)
<1>1. /\ stage[r] = "open" /\ Possible(r, p)
      /\ rows' = new.rows /\ links' = new.links
      /\ stage' = [stage EXCEPT ![r] = "applied"] /\ patches' = patches /\ spent' = spent
      /\ wrote' = Touched(r, p) \union LinkParts(Added(r, p) \union (links \ links'))
                    \union UNION {{CreatedId(r, e)} \X {"row", "texts"} : e \in p.create}
  BY DEF Commit, Close
<1>2. stage \in [Runs -> {"new", "planned", "open"} \union {Tables[n] : n \in 2 .. 7} \union Outcomes]
  BY DEF SafeInv, TypeOK
<1>3. p \in Plan /\ PlanSound(r, p) /\ WellFormed(base[r].rows, base[r].links)
  BY <1>1 DEF SafeInv, TypeOK, PlanOK
<1>4. Writing(r, p)
  BY <1>1, <1>3 DEF Writing
<1>5. Database.rows = rows /\ Database.links = links
  BY DEF Database
<1>6. Settled(Database)
  BY <1>5 DEF SafeInv, TypeOK, CatalogueTypeOK, StoreOK, Settled
<1>7. /\ Named(p) \subseteq DOMAIN base[r].rows /\ ~Conflicted(r, p) /\ links \intersect Added(r, p) = {}
      /\ Unique(put.rows) /\ Referenced(new.rows, new.links)
  BY <1>1 DEF Possible
<1>8. /\ Applied(r, p, Database, new)
      /\ \A i \in DOMAIN new.rows : i.kind # "SiteSettings" => i \in DOMAIN put.rows /\ new.rows[i] = put.rows[i]
  BY <1>4, <1>6, ResultFacts
<1> HIDE DEF new, put, p
<1>9. WellFormed(new.rows, new.links)
  BY <1>4, <1>6, <1>8, AppliedTyped
<1>10. Unique(new.rows)
  <2>1. \A i \in DOMAIN new.rows : new.rows[i].kind = i.kind
    BY <1>9 DEF WellFormed, RowFits
  <2>2. ASSUME NEW i \in DOMAIN new.rows, NEW j \in DOMAIN new.rows, Clash(new.rows, i, j)
        PROVE  FALSE
    <3>1. i.kind # "SiteSettings" /\ j.kind # "SiteSettings"
      BY <2>1, <2>2, KindFacts DEF Clash
    <3>2. Clash(put.rows, i, j)
      BY <1>8, <2>2, <3>1 DEF Clash
    <3>3. QED
      BY <1>7, <1>8, <3>1, <3>2 DEF Unique
  <2>3. QED
    BY <2>2 DEF Unique
<1>11. Applied(r, p, Database, [rows |-> rows', links |-> links'])
  BY <1>1, <1>8 DEF Applied
<1>12. stage'[r] = "applied"
  BY <1>1, <1>2
<1>13. QED
  BY <1>1, <1>3, <1>4, <1>5, <1>6, <1>7, <1>10, <1>11, <1>12 DEF p

(* What a run's report covers. *)
LEMMA TouchedFacts ==
  ASSUME NEW r \in Runs, NEW p, Writing(r, p), WellFormed(base[r].rows, base[r].links)
  PROVE  /\ Touched(r, p) \subseteq Parts
         /\ \A e \in p.update :
              /\ e.kind \in {"Category", "Tag"} => <<Ident(r, p, e), "texts">> \in Touched(r, p)
              /\ IsSettings(e) => <<Ident(r, p, e), "row">> \in Touched(r, p)
              /\ e.kind \notin {"Category", "Tag", "SiteSettings"} =>
                   <<Ident(r, p, e), "row">> \in Touched(r, p) /\ <<Ident(r, p, e), "texts">> \in Touched(r, p)
         /\ \A i \in p.hide : <<i, "row">> \in Touched(r, p)
         /\ \A i \in p.delete : <<i, "row">> \in Touched(r, p) /\ <<i, "texts">> \in Touched(r, p)
         /\ p.texts => \A e \in Dataset[r] \ p.create :
              IsSettings(e) => <<Ident(r, p, e), "texts">> \in Touched(r, p)
         /\ \A l \in Removed(r, p) :
              l[1] \notin p.delete /\ l[2] \notin p.delete => <<l[1], "link", l[2]>> \in Touched(r, p)
         /\ \A i : i.kind \in {"Category", "Tag"} /\ <<i, "row">> \in Touched(r, p) => i \in p.delete
<1> DEFINE D == Dataset[r]
           own == Ids \X {"row", "texts"}
           t1 == UNION {IdsOf(r, p, e) \X PartsOf(e) : e \in p.update}
           t2 == p.hide \X {"row"}
           t3 == p.delete \X {"row", "texts"}
           t4 == {<<f[2], "texts">> : f \in {x \in p.found : p.texts /\ x[1].kind = "SiteSettings"}}
           ls == {l \in Removed(r, p) : l[1] \notin p.delete /\ l[2] \notin p.delete}
           t5 == LinkParts(ls)
<1>1. Touched(r, p) = t1 \union t2 \union t3 \union t4 \union t5
  BY DEF Touched
<1>2. /\ p \in Plan /\ p.create \subseteq D /\ p.update \subseteq D
      /\ \A f \in p.found : f[1] \in D /\ f[2].kind = f[1].kind
      /\ \A i \in p.hide : i.kind = "Skill"
  BY DEF Writing, PlanSound
<1>3. p.hide \subseteq Ids /\ p.delete \subseteq Ids /\ \A f \in p.found : f[2] \in Ids
  BY <1>2 DEF Plan
<1>4. \A e \in D : IdsOf(r, p, e) = {Ident(r, p, e)} /\ Ident(r, p, e) \in Ids /\ Ident(r, p, e).kind = e.kind
  BY IdFacts
<1>5. \A x \in t1 : /\ x \in own
                    /\ x[1].kind \in {"Category", "Tag"} => x[2] # "row"
  <2>1. ASSUME NEW e \in p.update, NEW x \in IdsOf(r, p, e) \X PartsOf(e)
        PROVE  x \in own /\ (x[1].kind \in {"Category", "Tag"} => x[2] # "row")
    BY <1>2, <1>4 DEF PartsOf
  <2>2. QED
    BY <2>1
<1>6. \A x \in t4 : x \in own /\ x[2] # "row"
  BY <1>3
<1>7. ls \subseteq Ids \X Ids
  BY DEF Removed, WellFormed
<1>8. /\ t5 \subseteq Parts
      /\ \A x \in t5 : x[2] = "link"
      /\ \A l \in ls : <<l[1], "link", l[2]>> \in t5
  <2>1. CASE ls = {}
    BY <2>1 DEF LinkParts
  <2>2. CASE ls # {}
    <3>1. PICK i \in Ids : TRUE
      BY <1>7, <2>2
    <3> HIDE DEF ls
    <3>2. QED
      BY <1>7, <3>1, PartFacts
  <2>3. QED
    BY <2>1, <2>2
<1>9. ASSUME NEW e \in p.update
      PROVE  \A c \in PartsOf(e) : <<Ident(r, p, e), c>> \in t1
  BY <1>2, <1>4
<1>10. \A e \in D \ p.create : p.texts /\ IsSettings(e) => <<Ident(r, p, e), "texts">> \in t4
  <2>1. ASSUME NEW e \in D \ p.create, p.texts, IsSettings(e)
        PROVE  <<Ident(r, p, e), "texts">> \in t4
    <3>1. PICK f \in p.found : f[1] = e /\ f[2] = Ident(r, p, e)
      BY IdFacts
    <3>2. QED
      BY <2>1, <3>1 DEF IsSettings
  <2>2. QED
    BY <2>1
<1>11. t2 \subseteq own /\ t3 \subseteq own
  BY <1>3
<1>12. \A i \in p.hide : <<i, "row">> \in t2
  OBVIOUS
<1>13. \A i \in p.delete : <<i, "row">> \in t3 /\ <<i, "texts">> \in t3
  OBVIOUS
<1>14. \A x \in t2 : x[1].kind = "Skill"
  BY <1>2
<1>15. \A x \in t3 : x[1] \in p.delete
  OBVIOUS
<1>16. Touched(r, p) \subseteq Parts
  <2>1. own \subseteq Parts
    BY DEF Parts
  <2> HIDE DEF own, t1, t2, t3, t4, t5
  <2>2. t1 \subseteq own /\ t2 \subseteq own /\ t3 \subseteq own /\ t4 \subseteq own
    <3>1. t1 \subseteq own
      BY <1>5
    <3>2. t4 \subseteq own
      BY <1>6
    <3>3. QED
      BY <1>11, <3>1, <3>2
  <2>3. QED
    BY <1>1, <1>8, <2>1, <2>2
<1>17. ASSUME NEW e \in p.update
       PROVE  /\ e.kind \in {"Category", "Tag"} => <<Ident(r, p, e), "texts">> \in Touched(r, p)
              /\ IsSettings(e) => <<Ident(r, p, e), "row">> \in Touched(r, p)
              /\ e.kind \notin {"Category", "Tag", "SiteSettings"} =>
                   <<Ident(r, p, e), "row">> \in Touched(r, p) /\ <<Ident(r, p, e), "texts">> \in Touched(r, p)
  <2>1. \A c \in PartsOf(e) : <<Ident(r, p, e), c>> \in Touched(r, p)
    BY <1>1, <1>9
  <2>2. QED
    BY <2>1 DEF IsSettings, PartsOf
<1>18. \A i : i.kind \in {"Category", "Tag"} /\ <<i, "row">> \in Touched(r, p) => i \in p.delete
  <2> HIDE DEF own, t1, t2, t3, t4, t5
  <2>1. ASSUME NEW i, i.kind \in {"Category", "Tag"}, <<i, "row">> \in Touched(r, p)
        PROVE  i \in p.delete
    <3> DEFINE x == <<i, "row">>
    <3>1. x[1] = i /\ x[2] = "row"
      OBVIOUS
    <3>2. x \in Touched(r, p)
      BY <2>1
    <3> HIDE DEF x
    <3>3. x \notin t1 /\ x \notin t2 /\ x \notin t4 /\ x \notin t5
      <4>1. x \notin t1
        BY <1>5, <2>1, <3>1
      <4>2. x \notin t2
        BY <1>14, <2>1, <3>1
      <4>3. x \notin t4
        BY <1>6, <3>1
      <4>4. x \notin t5
        BY <1>8, <3>1
      <4>5. QED
        BY <4>1, <4>2, <4>3, <4>4
    <3>4. x \in t3
      BY <1>1, <3>2, <3>3
    <3>5. QED
      BY <1>15, <3>1, <3>4
  <2>2. QED
    BY <2>1
<1> HIDE DEF own, t1, t2, t3, t4, t5
<1>19. QED
  BY <1>1, <1>8, <1>10, <1>12, <1>13, <1>16, <1>17, <1>18

(***************************************************************************)
(* A commit, as any other session sees it.                                 *)
(***************************************************************************)

LEMMA CommitWrites ==
  ASSUME SafeInv, NEW r \in Runs, Commit(r)
  PROVE  /\ wrote' \subseteq Parts
         /\ \A x \in Touched(r, plan[r]) : x \in wrote'
         /\ \A e \in plan[r].create : <<Ident(r, plan[r], e), "row">> \in wrote'
         /\ \A l \in Added(r, plan[r]) \union (links \ links') : <<l[1], "link", l[2]>> \in wrote'
         /\ \A i : i.kind \in {"Category", "Tag"} /\ <<i, "row">> \in wrote' =>
              i \in plan[r].delete \/ \E e \in plan[r].create : i = Ident(r, plan[r], e)
<1> DEFINE p  == plan[r]
           ls == Added(r, p) \union (links \ links')
           made == UNION {{CreatedId(r, e)} \X {"row", "texts"} : e \in p.create}
<1>1. /\ Writing(r, p) /\ Settled(Database) /\ Database.links = links
      /\ WellFormed(base[r].rows, base[r].links)
      /\ wrote' = Touched(r, p) \union LinkParts(ls) \union made
  BY CommitFacts
<1>2. /\ Touched(r, p) \subseteq Parts
      /\ \A i : i.kind \in {"Category", "Tag"} /\ <<i, "row">> \in Touched(r, p) => i \in p.delete
  BY <1>1, TouchedFacts
<1>3. \A e \in p.create : CreatedId(r, e) = Ident(r, p, e) /\ CreatedId(r, e) \in Ids
  BY <1>1, IdFacts DEF Writing, PlanSound
<1>4. ls \subseteq Ids \X Ids
  <2>1. \A l \in Added(r, p) : l \in Ids \X Ids
    BY <1>1, LinksFit
  <2>2. links \subseteq Ids \X Ids
    BY DEF SafeInv, TypeOK, CatalogueTypeOK, WellFormed
  <2>3. QED
    BY <2>1, <2>2
<1> HIDE DEF ls, p
<1>5. /\ LinkParts(ls) \subseteq Parts
      /\ \A x \in LinkParts(ls) : x[2] = "link"
      /\ \A l \in ls : <<l[1], "link", l[2]>> \in LinkParts(ls)
  <2>1. CASE ls = {}
    BY <2>1 DEF LinkParts
  <2>2. CASE ls # {}
    <3>1. PICK i \in Ids : TRUE
      BY <1>4, <2>2
    <3>2. QED
      BY <1>4, <3>1, PartFacts
  <2>3. QED
    BY <2>1, <2>2
<1>6. ASSUME NEW e \in p.create
      PROVE  /\ {CreatedId(r, e)} \X {"row", "texts"} \subseteq Parts
             /\ <<Ident(r, p, e), "row">> \in made
  <2>1. {CreatedId(r, e)} \X {"row", "texts"} \subseteq Parts
    BY <1>3, PartFacts
  <2>2. <<Ident(r, p, e), "row">> \in {CreatedId(r, e)} \X {"row", "texts"}
    BY <1>3
  <2>3. QED
    BY <2>1, <2>2
<1>7. \A x \in made : \E e \in p.create : x[1] = Ident(r, p, e)
  <2>1. ASSUME NEW e \in p.create, NEW x \in {CreatedId(r, e)} \X {"row", "texts"}
        PROVE  x[1] = Ident(r, p, e)
    BY <1>3
  <2>2. QED
    BY <2>1
<1>8. made \subseteq Parts
  BY <1>6
<1> HIDE DEF made
<1>9. wrote' \subseteq Parts
  BY <1>1, <1>2, <1>5, <1>8
<1>10. ASSUME NEW i, i.kind \in {"Category", "Tag"}, <<i, "row">> \in wrote'
       PROVE  i \in p.delete \/ \E e \in p.create : i = Ident(r, p, e)
  <2> DEFINE x == <<i, "row">>
  <2>1. x[1] = i /\ x[2] = "row"
    OBVIOUS
  <2>2. x \in Touched(r, p) => i \in p.delete
    BY <1>2, <1>10
  <2>3. x \in wrote'
    BY <1>10
  <2> HIDE DEF x
  <2>4. x \notin LinkParts(ls)
    BY <1>5, <2>1
  <2>5. x \in made => \E e \in p.create : i = Ident(r, p, e)
    BY <1>7, <2>1
  <2>6. QED
    BY <1>1, <2>2, <2>3, <2>4, <2>5
<1>11. \A x \in Touched(r, p) : x \in wrote'
  BY <1>1
<1>12. \A e \in p.create : <<Ident(r, p, e), "row">> \in wrote'
  BY <1>1, <1>6
<1>13. \A l \in ls : <<l[1], "link", l[2]>> \in wrote'
  BY <1>1, <1>5
<1>14. QED
  BY <1>9, <1>10, <1>11, <1>12, <1>13 DEF ls, p

LEMMA CommitStep ==
  ASSUME SafeInv, NEW r \in Runs, Commit(r)
  PROVE  StoreStep
<1> DEFINE p == plan[r]
           new == [rows |-> rows', links |-> links']
<1>1. /\ Writing(r, p) /\ Settled(Database) /\ Database.rows = rows /\ Database.links = links
      /\ WellFormed(base[r].rows, base[r].links)
      /\ Applied(r, p, Database, new)
      /\ Unique(rows') /\ Referenced(rows', links')
      /\ stage' = [stage EXCEPT ![r] = "applied"] /\ stage[r] = "open" /\ stage'[r] = "applied"
      /\ patches' = patches /\ spent' = spent
  BY CommitFacts
<1>2. /\ wrote' \subseteq Parts
      /\ \A x \in Touched(r, p) : x \in wrote'
      /\ \A e \in p.create : <<Ident(r, p, e), "row">> \in wrote'
      /\ \A l \in Added(r, p) \union (links \ links') : <<l[1], "link", l[2]>> \in wrote'
      /\ \A i : i.kind \in {"Category", "Tag"} /\ <<i, "row">> \in wrote' =>
           i \in p.delete \/ \E e \in p.create : i = Ident(r, p, e)
  BY CommitWrites
<1>3. new.rows = rows' /\ new.links = links'
  OBVIOUS
<1>4. p.create \subseteq Dataset[r] /\ p.update \subseteq Dataset[r]
  BY <1>1 DEF Writing, PlanSound
<1>5. \A e \in Dataset[r] : /\ e \in p.create => Ident(r, p, e).by = r
                            /\ e \in p.create <=> ~Old(Ident(r, p, e))
  BY <1>1, IdFacts
<1>6. stage \in [Runs -> {"new", "planned", "open"} \union {Tables[n] : n \in 2 .. 7} \union Outcomes]
  BY DEF SafeInv, TypeOK
<1>7. \A i : Old(i) => Old(i)'
  BY <1>1, <1>6 DEF Old
<1>8. WellFormed(rows', links')
  BY <1>1, <1>3, AppliedTyped
<1>9. \A i \in DOMAIN rows : Old(i)
  BY DEF SafeInv, StoreOK
<1> HIDE DEF p, new
<1>10. CatalogueTypeOK'
  BY <1>1, <1>2, <1>8 DEF SafeInv, TypeOK, CatalogueTypeOK
<1>11. DOMAIN rows' = (DOMAIN rows \ p.delete) \union {Ident(r, p, e) : e \in p.create}
  BY <1>1, <1>3 DEF Applied
<1>12. \A i : i.by = r => Old(i)'
  BY <1>1, RunsAreMakers, RequestsAreNoMakers DEF Old
<1>13. StoreOK'
  <2>1. ASSUME NEW i \in DOMAIN rows'
        PROVE  Old(i)'
    <3>1. i \in DOMAIN rows \/ i.by = r
      BY <1>4, <1>5, <1>11
    <3>2. QED
      BY <1>7, <1>9, <1>12, <3>1
  <2>2. QED
    BY <1>1, <2>1 DEF StoreOK
<1>14. PatchesOK'
  BY <1>1, <1>7 DEF SafeInv, PatchesOK, PatchOK
<1>15. Aged
  BY <1>4, <1>5, <1>7, <1>11 DEF Aged
<1>16. ASSUME NEW i \in Ids, \A x \in wrote' : x[1] # i
       PROVE  /\ i \in DOMAIN rows <=> i \in DOMAIN rows'
              /\ i \in DOMAIN rows => rows'[i] = rows[i]
  <2>1. \A c : <<i, c>> \notin wrote'
    BY <1>16
  <2>2. \A e \in p.create : i # Ident(r, p, e)
    BY <1>2, <2>1
  <2>3. \A e \in p.update : i # Ident(r, p, e)
    BY <1>1, <1>2, <2>1, TouchedFacts DEF IsSettings
  <2>4. i \notin p.hide /\ i \notin p.delete
    BY <1>1, <1>2, <2>1, TouchedFacts
  <2>5. i \in DOMAIN rows <=> i \in DOMAIN rows'
    BY <1>11, <2>2, <2>4
  <2>6. ASSUME i \in DOMAIN rows
        PROVE  rows'[i] = rows[i]
    <3>1. CASE \E e \in Dataset[r] \ p.create : IsSettings(e) /\ i = Ident(r, p, e)
      <4>1. PICK e \in Dataset[r] \ p.create : IsSettings(e) /\ i = Ident(r, p, e)
        BY <3>1
      <4>2. rows'[i] = Scalars(p, e, rows[i])
        BY <1>1, <1>3, <2>6, <4>1 DEF Applied
      <4>3. e \notin p.update
        BY <2>3, <4>1
      <4>4. ~p.texts
        BY <1>1, <1>2, <2>1, <4>1, TouchedFacts
      <4>5. rows[i] \in Row
        BY <1>1, <2>6 DEF Settled, WellFormed
      <4>6. QED
        BY <4>2, <4>3, <4>4, <4>5 DEF Scalars, Row
    <3>2. CASE ~\E e \in Dataset[r] \ p.create : IsSettings(e) /\ i = Ident(r, p, e)
      BY <1>1, <1>3, <2>3, <2>4, <2>6, <3>2 DEF Applied
    <3>3. QED
      BY <3>1, <3>2
  <2>7. QED
    BY <2>5, <2>6
<1>17. \A l \in (links \ links') \union (links' \ links) : \E x \in wrote' : x[1] = l[1]
  <2>1. ASSUME NEW l \in (links \ links') \union Added(r, p)
        PROVE  \E x \in wrote' : x[1] = l[1]
    <3>1. <<l[1], "link", l[2]>> \in wrote'
      BY <1>2
    <3>2. QED
      BY <3>1
  <2>2. ASSUME NEW l \in LinksMade(r, p)
        PROVE  \E x \in wrote' : x[1] = l[1]
    <3>1. PICK e \in p.create : l \in {Ident(r, p, e)} \X Wanted(r, p, e)
      BY DEF LinksMade
    <3>2. l[1] = Ident(r, p, e) /\ <<Ident(r, p, e), "row">> \in wrote'
      BY <1>2, <3>1
    <3>3. QED
      BY <3>2
  <2>3. links' \subseteq (links \union LinksMade(r, p)) \union Added(r, p)
    BY <1>1, <1>3 DEF Applied, Kept
  <2>4. QED
    BY <2>1, <2>2, <2>3
<1>18. \A i \in DOMAIN rows \intersect DOMAIN rows' :
         i.kind \in {"Category", "Tag"} => <<i, "row">> \notin wrote'
  <2>1. \A e \in p.create : Ident(r, p, e) \notin DOMAIN rows
    BY <1>4, <1>5, <1>9
  <2>2. \A i \in p.delete : i \notin DOMAIN rows' \/ \E e \in p.create : i = Ident(r, p, e)
    BY <1>11
  <2>3. QED
    BY <1>2, <2>1, <2>2 DEF p
<1>19. Reported
  BY <1>2, <1>16, <1>17, <1>18 DEF Reported
<1>20. QED
  BY <1>10, <1>13, <1>14, <1>15, <1>19 DEF StoreStep, CatalogueInv

(***************************************************************************)
(* The invariant the safety of a run rests on.                             *)
(***************************************************************************)

Shape ==
  /\ stage \in [Runs -> {"new", "planned", "open"} \union {Tables[n] : n \in 2 .. 7} \union Outcomes]
  /\ disturbed \in [Runs -> BOOLEAN]
  /\ Tabled

RunOK(r) ==
  /\ WellFormed(seen[r].rows, seen[r].links)
  /\ seen[r].filed \subseteq (Ids \union {None}) \X Ids
  /\ stage[r] \in {"planned", "open"} => plan[r] \in Plan
  /\ stage[r] = "open" => WellFormed(base[r].rows, base[r].links)
  /\ since[r] \subseteq Parts
  /\ SeenOK(r) /\ PlanOK(r) /\ BaseOK(r) /\ SinceOK(r)

LEMMA SafeParts ==
  ASSUME SafeInv
  PROVE  CatalogueInv /\ Shape /\ \A r \in Runs : RunOK(r)
BY DEF SafeInv, CatalogueInv, Shape, RunOK, TypeOK

LEMMA SafeWhole ==
  ASSUME CatalogueInv', Shape', \A r \in Runs : RunOK(r)'
  PROVE  SafeInv'
<1>1. TypeOK'
  BY DEF CatalogueInv, Shape, RunOK, TypeOK
<1>2. QED
  BY <1>1 DEF SafeInv, CatalogueInv, Shape, RunOK

(* A run that does not move stays as it should be. *)
LEMMA RunStays ==
  ASSUME SafeInv, Aged, NEW r \in Runs,
         stage'[r] = stage[r], seen'[r] = seen[r], plan'[r] = plan[r], base'[r] = base[r],
         since'[r] \subseteq Parts, stage[r] # "open" => since'[r] = {},
         stage[r] = "open" =>
           \A i \in DOMAIN base[r].rows \intersect DOMAIN rows' :
             i.kind \in {"Category", "Tag"} => <<i, "row">> \notin since'[r]
  PROVE  RunOK(r)'
<1>1. RunOK(r)
  BY SafeParts
<1>2. \A i : Old(i) => Old(i)'
  BY DEF Aged
<1>3. SeenOK(r)'
  BY <1>1, <1>2 DEF RunOK, SeenOK
<1>4. PlanOK(r)'
  BY <1>1, <1>2 DEF RunOK, PlanOK, PlanSound
<1>5. BaseOK(r)'
  BY <1>1, <1>2 DEF RunOK, BaseOK
<1>6. SinceOK(r)'
  BY DEF SinceOK
<1>7. QED
  BY <1>1, <1>3, <1>4, <1>5, <1>6 DEF RunOK

(* Nothing is written. *)
LEMMA QuietStep ==
  ASSUME SafeInv, rows' = rows, links' = links, patches' = patches, spent' = spent, wrote' = {},
         \A i : Old(i) => Old(i)'
  PROVE  CatalogueInv' /\ Aged
<1>1. CatalogueTypeOK /\ StoreOK /\ PatchesOK
  BY DEF SafeInv, TypeOK
<1>2. CatalogueTypeOK'
  BY <1>1 DEF CatalogueTypeOK
<1>3. StoreOK'
  BY <1>1 DEF StoreOK
<1>4. PatchesOK'
  BY <1>1 DEF PatchesOK, PatchOK
<1>5. Aged
  BY DEF Aged
<1>6. QED
  BY <1>2, <1>3, <1>4, <1>5 DEF CatalogueInv

(* One run moves, and nothing is written. *)
LEMMA MoveStep ==
  ASSUME SafeInv, rows' = rows, links' = links, patches' = patches, spent' = spent, wrote' = {},
         disturbed' = disturbed, NEW r \in Runs,
         stage[r] # "applied", Shape', RunOK(r)',
         \A x \in Runs \ {r} : /\ stage'[x] = stage[x] /\ seen'[x] = seen[x] /\ plan'[x] = plan[x]
                               /\ base'[x] = base[x] /\ since'[x] = since[x]
  PROVE  SafeInv'
<1>1. \A i : Old(i) => Old(i)'
  BY DEF Old
<1>2. CatalogueInv' /\ Aged
  BY <1>1, QuietStep
<1>3. ASSUME NEW x \in Runs \ {r}
      PROVE  RunOK(x)'
  <2>1. RunOK(x)
    BY SafeParts
  <2>2. since'[x] \subseteq Parts /\ (stage[x] # "open" => since'[x] = {})
    BY <2>1 DEF RunOK, SinceOK
  <2>3. stage[x] = "open" =>
           \A i \in DOMAIN base[x].rows \intersect DOMAIN rows' :
             i.kind \in {"Category", "Tag"} => <<i, "row">> \notin since'[x]
    BY <2>1 DEF RunOK, SinceOK
  <2>4. QED
    BY <1>2, <2>2, <2>3, RunStays
<1>4. QED
  BY <1>2, <1>3, SafeWhole

(* What a run has seen is a database, of rows that no run is yet to make. *)
LEMMA ReadFacts ==
  ASSUME SafeInv, NEW r \in Runs, NEW n \in 1 .. 7
  PROVE  LET s == Read(r, n)
         IN  /\ View(s)
             /\ s.filed \subseteq (Ids \union {None}) \X Ids
<1> DEFINE kind == Tables[n]
           ids  == RowsOf(rows, kind)
           s    == Read(r, n)
<1>1. kind \in Governed
  BY KindFacts DEF Tables
<1>2. WellFormed(rows, links) /\ \A i \in DOMAIN rows : Old(i)
  BY DEF SafeInv, TypeOK, CatalogueTypeOK, StoreOK
<1>3. RunOK(r)
  BY SafeParts
<1>4. /\ s.rows = [i \in ids \union DOMAIN seen[r].rows |-> IF i \in ids THEN rows[i] ELSE seen[r].rows[i]]
      /\ s.links = seen[r].links \union {l \in links : l[1] \in ids}
      /\ s.filed = seen[r].filed \union
                     {<<rows[a].category, a>> : a \in {x \in RowsOf(rows, "Article") : kind = "Category"}}
  BY DEF Read
<1>5. \A i \in ids : i \in Ids /\ i.kind = kind /\ i \in DOMAIN rows /\ rows[i] \in Row /\ RowFits(i, rows[i]) /\ Old(i)
  BY <1>2 DEF RowsOf, WellFormed, RowFits
<1>6. \A i \in DOMAIN seen[r].rows : /\ i \in Ids /\ seen[r].rows[i] \in Row /\ RowFits(i, seen[r].rows[i])
                                     /\ i.kind \in Governed /\ Old(i)
  BY <1>3 DEF RunOK, SeenOK, WellFormed
<1>7. \A l \in s.links : l \in Ids \X Ids /\ LinkFits(l)
  BY <1>2, <1>3, <1>4 DEF RunOK, WellFormed
<1>8. s.filed \subseteq (Ids \union {None}) \X Ids
  <2>1. \A a \in RowsOf(rows, "Article") : a \in Ids /\ rows[a].category \in Ids \union {None}
    BY <1>2 DEF RowsOf, WellFormed, Row
  <2>2. seen[r].filed \subseteq (Ids \union {None}) \X Ids
    BY <1>3 DEF RunOK
  <2>3. QED
    BY <1>4, <2>1, <2>2
<1> HIDE DEF s, ids, kind
<1>9. WellFormed(s.rows, s.links)
  <2>1. s.rows \in [DOMAIN s.rows -> Row]
    BY <1>4, <1>5, <1>6
  <2>2. QED
    BY <1>4, <1>5, <1>6, <1>7, <2>1 DEF WellFormed
<1>10. View(s)
  BY <1>1, <1>4, <1>5, <1>6, <1>9 DEF View
<1>11. QED
  BY <1>8, <1>10 DEF s

LEMMA NothingFits ==
  /\ WellFormed(Nothing.rows, Nothing.links) /\ DOMAIN Nothing.rows = {} /\ Nothing.filed = {}
<1>1. Nothing.rows = <<>> /\ Nothing.links = {} /\ Nothing.filed = {}
  BY DEF Nothing
<1>2. DOMAIN <<>> = {} /\ <<>> \in [{} -> Row]
  OBVIOUS
<1>3. QED
  BY <1>1, <1>2 DEF WellFormed

LEMMA TablesFacts ==
  /\ \A n \in 1 .. 7 : Tables[n] \in Governed /\ Tables[n] \notin {"new", "planned", "open"} \union Outcomes
  /\ \A n \in 1 .. 6 : Tables[n + 1] \in {Tables[m] : m \in 2 .. 7}
  /\ Tables[7] = "SiteSettings"
  /\ {Tables[m] : m \in 2 .. 7} = {"Category", "Tag", "Experience", "Project", "Article", "SiteSettings"}
<1>1. /\ Tables[1] = "Skill" /\ Tables[2] = "Category" /\ Tables[3] = "Tag" /\ Tables[4] = "Experience"
      /\ Tables[5] = "Project" /\ Tables[6] = "Article" /\ Tables[7] = "SiteSettings"
  BY DEF Tables
<1>2. \A n \in 1 .. 7 : n = 1 \/ n = 2 \/ n = 3 \/ n = 4 \/ n = 5 \/ n = 6 \/ n = 7
  OBVIOUS
<1>3. \A n \in 1 .. 7 : Tables[n] \in Governed /\ Tables[n] \notin {"new", "planned", "open"} \union Outcomes
  BY <1>1, <1>2, KindFacts DEF Outcomes
<1>4. \A n \in 1 .. 6 : Tables[n + 1] \in {Tables[m] : m \in 2 .. 7}
  OBVIOUS
<1>5. {Tables[m] : m \in 2 .. 7} = {"Category", "Tag", "Experience", "Project", "Article", "SiteSettings"}
  <2>1. \A m \in 2 .. 7 : m = 2 \/ m = 3 \/ m = 4 \/ m = 5 \/ m = 6 \/ m = 7
    OBVIOUS
  <2>2. \A m \in 2 .. 7 : Tables[m] \in {"Category", "Tag", "Experience", "Project", "Article", "SiteSettings"}
    BY <1>1, <2>1
  <2>3. QED
    BY <1>1, <2>2
<1>6. QED
  BY <1>1, <1>3, <1>4, <1>5

LEMMA ReadStep ==
  ASSUME SafeInv, NEW r \in Runs, ReadTable(r)
  PROVE  SafeInv'
<1>1. PICK n \in 1 .. 6 :
        /\ stage[r] = IF n = 1 THEN "new" ELSE Tables[n]
        /\ stage' = [stage EXCEPT ![r] = Tables[n + 1]]
        /\ seen' = [seen EXCEPT ![r] = Read(r, n)]
  BY DEF ReadTable
<1>2. /\ rows' = rows /\ links' = links /\ patches' = patches /\ spent' = spent /\ wrote' = {}
      /\ disturbed' = disturbed /\ since' = since /\ plan' = plan /\ base' = base
  BY DEF ReadTable, Undisturbing
<1>3. Shape /\ RunOK(r)
  BY SafeParts
<1>4. /\ stage'[r] = Tables[n + 1] /\ \A x \in Runs \ {r} : stage'[x] = stage[x]
      /\ seen'[r] = Read(r, n) /\ \A x \in Runs \ {r} : seen'[x] = seen[x]
  BY <1>1, <1>3 DEF Shape, Tabled
<1>5. /\ stage[r] \notin {"planned", "open"} \union Outcomes
      /\ stage'[r] \in {Tables[m] : m \in 2 .. 7} /\ stage'[r] \notin {"new", "planned", "open"} \union Outcomes
  BY <1>1, <1>4, TablesFacts DEF Outcomes
<1>6. Shape'
  BY <1>1, <1>2, <1>3, <1>5 DEF Shape, Tabled
<1>7. \A i : Old(i) => Old(i)'
  BY <1>2, <1>4, <1>5 DEF Old, Outcomes
<1>8. View(Read(r, n)) /\ Read(r, n).filed \subseteq (Ids \union {None}) \X Ids
  BY ReadFacts
<1>9. WellFormed(seen'[r].rows, seen'[r].links) /\ seen'[r].filed \subseteq (Ids \union {None}) \X Ids
  BY <1>4, <1>8 DEF View
<1>10. SeenOK(r)'
  BY <1>4, <1>7, <1>8 DEF View, SeenOK
<1>11. since'[r] = {}
  BY <1>2, <1>3, <1>5 DEF RunOK, SinceOK
<1>12. RunOK(r)'
  BY <1>5, <1>9, <1>10, <1>11 DEF RunOK, PlanOK, BaseOK, SinceOK
<1>13. QED
  BY <1>2, <1>4, <1>5, <1>6, <1>12, MoveStep DEF Outcomes

LEMMA BuildStep ==
  ASSUME SafeInv, NEW r \in Runs, BuildPlan(r)
  PROVE  SafeInv'
<1> DEFINE s == Read(r, 7)
           p == PlanOf(Dataset[r], s)
<1>1. /\ stage[r] = "SiteSettings"
      /\ \/ stage' = [stage EXCEPT ![r] = "refused"] /\ plan' = plan
         \/ stage' = [stage EXCEPT ![r] = "nothing"] /\ plan' = plan
         \/ /\ ~Problem(Dataset[r], s)
            /\ stage' = [stage EXCEPT ![r] = "planned"]
            /\ plan' = [plan EXCEPT ![r] = p]
      /\ seen' = [seen EXCEPT ![r] = Nothing]
  BY DEF BuildPlan
<1>2. /\ rows' = rows /\ links' = links /\ patches' = patches /\ spent' = spent /\ wrote' = {}
      /\ disturbed' = disturbed /\ since' = since /\ base' = base
  BY DEF BuildPlan, Undisturbing
<1>3. Shape /\ RunOK(r)
  BY SafeParts
<1>4. View(s)
  BY ReadFacts
<1>5. ~Problem(Dataset[r], s) => p \in Plan /\ PlanSound(r, p)
  BY <1>4, PlanSoundness
<1> HIDE DEF s, p
<1>6. /\ stage'[r] \in {"refused", "nothing", "planned"} /\ \A x \in Runs \ {r} : stage'[x] = stage[x]
      /\ seen'[r] = Nothing /\ \A x \in Runs \ {r} : seen'[x] = seen[x] /\ plan'[x] = plan[x]
      /\ stage'[r] = "planned" => plan'[r] = p /\ ~Problem(Dataset[r], s)
  BY <1>1, <1>3 DEF Shape, Tabled
<1>7. Shape'
  BY <1>1, <1>2, <1>3 DEF Shape, Tabled, Outcomes
<1>8. \A i : Old(i) => Old(i)'
  BY <1>1, <1>2, <1>6 DEF Old
<1>9. stage'[r] \in {"planned", "open"} => plan'[r] \in Plan /\ PlanSound(r, plan'[r])
  BY <1>5, <1>6
<1>10. PlanOK(r)'
  BY <1>8, <1>9 DEF PlanOK, PlanSound
<1>11. SeenOK(r)'
  BY <1>6, NothingFits DEF SeenOK
<1>12. since'[r] = {}
  BY <1>1, <1>2, <1>3 DEF RunOK, SinceOK
<1>13. RunOK(r)'
  BY <1>6, <1>9, <1>10, <1>11, <1>12, NothingFits DEF RunOK, BaseOK, SinceOK
<1>14. QED
  BY <1>1, <1>2, <1>6, <1>7, <1>13, MoveStep

LEMMA BeginStep ==
  ASSUME SafeInv, NEW r \in Runs, Begin(r)
  PROVE  SafeInv'
<1>1. /\ stage[r] = "planned"
      /\ stage' = [stage EXCEPT ![r] = "open"] /\ base' = [base EXCEPT ![r] = Database]
      /\ seen' = seen /\ plan' = plan
  BY DEF Begin
<1>2. /\ rows' = rows /\ links' = links /\ patches' = patches /\ spent' = spent /\ wrote' = {}
      /\ disturbed' = disturbed /\ since' = since
  BY DEF Begin, Undisturbing
<1>3. Shape /\ RunOK(r)
  BY SafeParts
<1>4. /\ stage'[r] = "open" /\ \A x \in Runs \ {r} : stage'[x] = stage[x] /\ base'[x] = base[x]
      /\ base'[r].rows = rows /\ base'[r].links = links
  BY <1>1, <1>3 DEF Shape, Tabled, Database
<1>5. Shape'
  BY <1>1, <1>2, <1>3 DEF Shape, Tabled
<1>6. \A i : Old(i) => Old(i)'
  BY <1>1, <1>2, <1>4 DEF Old
<1>7. PlanOK(r)'
  BY <1>1, <1>3, <1>6 DEF RunOK, PlanOK, PlanSound
<1>8. SeenOK(r)'
  BY <1>1, <1>3, <1>6 DEF RunOK, SeenOK
<1>9. WellFormed(rows, links) /\ StoreOK
  BY DEF SafeInv, TypeOK, CatalogueTypeOK
<1>10. BaseOK(r)'
  BY <1>4, <1>6, <1>9 DEF BaseOK, StoreOK, Referenced
<1>11. since'[r] = {}
  BY <1>1, <1>2, <1>3 DEF RunOK, SinceOK
<1>12. RunOK(r)'
  BY <1>1, <1>3, <1>4, <1>7, <1>8, <1>9, <1>10, <1>11 DEF RunOK, SinceOK
<1>13. QED
  BY <1>1, <1>2, <1>4, <1>5, <1>12, MoveStep

LEMMA EndStep ==
  ASSUME SafeInv, NEW r \in Runs, Abort(r) \/ GiveUp(r)
  PROVE  SafeInv'
<1>1. PICK outcome \in {"aborted", "gone"} :
        /\ stage[r] = "open"
        /\ stage' = [stage EXCEPT ![r] = outcome] /\ plan' = [plan EXCEPT ![r] = NoPlan]
        /\ base' = [base EXCEPT ![r] = NoPlan] /\ seen' = [seen EXCEPT ![r] = Nothing]
        /\ since' = [since EXCEPT ![r] = {}]
        /\ rows' = rows /\ links' = links /\ patches' = patches /\ spent' = spent /\ wrote' = {}
        /\ disturbed' = disturbed
  BY DEF Abort, GiveUp, Close
<1>2. Shape
  BY SafeParts
<1>3. /\ stage'[r] = outcome /\ seen'[r] = Nothing /\ since'[r] = {}
      /\ \A x \in Runs \ {r} : /\ stage'[x] = stage[x] /\ seen'[x] = seen[x] /\ plan'[x] = plan[x]
                               /\ base'[x] = base[x] /\ since'[x] = since[x]
  BY <1>1, <1>2 DEF Shape, Tabled
<1>4. Shape'
  BY <1>1, <1>2 DEF Shape, Tabled, Outcomes
<1>5. SeenOK(r)'
  BY <1>3, NothingFits DEF SeenOK
<1>6. RunOK(r)'
  BY <1>3, <1>5, NothingFits DEF RunOK, PlanOK, BaseOK, SinceOK
<1>7. QED
  BY <1>1, <1>3, <1>4, <1>6, MoveStep

(* Another session has committed. *)
LEMMA OtherStays ==
  ASSUME SafeInv, StoreStep, NEW r \in Runs,
         stage'[r] = stage[r], seen'[r] = seen[r], plan'[r] = plan[r], base'[r] = base[r],
         since'[r] = IF stage[r] = "open" THEN since[r] \union wrote' ELSE since[r]
  PROVE  RunOK(r)'
<1>1. RunOK(r)
  BY SafeParts
<1>2. Aged /\ Reported
  BY DEF StoreStep
<1>3. since'[r] \subseteq Parts /\ (stage[r] # "open" => since'[r] = {})
  BY <1>1, <1>2 DEF RunOK, SinceOK, Reported
<1>4. ASSUME stage[r] = "open", NEW i \in DOMAIN base[r].rows \intersect DOMAIN rows',
             i.kind \in {"Category", "Tag"}
      PROVE  <<i, "row">> \notin since'[r]
  <2>1. i \in DOMAIN rows
    BY <1>1, <1>2, <1>4 DEF RunOK, BaseOK, Aged
  <2>2. <<i, "row">> \notin since[r]
    BY <1>1, <1>4, <2>1 DEF RunOK, SinceOK
  <2>3. <<i, "row">> \notin wrote'
    BY <1>2, <1>4, <2>1 DEF Reported
  <2>4. QED
    BY <2>2, <2>3
<1>5. QED
  BY <1>2, <1>3, <1>4, RunStays

LEMMA EditFacts ==
  ASSUME SafeInv, Edit
  PROVE  /\ StoreStep /\ stage' = stage /\ seen' = seen /\ plan' = plan /\ base' = base
         /\ \A r \in Runs : since'[r] = IF stage[r] = "open" THEN since[r] \union wrote' ELSE since[r]
         /\ since' = [r \in Runs |-> since'[r]]
<1>1. CatalogueNext /\ Late(Runs, wrote') /\ stage' = stage /\ seen' = seen /\ plan' = plan /\ base' = base
  BY DEF Edit
<1>2. StoreStep
  BY <1>1, SafeParts, CatalogueStep
<1>3. /\ \A r \in Runs : since'[r] = IF stage[r] = "open" THEN since[r] \union wrote' ELSE since[r]
      /\ since' = [r \in Runs |-> since'[r]]
  BY <1>1 DEF Late
<1>4. QED
  BY <1>1, <1>2, <1>3

LEMMA EditStep ==
  ASSUME SafeInv, Edit
  PROVE  SafeInv'
<1>1. /\ StoreStep /\ stage' = stage /\ seen' = seen /\ plan' = plan /\ base' = base
      /\ \A r \in Runs : since'[r] = IF stage[r] = "open" THEN since[r] \union wrote' ELSE since[r]
      /\ since' = [r \in Runs |-> since'[r]]
  BY EditFacts
<1>2. disturbed' \in [Runs -> BOOLEAN]
  <2>1. disturbed \in [Runs -> BOOLEAN]
    BY DEF SafeInv, TypeOK
  <2>2. disturbed' = [r \in Runs |->
          disturbed[r] \/ ( /\ r \in Runs
                            /\ stage[r] \notin {"new"} \union (Outcomes \ {"applied"})
                            /\ \E x \in wrote' : x[1].kind \in Governed )]
    BY DEF Edit, Disturb
  <2>3. QED
    BY <2>1, <2>2
<1>3. Shape'
  BY <1>1, <1>2, SafeParts DEF Shape, Tabled
<1>4. \A r \in Runs : RunOK(r)'
  BY <1>1, OtherStays
<1>5. CatalogueInv'
  BY <1>1 DEF StoreStep
<1>6. QED
  BY <1>3, <1>4, <1>5, SafeWhole

LEMMA CommitSafe ==
  ASSUME SafeInv, NEW r \in Runs, Commit(r)
  PROVE  SafeInv'
<1>1. /\ stage' = [stage EXCEPT ![r] = "applied"] /\ plan' = [plan EXCEPT ![r] = NoPlan]
      /\ base' = [base EXCEPT ![r] = NoPlan] /\ seen' = [seen EXCEPT ![r] = Nothing]
      /\ since' = [x \in Runs |-> IF x = r THEN {} ELSE
                     IF stage[x] = "open" THEN since[x] \union wrote' ELSE since[x]]
      /\ Disturb(Runs \ {r}, wrote')
  BY DEF Commit, Close
<1>2. StoreStep
  BY CommitStep
<1>3. Shape
  BY SafeParts
<1>4. disturbed' \in [Runs -> BOOLEAN]
  <2>1. disturbed' = [x \in Runs |->
          disturbed[x] \/ ( /\ x \in Runs \ {r}
                            /\ stage[x] \notin {"new"} \union (Outcomes \ {"applied"})
                            /\ \E y \in wrote' : y[1].kind \in Governed )]
    BY <1>1 DEF Disturb
  <2>2. QED
    BY <1>3, <2>1 DEF Shape
<1>5. Shape'
  BY <1>1, <1>3, <1>4 DEF Shape, Tabled, Outcomes
<1>6. /\ stage'[r] = "applied" /\ seen'[r] = Nothing /\ since'[r] = {}
      /\ \A x \in Runs \ {r} :
           /\ stage'[x] = stage[x] /\ seen'[x] = seen[x] /\ plan'[x] = plan[x] /\ base'[x] = base[x]
           /\ since'[x] = IF stage[x] = "open" THEN since[x] \union wrote' ELSE since[x]
  BY <1>1, <1>3 DEF Shape, Tabled
<1>7. SeenOK(r)'
  BY <1>6, NothingFits DEF SeenOK
<1>8. RunOK(r)'
  BY <1>6, <1>7, NothingFits DEF RunOK, PlanOK, BaseOK, SinceOK
<1>9. \A x \in Runs \ {r} : RunOK(x)'
  BY <1>2, <1>6, OtherStays
<1>10. CatalogueInv'
  BY <1>2 DEF StoreStep
<1>11. QED
  BY <1>5, <1>8, <1>9, <1>10, SafeWhole

LEMMA SafeInit ==
  ASSUME Init
  PROVE  SafeInv
<1>1. PICK s \in Seeds : rows = s.rows /\ links = s.links
  BY DEF Init
<1>2. /\ WellFormed(s.rows, s.links) /\ Unique(s.rows) /\ Referenced(s.rows, s.links)
      /\ \A i \in DOMAIN s.rows : i.by \in Makers \ Runs
  BY SeedsType
<1>3. /\ patches = <<>> /\ spent = {} /\ wrote = {}
      /\ stage = [r \in Runs |-> "new"] /\ seen = [r \in Runs |-> Nothing]
      /\ plan = [r \in Runs |-> NoPlan] /\ base = [r \in Runs |-> NoPlan]
      /\ since = [r \in Runs |-> {}] /\ disturbed = [r \in Runs |-> FALSE]
  BY DEF Init
<1>4. DOMAIN <<>> = {} /\ <<>> \in [{} -> Patch]
  OBVIOUS
<1>5. CatalogueTypeOK
  BY <1>1, <1>2, <1>3, <1>4 DEF CatalogueTypeOK, Parts
<1>6. StoreOK
  BY <1>1, <1>2, <1>3, RequestsAreNoMakers DEF StoreOK, Old
<1>7. PatchesOK
  BY <1>3, <1>4 DEF PatchesOK
<1>8. TypeOK
  BY <1>3, <1>5, NothingFits DEF TypeOK, Parts
<1>9. Tabled
  BY <1>3 DEF Tabled
<1>10. \A r \in Runs : SeenOK(r) /\ PlanOK(r) /\ BaseOK(r) /\ SinceOK(r)
  BY <1>3, NothingFits DEF SeenOK, PlanOK, BaseOK, SinceOK
<1>11. QED
  BY <1>6, <1>7, <1>8, <1>9, <1>10 DEF SafeInv

LEMMA SafeNext ==
  ASSUME SafeInv, [Next]_vars
  PROVE  SafeInv'
<1>1. CASE UNCHANGED vars
  <2>1. /\ UNCHANGED <<rows, links, patches, spent, wrote>>
        /\ UNCHANGED <<stage, seen, plan, base, since, disturbed>>
    BY <1>1 DEF vars, catalogueVars, runVars
  <2>2. CatalogueTypeOK' /\ StoreOK' /\ PatchesOK'
    BY <2>1 DEF SafeInv, TypeOK, CatalogueTypeOK, StoreOK, Old, PatchesOK, PatchOK
  <2>3. Shape'
    BY <2>1, SafeParts DEF Shape, Tabled
  <2>4. ASSUME NEW r \in Runs
        PROVE  RunOK(r)'
    <3>1. RunOK(r)
      BY SafeParts
    <3>2. Aged
      BY <2>1 DEF Aged, Old
    <3>3. QED
      BY <2>1, <3>1, <3>2, RunStays DEF RunOK, SinceOK
  <2>5. QED
    BY <2>2, <2>3, <2>4, SafeWhole DEF CatalogueInv
<1>2. CASE Edit
  BY <1>2, EditStep
<1>3. ASSUME NEW r \in Runs,
             ReadTable(r) \/ BuildPlan(r) \/ Begin(r) \/ Commit(r) \/ Abort(r) \/ GiveUp(r)
      PROVE  SafeInv'
  BY <1>3, ReadStep, BuildStep, BeginStep, CommitSafe, EndStep
<1>4. QED
  BY <1>1, <1>2, <1>3 DEF Next

LEMMA Safety == Spec => []SafeInv
<1>1. Init => SafeInv
  BY SafeInit
<1>2. SafeInv /\ [Next]_vars => SafeInv'
  BY SafeNext
<1>3. QED
  BY <1>1, <1>2, PTL DEF Spec

(* Every variable keeps its type, whatever the sessions do. *)
THEOREM TypeCorrect == Spec => []TypeOK
<1>1. SafeInv => TypeOK
  BY DEF SafeInv
<1>2. QED
  BY <1>1, Safety, PTL

(***************************************************************************)
(* What a commit may do.                                                   *)
(***************************************************************************)

LEMMA AppliesIsCommit ==
  ASSUME SafeInv, [Next]_vars, NEW r \in Runs, Applies(r)
  PROVE  Commit(r)
<1>1. stage[r] = "open" /\ stage'[r] = "applied"
  BY DEF Applies
<1>2. stage \in [Runs -> {"new", "planned", "open"} \union {Tables[n] : n \in 2 .. 7} \union Outcomes]
  BY DEF SafeInv, TypeOK
<1>3. ~UNCHANGED vars
  BY <1>1 DEF vars, runVars
<1>4. ~Edit
  BY <1>1 DEF Edit
<1>5. ASSUME NEW q \in Runs, ReadTable(q) \/ BuildPlan(q) \/ Begin(q) \/ Commit(q) \/ Abort(q) \/ GiveUp(q)
      PROVE  q = r /\ Commit(r)
  <2>1. \A st : stage' = [stage EXCEPT ![q] = st] => q = r /\ st = "applied"
    BY <1>1, <1>2
  <2>2. ~ReadTable(q)
    BY <2>1, TablesFacts DEF ReadTable, Outcomes
  <2>3. ~BuildPlan(q)
    BY <2>1 DEF BuildPlan
  <2>4. ~Begin(q)
    BY <2>1 DEF Begin
  <2>5. ~Abort(q) /\ ~GiveUp(q)
    BY <2>1 DEF Abort, GiveUp, Close
  <2>6. Commit(q) => q = r
    BY <2>1 DEF Commit, Close
  <2>7. QED
    BY <1>5, <2>2, <2>3, <2>4, <2>5, <2>6
<1>6. QED
  BY <1>3, <1>4, <1>5 DEF Next

(* A row that stays is changed only where the plan says, and only in the   *)
(* parts the run counts as touched.                                        *)
LEMMA RowKept ==
  ASSUME SafeInv, NEW r \in Runs, Commit(r), NEW i \in DOMAIN rows, i \in DOMAIN rows'
  PROVE  /\ rows'[i] # rows[i] => i \in Named(plan[r])
         /\ rows'[i].own = rows[i].own
         /\ <<i, "texts">> \notin Touched(r, plan[r]) =>
              rows'[i].key = rows[i].key /\ rows'[i].second = rows[i].second
         /\ <<i, "row">> \notin Touched(r, plan[r]) /\ i.kind \notin {"Category", "Tag"} =>
              rows'[i].public = rows[i].public /\ rows'[i].body = rows[i].body
<1> DEFINE p == plan[r]
           new == [rows |-> rows', links |-> links']
<1>1. /\ Writing(r, p) /\ Settled(Database) /\ Database.rows = rows
      /\ Applied(r, p, Database, new) /\ new.rows = rows'
      /\ WellFormed(base[r].rows, base[r].links)
  BY CommitFacts
<1>2. rows[i] \in Row /\ RowFits(i, rows[i])
  BY <1>1 DEF Settled, WellFormed
<1>3. p.create \subseteq Dataset[r] /\ p.update \subseteq Dataset[r] /\ p.update \intersect p.create = {}
  BY <1>1 DEF Writing, PlanSound
<1> HIDE DEF p, new
<1>4. CASE rows'[i] = rows[i]
  BY <1>4 DEF p
<1>5. ASSUME NEW e \in p.update, i = Ident(r, p, e), ~IsSettings(e), rows'[i] = Governing(r, p, e, rows[i])
      PROVE  /\ i \in Named(p) /\ rows'[i].own = rows[i].own
             /\ <<i, "texts">> \in Touched(r, p)
             /\ <<i, "row">> \in Touched(r, p) \/ i.kind \in {"Category", "Tag"}
  <2>1. PICK f \in p.found : f[1] = e /\ f[2] = i
    BY <1>1, <1>3, <1>5, IdFacts
  <2>2. i \in Named(p)
    BY <2>1 DEF Named
  <2>3. rows'[i].own = rows[i].own
    BY <1>2, <1>5 DEF Governing, Row
  <2>4. i.kind = e.kind
    BY <1>1, <1>3, <1>5, IdFacts
  <2>5. QED
    BY <1>1, <1>5, <2>2, <2>3, <2>4, TouchedFacts DEF IsSettings
<1>6. ASSUME NEW e \in Dataset[r] \ p.create, i = Ident(r, p, e), IsSettings(e),
             rows'[i] = Scalars(p, e, rows[i])
      PROVE  /\ rows'[i] # rows[i] => i \in Named(p)
             /\ rows'[i].own = rows[i].own
             /\ <<i, "texts">> \notin Touched(r, p) => rows'[i].key = rows[i].key /\ rows'[i].second = rows[i].second
             /\ <<i, "row">> \notin Touched(r, p) => rows'[i].public = rows[i].public /\ rows'[i].body = rows[i].body
  <2>1. /\ rows'[i].own = rows[i].own /\ rows'[i].key = rows[i].key /\ rows'[i].public = rows[i].public
        /\ ~p.texts => rows'[i].second = rows[i].second
        /\ e \notin p.update => rows'[i].body = rows[i].body
        /\ ~p.texts /\ e \notin p.update => rows'[i] = rows[i]
    BY <1>2, <1>6 DEF Scalars, Row
  <2>2. PICK f \in p.found : f[1] = e /\ f[2] = i
    BY <1>1, <1>3, <1>6, IdFacts
  <2>3. p.texts \/ e \in p.update => i \in Named(p)
    BY <1>6, <2>2 DEF Named, IsSettings
  <2>4. /\ p.texts => <<i, "texts">> \in Touched(r, p)
        /\ e \in p.update => <<i, "row">> \in Touched(r, p)
    BY <1>1, <1>6, TouchedFacts
  <2>5. QED
    BY <2>1, <2>3, <2>4
<1>7. CASE i \in p.hide /\ rows'[i] = [rows[i] EXCEPT !.public = FALSE]
  <2>1. /\ rows'[i].own = rows[i].own /\ rows'[i].key = rows[i].key
        /\ rows'[i].second = rows[i].second /\ rows'[i].body = rows[i].body
    BY <1>2, <1>7 DEF Row
  <2>2. i \in Named(p) /\ <<i, "row">> \in Touched(r, p)
    BY <1>1, <1>7, TouchedFacts DEF Named
  <2>3. QED
    BY <2>1, <2>2 DEF p
<1>8. \/ \E e \in p.update : i = Ident(r, p, e) /\ ~IsSettings(e) /\ rows'[i] = Governing(r, p, e, rows[i])
      \/ \E e \in Dataset[r] \ p.create : i = Ident(r, p, e) /\ IsSettings(e) /\ rows'[i] = Scalars(p, e, rows[i])
      \/ i \in p.hide /\ rows'[i] = [rows[i] EXCEPT !.public = FALSE]
      \/ rows'[i] = rows[i]
  <2>1. i \in DOMAIN new.rows
    BY <1>1
  <2> DEFINE db == Database
  <2>2. Writing(r, p) /\ Settled(db) /\ Applied(r, p, db, new) /\ i \in DOMAIN db.rows
    BY <1>1
  <2> HIDE DEF db
  <2>3. \/ \E e \in p.update : /\ i = Ident(r, p, e) /\ ~IsSettings(e)
                               /\ new.rows[i] = Governing(r, p, e, db.rows[i])
        \/ \E e \in Dataset[r] \ p.create : /\ i = Ident(r, p, e) /\ IsSettings(e)
                                            /\ new.rows[i] = Scalars(p, e, db.rows[i])
        \/ i \in p.hide /\ new.rows[i] = [db.rows[i] EXCEPT !.public = FALSE]
        \/ new.rows[i] = db.rows[i]
    BY <2>1, <2>2, RowCases
  <2>4. db.rows = rows /\ new.rows = rows'
    BY <1>1 DEF db
  <2>5. QED
    BY <2>3, <2>4
<1>9. QED
  BY <1>4, <1>5, <1>6, <1>7, <1>8 DEF p

LEMMA CommitTouchesOnlyPlanned ==
  ASSUME SafeInv, NEW r \in Runs, Commit(r)
  PROVE  LET p == plan[r]
         IN  /\ DOMAIN rows \ DOMAIN rows' \subseteq p.delete
             /\ DOMAIN rows' \ DOMAIN rows \subseteq {CreatedId(r, e) : e \in p.create}
             /\ \A i \in DOMAIN rows \intersect DOMAIN rows' :
                  /\ rows'[i] # rows[i] => i \in Named(p)
                  /\ rows'[i].own = rows[i].own
             /\ \A l \in (links \ links') \union (links' \ links) :
                  \/ l[1] \in p.delete \union UNION {IdsOf(r, p, e) : e \in p.relink}
                  \/ l[2] \in p.delete
<1> DEFINE p == plan[r]
           new == [rows |-> rows', links |-> links']
<1>1. /\ Writing(r, p) /\ Applied(r, p, Database, new)
      /\ Database.rows = rows /\ Database.links = links
      /\ new.rows = rows' /\ new.links = links'
  BY CommitFacts
<1>2. /\ p.create \subseteq Dataset[r] /\ p.relink \subseteq Dataset[r]
      /\ \A e \in p.create : e.links # {} => e \in p.relink
  BY <1>1 DEF Writing, PlanSound
<1>3. \A i \in DOMAIN rows \intersect DOMAIN rows' :
        /\ rows'[i] # rows[i] => i \in Named(p)
        /\ rows'[i].own = rows[i].own
  BY RowKept
<1> HIDE DEF p, new
<1>4. DOMAIN rows' = (DOMAIN rows \ p.delete) \union {Ident(r, p, e) : e \in p.create}
  BY <1>1 DEF Applied
<1>5. \A e \in p.create : Ident(r, p, e) = CreatedId(r, e)
  BY <1>1, <1>2, IdFacts
<1>6. /\ DOMAIN rows \ DOMAIN rows' \subseteq p.delete
      /\ DOMAIN rows' \ DOMAIN rows \subseteq {CreatedId(r, e) : e \in p.create}
  BY <1>4, <1>5
<1>7. links' = ((Kept(p, links) \union LinksMade(r, p)) \ Removed(r, p)) \union Added(r, p)
  BY <1>1 DEF Applied
<1>8. \A l \in Removed(r, p) : \E e \in p.relink : l[1] \in IdsOf(r, p, e)
  BY DEF Removed, p
<1>9. \A l \in Added(r, p) : \E e \in p.relink : l[1] \in IdsOf(r, p, e)
  BY DEF Added
<1>10. \A l \in LinksMade(r, p) : \E e \in p.relink : l[1] \in IdsOf(r, p, e)
  <2>1. ASSUME NEW l \in LinksMade(r, p)
        PROVE  \E e \in p.relink : l[1] \in IdsOf(r, p, e)
    <3>1. PICK e \in p.create : l \in {Ident(r, p, e)} \X Wanted(r, p, e)
      BY <2>1 DEF LinksMade
    <3>2. l[1] = Ident(r, p, e) /\ Wanted(r, p, e) # {}
      BY <3>1
    <3>3. e.links # {}
      BY <3>2 DEF Wanted
    <3>4. l[1] \in IdsOf(r, p, e)
      BY <1>1, <1>2, <3>2, IdFacts
    <3>5. QED
      BY <1>2, <3>3, <3>4
  <2>2. QED
    BY <2>1
<1>11. \A l \in links \ Kept(p, links) : l[1] \in p.delete \/ l[2] \in p.delete
  BY DEF Kept
<1>12. \A l \in (links \ links') \union (links' \ links) :
         \/ l[1] \in p.delete \/ l[2] \in p.delete
         \/ \E e \in p.relink : l[1] \in IdsOf(r, p, e)
  <2>1. Kept(p, links) \subseteq links
    BY DEF Kept
  <2>2. \A l \in (links \ links') \union (links' \ links) :
          l \in (links \ Kept(p, links)) \union Removed(r, p) \union Added(r, p) \union LinksMade(r, p)
    BY <1>7, <2>1
  <2>3. QED
    BY <1>8, <1>9, <1>10, <1>11, <2>2
<1>13. QED
  BY <1>3, <1>6, <1>12 DEF p

(* The report is what happens: whatever others have written between the    *)
(* plan and the commit, a run deletes, changes and creates only rows its   *)
(* plan names, regroups only owners it names, and leaves the operator's    *)
(* columns and the protected tables alone.                                 *)
THEOREM OnlyPlannedTouched == Spec => TouchesOnlyPlanned
<1> DEFINE Step ==
      \A r \in Runs : Applies(r) =>
         LET p == plan[r]
         IN  /\ DOMAIN rows \ DOMAIN rows' \subseteq p.delete
             /\ DOMAIN rows' \ DOMAIN rows \subseteq {CreatedId(r, e) : e \in p.create}
             /\ \A i \in DOMAIN rows \intersect DOMAIN rows' :
                  /\ rows'[i] # rows[i] => i \in Named(p)
                  /\ rows'[i].own = rows[i].own
             /\ \A l \in (links \ links') \union (links' \ links) :
                  \/ l[1] \in p.delete \union UNION {IdsOf(r, p, e) : e \in p.relink}
                  \/ l[2] \in p.delete
<1>1. SafeInv /\ [Next]_vars => Step
  BY AppliesIsCommit, CommitTouchesOnlyPlanned
<1>2. SafeInv /\ [Next]_vars => [Step]_vars
  BY <1>1
<1>3. QED
  BY <1>2, Safety, PTL DEF Spec, TouchesOnlyPlanned

LEMMA SinceFacts ==
  ASSUME SafeInv, NEW r \in Runs, NEW x \in since[r]
  PROVE  /\ x[2] = "link" => x = <<x[1], "link", x[3]>>
         /\ x[2] # "link" => x = <<x[1], x[2]>> /\ x[2] \in {"row", "texts"}
<1>1. x \in Parts
  BY DEF SafeInv, TypeOK
<1>2. CASE x \in Ids \X {"row", "texts"}
  BY <1>2
<1>3. CASE x \in Ids \X {"link"} \X Ids
  BY <1>3
<1>4. QED
  BY <1>1, <1>2, <1>3 DEF Parts

LEMMA CommitKeepsLinks ==
  ASSUME SafeInv, NEW r \in Runs, Commit(r), NEW x \in since[r], x[2] = "link",
         <<x[1], x[3]>> \in links \union base[r].links
  PROVE  <<x[1], x[3]>> \in links <=> <<x[1], x[3]>> \in links'
<1> DEFINE p   == plan[r]
           l   == <<x[1], x[3]>>
           new == [rows |-> rows', links |-> links']
<1>1. /\ Writing(r, p) /\ Applied(r, p, Database, new)
      /\ Database.links = links /\ new.links = links'
      /\ ~Conflicted(r, p) /\ WellFormed(base[r].rows, base[r].links)
      /\ stage[r] = "open"
  BY CommitFacts
<1>2. x = <<l[1], "link", l[2]>> /\ x[1] = l[1] /\ x[3] = l[2]
  BY SinceFacts
<1>3. p.create \subseteq Dataset[r]
  BY <1>1 DEF Writing, PlanSound
<1>4. \A i \in p.delete : i.kind # "Skill"
  BY <1>1 DEF Writing, PlanSound
<1>5. \A m \in base[r].links : Old(m[1])
  BY <1>1 DEF SafeInv, BaseOK
<1>6. WellFormed(rows, links)
  BY DEF SafeInv, TypeOK, CatalogueTypeOK
<1> HIDE DEF p, l, new
<1>7. links' = ((Kept(p, links) \union LinksMade(r, p)) \ Removed(r, p)) \union Added(r, p)
  BY <1>1 DEF Applied
<1>8. ASSUME l \in links
      PROVE  l \in links'
  <2>1. l[1] \notin p.delete /\ ~(l[2] \in p.delete /\ l[2].kind = "Tag")
    BY <1>1, <1>2, <1>8 DEF Conflicted
  <2>2. l[2].kind \in {"Skill", "Tag"}
    BY <1>6, <1>8 DEF WellFormed, LinkFits
  <2>3. l[2] \notin p.delete
    BY <1>4, <2>1, <2>2
  <2>4. l \in Kept(p, links)
    BY <1>8, <2>1, <2>3 DEF Kept
  <2>5. l \notin Removed(r, p)
    BY <1>1, <1>2, <2>1, <2>3, TouchedFacts DEF Conflicted
  <2>6. QED
    BY <1>7, <2>4, <2>5
<1>9. ASSUME l \in links', l \notin links
      PROVE  FALSE
  <2>1. l \in base[r].links
    BY <1>9 DEF l
  <2>2. l \notin Added(r, p)
    BY <2>1 DEF Added
  <2>3. l \notin Kept(p, links)
    BY <1>9 DEF Kept
  <2>4. l \in LinksMade(r, p)
    BY <1>7, <1>9, <2>2, <2>3
  <2>5. PICK e \in p.create : l \in {Ident(r, p, e)} \X Wanted(r, p, e)
    BY <2>4 DEF LinksMade
  <2>6. l[1] = Ident(r, p, e)
    BY <2>5
  <2>7. ~Old(l[1])
    BY <1>1, <1>3, <2>6, IdFacts
  <2>8. QED
    BY <1>5, <2>1, <2>7
<1>10. QED
  BY <1>8, <1>9 DEF l

LEMMA CommitKeepsRows ==
  ASSUME SafeInv, NEW r \in Runs, Commit(r), NEW x \in since[r], x[2] # "link", x[1] \in DOMAIN rows
  PROVE  /\ x[1] \in DOMAIN rows'
         /\ x[2] = "texts" => /\ rows'[x[1]].key = rows[x[1]].key
                              /\ rows'[x[1]].second = rows[x[1]].second
         /\ x[2] = "row" => /\ rows'[x[1]].public = rows[x[1]].public
                            /\ rows'[x[1]].body = rows[x[1]].body
<1> DEFINE p   == plan[r]
           i   == x[1]
           new == [rows |-> rows', links |-> links']
<1>1. /\ Writing(r, p) /\ Applied(r, p, Database, new)
      /\ Database.rows = rows /\ new.rows = rows'
      /\ Named(p) \subseteq DOMAIN base[r].rows /\ ~Conflicted(r, p)
      /\ WellFormed(base[r].rows, base[r].links) /\ stage[r] = "open"
  BY CommitFacts
<1>2. x = <<i, x[2]>> /\ x[2] \in {"row", "texts"}
  BY SinceFacts
<1>3. x \notin Touched(r, p)
  BY <1>1 DEF Conflicted
<1>4. i \notin p.delete
  BY <1>1, <1>2, <1>3, TouchedFacts
<1>5. i \in DOMAIN rows'
  BY <1>1, <1>4 DEF Applied
<1>6. CASE x[2] = "texts"
  <2>1. <<i, "texts">> \notin Touched(r, p)
    BY <1>2, <1>3, <1>6
  <2>2. rows'[i].key = rows[i].key /\ rows'[i].second = rows[i].second
    BY <1>5, <2>1, RowKept
  <2>3. QED
    BY <1>5, <1>6, <2>2
<1>7. CASE x[2] = "row" /\ i.kind \notin {"Category", "Tag"}
  <2>1. <<i, "row">> \notin Touched(r, p)
    BY <1>2, <1>3, <1>7
  <2>2. rows'[i].public = rows[i].public /\ rows'[i].body = rows[i].body
    BY <1>5, <1>7, <2>1, RowKept
  <2>3. QED
    BY <1>5, <1>7, <2>2
<1>8. CASE x[2] = "row" /\ i.kind \in {"Category", "Tag"}
  <2>1. i \notin DOMAIN base[r].rows
    BY <1>1, <1>2, <1>8 DEF SafeInv, SinceOK
  <2>2. i \notin Named(p)
    BY <1>1, <2>1
  <2>3. rows'[i] = rows[i]
    BY <1>5, <2>2, RowKept
  <2>4. QED
    BY <1>5, <1>8, <2>3
<1>9. QED
  BY <1>2, <1>6, <1>7, <1>8

(* No lost update: what another session committed after a run's snapshot   *)
(* is neither overwritten nor removed by the run's commit.                 *)
THEOREM LateWritesKept == Spec => KeepsLateWrites
<1> DEFINE Step ==
      \A r \in Runs : Applies(r) =>
         \A x \in since[r] :
           /\ x[2] = "link" /\ <<x[1], x[3]>> \in links \union base[r].links =>
                (<<x[1], x[3]>> \in links <=> <<x[1], x[3]>> \in links')
           /\ x[2] # "link" /\ x[1] \in DOMAIN rows =>
                /\ x[1] \in DOMAIN rows'
                /\ x[2] = "texts" => /\ rows'[x[1]].key = rows[x[1]].key
                                     /\ rows'[x[1]].second = rows[x[1]].second
                /\ x[2] = "row" => /\ rows'[x[1]].public = rows[x[1]].public
                                   /\ rows'[x[1]].body = rows[x[1]].body
<1>1. SafeInv /\ [Next]_vars => Step
  BY AppliesIsCommit, CommitKeepsLinks, CommitKeepsRows
<1>2. SafeInv /\ [Next]_vars => [Step]_vars
  BY <1>1
<1>3. QED
  BY <1>2, Safety, PTL DEF Spec, KeepsLateWrites

(***************************************************************************)
(* A run that nobody disturbs.                                             *)
(***************************************************************************)

LEMMA ContentFacts ==
  ASSUME SafeInv
  PROVE  /\ View(Content)
         /\ Content.rows = [i \in DOMAIN Content.rows |-> rows[i]]
         /\ DOMAIN Content.rows = {i \in DOMAIN rows : i.kind \in Governed}
         /\ \A i \in DOMAIN Content.rows : Content.rows[i] = rows[i]
         /\ Content.links = links
<1>1. /\ DOMAIN rows \subseteq Ids /\ \A i \in DOMAIN rows : rows[i] \in Row /\ RowFits(i, rows[i])
      /\ links \subseteq Ids \X Ids /\ \A l \in links : LinkFits(l)
  BY DEF SafeInv, TypeOK, CatalogueTypeOK, WellFormed
<1>2. \A i \in DOMAIN rows : rows[i].kind = i.kind
  BY <1>1 DEF RowFits
<1> DEFINE held == {x \in DOMAIN rows : rows[x].kind \in Governed}
<1>3. held = {i \in DOMAIN rows : i.kind \in Governed}
  BY <1>2
<1>4. Content.rows = [i \in held |-> rows[i]] /\ Content.links = links
  BY DEF Content
<1> HIDE DEF held
<1>5. DOMAIN Content.rows = held /\ \A i \in held : Content.rows[i] = rows[i]
  BY <1>4
<1>6. WellFormed(Content.rows, Content.links)
  BY <1>1, <1>3, <1>4, <1>5 DEF WellFormed
<1>7. \A i \in held : Old(i)
  BY <1>3 DEF SafeInv, StoreOK
<1>8. QED
  BY <1>3, <1>4, <1>5, <1>6, <1>7 DEF View

(* The plan p is the one that s calls for. *)
Fresh(r, s, p) ==
  /\ View(s) /\ ~Problem(Dataset[r], s)
  /\ p = PlanOf(Dataset[r], s) /\ Writing(r, p)

LEMMA FreshMatches ==
  ASSUME NEW r \in Runs, NEW s, NEW p, Fresh(r, s, p), NEW e \in Dataset[r]
  PROVE  /\ e \in p.create <=> Matches(s, e) = {}
         /\ e \notin p.create =>
              /\ Matches(s, e) = {Ident(r, p, e)}
              /\ Ident(r, p, e) \in DOMAIN s.rows /\ s.rows[Ident(r, p, e)].kind = e.kind
              /\ ~IsSettings(e) => s.rows[Ident(r, p, e)].key = e.key
         /\ e \notin p.create \union p.update =>
              LET row == s.rows[Ident(r, p, e)]
              IN  /\ row.body = e.body
                  /\ ~IsSettings(e) => row.second = e.second
                  /\ e.kind = "Skill" => row.public = e.public
                  /\ e.kind = "Article" => KeyOf(s, row.category) = e.category
         /\ e \notin p.create /\ IsSettings(e) /\ ~p.texts => s.rows[Ident(r, p, e)].second = e.second
<1> DEFINE D == Dataset[r]
           i == Ident(r, p, e)
<1>1. View(s) /\ ~Problem(D, s) /\ p = PlanOf(D, s) /\ Writing(r, p)
  BY DEF Fresh
<1>2. e.kind \in Governed /\ e \in Entry
  BY DatasetType DEF Entry
<1>3. /\ p.create = {x \in D : x.kind \in Governed /\ Matches(s, x) = {}}
      /\ p.update = {x \in D : /\ x.kind \in Governed /\ Matches(s, x) # {}
                               /\ IF x.kind = "SiteSettings" THEN s.rows[Found(s, x)].body # x.body
                                  ELSE Drifted(s, x)}
      /\ p.texts = SettingsTexts(D, s)
      /\ p.found = {<<x, Found(s, x)>> : x \in {y \in D : Matches(s, y) # {}}}
  BY <1>1, PlanMembers
<1>4. e \in p.create <=> Matches(s, e) = {}
  BY <1>2, <1>3
<1>5. ASSUME e \notin p.create
      PROVE  Matches(s, e) = {i} /\ i = Found(s, e)
  <2>1. PICK f \in p.found : f[1] = e /\ f[2] = i
    BY <1>1, <1>5, IdFacts
  <2>2. PICK x \in D : f = <<x, Found(s, x)>>
    BY <1>3, <2>1
  <2>3. i = Found(s, e)
    BY <2>1, <2>2
  <2>4. QED
    BY <1>1, <1>4, <1>5, <2>3, MatchFacts
<1> HIDE DEF i
<1>6. ASSUME e \notin p.create
      PROVE  i \in DOMAIN s.rows /\ s.rows[i].kind = e.kind /\ (~IsSettings(e) => s.rows[i].key = e.key)
  BY <1>5, <1>6 DEF Matches, RowsOf, IsSettings
<1>7. ASSUME e \notin p.create \union p.update
      PROVE  /\ s.rows[i].body = e.body
             /\ ~IsSettings(e) => s.rows[i].second = e.second
             /\ e.kind = "Skill" => s.rows[i].public = e.public
             /\ e.kind = "Article" => KeyOf(s, s.rows[i].category) = e.category
  <2>1. IF e.kind = "SiteSettings" THEN s.rows[i].body = e.body ELSE ~Drifted(s, e)
    BY <1>2, <1>3, <1>4, <1>5, <1>7
  <2>2. CASE e.kind = "SiteSettings"
    BY <2>1, <2>2 DEF IsSettings
  <2>3. CASE e.kind # "SiteSettings"
    BY <1>5, <1>7, <2>1, <2>3 DEF Drifted
  <2>4. QED
    BY <2>2, <2>3
<1>8. ASSUME e \notin p.create, IsSettings(e), ~p.texts
      PROVE  s.rows[i].second = e.second
  <2>1. PICK f \in Entries(D, "SiteSettings") : ~(Matches(s, f) = {} \/ s.rows[Found(s, f)].second # f.second)
    BY <1>3, <1>8 DEF SettingsTexts
  <2>2. f = e
    BY <1>1, <1>8, <2>1, SettingsFacts DEF Entries, IsSettings
  <2>3. QED
    BY <1>5, <1>8, <2>1, <2>2
<1>9. QED
  BY <1>4, <1>5, <1>6, <1>7, <1>8 DEF i

(* A row that is no entry's: only a skill may stay, out of sight. *)
LEMMA FreshRest ==
  ASSUME NEW r \in Runs, NEW s, NEW p, Fresh(r, s, p), NEW i \in DOMAIN s.rows,
         \A e \in Dataset[r] : i \notin Matches(s, e)
  PROVE  /\ i.kind # "SiteSettings"
         /\ i.kind # "Skill" => i \in p.delete
         /\ i.kind = "Skill" => /\ s.rows[i].key \notin Keys(Dataset[r], "Skill")
                                /\ s.rows[i].key # None /\ s.rows[i].public => i \in p.hide
<1> DEFINE D == Dataset[r]
<1>1. View(s) /\ ~Problem(D, s) /\ p = PlanOf(D, s)
  BY DEF Fresh
<1>2. s.rows[i].kind = i.kind /\ i.kind \in Governed
  BY <1>1 DEF View, WellFormed, RowFits
<1>3. /\ p.hide = {x \in Stale(D, s, "Skill") : s.rows[x].public}
      /\ p.delete = {c \in Stale(D, s, "Category") : Survivors(D, s, c) = {}}
                  \union Stale(D, s, "Tag") \union Stale(D, s, "Experience")
                  \union Stale(D, s, "Project") \union Stale(D, s, "Article")
  BY <1>1, PlanMembers
<1>4. s.rows[i].key \notin Keys(D, i.kind)
  BY <1>2 DEF Keys, Entries, Matches, RowsOf
<1>5. i.kind # "SiteSettings"
  <2>1. PICK e \in D : e.kind = "SiteSettings"
    BY DatasetType
  <2>2. i.kind = "SiteSettings" => i \in Matches(s, e)
    BY <1>2, <2>1 DEF Matches, RowsOf
  <2>3. QED
    BY <2>1, <2>2
<1>6. ASSUME s.rows[i].key # None
      PROVE  i \in Stale(D, s, i.kind)
  BY <1>2, <1>4, <1>6 DEF Stale, RowsOf
<1>7. ASSUME i.kind # "Skill"
      PROVE  i \in p.delete
  <2>1. s.rows[i].key # None
    BY <1>1, <1>2, <1>5, <1>7 DEF Problem, Unnamed
  <2>2. \A c \in Stale(D, s, "Category") : Survivors(D, s, c) = {}
    BY <1>1 DEF Problem, Stranded
  <2>3. QED
    BY <1>2, <1>3, <1>5, <1>6, <1>7, <2>1, <2>2, KindFacts
<1>8. ASSUME i.kind = "Skill", s.rows[i].key # None, s.rows[i].public
      PROVE  i \in p.hide
  BY <1>3, <1>6, <1>8
<1>9. QED
  BY <1>4, <1>5, <1>7, <1>8

LEMMA FreshGone ==
  ASSUME NEW r \in Runs, NEW s, NEW p, Fresh(r, s, p), NEW i \in p.delete \union p.hide
  PROVE  /\ i \in DOMAIN s.rows /\ \A e \in Dataset[r] : i \notin Matches(s, e)
         /\ s.rows[i].key \notin Keys(Dataset[r], i.kind)
         /\ i \in p.delete => i \in Stale(Dataset[r], s, i.kind) /\ i.kind \notin {"Skill", "SiteSettings"}
<1> DEFINE D == Dataset[r]
<1>1. View(s) /\ ~Problem(D, s) /\ p = PlanOf(D, s)
  BY DEF Fresh
<1>2. /\ p.hide = {x \in Stale(D, s, "Skill") : s.rows[x].public}
      /\ p.delete = {c \in Stale(D, s, "Category") : Survivors(D, s, c) = {}}
                  \union Stale(D, s, "Tag") \union Stale(D, s, "Experience")
                  \union Stale(D, s, "Project") \union Stale(D, s, "Article")
  BY <1>1, PlanMembers
<1>3. ASSUME NEW kind \in Governed \ {"SiteSettings"}, i \in Stale(D, s, kind)
      PROVE  /\ i \in DOMAIN s.rows /\ \A e \in D : i \notin Matches(s, e)
             /\ s.rows[i].key \notin Keys(D, i.kind) /\ i.kind = kind
             /\ i \in Stale(D, s, i.kind)
  <2>1. i \in DOMAIN s.rows /\ i.kind = kind /\ \A e \in D : i \notin Matches(s, e)
    BY <1>1, <1>3, StaleFacts
  <2>2. s.rows[i].key \notin Keys(D, kind)
    BY <1>3 DEF Stale
  <2>3. QED
    BY <1>3, <2>1, <2>2
<1>4. CASE i \in p.hide
  <2>1. i \in Stale(D, s, "Skill")
    BY <1>2, <1>4
  <2>2. i \in p.delete => \E kind \in {"Category", "Tag", "Experience", "Project", "Article"} : i \in Stale(D, s, kind)
    BY <1>2
  <2>3. i.kind = "Skill"
    BY <1>3, <2>1, KindFacts
  <2>4. i \notin p.delete
    BY <1>3, <2>2, <2>3, KindFacts
  <2>5. QED
    BY <1>3, <2>1, <2>4, KindFacts
<1>5. CASE i \in p.delete
  <2>1. PICK kind \in {"Category", "Tag", "Experience", "Project", "Article"} : i \in Stale(D, s, kind)
    BY <1>2, <1>5
  <2>2. QED
    BY <1>3, <2>1, KindFacts
<1>6. QED
  BY <1>4, <1>5

(* An owner the plan leaves alone has the links its entry names. *)
LEMMA FreshLinks ==
  ASSUME NEW r \in Runs, NEW s, NEW p, Fresh(r, s, p), NEW e \in Dataset[r], e.kind \in Linking, e \notin p.relink
  PROVE  e.links = IF e \in p.create THEN {} ELSE {KeyOf(s, l[2]) : l \in LinksOf(s.links, Ident(r, p, e))}
<1> DEFINE D == Dataset[r]
<1>1. View(s) /\ ~Problem(D, s) /\ p = PlanOf(D, s)
  BY DEF Fresh
<1>2. p.relink = UNION {Regrouped(D, s, kind) : kind \in Linking}
  BY <1>1, PlanMembers
<1>3. e \notin Regrouped(D, s, e.kind)
  BY <1>2
<1>4. e.links = IF Matches(s, e) = {} THEN {}
                ELSE {KeyOf(s, l[2]) : l \in LinksOf(s.links, Found(s, e))}
  BY <1>3 DEF Regrouped, Entries
<1>5. e \notin p.create => Found(s, e) = Ident(r, p, e)
  BY <1>1, FreshMatches, MatchFacts
<1>6. QED
  BY <1>4, <1>5, FreshMatches

(* The run sees s of this database: everything but the protected rows. *)
Shows(s, db) ==
  /\ DOMAIN s.rows = {i \in DOMAIN db.rows : i.kind \in Governed}
  /\ \A i \in DOMAIN s.rows : s.rows[i] = db.rows[i]
  /\ s.links = db.links

(* A row says what its entry says. *)
Conforms(r, p, e, row) ==
  /\ row.kind = e.kind /\ row.second = e.second /\ row.body = e.body
  /\ ~IsSettings(e) => row.key = e.key
  /\ e.kind = "Skill" => row.public = e.public
  /\ IF e.kind = "Article"
     THEN \E f \in Dataset[r] : f.kind = "Category" /\ f.key = e.category /\ row.category = Ident(r, p, f)
     ELSE row.category = None

(* A skill that has left the dataset. *)
Leftover(r, i, row) ==
  /\ i.kind = "Skill" /\ row.kind = "Skill" /\ row.key \notin Keys(Dataset[r], "Skill")
  /\ row.key # None => ~row.public

LEMMA CategoryRow ==
  ASSUME NEW r \in Runs, NEW p, Writing(r, p), NEW e \in Dataset[r]
  PROVE  IF e.kind = "Article"
         THEN \E f \in Dataset[r] : /\ f.kind = "Category" /\ f.key = e.category
                                    /\ CategoryFor(r, p, e) = Ident(r, p, f)
         ELSE CategoryFor(r, p, e) = None
BY ResolveFacts

LEMMA ConformingWrites ==
  ASSUME NEW r \in Runs, NEW p, Writing(r, p), NEW e \in Dataset[r]
  PROVE  /\ Conforms(r, p, e, RowFor(r, p, e))
         /\ \A row \in Row : row.kind = e.kind /\ row.key = e.key /\ ~IsSettings(e) =>
              Conforms(r, p, e, Governing(r, p, e, row))
<1> DEFINE c == CategoryFor(r, p, e)
<1>1. IF e.kind = "Article"
      THEN \E f \in Dataset[r] : f.kind = "Category" /\ f.key = e.category /\ c = Ident(r, p, f)
      ELSE c = None
  BY CategoryRow
<1> HIDE DEF c
<1>2. /\ RowFor(r, p, e).kind = e.kind /\ RowFor(r, p, e).second = e.second /\ RowFor(r, p, e).body = e.body
      /\ e.kind # "SiteSettings" => RowFor(r, p, e).key = e.key
      /\ RowFor(r, p, e).public = e.public /\ RowFor(r, p, e).category = c
  BY DEF RowFor, c
<1>3. Conforms(r, p, e, RowFor(r, p, e))
  BY <1>1, <1>2 DEF Conforms, IsSettings
<1>4. ASSUME NEW row \in Row, row.kind = e.kind, row.key = e.key, ~IsSettings(e)
      PROVE  Conforms(r, p, e, Governing(r, p, e, row))
  <2>1. /\ Governing(r, p, e, row).kind = row.kind /\ Governing(r, p, e, row).second = e.second
        /\ Governing(r, p, e, row).body = e.body /\ Governing(r, p, e, row).key = e.key
        /\ e.kind = "Skill" => Governing(r, p, e, row).public = e.public
        /\ Governing(r, p, e, row).category = c
    BY <1>4 DEF Governing, Row, c
  <2>2. QED
    BY <1>1, <1>4, <2>1 DEF Conforms
<1>5. QED
  BY <1>3, <1>4

(* A row the plan finds nothing wrong with conforms. *)
LEMMA ConformingRows ==
  ASSUME NEW r \in Runs, NEW s, NEW p, Fresh(r, s, p), NEW e \in Dataset[r], e \notin p.create,
         e \notin p.update, ~IsSettings(e)
  PROVE  Conforms(r, p, e, s.rows[Ident(r, p, e)])
<1> DEFINE D == Dataset[r]
           i == Ident(r, p, e)
           row == s.rows[i]
<1>1. View(s) /\ ~Problem(D, s) /\ Writing(r, p)
  BY DEF Fresh
<1>2. /\ i \in DOMAIN s.rows /\ row.kind = e.kind /\ row.key = e.key
      /\ row.body = e.body /\ row.second = e.second
      /\ e.kind = "Skill" => row.public = e.public
      /\ e.kind = "Article" => KeyOf(s, row.category) = e.category
  BY FreshMatches
<1>3. i \in Ids /\ row \in Row /\ RowFits(i, row)
  BY <1>1, <1>2 DEF View, WellFormed
<1> HIDE DEF i, row
<1>4. CASE e.kind = "Article"
  <2>1. e.category \in Keys(D, "Category")
    BY <1>1, <1>4 DEF Problem, Unknown
  <2>2. PICK f \in D : f.kind = "Category" /\ f.key = e.category
    BY <2>1 DEF Keys, Entries
  <2>3. e.category \in Names /\ e.category # None
    BY <2>2, DatasetType, NoneIsNone DEF Entry
  <2>4. row.category \in DOMAIN s.rows /\ s.rows[row.category].key = e.category
    BY <1>2, <1>4, <2>3 DEF KeyOf
  <2>5. row.category # None
    BY <1>1, <2>4, NoneIsNone DEF View, WellFormed
  <2>6. row.category.kind = "Category"
    BY <1>3, <2>5 DEF RowFits
  <2>7. s.rows[row.category].kind = "Category"
    BY <1>1, <2>4, <2>6 DEF View, WellFormed, RowFits
  <2>8. row.category \in Matches(s, f)
    BY <2>2, <2>4, <2>7 DEF Matches, RowsOf
  <2>9. row.category = Ident(r, p, f)
    BY <2>8, FreshMatches
  <2>10. QED
    BY <1>2, <1>4, <2>2, <2>9 DEF Conforms, row, i
<1>5. CASE e.kind # "Article"
  <2>1. row.category = None
    BY <1>1, <1>2, <1>3, <1>5 DEF RowFits
  <2>2. QED
    BY <1>2, <1>5, <2>1 DEF Conforms, row, i
<1>6. QED
  BY <1>4, <1>5

(* What a plan that is still fresh makes of a database: every entry has    *)
(* its row, and whatever else is left is a skill out of sight, or          *)
(* protected.                                                              *)
LEMMA FreshOutcome ==
  ASSUME NEW r \in Runs, NEW s, NEW p, Fresh(r, s, p), NEW db, Settled(db), Shows(s, db),
         NEW new, Applied(r, p, db, new)
  PROVE  /\ \A e \in Dataset[r] : /\ Ident(r, p, e) \in DOMAIN new.rows
                                  /\ Conforms(r, p, e, new.rows[Ident(r, p, e)])
         /\ \A i \in DOMAIN new.rows :
              \/ \E e \in Dataset[r] : i = Ident(r, p, e)
              \/ /\ i \in DOMAIN db.rows /\ Leftover(r, i, new.rows[i])
                 /\ new.rows[i].key = db.rows[i].key
              \/ i \in DOMAIN db.rows /\ i.kind \notin Governed /\ new.rows[i] = db.rows[i]
<1> DEFINE D == Dataset[r]
           I(e) == Ident(r, p, e)
<1>1. View(s) /\ ~Problem(D, s) /\ Writing(r, p)
  BY DEF Fresh
<1>2. p.create \subseteq D /\ p.update \subseteq D /\ p.update \intersect p.create = {}
  BY <1>1 DEF Writing, PlanSound
<1>3. \A i \in DOMAIN db.rows : i \in Ids /\ db.rows[i] \in Row /\ RowFits(i, db.rows[i])
  BY DEF Settled, WellFormed
<1>4. \A e \in D : I(e) \notin p.hide /\ I(e) \notin p.delete /\ I(e).kind = e.kind
  BY <1>1, IdFacts
<1>5. \A e \in D \ p.create : /\ I(e) \in DOMAIN db.rows /\ s.rows[I(e)] = db.rows[I(e)]
                              /\ db.rows[I(e)].kind = e.kind
                              /\ ~IsSettings(e) => db.rows[I(e)].key = e.key
  BY FreshMatches DEF Shows
<1>6. DOMAIN new.rows = (DOMAIN db.rows \ p.delete) \union {I(e) : e \in p.create}
  BY DEF Applied
<1>7. \A e, f \in D : I(e) = I(f) => e = f
  BY <1>1, IdFacts
<1> HIDE DEF I
<1>8. ASSUME NEW e \in D
      PROVE  I(e) \in DOMAIN new.rows /\ Conforms(r, p, e, new.rows[I(e)])
  <2>1. CASE e \in p.create
    <3>1. I(e) \in DOMAIN new.rows /\ new.rows[I(e)] = RowFor(r, p, e)
      BY <1>6, <2>1 DEF Applied, I
    <3>2. QED
      BY <1>1, <3>1, ConformingWrites
  <2>2. CASE e \in p.update /\ ~IsSettings(e)
    <3>1. e \notin p.create
      BY <1>2, <2>2
    <3>2. I(e) \in DOMAIN new.rows /\ I(e) \in DOMAIN db.rows
      BY <1>4, <1>5, <1>6, <3>1
    <3>3. new.rows[I(e)] = Governing(r, p, e, db.rows[I(e)])
      BY <2>2, <3>2 DEF Applied, I
    <3>4. db.rows[I(e)] \in Row /\ db.rows[I(e)].kind = e.kind /\ db.rows[I(e)].key = e.key
      BY <1>3, <1>5, <2>2, <3>1, <3>2
    <3>5. QED
      BY <1>1, <2>2, <3>2, <3>3, <3>4, ConformingWrites
  <2>3. CASE e \notin p.create /\ IsSettings(e)
    <3>1. I(e) \in DOMAIN new.rows /\ I(e) \in DOMAIN db.rows
      BY <1>4, <1>5, <1>6, <2>3
    <3>2. new.rows[I(e)] = Scalars(p, e, db.rows[I(e)])
      BY <2>3, <3>1 DEF Applied, I
    <3>3. db.rows[I(e)] \in Row /\ db.rows[I(e)].kind = "SiteSettings" /\ RowFits(I(e), db.rows[I(e)])
      BY <1>3, <1>5, <2>3, <3>1 DEF IsSettings
    <3>4. ~p.texts => db.rows[I(e)].second = e.second
      BY <1>5, <2>3, FreshMatches DEF I
    <3>5. e \notin p.update => db.rows[I(e)].body = e.body
      BY <1>5, <2>3, FreshMatches DEF I
    <3>6. /\ new.rows[I(e)].kind = "SiteSettings" /\ new.rows[I(e)].second = e.second
          /\ new.rows[I(e)].body = e.body /\ new.rows[I(e)].category = db.rows[I(e)].category
      BY <3>2, <3>3, <3>4, <3>5 DEF Scalars, Row
    <3>7. db.rows[I(e)].category = None
      BY <1>4, <2>3, <3>3 DEF RowFits, IsSettings
    <3>8. QED
      BY <2>3, <3>1, <3>6, <3>7 DEF Conforms, IsSettings
  <2>4. CASE e \notin p.create /\ e \notin p.update /\ ~IsSettings(e)
    <3>1. I(e) \in DOMAIN new.rows /\ I(e) \in DOMAIN db.rows /\ I(e) \notin p.delete \union p.hide
      BY <1>4, <1>5, <1>6, <2>4
    <3>2. (\A f \in p.update : I(e) # I(f)) /\ (\A f \in D \ p.create : IsSettings(f) => I(e) # I(f))
      BY <1>2, <1>7, <2>4
    <3>3. new.rows[I(e)] = db.rows[I(e)]
      BY <3>1, <3>2 DEF Applied, I
    <3>4. Conforms(r, p, e, s.rows[I(e)])
      BY <2>4, ConformingRows DEF I
    <3>5. QED
      BY <1>5, <2>4, <3>1, <3>3, <3>4
  <2>5. QED
    BY <2>1, <2>2, <2>3, <2>4
<1>9. ASSUME NEW i \in DOMAIN new.rows, \A e \in D : i # I(e)
      PROVE  \/ /\ i \in DOMAIN db.rows /\ Leftover(r, i, new.rows[i])
                /\ new.rows[i].key = db.rows[i].key
             \/ i \in DOMAIN db.rows /\ i.kind \notin Governed /\ new.rows[i] = db.rows[i]
  <2>1. i \in DOMAIN db.rows /\ i \notin p.delete
    BY <1>2, <1>6, <1>9
  <2>2. db.rows[i] \in Row /\ db.rows[i].kind = i.kind
    BY <1>3, <2>1 DEF RowFits
  <2>3. /\ i \in p.hide => new.rows[i] = [db.rows[i] EXCEPT !.public = FALSE]
        /\ i \notin p.hide => new.rows[i] = db.rows[i]
    BY <1>2, <1>9, <2>1 DEF Applied, I
  <2>4. CASE i.kind \notin Governed
    <3>1. \A j \in p.hide : j.kind = "Skill"
      BY <1>1 DEF Writing, PlanSound
    <3>2. QED
      BY <2>1, <2>3, <2>4, <3>1, KindFacts
  <2>5. CASE i.kind \in Governed
    <3>1. i \in DOMAIN s.rows /\ s.rows[i] = db.rows[i]
      BY <2>1, <2>5 DEF Shows
    <3>2. \A e \in D : i \notin Matches(s, e)
      BY <1>9, FreshMatches DEF I
    <3>3. /\ i.kind = "Skill" /\ db.rows[i].key \notin Keys(D, "Skill")
          /\ db.rows[i].key # None /\ db.rows[i].public => i \in p.hide
      BY <2>1, <3>1, <3>2, FreshRest
    <3>4. new.rows[i].kind = "Skill" /\ new.rows[i].key = db.rows[i].key
      BY <2>2, <2>3, <3>3 DEF Row
    <3>5. db.rows[i].key # None => ~new.rows[i].public
      BY <2>2, <2>3, <3>3 DEF Row
    <3>6. QED
      BY <2>1, <3>3, <3>4, <3>5 DEF Leftover
  <2>6. QED
    BY <2>4, <2>5
<1>10. QED
  BY <1>8, <1>9 DEF I

(* A link the plan finds in place leads to the row of the entry it names.  *)
LEMMA LinkedTarget ==
  ASSUME NEW r \in Runs, NEW s, NEW p, Fresh(r, s, p), NEW e \in Dataset[r], e.kind \in Linking,
         NEW l \in s.links, l[1].kind = e.kind, KeyOf(s, l[2]) \in e.links
  PROVE  \E f \in Dataset[r] : /\ f.kind = TargetKind(e.kind) /\ f.key = KeyOf(s, l[2])
                               /\ l[2] = Ident(r, p, f)
<1> DEFINE D == Dataset[r]
           key == KeyOf(s, l[2])
<1>1. View(s) /\ ~Problem(D, s)
  BY DEF Fresh
<1>2. key \in Keys(D, TargetKind(e.kind))
  BY <1>1 DEF Problem, Unknown
<1>3. PICK f \in D : f.kind = TargetKind(e.kind) /\ f.key = key
  BY <1>2 DEF Keys, Entries
<1>4. key # None
  BY <1>3, DatasetType, NoneIsNone DEF Entry
<1>5. l[2] \in DOMAIN s.rows /\ s.rows[l[2]].key = key
  BY <1>4 DEF KeyOf
<1>6. LinkFits(l) /\ s.rows[l[2]].kind = l[2].kind
  BY <1>1, <1>5 DEF View, WellFormed, RowFits
<1>7. l[2].kind = TargetKind(e.kind)
  BY <1>6 DEF LinkFits, TargetKind, Linking
<1> HIDE DEF key
<1>8. l[2] \in Matches(s, f)
  BY <1>3, <1>5, <1>6, <1>7 DEF Matches, RowsOf
<1>9. l[2] = Ident(r, p, f)
  BY <1>8, FreshMatches
<1>10. QED
  BY <1>3, <1>9 DEF key

(* Every owner ends up with the links its entry names, and no others.      *)
LEMMA FreshLinksAfter ==
  ASSUME NEW r \in Runs, NEW s, NEW p, Fresh(r, s, p), NEW db, Settled(db), Shows(s, db),
         Referenced(db.rows, db.links), base[r].links = db.links,
         NEW new, Applied(r, p, db, new), NEW e \in Dataset[r], e.kind \in Linking
  PROVE  \A l : l[1] = Ident(r, p, e) /\ l = <<l[1], l[2]>> =>
           (l \in new.links <=> l[2] \in Wanted(r, p, e))
<1> DEFINE D == Dataset[r]
           I(f) == Ident(r, p, f)
           W(f) == Wanted(r, p, f)
<1>1. View(s) /\ ~Problem(D, s) /\ Writing(r, p)
  BY DEF Fresh
<1>2. p.create \subseteq D /\ p.relink \subseteq D /\ p \in Plan
  BY <1>1 DEF Writing, PlanSound
<1>3. new.links = ((Kept(p, db.links) \union LinksMade(r, p)) \ Removed(r, p)) \union Added(r, p)
  BY DEF Applied
<1>4. \A f \in D : /\ IdsOf(r, p, f) = {I(f)} /\ I(f) \notin p.delete /\ (f \in p.create <=> ~Old(I(f)))
                   /\ \A g \in D : I(f) = I(g) => f = g
  BY <1>1, IdFacts
<1>5. W(e) = {I(f) : f \in {x \in D : x.kind = TargetKind(e.kind) /\ x.key \in e.links}}
  BY <1>1, ResolveFacts
<1>6. \A t \in W(e) : t \notin p.delete
  BY <1>4, <1>5
<1>7. db.links \subseteq Ids \X Ids /\ \A l \in db.links : l[1] \in DOMAIN db.rows /\ l[2] \in DOMAIN db.rows
  BY DEF Settled, WellFormed, Referenced
<1> HIDE DEF I, W
<1>8. ASSUME NEW l, l[1] = I(e), l = <<l[1], l[2]>>
      PROVE  l \in new.links <=> l[2] \in W(e)
  <2>1. l \in Kept(p, db.links) <=> l \in db.links /\ l[2] \notin p.delete
    BY <1>4, <1>8 DEF Kept
  <2>2. l \in LinksMade(r, p) <=> e \in p.create /\ l[2] \in W(e)
    <3>1. LinksMade(r, p) = UNION {{I(f)} \X W(f) : f \in p.create}
      BY DEF LinksMade, I, W
    <3>2. ASSUME l \in LinksMade(r, p)
          PROVE  e \in p.create /\ l[2] \in W(e)
      <4>1. PICK f \in p.create : l \in {I(f)} \X W(f)
        BY <3>1, <3>2
      <4>2. f = e
        BY <1>2, <1>4, <1>8, <4>1
      <4>3. QED
        BY <4>1, <4>2
    <3>3. ASSUME e \in p.create, l[2] \in W(e)
          PROVE  l \in LinksMade(r, p)
      <4>1. l \in {I(e)} \X W(e)
        BY <1>8, <3>3
      <4>2. QED
        BY <3>1, <3>3, <4>1
    <3>4. QED
      BY <3>2, <3>3
  <2>3. l \in Removed(r, p) <=> e \in p.relink /\ l \in db.links /\ l[2] \notin W(e)
    BY <1>2, <1>4, <1>8 DEF Removed, W
  <2>4. l \in Added(r, p) <=> e \in p.relink /\ l[2] \in W(e) /\ l \notin db.links
    <3>1. ASSUME NEW f \in p.relink, l \in IdsOf(r, p, f) \X W(f)
          PROVE  f = e
      BY <1>2, <1>4, <1>8, <3>1
    <3>2. e \in p.relink /\ l[2] \in W(e) => l \in IdsOf(r, p, e) \X W(e)
      BY <1>2, <1>4, <1>8
    <3>3. Added(r, p) = (UNION {IdsOf(r, p, f) \X W(f) : f \in p.relink}) \ db.links
      BY DEF Added, W
    <3>4. ASSUME l \in Added(r, p)
          PROVE  e \in p.relink /\ l[2] \in W(e) /\ l \notin db.links
      <4>1. PICK f \in p.relink : l \in IdsOf(r, p, f) \X W(f)
        BY <3>3, <3>4
      <4>2. f = e
        BY <3>1, <4>1
      <4>3. QED
        BY <3>3, <3>4, <4>1, <4>2
    <3>5. ASSUME e \in p.relink, l[2] \in W(e), l \notin db.links
          PROVE  l \in Added(r, p)
      BY <3>2, <3>3, <3>5
    <3>6. QED
      BY <3>4, <3>5
  <2>5. CASE e \in p.relink
    BY <1>3, <1>6, <2>1, <2>2, <2>3, <2>4, <2>5
  <2>6. CASE e \notin p.relink
    <3>1. l \in new.links <=> (l \in db.links /\ l[2] \notin p.delete) \/ (e \in p.create /\ l[2] \in W(e))
      BY <1>3, <2>1, <2>2, <2>3, <2>4, <2>6
    <3>2. e.links = IF e \in p.create THEN {} ELSE {KeyOf(s, x[2]) : x \in LinksOf(s.links, I(e))}
      BY <2>6, FreshLinks DEF I
    <3>3. CASE e \in p.create
      <4>1. W(e) = {}
        BY <1>5, <3>2, <3>3
      <4>2. l \notin db.links
        BY <1>4, <1>7, <1>8, <3>3 DEF Settled
      <4>3. QED
        BY <3>1, <4>1, <4>2
    <3>4. CASE e \notin p.create
      <4>1. ASSUME NEW x \in db.links, x[1] = I(e)
            PROVE  x[2] \in W(e) /\ \E f \in D : f.kind = TargetKind(e.kind) /\ f.key = KeyOf(s, x[2]) /\ x[2] = I(f)
        <5>1. x \in s.links /\ KeyOf(s, x[2]) \in e.links
          BY <3>2, <3>4, <4>1 DEF Shows, LinksOf
        <5>2. x[1].kind = e.kind
          BY <1>1, <4>1, IdFacts DEF I
        <5>3. PICK f \in D : f.kind = TargetKind(e.kind) /\ f.key = KeyOf(s, x[2]) /\ x[2] = I(f)
          BY <5>1, <5>2, LinkedTarget DEF I
        <5>4. QED
          BY <1>5, <5>1, <5>3
      <4>2. ASSUME l[2] \in W(e)
            PROVE  l \in db.links
        <5>1. PICK f \in D : f.kind = TargetKind(e.kind) /\ f.key \in e.links /\ l[2] = I(f)
          BY <1>5, <4>2
        <5>2. PICK x \in LinksOf(s.links, I(e)) : KeyOf(s, x[2]) = f.key
          BY <3>2, <3>4, <5>1
        <5>3. x \in db.links /\ x[1] = I(e)
          BY <5>2 DEF LinksOf, Shows
        <5>4. PICK g \in D : g.kind = TargetKind(e.kind) /\ g.key = KeyOf(s, x[2]) /\ x[2] = I(g)
          BY <4>1, <5>3
        <5>5. g = f
          BY <1>1, <5>1, <5>2, <5>4 DEF Writing, PlanSound
        <5>6. x = <<x[1], x[2]>>
          BY <1>7, <5>3
        <5>7. l = x
          BY <1>8, <5>1, <5>3, <5>4, <5>5, <5>6
        <5>8. QED
          BY <5>3, <5>7
      <4>3. QED
        BY <1>6, <1>8, <3>1, <3>4, <4>1, <4>2
    <3>5. QED
      BY <3>3, <3>4
  <2>7. QED
    BY <2>5, <2>6
<1>9. QED
  BY <1>8 DEF I, W

(* A database that says what the dataset says: each entry's row conforms,  *)
(* owners have their links, and the rest is skills out of sight.           *)
Synchronized(r, p, t) ==
  LET D == Dataset[r]
  IN  /\ \A i \in DOMAIN t.rows : t.rows[i].kind = i.kind
      /\ \A e \in D : Ident(r, p, e) \in DOMAIN t.rows /\ Conforms(r, p, e, t.rows[Ident(r, p, e)])
      /\ \A i \in DOMAIN t.rows : (\E e \in D : i = Ident(r, p, e)) \/ Leftover(r, i, t.rows[i])
      /\ \A i, j \in DOMAIN t.rows :
           Leftover(r, i, t.rows[i]) /\ Leftover(r, j, t.rows[j]) /\ t.rows[i].key = t.rows[j].key => i = j
      /\ t.links \subseteq Ids \X Ids
      /\ \A e \in D : e.kind \in Linking =>
           \A l : l[1] = Ident(r, p, e) /\ l = <<l[1], l[2]>> =>
             (l \in t.links <=> l[2] \in Wanted(r, p, e))

LEMMA SynchronizedMatches ==
  ASSUME NEW r \in Runs, NEW s, NEW p, Fresh(r, s, p), NEW t, Synchronized(r, p, t), NEW e \in Dataset[r]
  PROVE  Matches(t, e) = {Ident(r, p, e)} /\ Found(t, e) = Ident(r, p, e)
<1> DEFINE D == Dataset[r]
           I(f) == Ident(r, p, f)
<1>1. Writing(r, p)
  BY DEF Fresh
<1>2. /\ \A f \in D : I(f) \in DOMAIN t.rows /\ Conforms(r, p, f, t.rows[I(f)])
      /\ \A i \in DOMAIN t.rows : (\E f \in D : i = I(f)) \/ Leftover(r, i, t.rows[i])
  BY DEF Synchronized
<1>3. \A f, g \in D : f.kind = g.kind /\ f.key = g.key => f = g
  BY <1>1 DEF Writing, PlanSound
<1>4. \A f, g \in D : IsSettings(f) /\ IsSettings(g) => f = g
  BY <1>1, SettingsFacts
<1> HIDE DEF I
<1>5. I(e) \in Matches(t, e)
  BY <1>2 DEF Matches, RowsOf, Conforms, IsSettings
<1>6. ASSUME NEW i \in Matches(t, e)
      PROVE  i = I(e)
  <2>1. i \in DOMAIN t.rows /\ t.rows[i].kind = e.kind /\ (t.rows[i].key = e.key \/ IsSettings(e))
    BY <1>6 DEF Matches, RowsOf, IsSettings
  <2>2. CASE \E f \in D : i = I(f)
    <3>1. PICK f \in D : i = I(f)
      BY <2>2
    <3>2. f.kind = e.kind /\ (~IsSettings(f) => f.key = t.rows[i].key)
      BY <1>2, <2>1, <3>1 DEF Conforms
    <3>3. f = e
      BY <1>3, <1>4, <2>1, <3>2 DEF IsSettings
    <3>4. QED
      BY <3>1, <3>3
  <2>3. CASE Leftover(r, i, t.rows[i])
    <3>1. e.kind = "Skill" /\ t.rows[i].key \notin Keys(D, "Skill")
      BY <2>1, <2>3 DEF Leftover
    <3>2. t.rows[i].key = e.key
      BY <2>1, <3>1 DEF IsSettings
    <3>3. QED
      BY <3>1, <3>2 DEF Keys, Entries
  <2>4. QED
    BY <1>2, <2>1, <2>2, <2>3
<1>7. Matches(t, e) = {I(e)}
  BY <1>5, <1>6
<1>8. QED
  BY <1>7 DEF Found, I

(* What is stale in it is out of sight already.                            *)
LEMMA SynchronizedStale ==
  ASSUME NEW r \in Runs, NEW s, NEW p, Fresh(r, s, p), NEW t, Synchronized(r, p, t), NEW kind \in Governed,
         NEW i \in Stale(Dataset[r], t, kind)
  PROVE  kind \in {"Skill", "SiteSettings"} /\ (kind = "Skill" => ~t.rows[i].public)
<1> DEFINE D == Dataset[r]
<1>1. i \in DOMAIN t.rows /\ t.rows[i].kind = kind /\ t.rows[i].key # None /\ t.rows[i].key \notin Keys(D, kind)
  BY DEF Stale, RowsOf
<1>2. CASE \E e \in D : i = Ident(r, p, e)
  <2>1. PICK e \in D : i = Ident(r, p, e)
    BY <1>2
  <2>2. e.kind = kind /\ (~IsSettings(e) => e.key = t.rows[i].key)
    BY <1>1, <2>1 DEF Synchronized, Conforms
  <2>3. IsSettings(e)
    BY <1>1, <2>2 DEF Keys, Entries
  <2>4. QED
    BY <2>2, <2>3 DEF IsSettings
<1>3. CASE Leftover(r, i, t.rows[i])
  BY <1>1, <1>3 DEF Leftover
<1>4. QED
  BY <1>1, <1>2, <1>3 DEF Synchronized

(* There is nothing to do about it.                                        *)
LEMMA NothingLeft ==
  ASSUME NEW r \in Runs, NEW s, NEW p, Fresh(r, s, p), NEW t, Synchronized(r, p, t)
  PROVE  ~Problem(Dataset[r], t) /\ NoOp(PlanOf(Dataset[r], t))
<1> DEFINE D == Dataset[r]
           I(e) == Ident(r, p, e)
           q == PlanOf(D, t)
<1>1. Writing(r, p) /\ ~Problem(D, s)
  BY DEF Fresh
<1>2. /\ \A i \in DOMAIN t.rows : t.rows[i].kind = i.kind
      /\ \A e \in D : I(e) \in DOMAIN t.rows /\ Conforms(r, p, e, t.rows[I(e)])
      /\ \A i \in DOMAIN t.rows : (\E e \in D : i = I(e)) \/ Leftover(r, i, t.rows[i])
      /\ \A i, j \in DOMAIN t.rows :
           Leftover(r, i, t.rows[i]) /\ Leftover(r, j, t.rows[j]) /\ t.rows[i].key = t.rows[j].key => i = j
  BY DEF Synchronized
<1>3. \A e \in D : Matches(t, e) = {I(e)} /\ Found(t, e) = I(e)
  BY SynchronizedMatches
<1>4. \A e \in D : e \in Entry /\ e.kind \in Governed /\ e.key # None /\ e.category \in Names \union {None}
  BY DatasetType, NoneIsNone DEF Entry
<1>5. \A e, f \in D : e.kind = f.kind /\ e.key = f.key => e = f
  BY <1>1 DEF Writing, PlanSound
<1>6. \A e, f \in D : IsSettings(e) /\ IsSettings(f) => e = f
  BY <1>1, SettingsFacts
<1>7. \A kind \in Governed \ {"Skill", "SiteSettings"} : Stale(D, t, kind) = {}
  BY SynchronizedStale
<1> HIDE DEF I
<1>8. ~DuplicateKeys(D) /\ ~Unknown(D)
  BY <1>1 DEF Problem
<1>9. ~Unnamed(t)
  <2>1. ASSUME NEW i \in DOMAIN t.rows, t.rows[i].kind \notin {"Skill", "SiteSettings"}
        PROVE  t.rows[i].key # None
    <3>1. PICK e \in D : i = I(e)
      BY <1>2, <2>1 DEF Leftover
    <3>2. QED
      BY <1>2, <1>4, <2>1, <3>1 DEF Conforms, IsSettings
  <2>2. QED
    BY <2>1 DEF Unnamed
<1>10. ~Ambiguous(t)
  <2>1. ASSUME NEW i \in DOMAIN t.rows, NEW j \in DOMAIN t.rows,
               t.rows[i].kind = t.rows[j].kind, t.rows[i].key = t.rows[j].key
        PROVE  i = j
    <3>1. ASSUME NEW x \in DOMAIN t.rows, NEW e \in D, x = I(e), NEW y \in DOMAIN t.rows, Leftover(r, y, t.rows[y]),
                 t.rows[x].kind = t.rows[y].kind
          PROVE  t.rows[x].key # t.rows[y].key
      <4>1. e.kind = "Skill" /\ e.key = t.rows[x].key
        BY <1>2, <3>1 DEF Conforms, Leftover, IsSettings
      <4>2. QED
        BY <3>1, <4>1 DEF Leftover, Keys, Entries
    <3>2. CASE \E e, f \in D : i = I(e) /\ j = I(f)
      <4>1. PICK e \in D, f \in D : i = I(e) /\ j = I(f)
        BY <3>2
      <4>2. e.kind = f.kind /\ (~IsSettings(e) => e.key = f.key)
        BY <1>2, <2>1, <4>1 DEF Conforms, IsSettings
      <4>3. QED
        BY <1>5, <1>6, <4>1, <4>2 DEF IsSettings
    <3>3. CASE Leftover(r, i, t.rows[i]) /\ Leftover(r, j, t.rows[j])
      BY <1>2, <2>1, <3>3
    <3>4. QED
      BY <1>2, <2>1, <3>1, <3>2, <3>3
  <2>2. QED
    BY <2>1 DEF Ambiguous
<1>11. ~SplitIdentity(D, t)
  BY <1>3 DEF SplitIdentity, Creations, Entries
<1>12. ~Stranded(D, t)
  BY <1>7, KindFacts DEF Stranded
<1>13. ~SlugCollision(D, t)
  <2>1. ASSUME NEW kind \in Slugged, NEW e \in Entries(D, kind), NEW f \in Entries(D, kind) \ {e}
        PROVE  f.second # e.second
    BY <1>1, <2>1 DEF Problem, SlugCollision
  <2>2. ASSUME NEW kind \in Slugged, NEW e \in Entries(D, kind), NEW i \in RowsOf(t.rows, kind) \ Matches(t, e)
        PROVE  t.rows[i].second # e.second
    <3>1. e \in D /\ e.kind = kind /\ i \in DOMAIN t.rows /\ t.rows[i].kind = kind /\ kind \notin {"Skill", "SiteSettings"}
      BY <2>2, KindFacts DEF Entries, RowsOf
    <3>2. PICK f \in D : i = I(f)
      BY <1>2, <3>1 DEF Leftover
    <3>3. f.kind = kind /\ f.second = t.rows[i].second /\ f # e
      BY <1>2, <1>3, <2>2, <3>1, <3>2 DEF Conforms
    <3>4. QED
      BY <2>1, <2>2, <3>1, <3>3 DEF Entries
  <2>3. QED
    BY <2>1, <2>2 DEF SlugCollision
<1>14. q.create = {}
  <2>1. q.create = {e \in D : e.kind \in Governed /\ Matches(t, e) = {}}
    BY PlanMembers
  <2>2. \A e \in D : Matches(t, e) # {}
    BY <1>3
  <2> HIDE DEF q
  <2>3. QED
    BY <2>1, <2>2
<1>15. q.update = {}
  <2>1. ASSUME NEW e \in D, ~IsSettings(e)
        PROVE  ~Drifted(t, e)
    <3> DEFINE row == t.rows[I(e)]
    <3>1. /\ row.kind = e.kind /\ row.second = e.second /\ row.body = e.body
          /\ e.kind = "Skill" => row.public = e.public
          /\ e.kind = "Article" => \E f \in D : f.kind = "Category" /\ f.key = e.category /\ row.category = I(f)
      BY <1>2 DEF Conforms, I
    <3> HIDE DEF row
    <3>2. e.kind = "Article" => KeyOf(t, row.category) = e.category
      BY <1>2, <3>1 DEF KeyOf, Conforms, IsSettings
    <3>3. QED
      BY <1>3, <3>1, <3>2 DEF Drifted, row
  <2>2. ASSUME NEW e \in D, IsSettings(e)
        PROVE  t.rows[Found(t, e)].body = e.body
    BY <1>2, <1>3 DEF Conforms
  <2>3. q.update = {e \in D : /\ e.kind \in Governed /\ Matches(t, e) # {}
                              /\ IF e.kind = "SiteSettings" THEN t.rows[Found(t, e)].body # e.body
                                 ELSE Drifted(t, e)}
    BY PlanMembers
  <2> HIDE DEF q
  <2>4. QED
    BY <2>1, <2>2, <2>3 DEF IsSettings
<1>16. q.hide = {}
  <2>1. q.hide = {i \in Stale(D, t, "Skill") : t.rows[i].public}
    BY PlanMembers
  <2>2. QED
    BY <2>1, SynchronizedStale, KindFacts
<1>17. q.delete = {}
  <2>1. q.delete \subseteq Stale(D, t, "Category")
                  \union Stale(D, t, "Tag") \union Stale(D, t, "Experience")
                  \union Stale(D, t, "Project") \union Stale(D, t, "Article")
    BY PlanMembers
  <2>2. QED
    BY <1>7, <2>1, KindFacts
<1>18. q.relink = {}
  <2>1. ASSUME NEW e \in D, e.kind \in Linking
        PROVE  e.links = {KeyOf(t, l[2]) : l \in LinksOf(t.links, I(e))}
    <3>1. Wanted(r, p, e) = {I(f) : f \in {x \in D : x.kind = TargetKind(e.kind) /\ x.key \in e.links}}
      BY <1>1, ResolveFacts DEF I
    <3>2. \A f \in D : f.kind = TargetKind(e.kind) => KeyOf(t, I(f)) = f.key
      BY <1>2 DEF KeyOf, Conforms, IsSettings, TargetKind
    <3>3. ASSUME NEW l \in LinksOf(t.links, I(e))
          PROVE  KeyOf(t, l[2]) \in e.links
      <4>1. l \in t.links /\ l[1] = I(e) /\ l = <<l[1], l[2]>>
        BY DEF LinksOf, Synchronized
      <4>2. l[2] \in Wanted(r, p, e)
        BY <2>1, <4>1 DEF Synchronized, I
      <4>3. QED
        BY <3>1, <3>2, <4>2
    <3>4. ASSUME NEW key \in e.links
          PROVE  \E l \in LinksOf(t.links, I(e)) : KeyOf(t, l[2]) = key
      <4>1. PICK f \in D : f.kind = TargetKind(e.kind) /\ f.key = key
        BY <1>8 DEF Unknown, Keys, Entries
      <4>2. I(f) \in Wanted(r, p, e)
        BY <3>1, <3>4, <4>1
      <4> DEFINE l == <<I(e), I(f)>>
      <4>3. l[1] = I(e) /\ l[2] = I(f) /\ l = <<l[1], l[2]>>
        OBVIOUS
      <4> HIDE DEF l
      <4>4. l \in t.links
        BY <2>1, <4>2, <4>3 DEF Synchronized, I
      <4>5. QED
        BY <3>2, <4>1, <4>3, <4>4 DEF LinksOf
    <3>5. QED
      BY <3>3, <3>4
  <2>2. \A kind \in Linking : Regrouped(D, t, kind) = {}
    BY <1>3, <2>1 DEF Regrouped, Entries
  <2>3. q.relink = UNION {Regrouped(D, t, kind) : kind \in Linking}
    BY PlanMembers
  <2>4. QED
    BY <2>2, <2>3
<1>19. ~q.texts
  <2>1. PICK e \in D : IsSettings(e)
    BY <1>1, SettingsFacts
  <2>2. t.rows[I(e)].second = e.second
    BY <1>2 DEF Conforms
  <2>3. ~SettingsTexts(D, t)
    BY <1>3, <2>1, <2>2 DEF SettingsTexts, Entries, IsSettings
  <2>4. QED
    BY <2>3, PlanMembers
<1>20. QED
  BY <1>8, <1>9, <1>10, <1>11, <1>12, <1>13, <1>14, <1>15, <1>16, <1>17, <1>18, <1>19 DEF Problem, NoOp

(* What a commit leaves of a database the run has seen.                    *)
LEMMA FreshSynchronizes ==
  ASSUME NEW r \in Runs, NEW s, NEW p, Fresh(r, s, p), NEW db, Settled(db), Shows(s, db),
         Referenced(db.rows, db.links), base[r].links = db.links,
         NEW new, Applied(r, p, db, new),
         NEW t, DOMAIN t.rows = {i \in DOMAIN new.rows : i.kind \in Governed},
         \A i \in DOMAIN t.rows : t.rows[i] = new.rows[i], t.links = new.links
  PROVE  Synchronized(r, p, t)
<1> DEFINE D == Dataset[r]
<1>1. View(s) /\ ~Problem(D, s) /\ Writing(r, p)
  BY DEF Fresh
<1>2. WellFormed(new.rows, new.links)
  BY <1>1, AppliedTyped
<1>3. \A i \in DOMAIN t.rows : t.rows[i].kind = i.kind
  BY <1>2 DEF WellFormed, RowFits
<1>4. ASSUME NEW e \in D
      PROVE  Ident(r, p, e) \in DOMAIN t.rows /\ Conforms(r, p, e, t.rows[Ident(r, p, e)])
  <2>1. Ident(r, p, e) \in DOMAIN new.rows /\ Conforms(r, p, e, new.rows[Ident(r, p, e)])
    BY FreshOutcome
  <2>2. Ident(r, p, e).kind \in Governed
    BY <1>1, IdFacts, DatasetType DEF Entry
  <2>3. QED
    BY <2>1, <2>2
<1>5. ASSUME NEW i \in DOMAIN t.rows, \A e \in D : i # Ident(r, p, e)
      PROVE  Leftover(r, i, t.rows[i]) /\ i \in DOMAIN s.rows /\ t.rows[i].key = s.rows[i].key
  <2>1. i \in DOMAIN new.rows /\ i.kind \in Governed
    OBVIOUS
  <2>2. i \in DOMAIN db.rows /\ Leftover(r, i, new.rows[i]) /\ new.rows[i].key = db.rows[i].key
    BY <1>5, <2>1, FreshOutcome
  <2>3. QED
    BY <2>1, <2>2 DEF Shows
<1>6. ASSUME NEW i \in DOMAIN t.rows, NEW j \in DOMAIN t.rows,
             Leftover(r, i, t.rows[i]), Leftover(r, j, t.rows[j]), t.rows[i].key = t.rows[j].key
      PROVE  i = j
  <2>1. ASSUME NEW x \in DOMAIN t.rows, Leftover(r, x, t.rows[x])
        PROVE  \A e \in D : x # Ident(r, p, e)
    <3>1. ASSUME NEW e \in D, x = Ident(r, p, e)
          PROVE  FALSE
      <4>1. e.kind = "Skill" /\ t.rows[x].key = e.key
        BY <1>4, <2>1, <3>1 DEF Conforms, Leftover, IsSettings
      <4>2. QED
        BY <2>1, <4>1 DEF Leftover, Keys, Entries
    <3>2. QED
      BY <3>1
  <2>2. /\ i \in DOMAIN s.rows /\ j \in DOMAIN s.rows /\ s.rows[i].key = s.rows[j].key
        /\ i.kind = "Skill" /\ j.kind = "Skill"
    BY <1>5, <1>6, <2>1 DEF Leftover
  <2>3. s.rows[i].kind = s.rows[j].kind
    BY <1>1, <2>2 DEF View, WellFormed, RowFits
  <2>4. QED
    BY <1>1, <2>2, <2>3 DEF Problem, Ambiguous
<1>7. ASSUME NEW e \in D, e.kind \in Linking, NEW l, l[1] = Ident(r, p, e), l = <<l[1], l[2]>>
      PROVE  l \in t.links <=> l[2] \in Wanted(r, p, e)
  BY <1>7, FreshLinksAfter
<1>8. t.links \subseteq Ids \X Ids
  BY <1>2 DEF WellFormed
<1>9. QED
  BY <1>3, <1>4, <1>5, <1>6, <1>7, <1>8 DEF Synchronized

(***************************************************************************)
(* A fresh plan goes through.                                              *)
(***************************************************************************)

(* Before the stale categories go, a row that a constraint is about is an  *)
(* entry's, a skill's that has left, or theirs.                            *)
LEMMA FreshUnique ==
  ASSUME NEW r \in Runs, NEW s, NEW p, Fresh(r, s, p), NEW db, Settled(db), Shows(s, db), Unique(db.rows)
  PROVE  Unique(Rewritten(r, p, db).rows)
<1> DEFINE D   == Dataset[r]
           put == Rewritten(r, p, db)
           new == Result(r, p, db)
           Entered(i) == \E e \in D : /\ i = Ident(r, p, e) /\ ~IsSettings(e)
                                      /\ Conforms(r, p, e, put.rows[i])
           Left(i)  == i \in DOMAIN s.rows /\ Leftover(r, i, put.rows[i]) /\ put.rows[i].key = s.rows[i].key
           Stays(i) == /\ i \in DOMAIN s.rows /\ i \in p.delete /\ i.kind = "Category"
                       /\ put.rows[i] = s.rows[i]
<1>1. View(s) /\ ~Problem(D, s) /\ Writing(r, p)
  BY DEF Fresh
<1>2. /\ Applied(r, p, db, new)
      /\ \A i \in DOMAIN new.rows : i.kind # "SiteSettings" =>
           i \in DOMAIN put.rows /\ new.rows[i] = put.rows[i]
      /\ \A i \in DOMAIN put.rows : i \in DOMAIN new.rows \/ (i \in p.delete /\ i.kind = "Category")
      /\ \A i \in DOMAIN put.rows : i \in p.delete \/ i.kind = "SiteSettings" =>
           i \in DOMAIN db.rows /\ put.rows[i] = db.rows[i]
  BY <1>1, ResultFacts
<1>3. /\ \A e \in D : Conforms(r, p, e, new.rows[Ident(r, p, e)])
      /\ \A i \in DOMAIN new.rows :
           \/ \E e \in D : i = Ident(r, p, e)
           \/ /\ i \in DOMAIN db.rows /\ Leftover(r, i, new.rows[i])
              /\ new.rows[i].key = db.rows[i].key
           \/ i \in DOMAIN db.rows /\ i.kind \notin Governed /\ new.rows[i] = db.rows[i]
  BY <1>2, FreshOutcome
<1>4. \A e \in D : Ident(r, p, e).kind = e.kind
  BY <1>1, IdFacts
<1>5. \A i \in DOMAIN db.rows : db.rows[i].kind = i.kind
  BY DEF Settled, WellFormed, RowFits
<1> HIDE DEF put, new
<1>6. ASSUME NEW i \in DOMAIN put.rows, put.rows[i].kind \in Slugged \union {"Skill"}
      PROVE  Entered(i) \/ Left(i) \/ Stays(i)
  <2>1. CASE i \in p.delete \/ i.kind = "SiteSettings"
    <3>1. i \in DOMAIN db.rows /\ put.rows[i] = db.rows[i]
      BY <1>2, <2>1
    <3>2. i.kind \in Slugged \union {"Skill"}
      BY <1>5, <1>6, <3>1
    <3>3. i \in p.delete /\ i.kind # "SiteSettings"
      BY <2>1, <3>2, KindFacts
    <3>4. i \notin DOMAIN new.rows
      BY <1>2, <3>1, <3>3, <1>1, IdFacts DEF Applied, Writing, PlanSound
    <3>5. QED
      BY <1>2, <3>1, <3>2, <3>3, <3>4, KindFacts DEF Shows
  <2>2. CASE i \notin p.delete /\ i.kind # "SiteSettings"
    <3>1. i \in DOMAIN new.rows /\ put.rows[i] = new.rows[i]
      BY <1>2, <2>2
    <3>2. CASE \E e \in D : i = Ident(r, p, e)
      BY <1>3, <1>4, <2>2, <3>1, <3>2 DEF IsSettings
    <3>3. CASE /\ i \in DOMAIN db.rows /\ Leftover(r, i, new.rows[i])
               /\ new.rows[i].key = db.rows[i].key
      BY <3>1, <3>3, KindFacts DEF Leftover, Shows
    <3>4. CASE i \in DOMAIN db.rows /\ i.kind \notin Governed /\ new.rows[i] = db.rows[i]
      BY <1>5, <1>6, <3>1, <3>4, KindFacts
    <3>5. QED
      BY <1>3, <3>1, <3>2, <3>3, <3>4
  <2>3. QED
    BY <2>1, <2>2
<1>7. ASSUME NEW i \in DOMAIN put.rows, NEW j \in DOMAIN put.rows, Clash(put.rows, i, j), Entered(i)
      PROVE  FALSE
  <2>1. PICK e \in D : i = Ident(r, p, e) /\ ~IsSettings(e) /\ Conforms(r, p, e, put.rows[i])
    BY <1>7
  <2>2. /\ i # j /\ put.rows[i].kind = e.kind /\ put.rows[j].kind = e.kind
        /\ put.rows[i].key = e.key /\ put.rows[i].second = e.second
        /\ e.kind \in Slugged \union {"Skill"}
        /\ put.rows[j].key = e.key \/ (e.kind \in Slugged /\ put.rows[j].second = e.second)
    BY <1>7, <2>1 DEF Clash, Conforms
  <2>3. CASE Entered(j)
    <3>1. PICK f \in D : j = Ident(r, p, f) /\ ~IsSettings(f) /\ Conforms(r, p, f, put.rows[j])
      BY <2>3
    <3>2. f.kind = e.kind /\ f # e /\ put.rows[j].key = f.key /\ put.rows[j].second = f.second
      BY <2>1, <2>2, <3>1 DEF Conforms
    <3>3. f.key # e.key
      BY <1>1, <3>2 DEF Problem, DuplicateKeys
    <3>4. e.kind \in Slugged => f.second # e.second
      BY <1>1, <3>2 DEF Problem, SlugCollision, Entries
    <3>5. QED
      BY <2>2, <3>2, <3>3, <3>4
  <2>4. CASE Left(j)
    <3>1. e.kind = "Skill" /\ put.rows[j].key \notin Keys(D, "Skill")
      BY <2>2, <2>4 DEF Leftover
    <3>2. QED
      BY <2>2, <3>1, KindFacts DEF Keys, Entries
  <2>5. CASE Stays(j)
    <3>1. /\ e.kind = "Category" /\ j \in DOMAIN s.rows /\ put.rows[j] = s.rows[j]
          /\ s.rows[j].key \notin Keys(D, "Category") /\ \A f \in D : j \notin Matches(s, f)
      <4>1. s.rows[j].kind = "Category" /\ put.rows[j] = s.rows[j]
        BY <1>5, <2>5 DEF Shows
      <4>2. e.kind = "Category"
        BY <2>2, <4>1
      <4>3. QED
        BY <2>5, <4>2, FreshGone
    <3>2. s.rows[j].key # e.key
      BY <3>1 DEF Keys, Entries
    <3>3. j \in RowsOf(s.rows, "Category") \ (Matches(s, e) \union FreedBeforeWrites(D, s, "Category"))
      BY <2>2, <3>1 DEF RowsOf, FreedBeforeWrites
    <3>4. s.rows[j].second # e.second
      BY <1>1, <3>1, <3>3, KindFacts DEF Problem, SlugCollision, Entries
    <3>5. QED
      BY <2>2, <3>1, <3>2, <3>4
  <2>6. QED
    BY <1>6, <2>2, <2>3, <2>4, <2>5
<1>8. ASSUME NEW i \in DOMAIN put.rows, NEW j \in DOMAIN put.rows, Clash(put.rows, i, j), ~Entered(i), ~Entered(j)
      PROVE  FALSE
  <2>1. put.rows[i].kind \in Slugged \union {"Skill"} /\ put.rows[j].kind = put.rows[i].kind
    BY <1>8 DEF Clash
  <2>2. (Left(i) \/ Stays(i)) /\ (Left(j) \/ Stays(j))
    BY <1>6, <1>8, <2>1
  <2>3. \A x \in DOMAIN s.rows : x \in DOMAIN db.rows /\ db.rows[x] = s.rows[x] /\ s.rows[x].kind = x.kind
    BY <1>5 DEF Shows
  <2>4. \A x \in DOMAIN put.rows : Left(x) => put.rows[x].kind = "Skill" /\ s.rows[x].kind = "Skill"
    BY <2>3 DEF Leftover
  <2>5. \A x \in DOMAIN put.rows : Stays(x) => put.rows[x].kind = "Category"
    BY <2>3
  <2>6. CASE Left(i) /\ Left(j)
    <3>1. Clash(db.rows, i, j)
      BY <1>8, <2>3, <2>4, <2>6, KindFacts DEF Clash
    <3>2. QED
      BY <2>3, <2>6, <3>1 DEF Unique
  <2>7. CASE Stays(i) /\ Stays(j)
    <3>1. Clash(db.rows, i, j)
      BY <1>8, <2>3, <2>7 DEF Clash
    <3>2. QED
      BY <2>3, <2>7, <3>1 DEF Unique
  <2>8. QED
    BY <2>1, <2>2, <2>4, <2>5, <2>6, <2>7
<1>9. \A i, j \in DOMAIN put.rows : Clash(put.rows, i, j) => Clash(put.rows, j, i)
  BY DEF Clash
<1>10. QED
  BY <1>7, <1>8, <1>9 DEF Unique, put

LEMMA FreshReferenced ==
  ASSUME NEW r \in Runs, NEW s, NEW p, Fresh(r, s, p), NEW db, Settled(db), Shows(s, db),
         Referenced(db.rows, db.links)
  PROVE  /\ Referenced(Rewritten(r, p, db).rows, Rewritten(r, p, db).links)
         /\ Referenced(Result(r, p, db).rows, Result(r, p, db).links)
<1> DEFINE D   == Dataset[r]
           put == Rewritten(r, p, db)
           new == Result(r, p, db)
           Homes == {Ident(r, p, e) : e \in {x \in D : ~IsSettings(x)}}
<1>1. View(s) /\ ~Problem(D, s) /\ Writing(r, p)
  BY DEF Fresh
<1>2. /\ Applied(r, p, db, new)
      /\ \A i \in DOMAIN new.rows : i.kind # "SiteSettings" =>
           i \in DOMAIN put.rows /\ new.rows[i] = put.rows[i]
      /\ put.links = new.links
      /\ \A i \in DOMAIN put.rows : i \in DOMAIN new.rows \/ (i \in p.delete /\ i.kind = "Category")
      /\ \A i \in DOMAIN put.rows : i \in p.delete \/ i.kind = "SiteSettings" =>
           i \in DOMAIN db.rows /\ put.rows[i] = db.rows[i]
  BY <1>1, ResultFacts
<1>3. /\ \A e \in D : Ident(r, p, e) \in DOMAIN new.rows /\ Conforms(r, p, e, new.rows[Ident(r, p, e)])
      /\ \A i \in DOMAIN new.rows :
           \/ \E e \in D : i = Ident(r, p, e)
           \/ i \in DOMAIN db.rows /\ i.kind = "Skill"
           \/ i \in DOMAIN db.rows /\ i.kind \notin Governed /\ new.rows[i] = db.rows[i]
  BY <1>2, FreshOutcome DEF Leftover
<1>4. /\ \A e \in D : /\ Ident(r, p, e) \in Ids /\ Ident(r, p, e).kind = e.kind
                      /\ IdsOf(r, p, e) = {Ident(r, p, e)}
      /\ p.create \subseteq D /\ p.relink \subseteq D
  BY <1>1, IdFacts DEF Writing, PlanSound
<1>5. WellFormed(new.rows, new.links)
  BY <1>1, <1>2, AppliedTyped
<1>6. \A i \in DOMAIN db.rows : i \in Ids /\ db.rows[i].kind = i.kind /\ RowFits(i, db.rows[i])
  BY DEF Settled, WellFormed, RowFits
<1>7. DOMAIN new.rows = (DOMAIN db.rows \ p.delete) \union {Ident(r, p, e) : e \in p.create}
  BY <1>2 DEF Applied
<1>8. new.links = ((Kept(p, db.links) \union LinksMade(r, p)) \ Removed(r, p)) \union Added(r, p)
  BY <1>2 DEF Applied
<1> HIDE DEF put, new
<1>9. Homes \subseteq DOMAIN new.rows \intersect DOMAIN put.rows
  BY <1>2, <1>3, <1>4 DEF IsSettings
<1>10. \A e \in D : Wanted(r, p, e) \subseteq Homes
  BY <1>1, ResolveFacts DEF IsSettings, TargetKind
<1>11. \A e \in D : IsSettings(e) => Wanted(r, p, e) = {}
  <2>1. \A e \in D : IsSettings(e) => e.links = {}
    BY DatasetType DEF IsSettings
  <2>2. QED
    BY <1>1, <2>1, ResolveFacts
<1>12. ASSUME NEW l \in new.links
       PROVE  /\ l[1] \in DOMAIN new.rows /\ l[2] \in DOMAIN new.rows
              /\ l[1] \in DOMAIN put.rows /\ l[2] \in DOMAIN put.rows
  <2>1. CASE l \in Kept(p, db.links)
    <3>1. /\ l[1] \in DOMAIN db.rows \ p.delete /\ l[2] \in DOMAIN db.rows \ p.delete
      BY <2>1 DEF Kept, Referenced
    <3>2. l[1].kind # "SiteSettings" /\ l[2].kind # "SiteSettings"
      BY <1>5 DEF WellFormed, LinkFits
    <3>3. QED
      BY <1>2, <1>7, <3>1, <3>2
  <2>2. CASE l \in LinksMade(r, p)
    <3>1. PICK e \in p.create : l \in {Ident(r, p, e)} \X Wanted(r, p, e)
      BY <2>2 DEF LinksMade
    <3>2. l[1] \in Homes /\ l[2] \in Homes
      BY <1>4, <1>10, <1>11, <3>1
    <3>3. QED
      BY <1>9, <3>2
  <2>3. CASE l \in Added(r, p)
    <3>1. PICK e \in p.relink : l \in IdsOf(r, p, e) \X Wanted(r, p, e)
      BY <2>3 DEF Added
    <3>2. l[1] \in Homes /\ l[2] \in Homes
      BY <1>4, <1>10, <1>11, <3>1
    <3>3. QED
      BY <1>9, <3>2
  <2>4. QED
    BY <1>8, <2>1, <2>2, <2>3
<1>13. ASSUME NEW i \in DOMAIN new.rows
       PROVE  new.rows[i].category \in Homes \union {None}
  <2>1. CASE i.kind = "Article"
    <3>1. PICK e \in D : i = Ident(r, p, e)
      BY <1>3, <2>1, KindFacts
    <3>2. PICK f \in D : f.kind = "Category" /\ new.rows[i].category = Ident(r, p, f)
      BY <1>3, <1>4, <2>1, <3>1 DEF Conforms
    <3>3. QED
      BY <3>2 DEF IsSettings
  <2>2. CASE i.kind # "Article"
    BY <1>5, <2>2 DEF WellFormed, RowFits
  <2>3. QED
    BY <2>1, <2>2
<1>14. ASSUME NEW i \in DOMAIN put.rows
       PROVE  put.rows[i].category \in Homes \union {None}
  <2>1. CASE i \in p.delete \/ i.kind = "SiteSettings"
    <3>1. i \in DOMAIN db.rows /\ put.rows[i] = db.rows[i]
      BY <1>2, <2>1
    <3>2. i.kind # "Article"
      <4>1. CASE i \in DOMAIN new.rows
        <5>1. i \notin p.delete
          BY <1>1, <1>4, <1>7, <4>1, IdFacts
        <5>2. QED
          BY <2>1, <5>1
      <4>2. QED
        BY <1>2, <4>1
    <3>3. QED
      BY <1>6, <3>1, <3>2 DEF RowFits
  <2>2. CASE i \notin p.delete /\ i.kind # "SiteSettings"
    BY <1>2, <1>13, <2>2
  <2>3. QED
    BY <2>1, <2>2
<1>15. Referenced(new.rows, new.links)
  BY <1>9, <1>12, <1>13 DEF Referenced
<1>16. Referenced(put.rows, put.links)
  BY <1>2, <1>9, <1>12, <1>14 DEF Referenced
<1>17. QED
  BY <1>15, <1>16 DEF new, put

(* The protected rows are as many as before.                               *)
LEMMA ProtectedKept ==
  ASSUME NEW r \in Runs, NEW p, Writing(r, p), NEW db, Settled(db)
  PROVE  RowsOf(Result(r, p, db).rows, "Testimonial") = RowsOf(db.rows, "Testimonial")
<1> DEFINE new == Result(r, p, db)
<1>1. Applied(r, p, db, new)
  BY ResultFacts
<1> HIDE DEF new
<1>2. WellFormed(new.rows, new.links)
  BY <1>1, AppliedTyped
<1>3. /\ \A i \in DOMAIN new.rows : new.rows[i].kind = i.kind
      /\ \A i \in DOMAIN db.rows : db.rows[i].kind = i.kind
  BY <1>2 DEF Settled, WellFormed, RowFits
<1>4. \A i \in p.delete : i.kind # "Testimonial"
  BY DEF Writing, PlanSound
<1>5. \A e \in p.create : Ident(r, p, e).kind # "Testimonial"
  <2>1. p.create \subseteq Dataset[r]
    BY DEF Writing, PlanSound
  <2>2. \A e \in Dataset[r] : Ident(r, p, e).kind = e.kind /\ e.kind \in Governed
    BY IdFacts, DatasetType DEF Entry
  <2>3. QED
    BY <2>1, <2>2, KindFacts
<1>6. DOMAIN new.rows = (DOMAIN db.rows \ p.delete) \union {Ident(r, p, e) : e \in p.create}
  BY <1>1 DEF Applied
<1>7. QED
  BY <1>3, <1>4, <1>5, <1>6 DEF RowsOf, new

(* Everything a run touches is governed content.                           *)
LEMMA TouchedGoverned ==
  ASSUME NEW r \in Runs, NEW p, Writing(r, p), WellFormed(base[r].rows, base[r].links), NEW x \in Touched(r, p)
  PROVE  x[1].kind \in Governed
<1>1. \A e \in Dataset[r] : IdsOf(r, p, e) = {Ident(r, p, e)} /\ Ident(r, p, e).kind = e.kind /\ e.kind \in Governed
  BY IdFacts, DatasetType DEF Entry
<1>2. /\ p.update \subseteq Dataset[r] /\ \A i \in p.hide : i.kind = "Skill"
      /\ \A f \in p.found : f[1] \in Dataset[r] /\ f[2].kind = f[1].kind
      /\ \A i \in p.delete : i.kind \in {"Category", "Tag", "Experience", "Project", "Article"}
  BY DEF Writing, PlanSound
<1>3. CASE x \in UNION {IdsOf(r, p, e) \X PartsOf(e) : e \in p.update}
  BY <1>1, <1>2, <1>3
<1>4. CASE x \in p.hide \X {"row"} \/ x \in p.delete \X {"row", "texts"}
  BY <1>2, <1>4, KindFacts
<1>5. CASE x \in {<<f[2], "texts">> : f \in {y \in p.found : p.texts /\ y[1].kind = "SiteSettings"}}
  BY <1>2, <1>5, KindFacts
<1>6. CASE x \in LinkParts({l \in Removed(r, p) : l[1] \notin p.delete /\ l[2] \notin p.delete})
  <2>1. PICK l \in base[r].links : x[1] = l[1]
    BY <1>6 DEF LinkParts, Removed
  <2>2. LinkFits(l)
    BY DEF WellFormed
  <2>3. QED
    BY <2>1, <2>2, KindFacts DEF LinkFits
<1>7. QED
  BY <1>3, <1>4, <1>5, <1>6 DEF Touched

LEMMA NamedSeen ==
  ASSUME NEW r \in Runs, NEW s, NEW p, Fresh(r, s, p)
  PROVE  Named(p) \subseteq DOMAIN s.rows
<1>1. \A i \in p.hide \union p.delete : i \in DOMAIN s.rows
  BY FreshGone
<1>2. \A f \in p.found : f[2] \in DOMAIN s.rows
  <2>1. ASSUME NEW f \in p.found
        PROVE  f[2] \in DOMAIN s.rows
    <3>1. f[1] \in Dataset[r] \ p.create
      BY DEF Fresh, Writing, PlanSound
    <3>2. IdsOf(r, p, f[1]) = {Ident(r, p, f[1])}
      BY <3>1, IdFacts DEF Fresh
    <3>3. f[2] = Ident(r, p, f[1])
      BY <3>1, <3>2 DEF IdsOf
    <3>4. QED
      BY <3>1, <3>3, FreshMatches
  <2>2. QED
    BY <2>1
<1>3. QED
  BY <1>1, <1>2 DEF Named

(* No text about to be written is held by a row that has its own coming.   *)
LEMMA FreshSmooth ==
  ASSUME NEW r \in Runs, NEW s, NEW p, Fresh(r, s, p), Shows(s, Database), Settled(Database)
  PROVE  ~Awkward(r, p)
<1> DEFINE D == Dataset[r]
<1>1. View(s) /\ ~Problem(D, s) /\ p = PlanOf(D, s) /\ Writing(r, p)
  BY DEF Fresh
<1>2. /\ DOMAIN s.rows = {i \in DOMAIN rows : i.kind \in Governed}
      /\ \A i \in DOMAIN s.rows : s.rows[i] = rows[i]
      /\ \A i \in DOMAIN rows : rows[i].kind = i.kind
  BY DEF Shows, Settled, Database, WellFormed, RowFits
<1>3. ASSUME NEW e \in p.create \union p.update, NEW i \in DOMAIN rows \ p.delete,
             e.kind \in Slugged, rows[i].kind = e.kind, i \notin IdsOf(r, p, e),
             rows[i].second = e.second \/ rows[i].key = e.key
      PROVE  FALSE
  <2>1. e \in D
    BY <1>1 DEF Writing, PlanSound
  <2>2. i \in DOMAIN s.rows /\ s.rows[i] = rows[i] /\ i \in RowsOf(s.rows, e.kind)
    BY <1>2, <1>3, KindFacts DEF RowsOf
  <2>3. IdsOf(r, p, e) = {Ident(r, p, e)}
    BY <1>1, <2>1, IdFacts
  <2>4. i \notin Matches(s, e)
    BY <1>3, <2>1, <2>3, FreshMatches
  <2>5. s.rows[i].key # e.key
    BY <2>2, <2>4 DEF Matches
  <2>6. i \notin FreedBeforeWrites(D, s, e.kind)
    <3>1. p.delete = {c \in Stale(D, s, "Category") : Survivors(D, s, c) = {}}
                  \union Stale(D, s, "Tag") \union Stale(D, s, "Experience")
                  \union Stale(D, s, "Project") \union Stale(D, s, "Article")
      BY <1>1, PlanMembers
    <3>2. QED
      BY <1>3, <3>1, KindFacts DEF FreedBeforeWrites
  <2>7. s.rows[i].second # e.second
    BY <1>1, <1>3, <2>1, <2>2, <2>4, <2>6 DEF Problem, SlugCollision, Entries
  <2>8. QED
    BY <1>3, <2>2, <2>5, <2>7
<1>4. QED
  BY <1>3 DEF Awkward

(* Undisturbed, a run's transaction cannot fail.                           *)
LEMMA UndisturbedCommits ==
  ASSUME SafeInv, NEW r \in Runs, PlannedNow(r), BaseNow(r), stage[r] = "open", ~disturbed[r]
  PROVE  /\ Fresh(r, Content, plan[r]) /\ Shows(Content, Database) /\ Settled(Database)
         /\ Possible(r, plan[r]) /\ ~Awkward(r, plan[r])
<1> DEFINE p  == plan[r]
           s  == Content
           db == Database
           bs == base[r]
<1>1. stage \in [Runs -> {"new", "planned", "open"} \union {Tables[n] : n \in 2 .. 7} \union Outcomes]
  BY DEF SafeInv, TypeOK
<1>2. p \in Plan /\ PlanSound(r, p) /\ WellFormed(bs.rows, bs.links)
  BY DEF SafeInv, TypeOK, PlanOK
<1>3. Writing(r, p)
  BY <1>2 DEF Writing
<1>4. p = PlanOf(Dataset[r], s) /\ ~Problem(Dataset[r], s)
  BY DEF PlannedNow
<1>5. /\ View(s) /\ DOMAIN s.rows = {i \in DOMAIN rows : i.kind \in Governed}
      /\ \A i \in DOMAIN s.rows : s.rows[i] = rows[i]
      /\ s.links = links
  BY ContentFacts
<1> HIDE DEF s
<1>6. Fresh(r, s, p)
  BY <1>3, <1>4, <1>5 DEF Fresh
<1>7. db.rows = rows /\ db.links = links
  BY DEF Database
<1>8. Settled(db) /\ Unique(db.rows) /\ Referenced(db.rows, db.links)
  BY <1>7 DEF SafeInv, TypeOK, CatalogueTypeOK, StoreOK, Settled
<1>9. Shows(s, db)
  BY <1>5, <1>7 DEF Shows
<1>10. ~Awkward(r, p)
  BY <1>6, <1>8, <1>9, FreshSmooth
<1>11. /\ bs.links = links
       /\ \A i \in Ids : i.kind \in Governed => (i \in DOMAIN bs.rows <=> i \in DOMAIN rows)
       /\ \A x \in since[r] : x[1].kind \notin Governed
  BY DEF BaseNow
<1> HIDE DEF p, db, bs
<1>12. Named(p) \subseteq DOMAIN bs.rows
  <2>1. Named(p) \subseteq DOMAIN s.rows
    BY <1>6, NamedSeen
  <2>2. DOMAIN s.rows \subseteq Ids
    BY <1>5 DEF View, WellFormed
  <2>3. QED
    BY <1>5, <1>11, <2>1, <2>2
<1>13. ~Conflicted(r, p)
  <2>1. Touched(r, p) \intersect since[r] = {}
    BY <1>2, <1>3, <1>11, TouchedGoverned DEF bs
  <2>2. ASSUME NEW l \in links, <<l[1], "link", l[2]>> \in since[r]
        PROVE  FALSE
    <3>1. LinkFits(l)
      BY DEF SafeInv, TypeOK, CatalogueTypeOK, WellFormed
    <3>2. l[1].kind \in Governed
      BY <3>1, KindFacts DEF LinkFits
    <3>3. <<l[1], "link", l[2]>>[1] = l[1]
      OBVIOUS
    <3>4. QED
      BY <1>11, <2>2, <3>2, <3>3
  <2>3. QED
    BY <2>1, <2>2 DEF Conflicted
<1>14. links \intersect Added(r, p) = {}
  BY <1>11 DEF Added, bs
<1>15. Unique(Rewritten(r, p, db).rows)
  BY <1>6, <1>8, <1>9, FreshUnique
<1>16. /\ Referenced(Rewritten(r, p, db).rows, Rewritten(r, p, db).links)
       /\ Referenced(Result(r, p, db).rows, Result(r, p, db).links)
  BY <1>6, <1>8, <1>9, FreshReferenced
<1>17. ~ProtectedCountsMoved(r, p)
  <2>1. Settled(bs)
    BY <1>2 DEF SafeInv, BaseOK, Settled, bs
  <2>2. RowsOf(Result(r, p, bs).rows, "Testimonial") = RowsOf(bs.rows, "Testimonial")
    BY <1>3, <2>1, ProtectedKept
  <2>3. QED
    BY <2>2 DEF ProtectedCountsMoved, Counted, bs
<1>18. Possible(r, p)
  BY <1>12, <1>13, <1>14, <1>15, <1>16, <1>17 DEF Possible, bs, db
<1>19. QED
  BY <1>6, <1>8, <1>9, <1>10, <1>18 DEF s, p, db

(***************************************************************************)
(* What a run knows stays true until somebody else writes.                 *)
(***************************************************************************)

(* No governed content changes.                                            *)
Still ==
  /\ links' = links
  /\ \A i \in Ids : i.kind \in Governed =>
       /\ i \in DOMAIN rows <=> i \in DOMAIN rows'
       /\ i \in DOMAIN rows => rows'[i] = rows[i]

LEMMA StillContent ==
  ASSUME SafeInv, SafeInv', Still
  PROVE  Content' = Content /\ Filed' = Filed
<1>1. /\ DOMAIN rows \subseteq Ids /\ DOMAIN rows' \subseteq Ids
      /\ \A i \in DOMAIN rows : rows[i].kind = i.kind
      /\ \A i \in DOMAIN rows' : rows'[i].kind = i.kind
  BY DEF SafeInv, TypeOK, CatalogueTypeOK, WellFormed, RowFits
<1> DEFINE held(rs) == {x \in DOMAIN rs : rs[x].kind \in Governed}
<1>2. held(rows') = held(rows) /\ \A i \in held(rows) : rows'[i] = rows[i]
  BY <1>1 DEF Still
<1>3. RowsOf(rows', "Article") = RowsOf(rows, "Article")
  BY <1>1, KindFacts DEF Still, RowsOf
<1>4. \A a \in RowsOf(rows, "Article") : rows'[a] = rows[a]
  BY <1>1, KindFacts DEF Still, RowsOf
<1>5. Filed' = Filed
  BY <1>3, <1>4 DEF Filed
<1>6. /\ Content = [rows |-> [i \in held(rows) |-> rows[i]], links |-> links, filed |-> Filed]
      /\ Content' = [rows |-> [i \in held(rows') |-> rows'[i]], links |-> links', filed |-> Filed']
  BY DEF Content, Filed
<1> HIDE DEF held
<1>7. [i \in held(rows') |-> rows'[i]] = [i \in held(rows) |-> rows[i]]
  BY <1>2
<1>8. QED
  BY <1>5, <1>6, <1>7 DEF Still

LEMMA ReportedStill ==
  ASSUME SafeInv, SafeInv', Reported, \A x \in wrote' : x[1].kind \notin Governed
  PROVE  Still
<1>1. ASSUME NEW l \in (links \ links') \union (links' \ links)
      PROVE  FALSE
  <2>1. LinkFits(l)
    BY DEF SafeInv, TypeOK, CatalogueTypeOK, WellFormed
  <2>2. l[1].kind \in Governed
    BY <2>1, KindFacts DEF LinkFits
  <2>3. QED
    BY <2>2 DEF Reported
<1>2. links' = links
  BY <1>1
<1>3. ASSUME NEW i \in Ids, i.kind \in Governed
      PROVE  /\ i \in DOMAIN rows <=> i \in DOMAIN rows'
             /\ i \in DOMAIN rows => rows'[i] = rows[i]
  <2>1. \A x \in wrote' : x[1] # i
    BY <1>3
  <2>2. QED
    BY <2>1 DEF Reported
<1>4. QED
  BY <1>2, <1>3 DEF Still

(* A run that does not move while no governed content changes.             *)
LEMMA RunNowStays ==
  ASSUME SafeInv, SafeInv', Still, NEW r \in Runs, RunNow(r),
         stage'[r] = stage[r], seen'[r] = seen[r], plan'[r] = plan[r], base'[r] = base[r],
         disturbed'[r] = disturbed[r], \A x \in since'[r] \ since[r] : x[1].kind \notin Governed
  PROVE  RunNow(r)'
<1>1. Content' = Content /\ Filed' = Filed
  BY StillContent
<1>2. DOMAIN rows \subseteq Ids /\ DOMAIN rows' \subseteq Ids
  BY DEF SafeInv, TypeOK, CatalogueTypeOK, WellFormed
<1>3. PlannedNow(r)'
  BY <1>1 DEF RunNow, PlannedNow
<1>4. BaseNow(r)'
  <2>1. ASSUME stage[r] = "open", ~disturbed[r], NEW i \in Ids, i.kind \in Governed
        PROVE  /\ i \in DOMAIN base[r].rows <=> i \in DOMAIN rows'
               /\ i \in DOMAIN rows' => base[r].rows[i] = rows'[i]
    BY <2>1 DEF RunNow, BaseNow, Still
  <2>2. ASSUME stage[r] = "open", ~disturbed[r]
        PROVE  base[r].links = links' /\ \A x \in since'[r] : x[1].kind \notin Governed
    BY <2>2 DEF RunNow, BaseNow, Still
  <2>3. QED
    BY <2>1, <2>2 DEF BaseNow
<1>5. SeenNow(r)'
  <2> DEFINE kinds == ReadBy(stage[r])
  <2>1. kinds \subseteq Governed
    BY TablesFacts DEF ReadBy
  <2>2. ReadBy(stage'[r]) = kinds
    OBVIOUS
  <2> HIDE DEF kinds
  <2>3. {i \in DOMAIN rows' : i.kind \in kinds} = {i \in DOMAIN rows : i.kind \in kinds}
    BY <1>2, <2>1 DEF Still
  <2>4. \A i \in DOMAIN rows : i.kind \in kinds => rows'[i] = rows[i]
    BY <1>2, <2>1 DEF Still
  <2>5. ASSUME stage[r] \in {"new"} \union {Tables[n] : n \in 2 .. 7}, ~disturbed[r]
        PROVE  /\ DOMAIN seen[r].rows = {i \in DOMAIN rows : i.kind \in kinds}
               /\ \A i \in DOMAIN seen[r].rows : seen[r].rows[i] = rows[i]
               /\ seen[r].links = {l \in links : l[1].kind \in kinds}
               /\ seen[r].filed = IF "Category" \in kinds THEN Filed ELSE {}
    BY <2>5 DEF RunNow, SeenNow, kinds
  <2>6. ASSUME stage[r] \in {"new"} \union {Tables[n] : n \in 2 .. 7}, ~disturbed[r]
        PROVE  /\ DOMAIN seen[r].rows = {i \in DOMAIN rows' : i.kind \in kinds}
               /\ \A i \in DOMAIN seen[r].rows : seen[r].rows[i] = rows'[i]
               /\ seen[r].links = {l \in links' : l[1].kind \in kinds}
               /\ seen[r].filed = IF "Category" \in kinds THEN Filed' ELSE {}
    BY <1>1, <2>3, <2>4, <2>5, <2>6 DEF Still
  <2>7. QED
    BY <2>2, <2>6 DEF SeenNow
<1>6. QED
  BY <1>1, <1>3, <1>4, <1>5 DEF RunNow

LEMMA ReadByFacts ==
  /\ ReadBy("new") = {}
  /\ \A n \in 2 .. 7 : ReadBy(Tables[n]) = {Tables[m] : m \in 1 .. n - 1}
  /\ {Tables[m] : m \in 1 .. 7} = Governed
<1>1. /\ Tables[1] = "Skill" /\ Tables[2] = "Category" /\ Tables[3] = "Tag" /\ Tables[4] = "Experience"
      /\ Tables[5] = "Project" /\ Tables[6] = "Article" /\ Tables[7] = "SiteSettings"
  BY DEF Tables
<1>2. \A n \in 1 .. 7 : n = 1 \/ n = 2 \/ n = 3 \/ n = 4 \/ n = 5 \/ n = 6 \/ n = 7
  OBVIOUS
<1>3. \A n, m \in 1 .. 7 : Tables[n] = Tables[m] => n = m
  BY <1>1, <1>2
<1>4. \A n \in 1 .. 7 : Tables[n] # "new"
  BY <1>1, <1>2
<1>5. ReadBy("new") = {}
  <2>1. \A n \in 2 .. 7 : Tables[n] # "new"
    BY <1>4
  <2>2. QED
    BY <2>1 DEF ReadBy
<1>6. ASSUME NEW n \in 2 .. 7
      PROVE  ReadBy(Tables[n]) = {Tables[m] : m \in 1 .. n - 1}
  <2> DEFINE ks == {k \in 1 .. 7 : \E m \in 2 .. 7 : Tables[n] = Tables[m] /\ k < m}
  <2>1. \A m \in 2 .. 7 : Tables[n] = Tables[m] => m = n
    BY <1>3
  <2>2. ks = 1 .. n - 1
    BY <2>1
  <2>3. ReadBy(Tables[n]) = {Tables[m] : m \in ks}
    BY DEF ReadBy
  <2> HIDE DEF ks
  <2>4. QED
    BY <2>2, <2>3
<1>7. {Tables[m] : m \in 1 .. 7} = Governed
  BY <1>1, <1>2, KindFacts
<1>8. QED
  BY <1>5, <1>6, <1>7

(* One more table read, and still all of it true.                          *)
LEMMA ReadNow ==
  ASSUME SafeInv, NEW r \in Runs, ~disturbed[r], SeenNow(r), NEW n \in 1 .. 7,
         stage[r] = IF n = 1 THEN "new" ELSE Tables[n]
  PROVE  LET s     == Read(r, n)
             kinds == {Tables[m] : m \in 1 .. n}
         IN  /\ DOMAIN s.rows = {i \in DOMAIN rows : i.kind \in kinds}
             /\ \A i \in DOMAIN s.rows : s.rows[i] = rows[i]
             /\ s.links = {l \in links : l[1].kind \in kinds}
             /\ s.filed = IF "Category" \in kinds THEN Filed ELSE {}
<1> DEFINE s     == Read(r, n)
           kind  == Tables[n]
           ids   == RowsOf(rows, kind)
           old   == ReadBy(stage[r])
           kinds == {Tables[m] : m \in 1 .. n}
<1>1. kinds = old \union {kind}
  <2>1. CASE n = 1
    BY <2>1, ReadByFacts
  <2>2. CASE n # 1
    <3>1. n \in 2 .. 7 /\ stage[r] = Tables[n]
      BY <2>2
    <3>2. old = {Tables[m] : m \in 1 .. n - 1}
      BY <3>1, ReadByFacts
    <3>3. 1 .. n = (1 .. n - 1) \union {n}
      BY <3>1
    <3> HIDE DEF old
    <3>4. QED
      BY <3>2, <3>3
  <2>3. QED
    BY <2>1, <2>2
<1>2. stage[r] \in {"new"} \union {Tables[m] : m \in 2 .. 7}
  <2>1. n # 1 => n \in 2 .. 7
    OBVIOUS
  <2>2. QED
    BY <2>1
<1>3. /\ DOMAIN seen[r].rows = {i \in DOMAIN rows : i.kind \in old}
      /\ \A i \in DOMAIN seen[r].rows : seen[r].rows[i] = rows[i]
      /\ seen[r].links = {l \in links : l[1].kind \in old}
      /\ seen[r].filed = IF "Category" \in old THEN Filed ELSE {}
  BY <1>2 DEF SeenNow
<1>4. /\ s.rows = [i \in ids \union DOMAIN seen[r].rows |-> IF i \in ids THEN rows[i] ELSE seen[r].rows[i]]
      /\ s.links = seen[r].links \union {l \in links : l[1] \in ids}
      /\ s.filed = seen[r].filed \union
                     {<<rows[a].category, a>> : a \in {x \in RowsOf(rows, "Article") : kind = "Category"}}
  BY DEF Read
<1>5. ids = {i \in DOMAIN rows : i.kind = kind}
  BY DEF SafeInv, TypeOK, CatalogueTypeOK, WellFormed, RowFits, RowsOf
<1>6. \A l \in links : l[1] \in DOMAIN rows
  BY DEF SafeInv, StoreOK, Referenced
<1> HIDE DEF s, ids, kind, old, kinds
<1>7. DOMAIN s.rows = {i \in DOMAIN rows : i.kind \in kinds} /\ \A i \in DOMAIN s.rows : s.rows[i] = rows[i]
  BY <1>1, <1>3, <1>4, <1>5
<1>8. s.links = {l \in links : l[1].kind \in kinds}
  BY <1>1, <1>3, <1>4, <1>5, <1>6
<1>9. s.filed = IF "Category" \in kinds THEN Filed ELSE {}
  <2>1. {<<rows[a].category, a>> : a \in {x \in RowsOf(rows, "Article") : kind = "Category"}}
          = IF kind = "Category" THEN Filed ELSE {}
    <3>1. {x \in RowsOf(rows, "Article") : kind = "Category"} = IF kind = "Category" THEN RowsOf(rows, "Article") ELSE {}
      OBVIOUS
    <3>2. QED
      BY <3>1 DEF Filed
  <2>2. QED
    BY <1>1, <1>3, <1>4, <2>1
<1>10. QED
  BY <1>7, <1>8, <1>9 DEF s, kinds

(* Another session commits: either the run is disturbed, or nothing it     *)
(* knows of has changed.                                                   *)
LEMMA RunNowOther ==
  ASSUME SafeInv, SafeInv', Reported, NEW r \in Runs, RunNow(r),
         stage'[r] = stage[r], seen'[r] = seen[r], plan'[r] = plan[r], base'[r] = base[r],
         since'[r] = IF stage[r] = "open" THEN since[r] \union wrote' ELSE since[r],
         disturbed'[r] = (disturbed[r] \/ ( /\ stage[r] \notin {"new"} \union (Outcomes \ {"applied"})
                                            /\ \E x \in wrote' : x[1].kind \in Governed ))
  PROVE  RunNow(r)'
<1>1. CASE \A x \in wrote' : x[1].kind \notin Governed
  <2>1. Still
    BY <1>1, ReportedStill
  <2>2. disturbed'[r] = disturbed[r]
    <3>1. disturbed \in [Runs -> BOOLEAN]
      BY DEF SafeInv, TypeOK
    <3>2. QED
      BY <1>1, <3>1
  <2>3. \A x \in since'[r] \ since[r] : x[1].kind \notin Governed
    BY <1>1
  <2>4. QED
    BY <2>1, <2>2, <2>3, RunNowStays
<1>2. CASE stage[r] = "new"
  <2>1. ReadBy(stage[r]) = {} /\ ReadBy(stage'[r]) = {}
    BY <1>2, ReadByFacts
  <2>2. ~disturbed'[r] => ~disturbed[r]
    OBVIOUS
  <2>3. ~disturbed[r] => /\ DOMAIN seen[r].rows = {} /\ seen[r].links = {} /\ seen[r].filed = {}
    BY <1>2, <2>1 DEF RunNow, SeenNow
  <2>4. SeenNow(r)'
    BY <2>1, <2>2, <2>3 DEF SeenNow
  <2>5. QED
    BY <1>2, <2>4 DEF RunNow, PlannedNow, BaseNow
<1>3. CASE stage[r] \in Outcomes \ {"applied"}
  <2>1. stage'[r] \notin {"new", "planned", "open", "applied"} \union {Tables[n] : n \in 2 .. 7}
    BY <1>3, TablesFacts DEF Outcomes
  <2>2. disturbed[r] => disturbed'[r]
    OBVIOUS
  <2>3. SeenNow(r)'
    BY <2>1 DEF SeenNow
  <2>4. QED
    BY <2>1, <2>2, <2>3 DEF RunNow, PlannedNow, BaseNow
<1>4. CASE disturbed'[r]
  BY <1>4 DEF RunNow, SeenNow, PlannedNow, BaseNow
<1>5. QED
  BY <1>1, <1>2, <1>3, <1>4

(* One run moves without writing; the others stay.                         *)
LEMMA RunsNowStay ==
  ASSUME IInv, SafeInv', rows' = rows, links' = links, disturbed' = disturbed, NEW r \in Runs,
         \A x \in Runs \ {r} : /\ stage'[x] = stage[x] /\ seen'[x] = seen[x] /\ plan'[x] = plan[x]
                               /\ base'[x] = base[x] /\ since'[x] = since[x],
         RunNow(r)'
  PROVE  IInv'
<1>1. SafeInv /\ \A x \in Runs : RunNow(x)
  BY DEF IInv
<1>2. Still
  BY DEF Still
<1>3. \A x \in Runs \ {r} : RunNow(x)'
  BY <1>1, <1>2, RunNowStays
<1>4. QED
  BY <1>3 DEF IInv

LEMMA ReadNowStep ==
  ASSUME IInv, SafeInv', NEW r \in Runs, ReadTable(r)
  PROVE  IInv'
<1>1. PICK n \in 1 .. 6 :
        /\ stage[r] = IF n = 1 THEN "new" ELSE Tables[n]
        /\ stage' = [stage EXCEPT ![r] = Tables[n + 1]]
        /\ seen' = [seen EXCEPT ![r] = Read(r, n)]
  BY DEF ReadTable
<1>2. /\ rows' = rows /\ links' = links /\ disturbed' = disturbed /\ since' = since
      /\ plan' = plan /\ base' = base
  BY DEF ReadTable, Undisturbing
<1>3. SafeInv /\ RunNow(r) /\ Shape
  BY SafeParts DEF IInv
<1>4. /\ stage'[r] = Tables[n + 1] /\ \A x \in Runs \ {r} : stage'[x] = stage[x]
      /\ seen'[r] = Read(r, n) /\ \A x \in Runs \ {r} : seen'[x] = seen[x]
  BY <1>1, <1>3 DEF Shape, Tabled
<1> DEFINE s     == Read(r, n)
           kinds == {Tables[m] : m \in 1 .. n}
<1>5. ~disturbed[r] =>
        /\ DOMAIN s.rows = {i \in DOMAIN rows : i.kind \in kinds}
        /\ \A i \in DOMAIN s.rows : s.rows[i] = rows[i]
        /\ s.links = {l \in links : l[1].kind \in kinds}
        /\ s.filed = IF "Category" \in kinds THEN Filed ELSE {}
  <2>1. n \in 1 .. 7
    OBVIOUS
  <2>2. QED
    BY <1>1, <1>3, <2>1, ReadNow DEF RunNow
<1>6. ReadBy(stage'[r]) = kinds
  <2>1. n + 1 \in 2 .. 7 /\ (n + 1) - 1 = n
    OBVIOUS
  <2>2. QED
    BY <1>4, <2>1, ReadByFacts
<1>7. Filed' = Filed
  BY <1>2 DEF Filed
<1>8. seen'[r] = s
  BY <1>4
<1> HIDE DEF s, kinds
<1>9. SeenNow(r)'
  BY <1>2, <1>5, <1>6, <1>7, <1>8 DEF SeenNow
<1>10. stage'[r] \notin {"planned", "open"} \union Outcomes
  <2>1. n + 1 \in 1 .. 7
    OBVIOUS
  <2>2. QED
    BY <1>4, <2>1, TablesFacts
<1>11. RunNow(r)'
  BY <1>9, <1>10 DEF RunNow, PlannedNow, BaseNow, Outcomes
<1>12. QED
  BY <1>2, <1>4, <1>11, RunsNowStay

LEMMA BuildNowStep ==
  ASSUME IInv, SafeInv', NEW r \in Runs, BuildPlan(r)
  PROVE  IInv'
<1> DEFINE s == Read(r, 7)
           p == PlanOf(Dataset[r], s)
<1>1. /\ stage[r] = "SiteSettings"
      /\ \/ stage' = [stage EXCEPT ![r] = "refused"] /\ plan' = plan
         \/ stage' = [stage EXCEPT ![r] = "nothing"] /\ plan' = plan
         \/ /\ ~Problem(Dataset[r], s)
            /\ stage' = [stage EXCEPT ![r] = "planned"]
            /\ plan' = [plan EXCEPT ![r] = p]
      /\ seen' = [seen EXCEPT ![r] = Nothing]
  BY DEF BuildPlan
<1>2. /\ rows' = rows /\ links' = links /\ disturbed' = disturbed /\ since' = since /\ base' = base
  BY DEF BuildPlan, Undisturbing
<1>3. SafeInv /\ RunNow(r) /\ Shape
  BY SafeParts DEF IInv
<1>4. ~disturbed[r] => s = Content
  <2>1. ASSUME ~disturbed[r]
        PROVE  /\ DOMAIN s.rows = {i \in DOMAIN rows : i.kind \in Governed}
               /\ \A i \in DOMAIN s.rows : s.rows[i] = rows[i]
               /\ s.links = {l \in links : l[1].kind \in Governed}
               /\ s.filed = IF "Category" \in Governed THEN Filed ELSE {}
    <3>1. 7 \in 1 .. 7 /\ stage[r] = IF 7 = 1 THEN "new" ELSE Tables[7]
      BY <1>1, TablesFacts
    <3>2. {Tables[m] : m \in 1 .. 7} = Governed
      BY ReadByFacts
    <3>3. QED
      BY <1>3, <2>1, <3>1, <3>2, ReadNow DEF RunNow
  <2>2. \A l \in links : l[1].kind \in Governed
    BY <1>3, KindFacts DEF SafeInv, TypeOK, CatalogueTypeOK, WellFormed, LinkFits
  <2>3. /\ DOMAIN Content.rows = {i \in DOMAIN rows : i.kind \in Governed}
        /\ \A i \in DOMAIN Content.rows : Content.rows[i] = rows[i]
        /\ Content.rows = [i \in DOMAIN Content.rows |-> rows[i]]
        /\ Content.links = links /\ Content.filed = Filed
        /\ Content = [rows |-> Content.rows, links |-> Content.links, filed |-> Content.filed]
    <3>1. Content.filed = Filed
      BY DEF Content, Filed
    <3>2. Content = [rows |-> Content.rows, links |-> Content.links, filed |-> Content.filed]
      BY DEF Content
    <3>3. QED
      BY <1>3, <3>1, <3>2, ContentFacts
  <2>4. /\ s = [rows |-> s.rows, links |-> s.links, filed |-> s.filed]
        /\ s.rows = [i \in DOMAIN s.rows |-> s.rows[i]]
    BY DEF Read
  <2> DEFINE c == Content
  <2>5. c.rows = [i \in DOMAIN c.rows |-> rows[i]] /\ c = [rows |-> c.rows, links |-> c.links, filed |-> c.filed]
        /\ DOMAIN c.rows = {i \in DOMAIN rows : i.kind \in Governed} /\ c.links = links /\ c.filed = Filed
    BY <2>3
  <2> HIDE DEF s, c
  <2>6. ASSUME ~disturbed[r]
        PROVE  s = c
    <3>1. s.rows = c.rows
      BY <2>1, <2>4, <2>5, <2>6
    <3>2. s.links = c.links
      BY <2>1, <2>2, <2>5, <2>6
    <3>3. s.filed = c.filed
      BY <2>1, <2>5, <2>6, KindFacts
    <3>4. QED
      BY <2>4, <2>5, <3>1, <3>2, <3>3
  <2>7. QED
    BY <2>6 DEF c
<1>5. Content' = Content
  BY <1>2 DEF Content
<1>6. ~disturbed[r] => p = PlanOf(Dataset[r], Content)
  BY <1>4
<1> HIDE DEF s, p
<1>7. /\ stage'[r] \in {"refused", "nothing", "planned"} /\ \A x \in Runs \ {r} : stage'[x] = stage[x]
      /\ \A x \in Runs \ {r} : seen'[x] = seen[x] /\ plan'[x] = plan[x]
      /\ stage'[r] = "planned" => plan'[r] = p /\ ~Problem(Dataset[r], s)
  BY <1>1, <1>3 DEF Shape, Tabled
<1>8. PlannedNow(r)'
  BY <1>2, <1>4, <1>5, <1>6, <1>7 DEF PlannedNow
<1>9. stage'[r] \notin {"new"} \union {Tables[n] : n \in 2 .. 7}
  BY <1>7, TablesFacts DEF Outcomes
<1>10. SeenNow(r)'
  BY <1>9 DEF SeenNow
<1>11. RunNow(r)'
  BY <1>7, <1>8, <1>10 DEF RunNow, BaseNow
<1>12. QED
  BY <1>2, <1>7, <1>11, RunsNowStay

LEMMA BeginNowStep ==
  ASSUME IInv, SafeInv', NEW r \in Runs, Begin(r)
  PROVE  IInv'
<1>1. /\ stage[r] = "planned"
      /\ stage' = [stage EXCEPT ![r] = "open"] /\ base' = [base EXCEPT ![r] = Database]
      /\ seen' = seen /\ plan' = plan
      /\ rows' = rows /\ links' = links /\ disturbed' = disturbed /\ since' = since
  BY DEF Begin, Undisturbing
<1>2. SafeInv /\ RunNow(r) /\ Shape /\ SinceOK(r)
  BY SafeParts DEF IInv, SafeInv
<1>3. /\ stage'[r] = "open" /\ \A x \in Runs \ {r} : stage'[x] = stage[x] /\ base'[x] = base[x]
      /\ base'[r].rows = rows /\ base'[r].links = links
  BY <1>1, <1>2 DEF Shape, Tabled, Database
<1>4. since'[r] = {}
  BY <1>1, <1>2 DEF SinceOK
<1>5. BaseNow(r)'
  BY <1>1, <1>3, <1>4 DEF BaseNow
<1>6. Content' = Content
  BY <1>1 DEF Content
<1>7. PlannedNow(r)'
  BY <1>1, <1>2, <1>6 DEF RunNow, PlannedNow
<1>8. stage'[r] \notin {"new"} \union {Tables[n] : n \in 2 .. 7}
  BY <1>3, TablesFacts
<1>9. SeenNow(r)'
  BY <1>8 DEF SeenNow
<1>10. RunNow(r)'
  BY <1>3, <1>5, <1>7, <1>9 DEF RunNow
<1>11. QED
  BY <1>1, <1>3, <1>10, RunsNowStay

(* Only a disturbed run is rolled back.                                    *)
LEMMA EndNowStep ==
  ASSUME IInv, SafeInv', NEW r \in Runs, Abort(r) \/ GiveUp(r)
  PROVE  IInv'
<1>1. PICK outcome \in {"aborted", "gone"} :
        /\ stage[r] = "open"
        /\ stage' = [stage EXCEPT ![r] = outcome] /\ plan' = [plan EXCEPT ![r] = NoPlan]
        /\ base' = [base EXCEPT ![r] = NoPlan] /\ seen' = [seen EXCEPT ![r] = Nothing]
        /\ since' = [since EXCEPT ![r] = {}]
        /\ rows' = rows /\ links' = links /\ disturbed' = disturbed
        /\ outcome = "aborted" => ~Possible(r, plan[r]) \/ Awkward(r, plan[r])
  BY DEF Abort, GiveUp, Close
<1>2. SafeInv /\ RunNow(r) /\ Shape
  BY SafeParts DEF IInv
<1>3. /\ stage'[r] = outcome
      /\ \A x \in Runs \ {r} : /\ stage'[x] = stage[x] /\ seen'[x] = seen[x] /\ plan'[x] = plan[x]
                               /\ base'[x] = base[x] /\ since'[x] = since[x]
  BY <1>1, <1>2 DEF Shape, Tabled
<1>4. outcome = "aborted" => disturbed[r]
  BY <1>1, <1>2, UndisturbedCommits DEF RunNow
<1>5. stage'[r] \notin {"new", "planned", "open", "applied"} \union {Tables[n] : n \in 2 .. 7}
  BY <1>3, TablesFacts DEF Outcomes
<1>6. SeenNow(r)'
  BY <1>5 DEF SeenNow
<1>7. RunNow(r)'
  BY <1>1, <1>3, <1>4, <1>5, <1>6 DEF RunNow, PlannedNow, BaseNow
<1>8. QED
  BY <1>1, <1>3, <1>7, RunsNowStay

(* What an undisturbed run has applied needs no second run.                *)
LEMMA CommitLeavesNothing ==
  ASSUME SafeInv, SafeInv', NEW r \in Runs, RunNow(r), Commit(r), ~disturbed[r]
  PROVE  ~Problem(Dataset[r], Content') /\ NoOp(PlanOf(Dataset[r], Content'))
<1> DEFINE p   == plan[r]
           s   == Content
           t   == Content'
           new == [rows |-> rows', links |-> links']
<1>1. stage[r] = "open" /\ Applied(r, p, Database, new)
  BY CommitFacts
<1>2. Fresh(r, s, p) /\ Shows(s, Database) /\ Settled(Database)
  BY <1>1, UndisturbedCommits DEF RunNow
<1>3. Database.links = links /\ Database.rows = rows /\ base[r].links = links
  BY <1>1 DEF RunNow, BaseNow, Database
<1>4. Referenced(Database.rows, Database.links)
  BY <1>3 DEF SafeInv, StoreOK
<1>5. new.rows = rows' /\ new.links = links'
  OBVIOUS
<1>6. /\ DOMAIN t.rows = {i \in DOMAIN rows' : i.kind \in Governed}
      /\ \A i \in DOMAIN t.rows : t.rows[i] = rows'[i]
      /\ t.links = links'
  <2>1. \A i \in DOMAIN rows' : rows'[i].kind = i.kind
    BY DEF SafeInv, TypeOK, CatalogueTypeOK, WellFormed, RowFits
  <2> DEFINE held == {x \in DOMAIN rows' : rows'[x].kind \in Governed}
  <2>2. t.rows = [i \in held |-> rows'[i]] /\ t.links = links'
    BY DEF Content
  <2>3. held = {i \in DOMAIN rows' : i.kind \in Governed}
    BY <2>1
  <2> HIDE DEF held, t
  <2>4. QED
    BY <2>2, <2>3
<1> DEFINE db == Database
<1>7. /\ Applied(r, p, db, new) /\ Shows(s, db) /\ Settled(db) /\ Referenced(db.rows, db.links)
      /\ base[r].links = db.links
  BY <1>1, <1>2, <1>3, <1>4
<1> HIDE DEF p, s, t, new, db
<1>8. Synchronized(r, p, t)
  BY <1>2, <1>5, <1>6, <1>7, FreshSynchronizes
<1>9. ~Problem(Dataset[r], t) /\ NoOp(PlanOf(Dataset[r], t))
  BY <1>2, <1>8, NothingLeft
<1>10. QED
  BY <1>9 DEF t

LEMMA CommitNowStep ==
  ASSUME IInv, SafeInv', NEW r \in Runs, Commit(r)
  PROVE  IInv'
<1>1. /\ stage' = [stage EXCEPT ![r] = "applied"] /\ plan' = [plan EXCEPT ![r] = NoPlan]
      /\ base' = [base EXCEPT ![r] = NoPlan] /\ seen' = [seen EXCEPT ![r] = Nothing]
      /\ since' = [x \in Runs |-> IF x = r THEN {} ELSE
                     IF stage[x] = "open" THEN since[x] \union wrote' ELSE since[x]]
      /\ disturbed' = [x \in Runs |->
           disturbed[x] \/ ( /\ x \in Runs \ {r}
                             /\ stage[x] \notin {"new"} \union (Outcomes \ {"applied"})
                             /\ \E y \in wrote' : y[1].kind \in Governed )]
  BY DEF Commit, Close, Disturb
<1>2. SafeInv /\ RunNow(r) /\ Shape /\ Reported
  BY SafeParts, CommitStep DEF IInv, StoreStep
<1>3. /\ stage'[r] = "applied" /\ disturbed'[r] = disturbed[r]
      /\ \A x \in Runs \ {r} :
           /\ stage'[x] = stage[x] /\ seen'[x] = seen[x] /\ plan'[x] = plan[x] /\ base'[x] = base[x]
           /\ since'[x] = IF stage[x] = "open" THEN since[x] \union wrote' ELSE since[x]
           /\ disturbed'[x] = (disturbed[x] \/ ( /\ stage[x] \notin {"new"} \union (Outcomes \ {"applied"})
                                                 /\ \E y \in wrote' : y[1].kind \in Governed ))
  BY <1>1, <1>2 DEF Shape, Tabled
<1>4. ~disturbed[r] => ~Problem(Dataset[r], Content') /\ NoOp(PlanOf(Dataset[r], Content'))
  BY <1>2, CommitLeavesNothing
<1>5. stage'[r] \notin {"new"} \union {Tables[n] : n \in 2 .. 7}
  BY <1>3, TablesFacts DEF Outcomes
<1>6. SeenNow(r)'
  BY <1>5 DEF SeenNow
<1>7. RunNow(r)'
  BY <1>3, <1>4, <1>6 DEF RunNow, PlannedNow, BaseNow
<1>8. \A x \in Runs \ {r} : RunNow(x)'
  BY <1>2, <1>3, RunNowOther DEF IInv
<1>9. QED
  BY <1>7, <1>8 DEF IInv

LEMMA EditNowStep ==
  ASSUME IInv, SafeInv', Edit
  PROVE  IInv'
<1>1. /\ StoreStep /\ stage' = stage /\ seen' = seen /\ plan' = plan /\ base' = base
      /\ \A r \in Runs : since'[r] = IF stage[r] = "open" THEN since[r] \union wrote' ELSE since[r]
  BY EditFacts DEF IInv
<1>2. \A r \in Runs :
        disturbed'[r] = (disturbed[r] \/ ( /\ stage[r] \notin {"new"} \union (Outcomes \ {"applied"})
                                           /\ \E x \in wrote' : x[1].kind \in Governed ))
  BY DEF Edit, Disturb
<1>3. \A r \in Runs : RunNow(r)'
  BY <1>1, <1>2, RunNowOther DEF IInv, StoreStep
<1>4. QED
  BY <1>3 DEF IInv

LEMMA InvariantInit ==
  ASSUME Init
  PROVE  IInv
<1>1. SafeInv
  BY SafeInit
<1>2. /\ stage = [r \in Runs |-> "new"] /\ seen = [r \in Runs |-> Nothing]
      /\ disturbed = [r \in Runs |-> FALSE]
  BY DEF Init
<1>3. ASSUME NEW r \in Runs
      PROVE  RunNow(r)
  <2>1. stage[r] = "new" /\ seen[r] = Nothing /\ ReadBy(stage[r]) = {}
    BY <1>2, ReadByFacts
  <2>2. Nothing.links = {}
    BY DEF Nothing
  <2>3. SeenNow(r)
    BY <2>1, <2>2, NothingFits DEF SeenNow
  <2>4. QED
    BY <2>1, <2>3 DEF RunNow, PlannedNow, BaseNow
<1>4. QED
  BY <1>1, <1>3 DEF IInv

LEMMA InvariantStep ==
  ASSUME IInv, [Next]_vars
  PROVE  IInv'
<1>1. SafeInv'
  BY SafeNext DEF IInv
<1>2. CASE UNCHANGED vars
  <2>1. /\ UNCHANGED <<rows, links, patches, spent, wrote>>
        /\ UNCHANGED <<stage, seen, plan, base, since, disturbed>>
    BY <1>2 DEF vars, catalogueVars, runVars
  <2>2. Still
    BY <2>1 DEF Still
  <2>3. \A r \in Runs : RunNow(r)'
    BY <1>1, <2>1, <2>2, RunNowStays DEF IInv
  <2>4. QED
    BY <1>1, <2>3 DEF IInv
<1>3. CASE Edit
  BY <1>1, <1>3, EditNowStep
<1>4. ASSUME NEW r \in Runs,
             ReadTable(r) \/ BuildPlan(r) \/ Begin(r) \/ Commit(r) \/ Abort(r) \/ GiveUp(r)
      PROVE  IInv'
  BY <1>1, <1>4, ReadNowStep, BuildNowStep, BeginNowStep, CommitNowStep, EndNowStep
<1>5. QED
  BY <1>2, <1>3, <1>4 DEF Next

LEMMA InvariantHolds == Spec => []IInv
<1>1. Init => IInv
  BY InvariantInit
<1>2. IInv /\ [Next]_vars => IInv'
  BY InvariantStep
<1>3. QED
  BY <1>1, <1>2, PTL DEF Spec

(* The preview predicts the apply: a plan that was printed is never rolled *)
(* back unless somebody else wrote governed content after the run's first  *)
(* read.                                                                   *)
THEOREM PreviewPredicts == Spec => []PreviewHolds
<1>1. IInv => PreviewHolds
  BY DEF IInv, RunNow, PreviewHolds
<1>2. QED
  BY <1>1, InvariantHolds, PTL

(* The zero-change second run: as long as nobody else writes, the plan of  *)
(* a second run after an applied one has no problem and no change.         *)
THEOREM SecondRunEmpty == Spec => []SecondRunIsNoOp
<1>1. IInv => SecondRunIsNoOp
  BY DEF IInv, RunNow, SecondRunIsNoOp
<1>2. QED
  BY <1>1, InvariantHolds, PTL
=============================================================================
