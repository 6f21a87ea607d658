-------------------------- MODULE Publishing_proofs --------------------------
(***************************************************************************)
(* Proofs about Publishing, for any sets of pages, editors, locales and    *)
(* slugs.                                                                  *)
(*                                                                         *)
(* That redirects never chain needs nothing but the three statements of    *)
(* buildRedirectOps.  That sources were public needs that what an update   *)
(* has read was once committed (SeenTyped).  That old addresses resolve    *)
(* needs that no two pages have one slug (SlugsUnique) and that the        *)
(* addresses of a public page are its own (LivesTracked).                  *)
(***************************************************************************)
EXTENDS Publishing, TLAPS

(* What an update has read could have been stored, and if it was public it *)
(* has been shown.                                                         *)
SeenTyped ==
  \A d \in Editors : edits[d] # NoEdit =>
    /\ edits[d].seen.status \in Statuses
    /\ RoutesOf(edits[d].seen) \subseteq shown

SlugsUnique ==
  \A e, f \in Ids : e # f /\ pages[e] \in Page /\ pages[f] \in Page =>
    \A l \in Locales : pages[e].slug[l] # NoSlug => pages[f].slug[l] # pages[e].slug[l]

(* A page that is public has been shown at its routes; the routes it has   *)
(* had are those and others, in locales in which it still has a slug, and  *)
(* none of them is another page's.                                         *)
LivesTracked ==
  \A e \in Ids :
    /\ RoutesOf(pages[e]) \subseteq shown
    /\ lived[e] # {} => Public(pages[e])
    /\ \A x \in lived[e] : pages[e].slug[x[1]] # NoSlug
    /\ \A f \in Ids \ {e} : lived[e] \intersect RoutesOf(pages[f]) = {}

IInv ==
  /\ TypeOK
  /\ SeenTyped
  /\ SlugsUnique
  /\ LivesTracked
  /\ OneHop
  /\ SourcesWerePublic
  /\ OldRoutesResolve

(***************************************************************************)
(* Operators.                                                              *)
(***************************************************************************)

(* buildRedirectOps, row by row. *)
LEMMA RedirectRows ==
  ASSUME NEW rows \in [Routes -> Slugs \union {NoSlug}], NEW l \in Locales,
         NEW old \in Slugs, NEW new \in Slugs
  PROVE  /\ buildRedirectOps(rows, l, old, new) \in [Routes -> Slugs \union {NoSlug}]
         /\ \A m \in Locales, s \in Slugs :
              buildRedirectOps(rows, l, old, new)[<<m, s>>] =
                IF m = l /\ s = old THEN new
                ELSE IF m = l /\ s = new THEN NoSlug
                ELSE IF m = l /\ rows[<<m, s>>] = old THEN new
                ELSE rows[<<m, s>>]
  BY DEF buildRedirectOps, ClearSource, Repoint, Routes

(* What is public is where its page says it is. *)
LEMMA PublicRoutes ==
  ASSUME NEW page, NEW l \in Locales, NEW s \in Slugs
  PROVE  <<l, s>> \in RoutesOf(page) <=> Public(page) /\ page.slug[l] = s
  BY DEF RoutesOf, Routes

(* Two pages with different slugs are never at one route. *)
LEMMA RoutesApart ==
  ASSUME NullsType, NEW e, NEW f,
         e \in Page /\ f \in Page =>
           \A l \in Locales : e.slug[l] # NoSlug => f.slug[l] # e.slug[l]
  PROVE  RoutesOf(e) \intersect RoutesOf(f) = {}
  BY DEF NullsType, RoutesOf, Public, Routes

(* The history follows every change of the pages that keeps slugs unique   *)
(* and takes no slug away.                                                 *)
LEMMA Tracked ==
  ASSUME IInv, Track, SlugsUnique',
         pages' \in [Ids -> Page \union {Unborn, Removed}],
         \A e \in Ids : Public(pages[e]) /\ Public(pages'[e]) =>
           \A l \in Locales : pages[e].slug[l] # NoSlug => pages'[e].slug[l] # NoSlug
  PROVE  /\ LivesTracked'
         /\ shown \subseteq shown' /\ shown' \subseteq Routes
         /\ lived' \in [Ids -> SUBSET Routes]
         /\ \A e \in Ids : \A x \in lived'[e] :
              x \notin RoutesOf(pages'[e]) =>
                /\ x \in lived[e]
                /\ Public(pages[e]) /\ Public(pages'[e])
                /\ \A f \in Ids \ {e} : x \notin RoutesOf(pages'[f])
<1> USE NullsType
<1>1. \A p : RoutesOf(p) \subseteq Routes
  BY DEF RoutesOf
<1>2. shown \subseteq shown' /\ shown' \subseteq Routes /\ \A e \in Ids : RoutesOf(pages'[e]) \subseteq shown'
  BY <1>1 DEF Track, IInv, TypeOK
<1>3. lived' \in [Ids -> SUBSET Routes]
  BY <1>1 DEF Track, IInv, TypeOK
<1>4. \A e \in Ids : lived'[e] =
         IF ~Public(pages'[e]) THEN {}
         ELSE RoutesOf(pages'[e]) \union
                (lived[e] \ UNION {RoutesOf(pages'[d]) : d \in Ids \ {e}})
  BY DEF Track
<1>5. \A e \in Ids, f \in Ids : e # f => RoutesOf(pages'[e]) \intersect RoutesOf(pages'[f]) = {}
  BY RoutesApart DEF SlugsUnique
<1>6. ASSUME NEW e \in Ids, NEW x \in lived'[e]
      PROVE  Public(pages'[e]) /\ \A f \in Ids \ {e} : x \notin RoutesOf(pages'[f])
  <2>1. Public(pages'[e])
    BY <1>4, <1>6
  <2>2. x \in RoutesOf(pages'[e]) \/ \A f \in Ids \ {e} : x \notin RoutesOf(pages'[f])
    <3> DEFINE others == UNION {RoutesOf(pages'[f]) : f \in Ids \ {e}}
    <3>1. lived'[e] = RoutesOf(pages'[e]) \union (lived[e] \ others)
      BY <1>4, <2>1
    <3>2. \A f \in Ids \ {e} : RoutesOf(pages'[f]) \subseteq others
      OBVIOUS
    <3> HIDE DEF others
    <3>3. QED
      BY <3>1, <3>2, <1>6
  <2>3. \A f \in Ids \ {e} : RoutesOf(pages'[e]) \intersect RoutesOf(pages'[f]) = {}
    BY <1>5
  <2>4. QED
    BY <2>1, <2>2, <2>3
<1>7. ASSUME NEW e \in Ids, NEW x \in lived'[e], x \notin RoutesOf(pages'[e])
      PROVE  x \in lived[e] /\ Public(pages[e])
  BY <1>4, <1>7 DEF IInv, LivesTracked
<1>8. ASSUME NEW e \in Ids, NEW x \in lived'[e]
      PROVE  pages'[e].slug[x[1]] # NoSlug
  <2>1. x[1] \in Locales /\ x[2] \in Slugs
    BY <1>3 DEF Routes
  <2>2. CASE x \in RoutesOf(pages'[e])
    BY <2>1, <2>2 DEF RoutesOf
  <2>3. CASE x \notin RoutesOf(pages'[e])
    BY <1>6, <1>7, <2>1, <2>3 DEF IInv, LivesTracked
  <2>4. QED
    BY <2>2, <2>3
<1>9. LivesTracked'
  BY <1>2, <1>6, <1>8 DEF LivesTracked
<1>10. QED
  BY <1>2, <1>3, <1>6, <1>7, <1>9

(***************************************************************************)
(* Steps that leave the redirects alone.                                   *)
(***************************************************************************)

(* Nothing but a page that was not public, or no longer is, changes. *)
LEMMA RedirectsKept ==
  ASSUME IInv, Track, SlugsUnique', UNCHANGED <<redirects, stale>>,
         pages' \in [Ids -> Page \union {Unborn, Removed}],
         \A e \in Ids : Public(pages[e]) /\ Public(pages'[e]) => pages'[e] = pages[e]
  PROVE  /\ LivesTracked' /\ OneHop' /\ SourcesWerePublic' /\ OldRoutesResolve'
         /\ shown \subseteq shown' /\ shown' \subseteq Routes
         /\ lived' \in [Ids -> SUBSET Routes]
<1>1. /\ LivesTracked'
      /\ shown \subseteq shown' /\ shown' \subseteq Routes
      /\ lived' \in [Ids -> SUBSET Routes]
      /\ \A e \in Ids : \A x \in lived'[e] :
           x \notin RoutesOf(pages'[e]) => x \in lived[e] /\ pages'[e] = pages[e]
  BY Tracked
<1>2. OneHop' /\ SourcesWerePublic'
  BY <1>1 DEF IInv, OneHop, SourcesWerePublic, Resolve
<1>3. OldRoutesResolve'
  BY <1>1 DEF IInv, OldRoutesResolve, Resolve
<1>4. QED
  BY <1>1, <1>2, <1>3

LEMMA CreateStep ==
  ASSUME IInv, NEW e \in Ids, Create(e)
  PROVE  IInv'
<1> USE NullsType, NoPageIsNoPage
<1>1. PICK status \in Statuses, date \in Dates, slug \in Translations :
        /\ Valid(status, date, now)
        /\ Unique(e, slug)
        /\ pages' = [pages EXCEPT ![e] =
             [status |-> status, publishAt |-> resolvePublishAt(status, date, now), slug |-> slug]]
  BY DEF Create
<1> DEFINE new == [status |-> status, publishAt |-> resolvePublishAt(status, date, now), slug |-> slug]
<1>2. /\ new \in Page /\ (new.status = "SCHEDULED" => new.publishAt # NoDate)
      /\ new.status \in Statuses /\ new.slug = slug
  BY <1>1 DEF IInv, TypeOK, Page, Statuses, Status, Dates, resolvePublishAt, Valid
<1>3. /\ pages' \in [Ids -> Page \union {Unborn, Removed}]
      /\ pages'[e] = new /\ pages[e] \notin Page
      /\ \A f \in Ids \ {e} : pages'[f] = pages[f]
  BY <1>1, <1>2 DEF IInv, TypeOK, Create
<1>4. SlugsUnique'
  BY <1>1, <1>2, <1>3 DEF IInv, SlugsUnique, Unique
<1>5. /\ LivesTracked' /\ OneHop' /\ SourcesWerePublic' /\ OldRoutesResolve'
      /\ shown \subseteq shown' /\ shown' \subseteq Routes
      /\ lived' \in [Ids -> SUBSET Routes]
  BY <1>3, <1>4, RedirectsKept DEF Create, Public
<1>6. TypeOK'
  BY <1>2, <1>3, <1>5 DEF IInv, TypeOK, Create, Statuses
<1>7. SeenTyped'
  BY <1>5 DEF IInv, SeenTyped, Create, Statuses
<1>8. QED
  BY <1>4, <1>5, <1>6, <1>7 DEF IInv

LEMMA RemoveStep ==
  ASSUME IInv, NEW e \in Ids, Remove(e)
  PROVE  IInv'
<1> USE NullsType, NoPageIsNoPage
<1>1. /\ pages' \in [Ids -> Page \union {Unborn, Removed}]
      /\ pages'[e] \notin Page
      /\ \A f \in Ids \ {e} : pages'[f] = pages[f]
  BY DEF IInv, TypeOK, Remove
<1>2. SlugsUnique'
  BY <1>1 DEF IInv, SlugsUnique
<1>3. /\ LivesTracked' /\ OneHop' /\ SourcesWerePublic' /\ OldRoutesResolve'
      /\ shown \subseteq shown' /\ shown' \subseteq Routes
      /\ lived' \in [Ids -> SUBSET Routes]
  BY <1>1, <1>2, RedirectsKept DEF Remove, Public
<1>4. TypeOK'
  BY <1>1, <1>3 DEF IInv, TypeOK, Remove, Statuses
<1>5. SeenTyped'
  BY <1>3 DEF IInv, SeenTyped, Remove, Statuses
<1>6. QED
  BY <1>2, <1>3, <1>4, <1>5 DEF IInv

LEMMA PromoteStep ==
  ASSUME IInv, PromoteScheduled
  PROVE  IInv'
<1> USE NullsType, NoPageIsNoPage
<1>1. /\ pages' \in [Ids -> Page \union {Unborn, Removed}]
      /\ \A f \in Ids : pages'[f] \in Page => pages[f] \in Page /\ pages'[f].slug = pages[f].slug
      /\ \A f \in Ids : Public(pages[f]) => pages'[f] = pages[f]
      /\ \A f \in Ids : pages'[f] = pages[f] \/ (pages[f].status = "SCHEDULED" /\ pages[f] \in Page /\ pages'[f].status = "PUBLISHED")
  BY DEF IInv, TypeOK, PromoteScheduled, Due, Page, Status, Public
<1>2. SlugsUnique'
  BY <1>1 DEF IInv, SlugsUnique
<1>3. /\ LivesTracked' /\ OneHop' /\ SourcesWerePublic' /\ OldRoutesResolve'
      /\ shown \subseteq shown' /\ shown' \subseteq Routes
      /\ lived' \in [Ids -> SUBSET Routes]
  BY <1>1, <1>2, RedirectsKept DEF PromoteScheduled
<1>4. TypeOK'
  BY <1>1, <1>3 DEF IInv, TypeOK, PromoteScheduled, Statuses, Status
<1>5. SeenTyped'
  BY <1>3 DEF IInv, SeenTyped, PromoteScheduled, Statuses
<1>6. QED
  BY <1>2, <1>3, <1>4, <1>5 DEF IInv

(* Reading, giving up, and the clock change no page and no redirect. *)
LEMMA QuietStep ==
  ASSUME IInv,
         \/ \E d \in Editors, e \in Ids : ReadForUpdate(d, e)
         \/ \E d \in Editors : AbandonUpdate(d)
         \/ Tick
         \/ UNCHANGED vars
  PROVE  IInv'
<1>1. UNCHANGED <<kind, pages, redirects, shown, lived, stale>>
  BY DEF ReadForUpdate, AbandonUpdate, Tick, vars
<1>2. now' \in Nat /\ edits' \in [Editors -> Edit \union {NoEdit}] /\ SeenTyped'
  <2>1. ASSUME NEW d \in Editors, NEW e \in Ids, ReadForUpdate(d, e)
        PROVE  now' \in Nat /\ edits' \in [Editors -> Edit \union {NoEdit}] /\ SeenTyped'
    <3>1. /\ [id |-> e, seen |-> pages[e], at |-> now] \in Edit
          /\ pages[e].status \in Statuses /\ RoutesOf(pages[e]) \subseteq shown
      BY <2>1 DEF ReadForUpdate, IInv, TypeOK, Edit, LivesTracked
    <3>2. QED
      BY <2>1, <3>1 DEF ReadForUpdate, IInv, TypeOK, SeenTyped, Statuses
  <2>2. ASSUME NEW d \in Editors, AbandonUpdate(d)
        PROVE  now' \in Nat /\ edits' \in [Editors -> Edit \union {NoEdit}] /\ SeenTyped'
    BY <2>2 DEF AbandonUpdate, IInv, TypeOK, SeenTyped, Statuses
  <2>3. ASSUME Tick \/ UNCHANGED vars
        PROVE  now' \in Nat /\ edits' \in [Editors -> Edit \union {NoEdit}] /\ SeenTyped'
    BY <2>3 DEF Tick, vars, IInv, TypeOK, SeenTyped, Statuses
  <2>4. QED
    BY <2>1, <2>2, <2>3
<1>3. TypeOK'
  BY <1>1, <1>2 DEF IInv, TypeOK, Statuses
<1>4. SlugsUnique' /\ LivesTracked' /\ OneHop' /\ SourcesWerePublic' /\ OldRoutesResolve'
  BY <1>1 DEF IInv, SlugsUnique, LivesTracked, OneHop, SourcesWerePublic, OldRoutesResolve, Resolve
<1>5. QED
  BY <1>2, <1>3, <1>4 DEF IInv

(***************************************************************************)
(* The transaction of an update.                                           *)
(***************************************************************************)

LEMMA CommitStep ==
  ASSUME IInv, NEW d \in Editors, CommitUpdate(d)
  PROVE  IInv'
<1> USE NullsType, NoPageIsNoPage
<1> DEFINE e    == edits[d].id
           seen == edits[d].seen
<1>1. /\ e \in Ids /\ seen \in Page /\ edits[d].at \in Nat
      /\ pages[e] \in Page /\ pages[e].status \in Statuses
      /\ seen.status \in Statuses /\ RoutesOf(seen) \subseteq shown
  BY NoEditIsNoEdit DEF IInv, TypeOK, SeenTyped, Edit, CommitUpdate
<1>2. PICK status \in Statuses \union {Keep}, date \in Dates \union {seen.publishAt}, slug \in Translations :
        /\ Valid(Given(status, seen.status), date, edits[d].at)
        /\ Unique(e, slug)
        /\ pages' = [pages EXCEPT ![e] = Written(d, status, date, slug)]
        /\ redirects' = [x \in Routes |->
             IF Renames(d, status, slug, x[1])
             THEN buildRedirectOps(redirects, x[1], seen.slug[x[1]], slug[x[1]])[x]
             ELSE redirects[x]]
  BY DEF CommitUpdate
<1> DEFINE new  == Written(d, status, date, slug)
           next == Given(status, seen.status)
<1>3. /\ next \in Statuses /\ Given(status, pages[e].status) \in Statuses
      /\ Statuses \subseteq Status
  BY <1>1 DEF Given, Statuses, Status
<1>4. /\ new \in Page /\ new.status \in Statuses
      /\ new.status = "SCHEDULED" => new.publishAt # NoDate
      /\ new.status = IF kind = "article" THEN next ELSE Given(status, pages[e].status)
      /\ new.slug = [l \in Locales |-> IF slug[l] = NoSlug THEN pages[e].slug[l] ELSE slug[l]]
  <2>1. date \in Nat \union {NoDate} /\ resolvePublishAt(next, date, edits[d].at) \in Nat \union {NoDate}
    BY <1>1 DEF Dates, Page, resolvePublishAt
  <2>2. [l \in Locales |-> IF slug[l] = NoSlug THEN pages[e].slug[l] ELSE slug[l]] \in Translations
    BY <1>1 DEF Translations, Page
  <2>3. kind # "article" => "SCHEDULED" \notin Statuses
    BY DEF Statuses
  <2>4. next = "SCHEDULED" => resolvePublishAt(next, date, edits[d].at) # NoDate
    BY <1>2 DEF Valid, resolvePublishAt
  <2>5. QED
    BY <1>3, <2>1, <2>2, <2>3, <2>4 DEF Written, Page
<1>5. /\ pages' \in [Ids -> Page \union {Unborn, Removed}]
      /\ pages'[e] = new
      /\ \A f \in Ids \ {e} : pages'[f] = pages[f]
  BY <1>1, <1>2, <1>4 DEF IInv, TypeOK
<1> HIDE DEF new, next, e, seen
<1>6. SlugsUnique'
  <2>1. ASSUME NEW f \in Ids \ {e}, pages[f] \in Page, NEW l \in Locales
        PROVE  /\ new.slug[l] # NoSlug => pages[f].slug[l] # new.slug[l]
               /\ pages[f].slug[l] # NoSlug => new.slug[l] # pages[f].slug[l]
    BY <1>1, <1>2, <1>4, <2>1 DEF IInv, SlugsUnique, Unique
  <2>2. QED
    BY <1>1, <1>5, <2>1 DEF IInv, SlugsUnique
<1>7. /\ Track /\ stale' \in BOOLEAN
      /\ ~stale' => ~stale /\ pages[e].status = seen.status /\ pages[e].slug = seen.slug
  BY DEF IInv, TypeOK, CommitUpdate, Outdated, e, seen
<1>8. /\ LivesTracked'
      /\ shown \subseteq shown' /\ shown' \subseteq Routes
      /\ lived' \in [Ids -> SUBSET Routes]
      /\ \A f \in Ids : \A x \in lived'[f] :
           x \notin RoutesOf(pages'[f]) =>
             /\ x \in lived[f]
             /\ Public(pages[f]) /\ Public(pages'[f])
             /\ \A g \in Ids \ {f} : x \notin RoutesOf(pages'[g])
  <2>1. \A f \in Ids : Public(pages[f]) /\ Public(pages'[f]) =>
          \A l \in Locales : pages[f].slug[l] # NoSlug => pages'[f].slug[l] # NoSlug
    BY <1>4, <1>5
  <2>2. QED
    BY <1>5, <1>6, <1>7, <2>1, Tracked
<1>9. ASSUME NEW l \in Locales, Renames(d, status, slug, l)
      PROVE  /\ seen.slug[l] \in Slugs /\ slug[l] \in Slugs /\ slug[l] # seen.slug[l]
             /\ seen.status = "PUBLISHED" /\ next = "PUBLISHED"
             /\ <<l, seen.slug[l]>> \in shown
  <2>1. /\ seen.slug[l] \in Slugs /\ slug[l] \in Slugs /\ slug[l] # seen.slug[l]
        /\ seen.status = "PUBLISHED" /\ next = "PUBLISHED"
    BY <1>1, <1>9 DEF Renames, Page, Translations, seen, next
  <2>2. QED
    BY <1>1, <2>1, PublicRoutes DEF Public
<1>10. /\ redirects' \in [Routes -> Slugs \union {NoSlug}]
       /\ \A l \in Locales, s \in Slugs :
            redirects'[<<l, s>>] =
              IF Renames(d, status, slug, l)
              THEN IF s = seen.slug[l] THEN slug[l]
                   ELSE IF s = slug[l] THEN NoSlug
                   ELSE IF redirects[<<l, s>>] = seen.slug[l] THEN slug[l]
                   ELSE redirects[<<l, s>>]
              ELSE redirects[<<l, s>>]
  <2>1. redirects \in [Routes -> Slugs \union {NoSlug}]
    BY DEF IInv, TypeOK
  <2>2. redirects' = [x \in Routes |->
             IF Renames(d, status, slug, x[1])
             THEN buildRedirectOps(redirects, x[1], seen.slug[x[1]], slug[x[1]])[x]
             ELSE redirects[x]]
    BY <1>2
  <2>3. ASSUME NEW l \in Locales, NEW s \in Slugs
        PROVE  /\ redirects'[<<l, s>>] \in Slugs \union {NoSlug}
               /\ redirects'[<<l, s>>] =
                   IF Renames(d, status, slug, l)
                   THEN IF s = seen.slug[l] THEN slug[l]
                        ELSE IF s = slug[l] THEN NoSlug
                        ELSE IF redirects[<<l, s>>] = seen.slug[l] THEN slug[l]
                        ELSE redirects[<<l, s>>]
                   ELSE redirects[<<l, s>>]
    <3>1. <<l, s>> \in Routes /\ <<l, s>>[1] = l
      BY DEF Routes
    <3>2. CASE Renames(d, status, slug, l)
      <4>1. redirects'[<<l, s>>] = buildRedirectOps(redirects, l, seen.slug[l], slug[l])[<<l, s>>]
        BY <2>2, <3>1, <3>2
      <4>2. /\ seen.slug[l] \in Slugs /\ slug[l] \in Slugs
        BY <1>9, <3>2
      <4> DEFINE old == seen.slug[l]
                 nu  == slug[l]
                 all == buildRedirectOps(redirects, l, old, nu)
      <4> HIDE DEF old, nu
      <4>3. /\ all \in [Routes -> Slugs \union {NoSlug}]
            /\ all[<<l, s>>] = IF s = old THEN nu
                               ELSE IF s = nu THEN NoSlug
                               ELSE IF redirects[<<l, s>>] = old THEN nu
                               ELSE redirects[<<l, s>>]
        BY <2>1, <4>2, RedirectRows DEF old, nu
      <4>4. all[<<l, s>>] \in Slugs \union {NoSlug}
        BY <3>1, <4>3
      <4>5. QED
        BY <3>2, <4>1, <4>3, <4>4 DEF old, nu
    <3>3. CASE ~Renames(d, status, slug, l)
      <4>1. redirects'[<<l, s>>] = redirects[<<l, s>>]
        BY <2>2, <3>1, <3>3
      <4>2. redirects[<<l, s>>] \in Slugs \union {NoSlug}
        BY <2>1, <3>1
      <4>3. QED
        BY <3>3, <4>1, <4>2
    <3>4. QED
      BY <3>2, <3>3
  <2>4. redirects' \in [Routes -> Slugs \union {NoSlug}]
    <3>1. \A x \in Routes : redirects'[x] \in Slugs \union {NoSlug}
      BY <2>3 DEF Routes
    <3> DEFINE row(x) == IF Renames(d, status, slug, x[1])
                         THEN buildRedirectOps(redirects, x[1], seen.slug[x[1]], slug[x[1]])[x]
                         ELSE redirects[x]
    <3>2. redirects' = [x \in Routes |-> row(x)]
      BY <2>2
    <3> HIDE DEF row
    <3>3. QED
      BY <3>1, <3>2
  <2>5. QED
    BY <2>3, <2>4
<1>11. OneHop'
  <2> SUFFICES ASSUME ~stale', NEW l \in Locales, NEW s \in Slugs, redirects'[<<l, s>>] # NoSlug
               PROVE  redirects'[<<l, redirects'[<<l, s>>]>>] = NoSlug
    BY DEF OneHop, Resolve, Routes
  <2>1. redirects'[<<l, s>>] \in Slugs
    BY <1>10 DEF Routes
  <2>2. \A t \in Slugs : redirects[<<l, t>>] # NoSlug =>
          redirects[<<l, t>>] \in Slugs /\ redirects[<<l, redirects[<<l, t>>]>>] = NoSlug
    BY <1>7 DEF IInv, TypeOK, OneHop, Resolve, Routes
  <2>3. CASE Renames(d, status, slug, l)
    <3>1. /\ seen.slug[l] \in Slugs /\ slug[l] \in Slugs /\ slug[l] # seen.slug[l]
          /\ s # slug[l]
      BY <1>9, <1>10, <2>3
    <3>2. redirects'[<<l, slug[l]>>] = NoSlug
      BY <1>10, <2>3, <3>1
    <3>3. CASE redirects'[<<l, s>>] = slug[l]
      BY <3>2, <3>3
    <3>4. CASE redirects'[<<l, s>>] # slug[l]
      <4>1. /\ redirects'[<<l, s>>] = redirects[<<l, s>>]
            /\ redirects[<<l, s>>] # seen.slug[l]
        BY <1>10, <2>3, <3>1, <3>4
      <4> DEFINE t == redirects[<<l, s>>]
      <4>2. t \in Slugs /\ redirects[<<l, t>>] = NoSlug /\ t # seen.slug[l]
        BY <2>1, <2>2, <4>1
      <4> HIDE DEF t
      <4>3. redirects'[<<l, t>>] = NoSlug
        BY <1>10, <2>3, <3>1, <4>2
      <4>4. QED
        BY <4>1, <4>3 DEF t
    <3>5. QED
      BY <3>3, <3>4
  <2>4. CASE ~Renames(d, status, slug, l)
    BY <1>10, <2>1, <2>2, <2>4
  <2>5. QED
    BY <2>3, <2>4
<1>12. SourcesWerePublic'
  <2> SUFFICES ASSUME NEW l \in Locales, NEW s \in Slugs, redirects'[<<l, s>>] # NoSlug
               PROVE  <<l, s>> \in shown'
    BY DEF SourcesWerePublic, Resolve, Routes
  <2>1. redirects[<<l, s>>] # NoSlug => <<l, s>> \in shown
    BY DEF IInv, SourcesWerePublic, Resolve, Routes
  <2>2. CASE Renames(d, status, slug, l)
    <3>1. /\ seen.slug[l] \in Slugs /\ <<l, seen.slug[l]>> \in shown
      BY <1>9, <2>2
    <3>2. s = seen.slug[l] \/ redirects[<<l, s>>] # NoSlug
      <4>1. CASE redirects[<<l, s>>] = seen.slug[l]
        BY <3>1, <4>1
      <4>2. CASE redirects[<<l, s>>] # seen.slug[l]
        BY <1>10, <2>2, <4>2
      <4>3. QED
        BY <4>1, <4>2
    <3>3. QED
      BY <1>8, <2>1, <3>1, <3>2
  <2>3. CASE ~Renames(d, status, slug, l)
    BY <1>8, <1>10, <2>1, <2>3
  <2>4. QED
    BY <2>2, <2>3
<1>13. OldRoutesResolve'
  <2> SUFFICES ASSUME ~stale', NEW f \in Ids, NEW l \in Locales, NEW s \in Slugs,
                      <<l, s>> \in lived'[f], <<l, s>> \notin RoutesOf(pages'[f])
               PROVE  redirects'[<<l, s>>] = pages'[f].slug[l]
    BY <1>8 DEF OldRoutesResolve, Resolve, Routes
  <2>1. /\ pages[e].status = seen.status /\ pages[e].slug = seen.slug
        /\ <<l, s>> \in lived[f] /\ Public(pages[f]) /\ Public(pages'[f])
        /\ \A g \in Ids \ {f} : <<l, s>> \notin RoutesOf(pages'[g])
    BY <1>7, <1>8
  <2>2. /\ pages[f].slug[l] # NoSlug
        /\ \A g \in Ids \ {f} : <<l, s>> \notin RoutesOf(pages[g])
        /\ <<l, s>> \notin RoutesOf(pages[f]) => redirects[<<l, s>>] = pages[f].slug[l]
    BY <1>7, <2>1 DEF IInv, LivesTracked, OldRoutesResolve, Resolve
  <2>3. Renames(d, status, slug, l) => Public(pages[e]) /\ new.status = "PUBLISHED" /\ new.slug[l] = slug[l]
    BY <1>1, <1>4, <1>9, <2>1 DEF Public, Given, next
  <2>4. CASE f = e
    <3>1. pages'[e].slug[l] # s
      BY <2>1, <2>4, PublicRoutes
    <3>2. CASE Renames(d, status, slug, l)
      <4>1. s # slug[l] /\ new.slug[l] = slug[l]
        BY <1>5, <2>3, <3>1, <3>2
      <4>2. s # seen.slug[l] => redirects[<<l, s>>] = seen.slug[l]
        BY <2>1, <2>2, <2>4, PublicRoutes
      <4>3. QED
        BY <1>5, <1>10, <2>4, <3>2, <4>1, <4>2
    <3>3. CASE ~Renames(d, status, slug, l)
      <4>1. seen.status = "PUBLISHED" /\ next = "PUBLISHED"
        BY <1>4, <1>5, <2>1, <2>4 DEF Public, Given, next
      <4>2. new.slug[l] = pages[e].slug[l]
        BY <1>4, <2>1, <2>2, <2>4, <3>3, <4>1 DEF Renames, seen, next
      <4>3. QED
        BY <1>5, <1>10, <2>2, <2>4, <3>1, <3>3, <4>2, PublicRoutes
    <3>4. QED
      BY <3>2, <3>3
  <2>5. CASE f # e
    <3>1. /\ pages'[f] = pages[f]
          /\ redirects[<<l, s>>] = pages[f].slug[l]
      BY <1>5, <2>2, <2>5
    <3>2. CASE Renames(d, status, slug, l)
      <4>1. s # seen.slug[l]
        BY <1>1, <2>1, <2>2, <2>3, <2>5, <3>2, PublicRoutes
      <4>2. s # slug[l]
        <5>1. Public(pages'[e]) /\ pages'[e].slug[l] = slug[l]
          BY <1>4, <1>5, <2>3, <3>2 DEF Public
        <5>2. QED
          BY <1>1, <2>1, <2>5, <5>1, PublicRoutes
      <4>3. pages[f].slug[l] # seen.slug[l]
        BY <1>1, <1>9, <2>1, <2>5, <3>2 DEF IInv, SlugsUnique, Public
      <4>4. QED
        BY <1>10, <3>1, <3>2, <4>1, <4>2, <4>3
    <3>3. CASE ~Renames(d, status, slug, l)
      BY <1>10, <3>1, <3>3
    <3>4. QED
      BY <3>2, <3>3
  <2>6. QED
    BY <2>4, <2>5
<1>14. TypeOK'
  BY <1>4, <1>5, <1>7, <1>8, <1>10 DEF IInv, TypeOK, CommitUpdate, Statuses
<1>15. SeenTyped'
  BY <1>8 DEF IInv, TypeOK, SeenTyped, CommitUpdate, Statuses
<1>16. QED
  BY <1>6, <1>8, <1>11, <1>12, <1>13, <1>14, <1>15 DEF IInv

(***************************************************************************)
(* The invariant, and what follows.                                        *)
(***************************************************************************)

LEMMA InitInvariant == Init => IInv
<1> SUFFICES ASSUME Init
             PROVE  IInv
  OBVIOUS
<1>1. TypeOK
  BY NoPageIsNoPage DEF Init, TypeOK
<1>2. \A e \in Ids : pages[e] \notin Page /\ RoutesOf(pages[e]) = {} /\ lived[e] = {}
  BY NoPageIsNoPage DEF Init, RoutesOf, Public
<1>3. SeenTyped /\ SlugsUnique /\ LivesTracked /\ OldRoutesResolve
  BY <1>2 DEF Init, SeenTyped, SlugsUnique, LivesTracked, OldRoutesResolve
<1>4. OneHop /\ SourcesWerePublic
  BY DEF Init, OneHop, SourcesWerePublic, Resolve
<1>5. QED
  BY <1>1, <1>3, <1>4 DEF IInv

LEMMA StepInvariant == IInv /\ [Next]_vars => IInv'
  BY CreateStep, RemoveStep, PromoteStep, QuietStep, CommitStep DEF Next

LEMMA InvariantHolds == Spec => []IInv
  BY InitInvariant, StepInvariant, PTL DEF Spec

(* Types, and a date for every scheduled page. *)
THEOREM TypeCorrect == Spec => []TypeOK
<1>1. IInv => TypeOK
  BY DEF IInv
<1>2. QED
  BY <1>1, InvariantHolds, PTL

(* Redirects never chain, loop or point to themselves, for any number of   *)
(* pages, editors and slugs, as long as no update was outdated.            *)
THEOREM NoChains == Spec => []OneHop
<1>1. IInv => OneHop
  BY DEF IInv
<1>2. QED
  BY <1>1, InvariantHolds, PTL

(* What leads anywhere has been public. *)
THEOREM SourcesShown == Spec => []SourcesWerePublic
<1>1. IInv => SourcesWerePublic
  BY DEF IInv
<1>2. QED
  BY <1>1, InvariantHolds, PTL

(* Old addresses of a page that stays public lead to the present one. *)
THEOREM OldAddressesLeadHome == Spec => []OldRoutesResolve
<1>1. IInv => OldRoutesResolve
  BY DEF IInv
<1>2. QED
  BY <1>1, InvariantHolds, PTL
=============================================================================
