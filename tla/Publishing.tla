----------------------------- MODULE Publishing -----------------------------
(***************************************************************************)
(* Published content and its public addresses: ArticlesService,            *)
(* ProjectsService, the scheduler that promotes due articles, and the slug *)
(* redirects that a rename of a published page leaves behind.              *)
(*                                                                         *)
(* An update reads its page, decides what to write, and writes it in one   *)
(* transaction later.  The transaction is one step here: two updates of    *)
(* one page meet at its row, and two updates of different pages that touch *)
(* the same slug meet at the unique index of the translations, before      *)
(* either comes to its redirects.  An update decided on an outdated read   *)
(* does not hold the slug it takes for the old one, and its statements may *)
(* mingle with others': what depends on their order is claimed only as     *)
(* long as there was none (stale).                                         *)
(*                                                                         *)
(* Articles and projects share no row and no redirect: a behaviour follows *)
(* one of the two kinds.  A project has no schedule; its isPublished is    *)
(* the status PUBLISHED or DRAFT.  ARCHIVED is treated by every operation  *)
(* as DRAFT is, which stands for both.                                     *)
(*                                                                         *)
(* A definition marked "Fault" is no part of the specification: it is the  *)
(* next definition with a plausible bug, which some property must notice.  *)
(***************************************************************************)
EXTENDS Integers, FiniteSets

CONSTANTS
  Ids,              \* ids of pages: a new page gets one that was never used
  Editors,          \* PATCH requests that may be in progress at a time
  Locales,          \* enabled locales
  Slugs,
  NoSlug,           \* no translation in a locale; no redirect
  Unborn, Removed,  \* an id not yet used, an id whose page is deleted
  NoDate,           \* publishAt is null
  Keep,             \* a status the request body leaves out
  NoEdit,           \* no request in progress
  MaxTime           \* bound on the clock

ASSUME MaxTimeType == MaxTime \in Nat

Kinds  == {"article", "project"}
Status == {"DRAFT", "SCHEDULED", "PUBLISHED"}

ASSUME NullsType   == NoSlug \notin Slugs /\ NoDate \notin Nat /\ Keep \notin Status

Translations == [Locales -> Slugs \union {NoSlug}]

Page == [status : Status, publishAt : Nat \union {NoDate}, slug : Translations]

(* Where a page can be found, and where a redirect starts. *)
Routes == Locales \X Slugs

ASSUME NoPageIsNoPage == {Unborn, Removed} \intersect Page = {} /\ Unborn # Removed

VARIABLES
  kind,       \* the kind of page this is about
  now,
  pages,      \* articles or projects with their translations
  redirects,  \* slug_redirects: target of each route, or NoSlug
  edits,      \* the update each editor has in progress
  shown,      \* routes that have been public at some time (history)
  lived,      \* routes each page has had while it stayed public (history)
  stale       \* an update has been decided on an outdated read (history)

vars == <<kind, now, pages, redirects, edits, shown, lived, stale>>

(* The statuses a page of this kind can have. *)
Statuses == IF kind = "article" THEN Status ELSE {"DRAFT", "PUBLISHED"}

(* An update: its page, as it was read, and when. *)
Edit == [id : Ids, seen : Page, at : Nat]

ASSUME NoEditIsNoEdit == NoEdit \notin Edit

(* Every scheduled page has a date: without one it would wait for ever. *)
TypeOK ==
  /\ kind \in Kinds
  /\ now \in Nat
  /\ pages \in [Ids -> Page \union {Unborn, Removed}]
  /\ \A e \in Ids : pages[e] \in Page =>
       /\ pages[e].status \in Statuses
       /\ pages[e].status = "SCHEDULED" => pages[e].publishAt # NoDate
  /\ redirects \in [Routes -> Slugs \union {NoSlug}]
  /\ edits \in [Editors -> Edit \union {NoEdit}]
  /\ shown \subseteq Routes
  /\ lived \in [Ids -> SUBSET Routes]
  /\ stale \in BOOLEAN

Init ==
  /\ kind \in Kinds
  /\ now = 0
  /\ pages = [e \in Ids |-> Unborn]
  /\ redirects = [x \in Routes |-> NoSlug]
  /\ edits = [d \in Editors |-> NoEdit]
  /\ shown = {}
  /\ lived = [e \in Ids |-> {}]
  /\ stale = FALSE

(***************************************************************************)
(* Pages.                                                                  *)
(***************************************************************************)

Public(page) == page \in Page /\ page.status = "PUBLISHED"

(* getPublicBySlug: the routes under which a page is served. *)
RoutesOf(page) == IF Public(page) THEN {x \in Routes : page.slug[x[1]] = x[2]} ELSE {}

(* The unique index on (locale, slug). *)
Unique(e, slug) ==
  \A d \in Ids \ {e} : pages[d] \in Page =>
    \A l \in Locales : slug[l] # NoSlug => pages[d].slug[l] # slug[l]

(* resolvePublishAt: a scheduled article needs a future date. *)
Valid(status, date, at) == status = "SCHEDULED" => date # NoDate /\ date > at

resolvePublishAt(status, date, at) ==
  IF kind = "article" /\ status = "PUBLISHED" /\ date = NoDate THEN at ELSE date

(* History: what is public now has been shown, and belongs to the page     *)
(* that shows it.  A page that is not public starts again from nothing.    *)
Track ==
  /\ shown' = shown \union UNION {RoutesOf(pages'[e]) : e \in Ids}
  /\ lived' = [e \in Ids |->
       IF ~Public(pages'[e]) THEN {}
       ELSE RoutesOf(pages'[e]) \union
              (lived[e] \ UNION {RoutesOf(pages'[d]) : d \in Ids \ {e}})]

(***************************************************************************)
(* buildRedirectOps: three statements, in this order.                      *)
(***************************************************************************)

(* Fault: chains are not collapsed. *)
RepointNone(rows, l, old, new) == rows

(* 1. Whatever led to the old slug leads to the new one. *)
Repoint(rows, l, old, new) ==
  [x \in Routes |-> IF x[1] = l /\ rows[x] = old THEN new ELSE rows[x]]

(* Fault: the stale source stays. *)
ClearNone(rows, l, new) == rows

(* 2. The new slug leads nowhere: it is a page. *)
ClearSource(rows, l, new) == [rows EXCEPT ![<<l, new>>] = NoSlug]

(* 3. The old slug leads to the new one, whatever it led to before. *)
buildRedirectOps(rows, l, old, new) ==
  [ClearSource(Repoint(rows, l, old, new), l, new)
     EXCEPT ![<<l, old>>] = new]

(* resolve: one lookup, never a walk. *)
Resolve(x) == redirects[x]

(***************************************************************************)
(* Operations.                                                             *)
(***************************************************************************)

(* The dates a request body may carry; one that has passed is as good as   *)
(* another.                                                                *)
Dates == IF kind = "article" THEN 1 .. MaxTime \union {NoDate} ELSE {NoDate}

Given(status, otherwise) == IF status = Keep THEN otherwise ELSE status

Create(e) ==
  /\ pages[e] = Unborn
  /\ \E status \in Statuses, date \in Dates, slug \in Translations :
       /\ \E l \in Locales : slug[l] # NoSlug
       /\ Valid(status, date, now)
       /\ Unique(e, slug)
       /\ pages' = [pages EXCEPT ![e] =
            [status |-> status, publishAt |-> resolvePublishAt(status, date, now), slug |-> slug]]
  /\ Track
  /\ UNCHANGED <<kind, now, redirects, edits, stale>>

(* update, up to the transaction: everything is decided on this read. *)
ReadForUpdate(d, e) ==
  /\ edits[d] = NoEdit
  /\ pages[e] \in Page
  /\ edits' = [edits EXCEPT ![d] = [id |-> e, seen |-> pages[e], at |-> now]]
  /\ UNCHANGED <<kind, now, pages, redirects, shown, lived, stale>>

(* The page the transaction leaves.  An article's status is always         *)
(* written, as it was read if the body has none; a project's only if the   *)
(* body has one.  Translations the body does not mention stay.             *)
Written(d, status, date, slug) ==
  LET e    == edits[d].id
      seen == edits[d].seen
      next == Given(status, seen.status)
  IN  [status    |-> IF kind = "article" THEN next ELSE Given(status, pages[e].status),
       publishAt |-> resolvePublishAt(next, date, edits[d].at),
       slug      |-> [l \in Locales |-> IF slug[l] = NoSlug THEN pages[e].slug[l] ELSE slug[l]]]

(* Fault: the old status is not asked for. *)
RenamesDrafts(d, status, slug, l) ==
  LET seen == edits[d].seen
  IN  /\ slug[l] # NoSlug /\ seen.slug[l] # NoSlug /\ slug[l] # seen.slug[l]
      /\ Given(status, seen.status) = "PUBLISHED"

(* The gate of D04-6: the page, as it was read, was published under        *)
(* another slug, and stays published.                                      *)
Renames(d, status, slug, l) ==
  LET seen == edits[d].seen
  IN  /\ slug[l] # NoSlug /\ seen.slug[l] # NoSlug /\ slug[l] # seen.slug[l]
      /\ seen.status = "PUBLISHED"
      /\ Given(status, seen.status) = "PUBLISHED"

(* The page is no longer what this update was decided on. *)
Outdated(d) ==
  \/ pages[edits[d].id].status # edits[d].seen.status
  \/ pages[edits[d].id].slug # edits[d].seen.slug

(* The transaction: page, translations and redirects at once.  The body is *)
(* chosen here, where it first matters; one without a date writes back the *)
(* date that was read.                                                     *)
CommitUpdate(d) ==
  /\ edits[d] # NoEdit
  /\ LET e    == edits[d].id
         seen == edits[d].seen
     IN  /\ pages[e] \in Page
         /\ \E status \in Statuses \union {Keep}, date \in Dates \union {seen.publishAt}, slug \in Translations :
              /\ Valid(Given(status, seen.status), date, edits[d].at)
              /\ Unique(e, slug)
              /\ pages' = [pages EXCEPT ![e] = Written(d, status, date, slug)]
              /\ redirects' = [x \in Routes |->
                   IF Renames(d, status, slug, x[1])
                   THEN buildRedirectOps(redirects, x[1], seen.slug[x[1]], slug[x[1]])[x]
                   ELSE redirects[x]]
  /\ Track
  /\ stale' = (stale \/ Outdated(d))
  /\ edits' = [edits EXCEPT ![d] = NoEdit]
  /\ UNCHANGED <<kind, now>>

(* 422, a slug that is taken, a page deleted meanwhile, a crash: nothing   *)
(* is written.                                                             *)
AbandonUpdate(d) ==
  /\ edits[d] # NoEdit
  /\ edits' = [edits EXCEPT ![d] = NoEdit]
  /\ UNCHANGED <<kind, now, pages, redirects, shown, lived, stale>>

(* Translations cascade away, redirects stay. *)
Remove(e) ==
  /\ pages[e] \in Page
  /\ pages' = [pages EXCEPT ![e] = Removed]
  /\ Track
  /\ UNCHANGED <<kind, now, redirects, edits, stale>>

Due(e) == pages[e] \in Page /\ pages[e].status = "SCHEDULED" /\ pages[e].publishAt <= now

(* promoteScheduled, every minute: one UPDATE over all articles. *)
PromoteScheduled ==
  /\ \E e \in Ids : Due(e)
  /\ pages' = [e \in Ids |->
       IF Due(e) THEN [pages[e] EXCEPT !.status = "PUBLISHED"] ELSE pages[e]]
  /\ Track
  /\ UNCHANGED <<kind, now, redirects, edits, stale>>

Tick ==
  /\ now < MaxTime
  /\ now' = now + 1
  /\ UNCHANGED <<kind, pages, redirects, edits, shown, lived, stale>>

Next ==
  \/ \E e \in Ids : Create(e) \/ Remove(e)
  \/ \E d \in Editors, e \in Ids : ReadForUpdate(d, e)
  \/ \E d \in Editors : CommitUpdate(d) \/ AbandonUpdate(d)
  \/ PromoteScheduled
  \/ Tick

Spec == Init /\ [][Next]_vars

(***************************************************************************)
(* Properties.                                                             *)
(***************************************************************************)

(* "No a->b->c chain": a redirect's target is never itself redirected, in  *)
(* particular none points to itself and no two point to each other, so one *)
(* lookup is always enough, whatever pages take each other's slugs.        *)
OneHop ==
  ~stale => \A x \in Routes : Resolve(x) # NoSlug => Resolve(<<x[1], Resolve(x)>>) = NoSlug

(* A redirect never gives away an address that was not public: what leads  *)
(* anywhere has been a published page's address.  Outdated reads included. *)
SourcesWerePublic == \A x \in Routes : Resolve(x) # NoSlug => x \in shown

(* While a page stays public, every address it has had in that time leads  *)
(* to its present one, unless another public page has taken that address.  *)
OldRoutesResolve ==
  ~stale => \A e \in Ids : \A x \in lived[e] :
    x \notin RoutesOf(pages[e]) => Resolve(x) = pages[e].slug[x[1]]

(***************************************************************************)
(* What the repository says of redirects and the code does not keep.       *)
(***************************************************************************)

(* "A live published slug is never a fromSlug." *)
PublicSlugIsNoSource ==
  \A e \in Ids : \A x \in RoutesOf(pages[e]) : Resolve(x) = NoSlug

(* "So the old public URL keeps resolving", whoever else edits the page. *)
OldUrlKeepsResolving ==
  \A e \in Ids : \A x \in lived[e] :
    x \notin RoutesOf(pages[e]) => Resolve(x) = pages[e].slug[x[1]]
=============================================================================
