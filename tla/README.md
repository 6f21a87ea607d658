# Formal models of eslammuatamed-api

The API behind a personal site: NestJS over PostgreSQL (Prisma), an SMTP relay
and an object store. One process serves public reads, an admin panel and a few
scheduled jobs; beside it run a content synchronization and a deploy. Almost
every operation is a handful of statements or commands with awaits between
them, so what is hard is what happens *between* them: another request, the
scheduler, an answer that never arrives, a crash.

This directory holds TLA+ models of the parts where that matters, TLC
configurations that check them on small instances, and TLAPS proofs for every
value of the constants. Paths below are relative to the repository root.

## 1. Inventory

| Component | State it keeps | Operations | Talks to | Model |
|---|---|---|---|---|
| Outbound mail (`mail/mail.service.ts`) | shutdown flag, pending backoff sleeps | `send` (bounded retry), `onModuleDestroy` | SMTP relay | `MailDelivery` |
| Operator replies (`contact/contact-reply.service.ts`, `provider-idempotency.ts`) | `contact_message_replies` | `reply` (claim, replay, recover), `list` | mail, inbox, purge | `ContactReply` |
| Contact inbox (`contact/contact.service.ts`, `contact-mail.service.ts`, `contact-purge.scheduler.ts`, `anti-spam.ts`) | `contact_messages` | submit, list, read/archive, purge, daily retention | mail (detached dispatch) | `ContactInbox` |
| Sessions (`auth/`) | `refresh_tokens`, cookies | login, refresh with rotation, logout | users, throttler | `RefreshTokens` |
| Access control (`access-control/`, `common/guards/`) | roles, grants, users | role and user administration; two guards on every request | every admin route | `Administration` |
| Settings, SEO metadata (`settings/`, `seo/`) | a singleton; rows per page and locale | merged validation and update; upsert of a page | media, locales | `Administration` (partly) |
| Media library (`media/media.service.ts`, `processing-concurrency.limiter.ts`, `storage/`) | `media_assets`, variants, objects, an in-process counter | upload, alt texts, removal, usages | object store, every table that references an asset | `MediaLibrary` |
| Media processing (`media/media-processing*.ts`, `media-descriptor.resolver.ts`) | none | validation, renditions, descriptors | Sharp | `MediaProcessing` |
| Publishing (`articles/`, `projects/`) | pages, translations | create, update, remove, list, search, scheduled promotion | redirects, media, taxonomy | `Publishing` |
| Redirects (`redirects/redirect.service.ts`) | `slug_redirects` | `resolve`; statements for a rename's transaction | publishing | `Publishing` |
| Taxonomy, skills, experiences, testimonials | their rows, translations and links | CRUD with replaced link sets, RESTRICT on removal | publishing, synchronization | `Catalogue` |
| Content synchronization (`prisma/sync/`) | none; a dataset shipped with the release | plan, preview, apply in one REPEATABLE READ transaction, report | every governed table | `ContentSync` |
| Deployment (`.github/workflows/deploy.yml`, `scripts/deploy/`) | releases, `current`, the schema, the process | checks, shipping, cutover with health gate and rollback, report | the host | `Deployment` |
| Previews (`preview/`) | none (signed tokens) | mint, verify, serve a draft | publishing | |
| Throttling (`common/throttling/`) | counters per key and tier | a guard per route | library storage | |
| Errors, envelopes, configuration, logging, health, OpenAPI | none | mapping and wiring | all | |
| Off-site backup (`scripts/backup/offsite-backup.sh`) | objects and manifests in a bucket | copy one finished local dump, verify it, write its manifest | the host, object store | |

What is hard, and what makes each part correct:

* **Mail.** A relay may take a mail and lose its answer; the loop cannot tell
  that from a failure and tries again. Correct: a mail with a provider key is
  delivered at most once per retention, "sent" means the relay took it, and a
  send ends, also when the process shuts down in the middle of a backoff.
* **Replies.** Two POSTs of one key race through the unique index; the loser
  may recover the winner's unfinished attempt; the purge may delete the message
  at any await; a crash leaves a row PENDING. Correct: one attempt per key, no
  mail of an attempt outside the relay's window, SENT only if the relay took it,
  FAILED only on the word of the first send, the attempt's identity immutable.
* **Inbox.** A submission is answered before its mails are sent; two PATCHes
  decide on reads that the other has made stale; the retention job deletes for
  good. Correct: a trapped form is never mailed about and no mail goes out
  without bound, a message is deleted only after its full time in the archive,
  a dispatch ends.
* **Sessions.** Rotation is an exclusive claim under READ COMMITTED; revocation
  of a family does not see what commits after it began. Correct: a token is
  exchanged at most once, a session has at most one usable token, a replay kills
  its successor, a dead session never comes back.
* **Access control, settings, SEO.** Grants are replaced by two statements while
  requests are inside the guards; a settings body is checked against a row read
  earlier; two editors upsert one page. Correct: a revocation holds for every
  later request, a role has the grants one request asked for, a switch that is
  on has what it switches on, a page is one editor's.
* **Media.** Object store and database share no transaction. Correct: a stored
  row has all its objects, references point to stored rows, one asset per
  content, the limiter's slots are always given back, a failed upload leaves no
  orphans unless the store refuses the deletion, and what a page references can
  be served as the page expects it.
* **Media processing.** Three hints of one file can disagree, a deduplicated
  submission is never processed, and the widths, formats and qualities of the
  renditions are named again where they are read. Correct: nothing is answered
  with an asset that is not what it claims to be, and the ladder's descent ends
  at the first quality that fits.
* **Publishing.** An update decides on a read made before its transaction;
  slugs are reused across pages; the scheduler promotes meanwhile. Correct: one
  redirect is always enough, no redirect starts at an address that was never
  public, an old address of a page that stays public leads to its present one.
* **Synchronization.** The plan is made of seven reads that no transaction ties
  together, and applied later beside the dashboard. Correct: a preview that shows
  no problem is applied unless somebody intervened, a second run changes nothing,
  a run touches what its plan names and overwrites nobody's later write.
* **Deployment.** Any command of the script may fail or be its last; the
  database and the machine come and go; two merges queue two runs. Correct: the
  link names a release that can start, a report is true, the link never moves
  back but to roll back.

`PROJECT.json` lists each component with its status and every hazard at its line.

## 2. Modules

| Module | Extends / instantiates | Models |
|---|---|---|
| `MailDelivery` | | `MailService.send`, its shutdown, and the relay |
| `ContactReply` | `INSTANCE MailDelivery`, `INSTANCE ReplyLedger` | `ContactReplyService.reply` over that mail door, the purge, crashes |
| `ReplyLedger` | | what `ContactReply` implements: one attempt per key, and what may be told of it |
| `ContactInbox` | `INSTANCE MailDelivery` | a visitor's message from the form to the purge |
| `RefreshTokens` | `INSTANCE SessionLedger` | `AuthService` and `RefreshTokenService` |
| `SessionLedger` | | what `RefreshTokens` implements: tokens that are exchanged, revoked or left alone |
| `MediaProcessing` | | the identity checks, the planned renditions, the quality ladder |
| `MediaLibrary` | `EXTENDS MediaProcessing` | `MediaService.upload` and `remove`, the limiter, the store, what is served |
| `Publishing` | | articles and projects, the scheduler, redirects |
| `Catalogue` | | the content tables and the dashboard's writes to them |
| `ContentSync` | `EXTENDS Catalogue` | `content:sync`, beside the dashboard |
| `Administration` | | guards, roles, accounts, settings, SEO |
| `Deployment` | | the deploy workflow and the remote cutover script |
| `MC…` | the module, `TLC` where needed | constants for model checking |
| `…_proofs` | the module, `TLAPS` | theorems |

Some modules hold operators marked `Fault`: the definition that follows each of
them with one plausible bug. They belong to no specification. Putting such an
operator in its definition's place makes the property it is paired with fail,
which shows that the property can notice that bug.

### MailDelivery

`sends[s]` is one call of `send`: its mail, the attempt it is in, when it
started and how it ended. `Attempt…` actions are one transport call each, with
the four ways it can end (accepted, answer lost, transient failure, permanent
rejection); the loop sees "lost" and "transient" as the same error
(`mail.service.ts:94-150`). A sleeper goes on when its timer fires or when it is
resolved (`Wakes`): `Shutdown` sets the flag, clears every `timer` and resolves
its sleeper, as `onModuleDestroy` does, and a send whose timer were only cleared
would stay in its backoff for good. `seen` is the relay's memory of keys and `delivered`
what reached a mailbox; both are external and follow what the code documents of
the provider.

### ContactReply

One action per stretch between two awaits of `reply`: reading the message,
claiming the key by INSERT under the unique index, reading the attempt that won,
comparing it, answering it, the recovery under the window check, the send
itself (MailDelivery's actions, `Mail!`), the terminal UPDATE, and the answer it
brings back (`Answer`). Any statement may reject, which is a 500: the first read
(`Receive`), the INSERT without effect and every other one (`StatementFails`), the
INSERT that lands all the same and leaves a PENDING row that nobody works for
(`ClaimUnheard`), and an UPDATE that has landed (`StatementFails` in place of
`Answer`). `rows` is the table; `held` is the row object a handler holds, which is
never refreshed but by its own UPDATE.
`Purge` deletes a message with its replies, `Crash` ends every handler and send.
Times are ticks; the window is `Retention` ticks.

### ReplyLedger

The abstract specification of replies. It has no handlers, no claims that are
lost, no copies read earlier and no recovery: only the attempts made, at most one
under a message and a client key, and the answers given. `Open` makes an attempt,
`Deliver` is a mail of it at the visitor's (one in the window, none long after,
none that no request waits for),
`Conclude` records an outcome (FAILED by the request that made it and no
other, SENT only of what was mailed), `Show` tells a request of the attempt: an
outcome only if it was recorded, and PENDING only to a request that did not make
it. `Refuse` says 404 or 409 of a message that is gone, or an error. An error is
promised to mean nothing: there may be no attempt, one that is still PENDING, or one
whose outcome is recorded (`Ask`, `Open` and `Refuse` may each end in one); what the
ledger says is that the error itself neither changes the attempt nor gives it an
outcome. The ledger keeps an attempt whose row was purged.

`Ledger` in ContactReply is the refinement mapping. An attempt is the row that the
request which inserted it keeps a copy of (`Made`, `Attempt`), with the status of
the stored row and who mailed it when; what a request was told is its handler's
label and, for an answer, the row it holds (`Told`, `Shown`). `Receive` maps to
`Ask`, `ClaimInserted` and `ClaimUnheard` to `Open`, a send the relay takes as new to
`Deliver`, the terminal UPDATEs to `Conclude`, `Answer`, a replay and a refused
recovery to `Show`, every later 404, 409 and 500 to `Refuse`; the rest, a crash
included, to a stutter.

### ContactInbox

`Submit` is the whole handler: the contact methods that the body may leave out,
blank or get wrong, the honeypot and the form's timer, the row. The dispatch of
a row is one caller of MailDelivery: owner first, visitor after, whatever became
of the first. A PATCH is its read (`ReadMessage`) and its unconditional write
(`WriteMessage`), where `archivedAt` moves as seen from the row it read. `since`
and `crossed` are histories: when a row was archived last, and whether two of
its PATCHes overlapped. A tick is far longer than a request: a PATCH does not
span one.

### RefreshTokens

`tokens` are the committed rows. An open rotation holds the lock of the one row
it claimed, and what it wrote lives in its `pc` until it commits. `Claim` waits
for that lock and then tests its WHERE again; `revokeFamily` works on the rows
it saw when it started (`sighted`). A family has at most one live token, which is
proved, so a revocation touches one row, in one step. `route` is what a call came
for. `AskAccount` comes after the rotation has committed, as in
`auth.service.ts:59-63`: a deactivated account is denied with its token spent.
`StatementFails` is any other statement that rejects, or the signing of the access
token: a login's INSERT, the reads of the token and of the account, the UPDATE of a
revocation. `FinishRevocation` may have taken effect and be answered with an error or
not at all, and so may every INSERT, as a step and the failure after it.

### SessionLedger

The abstract specification of sessions. It has no statements, locks, clock or
crashes: who asked for what with which token, what each call was told, the tokens
made, those still good, and the accounts that are active. `Exchange` takes a good
token and makes its replacement good in one step; `Revoke` takes good tokens of the
presented token's session only, by a logout or by a refresh whose token is not good,
and "reused" is said of a known, dead token whose replacement is dead too. `Deny`,
`Fail` and `Vanish` take no token in their own step, and a call that is denied
although it has made a token is a refresh for a deactivated account.

The ledger does **not** promise that a replacement is delivered. A call that is
denied for a deactivated account, fails or is never answered *after* its exchange
has spent the token it presented, and nobody is told of the one made for it; the
code does that, since it rotates first (`auth.service.ts:59-65`), and so does the
ledger, as `Exchange` and then `Deny`, `Fail` or `Vanish`.

`Sessions` in RefreshTokens is the refinement mapping: a token is good while its
row is live (`Usable`), a call has been told its last label unless its process died
or its answer was lost, which is "gone" (`Told`). `Receive` maps to `Ask`,
`issueNewFamily` to `Open`, `CommitRotation` to `Exchange`, `FinishRevocation` and a
logout without a known token to `Revoke`, `Answer` to `Give`, each refusal, before or
after the rotation, to `Deny`, `AbortRotation` and `StatementFails` to `Fail`,
`SetActive` to itself, a crash and a lost answer to `Vanish`; the claim, the start of
a revocation and expiry to a stutter.
The ledger does not say that a logout ends the session: section 6 says why.

### MediaProcessing and MediaLibrary

`MediaProcessing` is functions of one submission: a file with the extension and
the type its sender declares. `validateIdentity` compares them with the magic
bytes; `planRenditions` is the widths; `Quality` is where the descent of
`encodeWithinBudget` stops; `Pieces` are the objects of a submission in the order
of their puts. How large an encoder's output is belongs to Sharp and is a
constant, so the theorems hold for every encoder; that a picture may not decode
is a choice in `MediaLibrary`.

In `MediaLibrary`, `Upload` is validation, the dedup lookup (`Lookup`) and, after its
await, the limiter's slot (`Admit`), processing, one put per object, the row, and on failure compensation and the reread of a race's
winner. `Remove` reads usages, deletes the row under the foreign keys, and
cleans up the objects after; a deletion that rejects for another reason
(`DeleteRejected`) may have taken effect, and then nobody cleans up. Puts and creates may fail before or after they took
effect; deletions may fail. `Reference` stands for every writer of a column that
references an asset; `Slot` says of each column whether the code looks up the
asset's kind before it writes (the resume takes a PDF, the portrait and the SEO
images a picture, the others whatever they are given). `Url` is the address
`MediaDescriptorResolver` makes of the row's variants. `MetaTarget` says whether a P2002 error names its columns
in `meta.target`: both answers in the passing run, only the one of the installed
Prisma in `MediaLibraryRace`.

### Publishing

A page is an article or a project (`kind`), with a status, a date, and a slug
per locale; an editor's update is its read (`ReadForUpdate`) and its transaction
(`CommitUpdate`), where the body is chosen. `buildRedirectOps` is its three
statements in order. `shown`, `lived` and `stale` are histories.

The transaction is one step. For updates whose read is still right this is
exact: the transaction of one page holds its row, and two pages meet at the
unique index of (locale, slug) whenever one takes the slug the other leaves, so
the second comes to its redirects after the first has committed; what remains
are statements on rows of different slugs, which commute. An update decided on
an outdated read names an old slug that its page no longer holds, no lock orders
it against a page that takes that slug, and under READ COMMITTED its statements
may mingle with the other's. `OneHop` and `OldRoutesResolve` are therefore claimed
until the first such commit (`~stale`) and no further. `SourcesWerePublic` does
not depend on the order of statements and is claimed always.

### Catalogue and ContentSync

`Catalogue` is the content database: `rows` by id (a row's translations folded
into it; `key` identifies it across databases, `second` is the other text the
code compares), `links` of the three join tables, unique slugs, RESTRICT and
CASCADE. Its actions are the dashboard's successful writes; only the
replacement of links under no row lock takes two steps, as its two statements do.

`ContentSync` adds the runs. `ReadTable` and `BuildPlan` are the seven reads of
`buildPlan`, one step each; `PlanOf` and `Problem` are the pure planning and its
refusals. `Begin` takes the snapshot, and `Result` applies the plan in the order
of `apply-plan.ts`: stale rows first, skills, each table's creates and updates,
relations, stale categories last, settings. The transaction commits in one step,
since under REPEATABLE READ nothing it reads or writes before shows to others;
`Conflicted` says when PostgreSQL refuses instead because somebody else wrote
the same part since the snapshot, `Possible` when a statement of it would fail.
`since` and `disturbed` are histories of what others wrote meanwhile.

### Administration

`Requests` pass both guards (`ReadAccount`, then `ReadGrants`: two reads), their
service's checks, and their transaction, statement by statement: `DeleteGrants`,
`ClearGrants` and `InsertGrants` are the replacement of a role's grants, which
holds the role's row only if the body also names a column of it. A settings
update checks the merged pair on a row it read before (`ReadSettings`) and
writes only what the body has (`WriteSettings`). An SEO body is upserted locale
by locale under row locks, and PostgreSQL may end one of two that wait for each
other. `Jobs` is what the requests of a behaviour may ask for; `shown` and
`overlapped` are histories.

### Deployment

The workflow's runs come one at a time (its concurrency group): `Start`,
`Preflight` (the tip cannot be told: aborted; the dispatcher asked for another
commit: not the target; the tip moved: superseded; this commit is live already; what is live cannot be read: go on), `Checks`, `Prepare`, `Gate` (the
tip again), `Ship`, and then the script's commands: `Extract`, `Migrate` one
migration at a time, `Swap`, `Restart`, `Verify` (live, ready, smoke), `RollBack`
with its own restart and checks, `Prune`. Each may fail, and the run may be lost
at each. A commit may get several runs: the push, the fallback dispatcher, a hand.
`Merge`, `Database`, `Reboot` and `Resolve` are the world around.
`Summary` is `deploy-summary.sh`, its cases in order. A run that ends without it,
because its runner is lost, is reported by GitHub as such ("runner lost") and no
more. `verified`, `began` and
`last` are histories.

A release is named by its run; commits are numbers, each with a migration;
`Broken` commits cannot read the database, `Breaking` ones bring a migration that
earlier code cannot survive. A lost job ends its script at once. Builds and tests
are opaque, and pruning may take the directories in any order, since their times
are not under the script's control.

## 3. Runs

| Run | Instance | Shows |
|---|---|---|
| `MailDelivery` | 2 senders, one keyed and one unkeyed mail, 2 attempts, retention 2, clock to 2 | one delivery per key and retention, every send ends |
| `ContactReply` | 2 requests, 2 messages (one cannot be answered), 1 key, 2 attempts, retention 2, clock to 3 | one attempt per key, truth of SENT, the window, settled rows final, the ledger implemented, every request ends |
| `ContactInbox` | 1 message, 2 PATCH handlers used again and again, 2 attempts, clock to 2 | bounded mails, the purge keeps what is recent, `archivedAt` fits, every dispatch ends |
| `RefreshTokens` | 3 calls, 1 user | one live token, replay kills, dead stays dead, the refinement of SessionLedger, no call waits for ever |
| `MediaLibrary` | 2 uploads, 2 removals, a picture (three objects, also sent as what it is not) and a PDF (one), a portrait and a resume, 2 slots, one key left behind per deletion | rows and objects, references and what they are served as, forgeries, slots, orphans, every request ends |
| `Publishing` | 2 pages, 2 editors, 3 slugs, 1 locale, clock to 1, both kinds | redirects, up to and including the first outdated update |
| `ContentSync` | 2 releases' runs, 1 dashboard request, 4 databases | previews hold, second run is a no-op, nothing unplanned, no lost update |
| `Administration` | 3 requests, 5 agendas of conflicting jobs | grants, revocation, coherent settings, whole pages |
| `Deployment` | 3 runs, 3 commits (one broken, one with a breaking migration), 2 releases kept | deployable link, true reports, no going back |
| `RefreshTokensRevocation`, `MediaLibraryRace`, `PublishingSource` | the same modules, one property each | what a comment or README says and the code does not keep (section 6) |

**Why these bounds.** Every race in these components is between two actors over
one row, and a third actor is a scheduler, the relay or the clock, which are
always there. Sessions get three calls because the interesting history is
"log in, refresh, replay"; administration gets three because two edit a table
while the third is inside the guards. Three slugs are what a chain needs; two
locales would only give two independent copies there, as every slug comparison
is within one locale. A PATCH handler of the inbox starts again after its answer,
so two of them are all the overlaps there are; messages never meet. The four
databases of `ContentSync` bring every step of a plan to happen: nothing, the base
seed, an earlier release with a stale row of every kind, and one the plan must
refuse. Three deploys make a good release, a bad one, and one that comes after
either, with one release too many to keep. A clock to `Retention + SendBound`
reaches every window of ContactReply. Where a property is proved (section 5), the
bound is no limit to what is known.

The picture of `MediaLibrary` is narrower than every configured width, so that its
own width is the only one, and its AVIF fits no budget, so that both outcomes of
the ladder are stored; the theorems about widths and qualities hold for all.

`MaxTime` (`Tick`), `MaxLeft` (`Delete`), `MaxRuns` and `MaxCommit` (`Deployment`)
are the only caps written into guards; requests, calls, uploads, runs and page ids are finite sets,
and each element is used once.

`SendBound` is the number of ticks within which a started send is over: the
backoffs add up to seconds (`mail.service.ts`), the window is a day, so a send
crosses at most the end of one tick. It bounds only the clock (time does not run
past an unfinished send's bound), and the theorems hold for every value of it.
ContactInbox checks no window of the relay, and has it 0.

Symmetry is used in the runs of Publishing (page ids, editors, slugs) and
Administration (requests), which have no liveness property and whose constants
single out none of the permuted values. The constraint `UpToOutdated` of the
Publishing run stops at states with `stale`, after having checked them; the proof
of `SourcesWerePublic` has no such limit.

Deadlock is off where the system may really stop: calls, requests, ids, runs and
commits are used up, or a message is purged and nothing is left to do.

**Fairness.** Weak fairness on each handler's own next step (in ContactInbox, on
each dispatch's): Node resumes a promise whose await has settled, statements and
transport calls have timeouts, and a row lock is freed by commit, abort or crash.
No fairness on arrivals, PATCHes, the purge, the clock, crashes, editors, or on
the outcome of any call: liveness says that every call ends, never that it
succeeds. A crash ends its handlers, which counts as an end. Publishing,
ContentSync, Administration and Deployment claim safety only: a run of the
workflow may hang on its host, and an administrator's request does nothing in the
background.

## 4. Properties worth a second look

* `MailsWithinWindow` (ContactReply): while the relay's window, counted from the
  row's creation, is open the visitor gets at most one mail of an attempt, and
  nothing of it leaves later than `SendBound` after the window; that remainder is
  there because the check and the last transport call are different moments.
* `KeepsLedger`: what a request is told is true of the one attempt under its key,
  although the row it is told from was read before a send, another handler's
  UPDATE, the purge or the clock got in between. An error says nothing of the
  attempt, and is not wrong whatever became of it. A recovery that fails says
  PENDING, since the first send may have reached the relay; FAILED is the word of
  the first send alone. A copy that says SENT or FAILED may be outdated (two
  outcomes can be recorded, section 6) but was never false. A "not found" on a
  claim that was lost, or after a mail was sent, means the message is gone.
* `SettledIsFinal`: once an attempt has its outcome and nobody works on it from a
  copy read before, repeating the request sends nothing and changes nothing.
* `PurgeKeepsRecent` (ContactInbox): the daily job deletes only what has been in
  the archive without a break for the whole period, *although* two PATCHes may
  decide `archivedAt` from stale reads. An error of theirs is always to the safe
  side: the instant is too late or missing, never too early.
* `ReplayKillsSuccessor` (RefreshTokens): whoever presents a token that was
  rotated before ends the session, whatever the order of answers.
* `KeepsSessions`: a token stops being good only by its exchange, in the step that
  makes its replacement good, or by a logout or a replay in its own session; nothing
  revives one. A transaction that is rolled back, a claim that is lost or a process
  that dies before the commit takes no token. After the commit the presented token is
  spent, and its replacement may reach nobody: an account that was deactivated, a
  statement that rejects and an answer that is lost all have that cost, and the
  ledger says so.
* `NoOrphans` (MediaLibrary): as long as every rejection meant what it said and
  nothing crashed, once no request is in progress the store holds the objects
  of the stored assets and no others.
* `DescriptorsServed` (MediaLibrary): what a column references is stored, all of its
  objects exist, and the address a page shows is the document or the picture at
  the full width its original has or may have. It joins the plan made at upload,
  the kind checked when the column was written, and every deletion since.
* `RevocationIsImmediate` (Administration): whoever passes the guards was active
  in a role that had the permission, at some moment while the request was inside
  them. The two guards read at different moments, so "at the same moment" would
  be too much to say.
* `OneRequestsGrants`: a role has the grants one request asked for, as long as no
  two replacements met without the lock of its row; then it may keep both sets.
* `SendsEnd` (MailDelivery): a send that sleeps when the process shuts down goes on at
  once. The timer is cleared there, so only `Shutdown`'s own `resolve` ends it.
* `PreviewHolds` (ContentSync): a printed plan that the database or the protected
  counts refuse means that somebody wrote governed content since the run's *first*
  read, not since its transaction began. It joins the planner's refusals to the
  database's. A run that gives up for another reason claims nothing.
* `KeepsLateWrites`: what another session committed after the snapshot is still
  there after the run's commit, row, texts and links each on their own.
* `ReportsAreTrue` (Deployment): once no run is going on, a link that was never
  verified, or a process of another release, has been reported as a failure by
  the run that moved the link, or as lost with its runner.
* `NeverGoesBack`: queued and repeated runs never put an older commit in a newer
  one's place, since the tip is asked again before shipping.

## 5. Proofs

All theorems are of the form `Spec => []P` or `Spec => [][A]_vars` (two, `LedgerKept`
and `SessionsKept`, say that a specification implements another), for any
sets and any bounds, from the named assumptions of the modules (sets of ids are
disjoint from the null values, the bounds are natural numbers, a body has what
its DTO requires). Each module of proofs has one inductive invariant, one lemma
per action or group of actions, and theorems that pick its conjuncts.

* **MailDelivery_proofs.** `MailInv` adds to the properties that the relay
  remembers a key since its *latest* delivery and only because of one. Without
  it a step that finds the key remembered says nothing of what was delivered.
  Theorems: `TypeCorrect`, `KeyedMailsNotRepeated`, `SentIsTrue`.
* **ContactReply_proofs.** Follows an attempt's identity: the request that
  inserted a row keeps a copy; every other handler's copy has the same identity;
  a send carries the mail of its handler's copy; so every mail under a row's key
  is that row's, sent in its time. It uses MailDelivery's invariant through an
  instance with the refinement of senders to requests and keys to row ids.
  That settled rows stay also needs that whoever sends holds a PENDING copy.
  The refinement (`LedgerKept`) needs a second invariant, `LedgerInv`, of what
  outlives the rows: a row goes only with its message (`RowsKept`), so there is one
  maker to a slot for ever (`OneMade`); a claim was lost to a maker that may be
  gone (`LostToOther`); an outcome that a row has is in the copy of whoever recorded
  it (`RowsRecorded`), so every copy says what was true of its attempt.
  `AttemptsAre` turns that into what the mapped `attempts` is, and
  there is one lemma per action of the ledger (`ClaimOpens`, `SendDelivers`,
  `UpdateConcludes`, `CopyShows`, `HandlerRefuses`, `PurgePurges`), the failing
  statements included: a step of
  ContactReply is a step of the ledger or leaves it alone (`StepsKeepLedger`). That
  a delivery is the attempt's first or comes after the window is the relay's
  promise, counted from the row's creation.
  Theorems: `TypeCorrect`, `OneAttempt`, `Answerable`, `SentIsTrue`,
  `FailureIsFirstSends`, `OneMailInWindow`, `IdentityImmutable`, `SettledStays`,
  `LedgerKept`.
* **ContactInbox_proofs.** Two independent halves. Mails: a message's send is of
  the mail its dispatch stands at, and a mail has no more copies than its send
  has made attempts. Triage: a PATCH that holds an outdated `isArchived` finds an
  `archivedAt` of this very tick, or none, since PATCHes do not span a tick; so
  `archivedAt` is never older than the last time the row was archived, which is
  all the purge relies on. A message whose PATCHes never overlapped has one
  reader at a time, who is right. Theorems: `TypeCorrect`, `NoAmplifier`,
  `ReachKept`, `InstantFits`, `RecentIsKept`.
* **Access_proofs**, on RefreshTokens. A claim is exclusive and keeps its row live until it
  commits; a token has a replacement exactly if a rotation revoked it; a
  revocation that began after the presented token had died already saw its
  replacement. Theorems: `SessionsTypeCorrect`, `ExchangedAtMostOnce`,
  `SessionsHaveOneToken`, `ClaimIsAtomic`, `ReplayDetected`, `DeadStaysDead`.
  The refinement (`SessionsKept`) needs a few facts more (`CallFacts`): who knows a
  token was answered with it, a call that was given a token has stored it, each
  label belongs to one kind of call (`route`), and a running revocation reaches the
  presented token if it is live and nothing beyond its family. Then each step of a
  handler is one of the ledger's or leaves it alone (`HandlerKeepsLedger`,
  `StepsKeepSessions`); that a call denied after its exchange is for a deactivated
  account comes from `AskAccount` alone, since every other refusal precedes one.
* **MediaLibrary_proofs.** First the functions, for every width and every encoder:
  a plan has one to three ascending widths, none beyond the picture or the
  delivery ceiling, the last as wide as either allows (`PlanTruthful`); a budget
  is that of the smallest configured width that holds the rendition
  (`TierTruthful`); a rendition is flagged exactly if no rung of its ladder fits,
  and otherwise has the best quality that does (`QualityTruthful`: the rungs fall
  to the floor within three steps and stay there). Then the machine. Objects are deleted in two places. Neither hits a
  stored row's objects because every key lies under its upload's prefix, an
  upload that may still fail has no row, and the row of a removal that cleans up
  is gone for good (`DeletionIsSafe`). A row is complete because the puts came in
  order and all resolved; without mishaps every object has an owner that keeps
  or deletes it (`ObjectsOwned`), and once nobody is at work the owners are rows.
  That keys tell objects apart follows from the plan's ascent (`PiecesFacts`).
  A submission beyond its validation has consistent hints (`Validated`), also the
  one that is answered with another's asset, since the file's type fixes what its
  sender may declare. A reference suits its slot because a row never changes
  between the check and its deletion, which the reference prevents
  (`ReferencesSuit`, `ReferencedRowsStay`); what is served of a picture is the
  last width of its plan (`PictureServed`). Theorems: `TypeCorrect`, `RowsComplete`,
  `ReferencesKept`, `DuplicatesNeverStored`, `SlotsNeverLeak`, `RemovalsExclusive`,
  `StoreMatchesRows`, `ForgeriesNeverStored`, `DescriptorsTruthful`.
* **Publishing_proofs.** `RedirectRows` says what the three statements do to
  each row, `Tracked` what a change of pages does to the histories. Chains need
  only the first; old addresses also that no two pages share a slug and that a
  public page's addresses are its own. Theorems: `TypeCorrect`, `NoChains`,
  `SourcesShown`, `OldAddressesLeadHome`.
* **ContentSync_proofs.** None of the four properties is inductive. `SafeInv` is
  what holds whatever others write: types, the store's constraints, links that are
  half replaced, that a plan is sound (all of it comes from the dataset and from
  rows that were there, each entry is created or found, no two find one row), and
  that the rows of a snapshot are of sessions that are over, so that nothing is
  created twice. One lemma per step of `Result` says which rows and links the step
  may change; with `Conflicted` this gives `OnlyPlannedTouched` and `LateWritesKept`.
  `RunNow` is what an undisturbed run knows: it has seen what is there of the
  tables it has read, its plan is the one that would be made now, its snapshot
  differs in protected rows only. To carry it past the dashboard's steps, `Reported`
  says that a step's `wrote` names every row and link it changes. From a plan made
  of what is there, and without a `Problem`, follow that its transaction goes
  through (`UndisturbedCommits`: no clash of slugs after the stale rows have gone, no
  dangling reference after the last category has) and that it leaves each entry
  its one row, columns and links and nothing over (`Synchronized`), of which a
  second plan has no problem and no change (`NothingLeft`). Theorems:
  `TypeCorrect`, `OnlyPlannedTouched`, `LateWritesKept`, `PreviewPredicts`,
  `SecondRunEmpty`.
* **Access_proofs**, on Administration. Whoever is inside the guards has noted what its
  account has (`Watched`). A replacement either holds the role's row or is noted
  as overlapping, and a deleted id never comes back, so what a replacement
  deletes is all there is (`RoleEdits`). A settings update that is alone still
  knows what it checked (`Checked`). A page's row is of a request that is over
  and named it (`PagesOf`); a body that named both locales wrote both at once.
  Theorems: `TypeCorrect`, `ReplacedWholesale`, `GuardsAreCurrent`,
  `TrackingCoherent`, `PagesNotMixed`.
* **Deployment_proofs.** What each step of the script stands on (`Ground`: the
  release is whole, its migrations are applied, a rollback has somewhere to go);
  that a run builds what was the tip (`Order`); which outcomes a step may have
  seen (`Outcomes`, `Slot`); what holds of the link (`Link`) and of the reports
  (`Honest`). `TypeOK` alone is not inductive: `RollBack` sets the link to `prev`,
  which is a release only because of `Ground`. Theorems: `Types`,
  `LinkIsDeployable`, `ReportsHold`, `ReleasesServe`, `LinkNeverGoesBack`.

**Only model-checked:** the liveness properties (`SendsEnd`, `RequestsEnd` twice,
`CallsEnd`, `DispatchEnds`), because liveness under fairness and ENABLED are
beyond the prover. Every safety property of a passing run, state, step or
refinement, has its theorem. `RowsAnswerable`, `FailedByFirstSendOnly`, `RotatedHasSuccessor`, `AttemptImmutable`,
`NothingDiscarded`, `ClaimedOnce`, `RemovedOnce`, `SentWasTaken` and, but for Administration's,
the type invariants are in no run because they are proved.

## 6. Where the code and its words part

| Run | What the repository says | What the code does |
|---|---|---|
| `RefreshTokensRevocation` | logout "revokes the whole family" (`refresh-token.service.ts:112`) | a rotation that commits while the UPDATE waits leaves its successor live |
| `MediaLibraryRace` | a duplicate race "resolves to the winner" (`media.service.ts:276-277`) | the predicate reads `meta.target`, which the installed Prisma does not fill |
| `PublishingSource` | "a live published slug is never a `fromSlug`" (`redirects/README.md:33`) | only a rename clears a stale source; create, publish and promotion do not |

Defined in the modules without a run of their own; each is violated when it is
checked with the constants of its module's passing run (for `OldUrlKeepsResolving`
without the constraint):

* `MovesOnce` (ContactReply): a reply row "moves once" (`prisma/schema.prisma:660-661`).
  Both terminal UPDATEs are unconditional (`contact-reply.service.ts:247`), so a
  first send and a recovery may each record an outcome.
* `NeverMailedTwice` (ContactReply): the window check "cannot permit one that would
  duplicate" (`provider-idempotency.ts:46-47`). It is made once, before a send that
  may try again (`contact-reply.service.ts:192`) after the window has closed.
* `OldUrlKeepsResolving` (Publishing): "the old public URL keeps resolving"
  (`articles.service.ts:415-416`). Of two renames decided on one read, the second
  forgets the address in between.
* `TriageCoherent` (ContactInbox): `archivedAt` moves with the transition
  (`contact.service.ts:121-122`). It is decided from the row read at :128 and
  written at :140; archiving an archived message while another un-archives it
  leaves `isArchived` without an instant, and the purge passes it over for ever.
* `SettingsCoherent` (Administration): an incoherent pair "cannot be stored in the
  first place" (`settings.service.ts:177-178`). The merged pair is checked against
  the row read at :119, outside the transaction, and no CHECK constraint backs it:
  switching on and clearing the container at once stores both.
* `HiddenKeepsRelations` (ContentSync): of a hidden skill "every relation
  survive(s)" (`apply-plan.ts:384`, `build-plan.ts:429-430`). Every owner is either
  canonical, and has its links replaced, or stale, and is deleted; no relation
  points at a hidden skill afterwards.

Met while modelling:

* `contact-reply.service.ts:262-263` decides whether to write `providerMessageId`
  from the row object it holds, which may be outdated; only a diagnostic column.
* `contact-reply.service.ts:277-281` calls a vanished claim a server error; when
  the purge takes the row before the terminal UPDATE, P2025 is answered 404.
* A refresh rotates before it asks for the account and signs (`auth.service.ts:59-65`):
  a call that is denied or fails there has spent its token, and a client that
  presents the token again is treated as a replay.
* An article's status is written back as it was read: an update that leaves it
  out undoes a promotion or an unpublish committed in between.
* A project renamed while another request unpublishes it gets a redirect to a
  slug that is not public: `nextIsPublished` is as old as the read.
* `media-processing.constants.ts:28` and `media-processing.service.ts:157` say that a
  PDF only ever attaches to the resume; articles, projects and testimonials look
  up no kind when they reference an asset, and a page that references a PDF there
  cannot be served. `DescriptorsServed` excepts these columns.
* `role.dto.ts` says that grants are replaced "wholesale"; two overlapping
  bodies that name nothing but grants may leave the union. What a role may be
  granted is checked by the DTO's pipe alone, and nothing keeps a last active owner.
* A restart that fails, or a run that is lost there (`remote-cutover.sh:122`),
  leaves `current` on a release that was never verified. The run is reported as
  failed, but the next run of that commit ends as "already current"
  (`deploy.yml:151-153`) although `deploy.yml:23-28` says of two runs that one
  deploys and the queued one does nothing.
* Pruning keeps the newest `KEEP_RELEASES` directories, failed ones included:
  after several failed deploys no earlier good release but the live one may remain.
* When an editor intervenes between the snapshot and the commit, what a
  synchronization adds and removes is not literally what its report listed.
  Two first runs at once could each create a settings row or an experience,
  which have no unique key; duplicate technology or tag keys of a dataset are
  left to the database to refuse.

## 7. Plan

What is left, in this order.

1. Publishing's tags, gallery and technologies with their link tables, so that
   `Catalogue` and `Publishing` meet in one model.
2. The career-start pair of the settings beside the tracking pair.

## 8. Not modelled

Library internals (Sharp, Prisma, Nest, nodemailer, jose), wording of problems
and mails, logging, OpenAPI, configuration and health: they hold no state that
the properties tell apart. PostgreSQL is modelled by what READ COMMITTED (or, for
the synchronization, REPEATABLE READ) lets each statement see, the relay, the
object store and the host by what the code relies on. Of a modelled component,
reads that change nothing (lists, search, descriptors, sitemaps) are left out, as
are alt texts, `isRead` and SEO texts; `PROJECT.json` says so for each.

* **Previews.** A stateless signed token of thirty minutes that names one
  entity: minting writes nothing, verifying compares. Nothing interleaves.
* **Throttling.** The counters are the library's and live in the process's
  memory; a refused request is one that never arrived.
* **Media processing.** Sharp's encoders and decoder, and the preview (BlurHash)
  that is stored beside a row and compared with nothing.
* **Alt texts (`updateAlt`).** One upsert of a text per asset and locale; nothing
  that is modelled reads it.
* **Off-site backup.** One script under a file lock copies one finished dump,
  verifies it and writes its manifest. It never overwrites or deletes; a run that
  ended between the two uploads is completed by the next run of the same dump.
* **Schema, seeds, repository tooling.** Data definition and checks over text;
  the schema's keys and referential actions are in every module that uses them.
