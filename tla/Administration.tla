--------------------------- MODULE Administration ---------------------------
(***************************************************************************)
(* The operators' requests to the dashboard's own tables: roles, their     *)
(* grants, accounts, the settings singleton and the static pages' SEO.     *)
(* Each passes the two guards, is checked by its service on reads outside  *)
(* any transaction, and is written by one transaction, statement by        *)
(* statement, beside the others.                                           *)
(*                                                                         *)
(* A route is named by the permission it declares.  An account's token     *)
(* only names the account; the grants are resolved on every request.       *)
(*                                                                         *)
(* A definition marked "Fault" is no part of the specification: it is the  *)
(* next definition with a plausible bug, which some property must notice.  *)
(***************************************************************************)
EXTENDS Integers, Sequences, FiniteSets

CONSTANTS
  Requests,
  Users, Roles,
  Owner,      \* the seeded system role
  Containers, \* tag manager ids
  Pages, Locales,
  Jobs,       \* what requests may ask for: a set of sets, one is chosen
  FirstUsers, FirstGrants,
  Null,       \* a cleared column
  Omitted     \* a key the body leaves out

VARIABLES
  users,      \* account -> [role, active]
  roles,      \* the roles there are
  grants,     \* role_permissions
  settings,   \* the tracking columns of the singleton
  pages,      \* <<page, locale>> -> the request that wrote it last
  agenda,     \* the jobs of this behaviour
  step, job, actor, \* of each request
  role,       \* what the guard read of the actor's account
  doomed,     \* the grants an update has deleted so far
  held,       \* how many rows of its body an SEO update has written
  shown,      \* roles and grants the actor had during the guard (history)
  overlapped  \* the settings, and the roles, whose updates met unprotected (history)

vars == <<users, roles, grants, settings, pages, agenda, step, job, actor, role,
          doomed, held, shown, overlapped>>

Wildcard == "*"

(* The routes that write, by the permission each declares. *)
Routes == {"roles.create", "roles.update", "roles.delete", "users.create", "users.update",
           "settings.update", "seo.update"}

Grantable == Routes \union {Wildcard}

Job ==
  [route : Routes, role : Roles \union {Omitted}, grants : {Omitted} \union SUBSET Grantable,
   named : BOOLEAN, \* the body of a role update has columns of the role
   user : Users \union {Omitted}, active : {Omitted} \union BOOLEAN,
   enabled : {Omitted} \union BOOLEAN, container : Containers \union {Null, Omitted},
   page : Pages \union {Omitted}, locales : {<<>>} \union {<<l>> : l \in Locales}
                                    \union (Locales \X Locales)]

Account  == [role : Roles, active : BOOLEAN]
Settings == [enabled : BOOLEAN, container : Containers \union {Null}]

Working == {"account", "grants", "handler", "considered", "write", "updated", "clearing", "cleared"}
Steps   == Working \union {"idle", "done", "refused"}

ASSUME OwnerIsRole == Owner \in Roles
ASSUME JobsType == \A a \in Jobs : a # {} /\ a \subseteq Job
ASSUME FirstType ==
  /\ DOMAIN FirstUsers \subseteq Users /\ DOMAIN FirstUsers # {}
  /\ \A u \in DOMAIN FirstUsers : FirstUsers[u] \in Account
  /\ FirstGrants \subseteq Roles \X Grantable /\ <<Owner, Wildcard>> \in FirstGrants
  /\ \A g \in FirstGrants : g[1] = Owner => g[2] = Wildcard
ASSUME NullIsNothing ==
  /\ Null \notin Containers \union Roles /\ Null # Omitted
  /\ Omitted \notin Containers \union Roles \union Users
  /\ \A gs \in SUBSET Grantable : gs # Omitted

(* What each route's body must have. *)
ASSUME BodiesComplete ==
  \A a \in Jobs : \A j \in a :
    /\ j.route \in {"roles.create", "roles.update", "roles.delete", "users.create"} => j.role \in Roles
    /\ j.route = "roles.create" => j.grants # Omitted
    /\ j.route \in {"users.create", "users.update"} => j.user \in Users
    /\ j.route = "seo.update" => j.page \in Pages

GrantsOf(r) == {g \in grants : g[1] = r}

Became(x, given) == IF given = Omitted THEN x ELSE given

To(q, s) == step' = [step EXCEPT ![q] = s]

Tables == <<users, roles, grants, settings, pages>>

(* The grants the actor has had, since it arrived, through any of its      *)
(* roles of that time.                                                     *)
Watch ==
  shown' = [q \in Requests |->
    IF step'[q] \notin {"account", "grants"} THEN {}
    ELSE shown[q] \union grants' \union
           (IF users'[actor'[q]].active THEN {<<users'[actor'[q]].role, Omitted>>} ELSE {})]

Refuse(q) ==
  /\ To(q, "refused")
  /\ doomed' = [doomed EXCEPT ![q] = {}]
  /\ held' = [held EXCEPT ![q] = 0]
  /\ UNCHANGED <<Tables, agenda, job, actor, role, overlapped>>
  /\ Watch

Proceed(q, s) ==
  /\ To(q, s)
  /\ UNCHANGED <<Tables, agenda, job, actor, doomed, held, overlapped>>
  /\ Watch

Finish(q) ==
  /\ To(q, "done")
  /\ doomed' = [doomed EXCEPT ![q] = {}]
  /\ held' = [held EXCEPT ![q] = 0]
  /\ UNCHANGED <<agenda, job, actor, role>>
  /\ Watch

(***************************************************************************)
(* The guards.                                                             *)
(***************************************************************************)

(* JwtAuthGuard: the token is genuine and names an account.                *)
Arrive(q) ==
  /\ step[q] = "idle"
  /\ To(q, "account")
  /\ \E j \in agenda, u \in DOMAIN users :
       job' = [job EXCEPT ![q] = j] /\ actor' = [actor EXCEPT ![q] = u]
  /\ UNCHANGED <<Tables, agenda, role, doomed, held, overlapped>>
  /\ Watch

(* PermissionsGuard reads the account, and then what its role is granted.  *)
ReadAccount(q) ==
  /\ step[q] = "account"
  /\ \/ /\ users[actor[q]].active
        /\ role' = [role EXCEPT ![q] = users[actor[q]].role]
        /\ Proceed(q, "grants")
     \/ ~users[actor[q]].active /\ Refuse(q)

(* Fault: the token carries the role the account had at sign-in. *)
ResolvedFromToken(q) ==
  {g[2] : g \in GrantsOf(IF actor[q] \in DOMAIN FirstUsers THEN FirstUsers[actor[q]].role ELSE role[q])}

Resolved(q) == {g[2] : g \in GrantsOf(role[q])}

ReadGrants(q) ==
  /\ step[q] = "grants"
  /\ \/ {Wildcard, job[q].route} \intersect Resolved(q) # {} /\ Proceed(q, "handler") /\ UNCHANGED role
     \/ {Wildcard, job[q].route} \intersect Resolved(q) = {} /\ Refuse(q)

At(q, route, s) == job[q].route = route /\ step[q] = s

(***************************************************************************)
(* Roles.  The system role is neither edited nor deleted.                  *)
(***************************************************************************)

(* Fault: system roles are like any other. *)
AnyRole(r) == r \in roles

Editable(r) == r \in roles /\ r # Owner

(* An id is not given twice. *)
Deleted(r) == \E q \in Requests : At(q, "roles.delete", "done") /\ job[q].role = r

(* A role and its grants are written by one call; names are unique. *)
CreateRole(q) ==
  /\ At(q, "roles.create", "handler") /\ ~Deleted(job[q].role)
  /\ \/ /\ job[q].role \notin roles
        /\ roles' = roles \union {job[q].role}
        /\ grants' = grants \union ({job[q].role} \X job[q].grants)
        /\ UNCHANGED <<users, settings, pages, overlapped>>
        /\ Finish(q)
     \/ job[q].role \in roles /\ Refuse(q)

ConsiderRole(q) ==
  /\ step[q] = "handler" /\ job[q].route \in {"roles.update", "roles.delete"}
  /\ \/ /\ Editable(job[q].role)
        /\ Proceed(q, IF job[q].route = "roles.update" THEN "write" ELSE "considered")
        /\ UNCHANGED role
     \/ ~Editable(job[q].role) /\ Refuse(q)

(* Fault: nothing is written to the role itself. *)
Unlocked(q) == TRUE

(* Those that are replacing the grants of a role. *)
Replacing(r) ==
  {p \in Requests : /\ job[p].route = "roles.update" /\ job[p].role = r
                    /\ step[p] \in {"updated", "clearing", "cleared"}}

(* The lock of a row that an update has written, held to its end. *)
Locked(q) == \A p \in Replacing(job[q].role) \ {q} : ~job[p].named

(* role.update comes first; with no column to set, it only reads the row.  *)
(* The name it sets may be another role's.                                 *)
UpdateRole(q) ==
  /\ At(q, "roles.update", "write") /\ (job[q].named => Locked(q))
  /\ \/ /\ job[q].role \in roles
        /\ job[q].grants # Omitted
        /\ Proceed(q, "updated") /\ UNCHANGED role
     \/ /\ job[q].role \in roles
        /\ job[q].grants = Omitted
        /\ UNCHANGED <<Tables, overlapped>>
        /\ Finish(q)
     \/ (job[q].role \notin roles \/ job[q].named) /\ Refuse(q)

(* deleteMany: the grants it sees when it starts ... *)
DeleteGrants(q) ==
  LET met == {p \in Replacing(job[q].role) : /\ step[p] \in {"clearing", "cleared"}
                                             /\ ~(job[p].named /\ job[q].named)}
  IN  /\ At(q, "roles.update", "updated")
      /\ To(q, "clearing")
      /\ doomed' = [doomed EXCEPT ![q] = GrantsOf(job[q].role)]
      /\ overlapped' = IF met # {} THEN overlapped \union {job[q].role} ELSE overlapped
      /\ UNCHANGED <<Tables, agenda, job, actor, role, held>>
      /\ Watch

(* ... of which it may wait for those that another is deleting.            *)
ClearGrants(q) ==
  /\ At(q, "roles.update", "clearing")
  /\ \A p \in Replacing(job[q].role) \ {q} :
       step[p] = "cleared" => doomed[p] \intersect doomed[q] = {}
  /\ Proceed(q, "cleared") /\ UNCHANGED role

(* createMany: a grant that is there, or no role any more, ends it.  What  *)
(* it deleted and wrote again is a new row, which no one else's delete saw. *)
InsertGrants(q) ==
  LET wanted == {job[q].role} \X job[q].grants
  IN  /\ At(q, "roles.update", "cleared")
      /\ \/ /\ wanted \intersect (grants \ doomed[q]) = {}
            /\ job[q].role \in roles
            /\ grants' = (grants \ doomed[q]) \union wanted
            /\ doomed' = [p \in Requests |-> IF p = q THEN {} ELSE doomed[p] \ doomed[q]]
            /\ To(q, "done")
            /\ UNCHANGED <<users, roles, settings, pages, agenda, job, actor, role, held, overlapped>>
            /\ Watch
         \/ wanted \intersect (grants \ doomed[q]) # {} /\ Refuse(q)
         \/ job[q].role \notin roles /\ Refuse(q)

CountAssigned(q) ==
  LET assigned == {u \in DOMAIN users : users[u].role = job[q].role}
  IN  /\ At(q, "roles.delete", "considered")
      /\ \/ assigned = {} /\ Proceed(q, "write") /\ UNCHANGED role
         \/ assigned # {} /\ Refuse(q)

(* Fault: no foreign key; the count is all there is. *)
Unchecked(r) == TRUE

(* User.role is onDelete Restrict. *)
Unassigned(r) == \A u \in DOMAIN users : users[u].role # r

DeleteRole(q) ==
  /\ At(q, "roles.delete", "write") /\ Locked(q)
  /\ \/ /\ job[q].role \in roles /\ Unassigned(job[q].role)
        /\ roles' = roles \ {job[q].role}
        /\ grants' = grants \ GrantsOf(job[q].role)
        /\ UNCHANGED <<users, settings, pages, overlapped>>
        /\ Finish(q)
     \/ /\ \/ job[q].role \notin roles
           \/ ~Unassigned(job[q].role)
           \/ Replacing(job[q].role) # {} \* they may wait for each other's rows
        /\ Refuse(q)

(***************************************************************************)
(* Accounts.                                                               *)
(***************************************************************************)

(* assertRoleExists, before the password is hashed or the row written. *)
CheckAccount(q) ==
  LET known == /\ job[q].role \in roles \union {Omitted}
               /\ (job[q].route = "users.update" => job[q].user \in DOMAIN users)
  IN  /\ step[q] = "handler" /\ job[q].route \in {"users.create", "users.update"}
      /\ \/ known /\ Proceed(q, "write") /\ UNCHANGED role
         \/ ~known /\ Refuse(q)

(* Addresses are unique; the role may have gone. *)
CreateUser(q) ==
  /\ At(q, "users.create", "write")
  /\ \/ /\ job[q].user \notin DOMAIN users /\ job[q].role \in roles
        /\ users' = [u \in DOMAIN users \union {job[q].user} |->
                       IF u = job[q].user
                       THEN [role |-> job[q].role, active |-> Became(TRUE, job[q].active)]
                       ELSE users[u]]
        /\ UNCHANGED <<roles, grants, settings, pages, overlapped>>
        /\ Finish(q)
     \/ (job[q].user \in DOMAIN users \/ job[q].role \notin roles) /\ Refuse(q)

UpdateUser(q) ==
  /\ At(q, "users.update", "write")
  /\ \/ /\ job[q].role \in roles \union {Omitted}
        /\ users' = [users EXCEPT ![job[q].user] =
                       [role   |-> Became(@.role, job[q].role),
                        active |-> Became(@.active, job[q].active)]]
        /\ UNCHANGED <<roles, grants, settings, pages, overlapped>>
        /\ Finish(q)
     \/ job[q].role \notin roles \union {Omitted} /\ Refuse(q)

(***************************************************************************)
(* Settings: the merged state is validated, the given columns are written. *)
(***************************************************************************)

Merged(s, j) ==
  [enabled |-> Became(s.enabled, j.enabled), container |-> Became(s.container, j.container)]

(* Fault: only what the body itself says is looked at. *)
CoherentBody(s, j) == j.enabled = TRUE => j.container \notin {Null}

CoherentMerge(s, j) == Merged(s, j).enabled => Merged(s, j).container # Null

ReadSettings(q) ==
  /\ At(q, "settings.update", "handler")
  /\ \/ CoherentMerge(settings, job[q]) /\ Proceed(q, "write") /\ UNCHANGED role
     \/ ~CoherentMerge(settings, job[q]) /\ Refuse(q)

WriteSettings(q) ==
  /\ At(q, "settings.update", "write")
  /\ settings' = Merged(settings, job[q])
  /\ overlapped' = IF \E p \in Requests \ {q} : At(p, "settings.update", "write") THEN overlapped \union {Null} ELSE overlapped
  /\ UNCHANGED <<users, roles, grants, pages>>
  /\ Finish(q)

(* What a visitor is told: a container, or nothing. *)
PublicContainer == IF settings.enabled THEN settings.container ELSE Null

(***************************************************************************)
(* SEO: the locales of a body are upserted in its order, in one            *)
(* transaction.                                                            *)
(***************************************************************************)

CheckPage(q) == At(q, "seo.update", "handler") /\ Proceed(q, "write") /\ UNCHANGED role

(* Rows written by a transaction that has not ended. *)
Held(q) ==
  {<<job[q].page, job[q].locales[n]>> : n \in IF At(q, "seo.update", "write") THEN 1 .. held[q] ELSE {}}

NextRow(q) == <<job[q].page, job[q].locales[held[q] + 1]>>

Upserting(q) == At(q, "seo.update", "write") /\ held[q] < Len(job[q].locales)

(* Fault: each locale is committed on its own. *)
UpsertAlone(q) ==
  /\ Upserting(q)
  /\ pages' = [x \in DOMAIN pages \union {NextRow(q)} |-> IF x = NextRow(q) THEN q ELSE pages[x]]
  /\ held' = [held EXCEPT ![q] = @ + 1]
  /\ UNCHANGED <<users, roles, grants, settings, agenda, step, job, actor, role, doomed, overlapped>>
  /\ Watch

UpsertPage(q) ==
  /\ Upserting(q)
  /\ \A p \in Requests \ {q} : NextRow(q) \notin Held(p)
  /\ held' = [held EXCEPT ![q] = @ + 1]
  /\ UNCHANGED <<Tables, agenda, step, job, actor, role, doomed, overlapped>>
  /\ Watch

CommitPage(q) ==
  /\ At(q, "seo.update", "write") /\ held[q] = Len(job[q].locales)
  /\ pages' = [x \in DOMAIN pages \union Held(q) |-> IF x \in Held(q) THEN q ELSE pages[x]]
  /\ UNCHANGED <<users, roles, grants, settings, overlapped>>
  /\ Finish(q)

WaitsFor(q, p) == p # q /\ Upserting(q) /\ NextRow(q) \in Held(p)

(* PostgreSQL ends one of the transactions that wait for each other. *)
BreakDeadlock(q) ==
  /\ \E S \in SUBSET Requests : q \in S /\ \A x \in S : \E y \in S : WaitsFor(x, y)
  /\ Refuse(q)

(***************************************************************************)
(* The whole.                                                              *)
(***************************************************************************)

Do(q) ==
  \/ Arrive(q)        \/ ReadAccount(q)  \/ ReadGrants(q)   \/ CreateRole(q)
  \/ ConsiderRole(q)  \/ UpdateRole(q)   \/ DeleteGrants(q) \/ ClearGrants(q)
  \/ InsertGrants(q)  \/ CountAssigned(q) \/ DeleteRole(q)   \/ CheckAccount(q) \/ CreateUser(q)
  \/ UpdateUser(q)    \/ ReadSettings(q) \/ WriteSettings(q)
  \/ CheckPage(q)     \/ UpsertPage(q)   \/ CommitPage(q)   \/ BreakDeadlock(q)

Init ==
  /\ users = FirstUsers
  /\ grants = FirstGrants
  /\ roles = {g[1] : g \in FirstGrants} \union {FirstUsers[u].role : u \in DOMAIN FirstUsers}
  /\ settings = [enabled |-> FALSE, container |-> Null]
  /\ pages = <<>>
  /\ agenda \in Jobs
  /\ step = [q \in Requests |-> "idle"]
  /\ job = [q \in Requests |-> CHOOSE j \in agenda : TRUE]
  /\ actor = [q \in Requests |-> CHOOSE u \in DOMAIN FirstUsers : TRUE]
  /\ role = [q \in Requests |-> Owner]
  /\ doomed = [q \in Requests |-> {}]
  /\ held = [q \in Requests |-> 0]
  /\ shown = [q \in Requests |-> {}]
  /\ overlapped = {}

Next == \E q \in Requests : Do(q)

Spec == Init /\ [][Next]_vars

(***************************************************************************)
(* Properties.                                                             *)
(***************************************************************************)

(* Types; an account's role exists, and a grant's role does.               *)
TypeOK ==
  /\ DOMAIN users \subseteq Users
  /\ \A u \in DOMAIN users : users[u] \in Account /\ users[u].role \in roles
  /\ roles \subseteq Roles
  /\ grants \subseteq roles \X Grantable
  /\ settings \in Settings
  /\ DOMAIN pages \subseteq Pages \X Locales
  /\ \A x \in DOMAIN pages : pages[x] \in Requests
  /\ agenda \in Jobs
  /\ step \in [Requests -> Steps]
  /\ job \in [Requests -> agenda]
  /\ actor \in [Requests -> DOMAIN users]
  /\ role \in [Requests -> Roles]
  /\ doomed \in [Requests -> SUBSET (Roles \X Grantable)]
  /\ held \in [Requests -> Nat] /\ \A q \in Requests : held[q] <= Len(job[q].locales)
  /\ overlapped \subseteq Roles \union {Null}

Asked(r) ==
  {job[q].grants : q \in {x \in Requests : /\ step[x] = "done" /\ job[x].role = r
                                          /\ job[x].route \in {"roles.create", "roles.update"}}}

(* A role's grants are the ones a single request asked for (or the ones it *)
(* was seeded with), never a mixture of two replacements, as long as no    *)
(* two of them met without the lock of the role's row (then one may delete *)
(* only what was there before the other, and the role keeps both sets);    *)
(* and the owner's stay the wildcard, whatever is asked.                   *)
OneRequestsGrants ==
  /\ \A r \in roles \ ({Owner} \union overlapped) :
       {g[2] : g \in GrantsOf(r)} \in
         ({{g[2] : g \in {x \in FirstGrants : x[1] = r}}} \union Asked(r)) \ {Omitted}
  /\ GrantsOf(Owner) = {<<Owner, Wildcard>>}

(* A role edit, a reassignment or a deactivation takes effect on every     *)
(* request that arrives after it: whoever passes the guards was active in  *)
(* a role, and that role had the permission, while the request was inside  *)
(* them.                                                                   *)
RevocationIsImmediate ==
  [][\A q \in Requests : step[q] = "grants" /\ step'[q] = "handler" =>
       \E r \in Roles : /\ <<r, Omitted>> \in shown[q]
                        /\ \E g \in {Wildcard, job[q].route} : <<r, g>> \in shown[q]]_vars

(* What the dashboard shows as enabled is what visitors get: a switch that *)
(* is on has a container.  Two overlapping updates can break it.           *)
SettingsCoherent == settings.enabled <=> PublicContainer # Null

(* It holds as long as no two updates are decided on the same row.         *)
SettingsCoherentAlone == Null \in overlapped \/ SettingsCoherent

(* Two bodies that both name both locales of a page are never published    *)
(* half and half.                                                          *)
PagesAreWhole ==
  \A x, y \in DOMAIN pages :
    x[1] = y[1] /\ pages[x] # pages[y] =>
      \E q \in {pages[x], pages[y]} : ~({x[2], y[2]} \subseteq {job[q].locales[n] : n \in DOMAIN job[q].locales})
=============================================================================
