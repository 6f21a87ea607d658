---------------------------- MODULE Access_proofs ----------------------------
(***************************************************************************)
(* Proofs about who may do what: Administration (roles, accounts, settings *)
(* and static pages behind the two guards) and RefreshTokens (sessions),   *)
(* for any requests, roles, accounts, pages, agendas and calls.  The two   *)
(* components share no state; each has a part of this module.              *)
(*                                                                         *)
(* Administration: each property has a part of the invariant of its own.   *)
(* Watched: during the guards, what the account has now has been noted.    *)
(* RoleEdits: those that replace a role's grants hold its row, or have     *)
(* been noted as overlapping, and so the grants a replacement deletes are  *)
(* all there are.  Checked: a settings update that is alone still knows    *)
(* what it checked.  PagesOf: a page's row is of a request that is over    *)
(* and named it.                                                           *)
(*                                                                         *)
(* RefreshTokens: none of the safety properties is inductive by itself.    *)
(* They hold because a claim is exclusive and keeps its row live until it  *)
(* commits (ClaimsExclusive), because a token has a replacement exactly if *)
(* a rotation revoked it (SuccessorsOfRotated, RotatedHasSuccessor), and   *)
(* because a revocation that started after the presented token had died    *)
(* already saw its replacement (RevocationSawSuccessor).  With CallFacts,  *)
(* they also give that the sessions implement SessionLedger.               *)
(***************************************************************************)
EXTENDS Administration, RefreshTokens, TLAPS

Rewriting == {"clearing", "cleared"}
Replacers == {"updated"} \union Rewriting

(* What a handler has made sure of. *)
HandlerAt(q) ==
  /\ step[q] \in Replacers => job[q].route = "roles.update" /\ job[q].grants # Omitted
  /\ step[q] \in Replacers \/ At(q, "roles.update", "write")
       \/ At(q, "roles.delete", "considered") \/ At(q, "roles.delete", "write") =>
       job[q].role \in Roles \ {Owner}
  /\ \A g \in doomed[q] : step[q] \in Rewriting /\ g[1] = job[q].role
  /\ held[q] # 0 => At(q, "seo.update", "write")

Handlers == \A q \in Requests : HandlerAt(q)

Watched ==
  \A q \in Requests :
    /\ step[q] \in {"account", "grants"} => grants \subseteq shown[q]
    /\ step[q] = "grants" => <<role[q], Omitted>> \in shown[q]

EditsOf(r) ==
  /\ Replacing(r) # {} => r \in roles \/ Deleted(r)
  /\ \A p, q \in Replacing(r) : job[p].named /\ job[q].named => p = q
  /\ \A p, q \in Replacing(r) :
       step[p] \in Rewriting /\ step[q] \in Rewriting => p = q \/ r \in overlapped
  /\ \A q \in Replacing(r) :
       step[q] \in Rewriting => r \in overlapped \/ GrantsOf(r) \subseteq doomed[q]

RoleEdits == \A r \in Roles : EditsOf(r)

Checked ==
  \A q \in Requests :
    At(q, "settings.update", "write") => Null \in overlapped \/ CoherentMerge(settings, job[q])

Named(q) == {<<job[q].page, job[q].locales[n]>> : n \in 1 .. Len(job[q].locales)}

PagesOf ==
  \A x \in DOMAIN pages : step[pages[x]] = "done" /\ x \in Named(pages[x])

IInv ==
  /\ TypeOK /\ Handlers /\ Watched /\ RoleEdits /\ OneRequestsGrants
  /\ Checked /\ SettingsCoherentAlone /\ PagesOf /\ PagesAreWhole

TablesTyped ==
  /\ DOMAIN users \subseteq Users
  /\ \A u \in DOMAIN users : users[u] \in Account /\ users[u].role \in roles
  /\ roles \subseteq Roles
  /\ grants \subseteq roles \X Grantable
  /\ settings \in Settings
  /\ DOMAIN pages \subseteq Pages \X Locales
  /\ \A x \in DOMAIN pages : pages[x] \in Requests
  /\ agenda \in Jobs
  /\ overlapped \subseteq Roles \union {Null}

RequestsTyped ==
  /\ step \in [Requests -> Steps]
  /\ job \in [Requests -> agenda]
  /\ actor \in [Requests -> DOMAIN users]
  /\ role \in [Requests -> Roles]
  /\ doomed \in [Requests -> SUBSET (Roles \X Grantable)]
  /\ held \in [Requests -> Nat] /\ \A q \in Requests : held[q] <= Len(job[q].locales)

(* A step of request q. *)
Moves(q) ==
  /\ \A p \in Requests \ {q} : /\ step'[p] = step[p] /\ job'[p] = job[p] /\ actor'[p] = actor[p]
                               /\ role'[p] = role[p] /\ held'[p] = held[p]
  /\ step[q] # "done"
  /\ job'[q] = job[q] \/ (step[q] = "idle" /\ step'[q] = "account")

(***************************************************************************)
(* Bodies, and parts of the invariant that a step leaves alone.            *)
(***************************************************************************)

LEMMA TypedNext == ASSUME TablesTyped', RequestsTyped' PROVE TypeOK'
  BY DEF TypeOK, TablesTyped, RequestsTyped

LEMMA JobTypes ==
  ASSUME TypeOK, NEW q \in Requests
  PROVE  /\ job[q] \in Job /\ job[q] \in agenda
         /\ job[q].route \in {"roles.create", "roles.update", "roles.delete", "users.create"} => job[q].role \in Roles
         /\ job[q].route = "roles.create" => job[q].grants # Omitted
         /\ job[q].route \in {"users.create", "users.update"} => job[q].user \in Users
         /\ job[q].route = "seo.update" => job[q].page \in Pages
  BY JobsType, BodiesComplete DEF TypeOK

LEMMA Locales2 ==
  ASSUME NEW j \in Job
  PROVE  /\ Len(j.locales) \in Nat /\ DOMAIN j.locales = 1 .. Len(j.locales)
         /\ \A n \in 1 .. Len(j.locales) : j.locales[n] \in Locales
<1>1. CASE j.locales = <<>>
  BY <1>1
<1>2. CASE \E l \in Locales : j.locales = <<l>>
  BY <1>2
<1>3. CASE \E k, l \in Locales : j.locales = <<k, l>>
  BY <1>3
<1>4. j.locales \in {<<>>} \union {<<l>> : l \in Locales} \union (Locales \X Locales)
  BY DEF Job
<1>5. j.locales \in Locales \X Locales => \E k, l \in Locales : j.locales = <<k, l>>
  OBVIOUS
<1>6. QED
  BY <1>1, <1>2, <1>3, <1>4, <1>5

(* The guards: whatever happens to the tables is noted. *)
LEMMA WatchKeeps ==
  ASSUME Watched, Watch,
         \A q \in Requests : step'[q] = "grants" =>
           \/ step[q] = "grants" /\ role'[q] = role[q]
           \/ users'[actor'[q]].active /\ role'[q] = users'[actor'[q]].role
  PROVE  Watched'
<1>1. \A q \in Requests : shown'[q] =
        IF step'[q] \notin {"account", "grants"} THEN {}
        ELSE shown[q] \union grants' \union
               (IF users'[actor'[q]].active THEN {<<users'[actor'[q]].role, Omitted>>} ELSE {})
  BY DEF Watch
<1>2. QED
  BY <1>1 DEF Watched

(* What is over stays over, with its body. *)
LEMMA OverStays ==
  ASSUME NEW q \in Requests, Moves(q)
  PROVE  /\ \A p \in Requests : step[p] = "done" => step'[p] = "done" /\ job'[p] = job[p]
         /\ \A r : Asked(r) \subseteq Asked(r)' /\ (Deleted(r) => Deleted(r)')
<1>1. \A p \in Requests : step[p] = "done" => step'[p] = "done" /\ job'[p] = job[p]
  BY DEF Moves
<1>2. \A r : Asked(r) \subseteq Asked(r)'
  BY <1>1 DEF Asked
<1>3. \A r : Deleted(r) => Deleted(r)'
  BY <1>1 DEF Deleted, At
<1>4. QED
  BY <1>1, <1>2, <1>3

LEMMA PagesKept ==
  ASSUME IInv, NEW q \in Requests, Moves(q), UNCHANGED pages
  PROVE  PagesOf' /\ PagesAreWhole'
<1>1. \A x \in DOMAIN pages : /\ step'[pages[x]] = "done" /\ job'[pages[x]] = job[pages[x]]
                              /\ step[pages[x]] = "done" /\ pages[x] \in Requests
  BY OverStays DEF IInv, PagesOf, TypeOK
<1>2. PagesOf'
  BY <1>1 DEF IInv, PagesOf, Named
<1>3. PagesAreWhole'
  BY <1>1 DEF IInv, PagesAreWhole
<1>4. QED
  BY <1>2, <1>3

LEMMA SettingsKept ==
  ASSUME IInv, NEW q \in Requests, Moves(q), UNCHANGED settings, overlapped \subseteq overlapped',
         At(q, "settings.update", "write")' =>
           At(q, "settings.update", "write") \/ CoherentMerge(settings, job[q])
  PROVE  Checked' /\ SettingsCoherentAlone'
<1>1. SettingsCoherentAlone'
  BY DEF IInv, SettingsCoherentAlone, SettingsCoherent, PublicContainer
<1>2. \A p \in Requests : CoherentMerge(settings, job[p])' <=> CoherentMerge(settings, job'[p])
  BY DEF CoherentMerge, Merged, Became
<1>3. \A p \in Requests \ {q} : At(p, "settings.update", "write")' =>
        At(p, "settings.update", "write") /\ job'[p] = job[p]
  BY DEF Moves, At
<1>4. At(q, "settings.update", "write")' => job'[q] = job[q]
  BY DEF Moves, At
<1>5. Checked'
  BY <1>2, <1>3, <1>4 DEF IInv, Checked
<1>6. QED
  BY <1>1, <1>5

LEMMA GrantsKept ==
  ASSUME IInv, NEW q \in Requests, Moves(q), UNCHANGED grants, roles' \subseteq roles,
         overlapped \subseteq overlapped'
  PROVE  OneRequestsGrants'
<1>1. \A r : GrantsOf(r)' = GrantsOf(r) /\ Asked(r) \subseteq Asked(r)'
  BY OverStays DEF GrantsOf
<1>2. QED
  BY <1>1 DEF IInv, OneRequestsGrants

(* No new replacement begins, and no grant is added to a role that is      *)
(* being replaced.                                                         *)
LEMMA EditsKept ==
  ASSUME IInv, NEW q \in Requests, Moves(q),
         step'[q] \in Replacers => step[q] \in Replacers,
         step'[q] \in Rewriting => step[q] \in Rewriting,
         \A p \in Requests : step'[p] \in Rewriting => doomed'[p] = doomed[p],
         overlapped \subseteq overlapped',
         \A r \in roles : r \in roles' \/ Deleted(r)',
         \A r \in Roles : Replacing(r)' # {} => GrantsOf(r)' \subseteq GrantsOf(r)
  PROVE  RoleEdits'
<1>1. \A p \in Requests : step'[p] \in Replacers =>
        step[p] \in Replacers /\ job'[p] = job[p] /\ (step'[p] \in Rewriting => step[p] \in Rewriting)
  BY DEF Moves, Replacers, Rewriting
<1>2. \A r : Replacing(r)' \subseteq Replacing(r)
  BY <1>1 DEF Replacing, Replacers, Rewriting
<1>3. \A r : \A p \in Replacing(r)' : p \in Requests /\ step'[p] \in Replacers
  BY DEF Replacing, Replacers, Rewriting
<1>4. ASSUME NEW r \in Roles PROVE EditsOf(r)'
  <2>1. EditsOf(r) /\ Replacing(r)' \subseteq Replacing(r) /\ (r \in overlapped => r \in overlapped')
    BY <1>2 DEF IInv, RoleEdits
  <2>2. \A p \in Replacing(r)' : /\ job'[p] = job[p] /\ (step'[p] \in Rewriting => step[p] \in Rewriting)
                                 /\ (step'[p] \in Rewriting => doomed'[p] = doomed[p])
    BY <1>1, <1>3
  <2>3. Replacing(r)' # {} => r \in roles' \/ Deleted(r)'
    BY <2>1, OverStays DEF EditsOf
  <2>4. QED
    BY <2>1, <2>2, <2>3 DEF EditsOf
<1>5. QED
  BY <1>4 DEF RoleEdits

(* A step that only moves the request itself. *)
LEMMA QuietStep ==
  ASSUME IInv, NEW q \in Requests, Moves(q), UNCHANGED <<Tables, agenda, overlapped>>, Watch,
         RequestsTyped', HandlerAt(q)',
         \A p \in Requests \ {q} : doomed'[p] = doomed[p],
         step'[q] \in Replacers => step[q] \in Replacers,
         step'[q] \in Rewriting => step[q] \in Rewriting /\ doomed'[q] = doomed[q],
         step'[q] = "grants" => users[actor'[q]].active /\ role'[q] = users[actor'[q]].role,
         At(q, "settings.update", "write")' =>
           At(q, "settings.update", "write") \/ CoherentMerge(settings, job[q])
  PROVE  IInv'
<1>1. UNCHANGED <<users, roles, grants, settings, pages>>
  BY DEF Tables
<1>2. TypeOK'
  BY <1>1 DEF IInv, TypeOK, TablesTyped, RequestsTyped
<1>3. Handlers'
  BY DEF IInv, Handlers, HandlerAt, Moves, At
<1>4. Watched'
  <2>1. \A p \in Requests \ {q} : step'[p] = "grants" => step[p] = "grants" /\ role'[p] = role[p]
    BY DEF Moves
  <2>2. QED
    BY <1>1, <2>1, WatchKeeps DEF IInv
<1>5. RoleEdits'
  <2>1. \A r \in roles : r \in roles'
    BY <1>1
  <2>2. \A r : GrantsOf(r)' = GrantsOf(r)
    BY <1>1 DEF GrantsOf
  <2>3. \A p \in Requests : step'[p] \in Rewriting => doomed'[p] = doomed[p]
    OBVIOUS
  <2>4. QED
    BY <2>1, <2>2, <2>3, EditsKept
<1>6. OneRequestsGrants'
  BY <1>1, GrantsKept
<1>7. Checked' /\ SettingsCoherentAlone'
  BY <1>1, SettingsKept
<1>8. PagesOf' /\ PagesAreWhole'
  BY <1>1, PagesKept
<1>9. QED
  BY <1>2, <1>3, <1>4, <1>5, <1>6, <1>7, <1>8 DEF IInv

(* A request's own step, in a function over requests. *)
LEMMA ToFacts ==
  ASSUME IInv, NEW q \in Requests, NEW s \in Steps, To(q, s)
  PROVE  /\ step' \in [Requests -> Steps] /\ step'[q] = s
         /\ \A p \in Requests \ {q} : step'[p] = step[p]
  BY DEF To, IInv, TypeOK

LEMMA RefuseStep ==
  ASSUME IInv, NEW q \in Requests, Refuse(q), step[q] \in Working
  PROVE  IInv'
<1>1. /\ step' \in [Requests -> Steps] /\ step'[q] = "refused"
      /\ \A p \in Requests \ {q} : step'[p] = step[p]
  BY ToFacts DEF Refuse, Steps
<1>2. /\ UNCHANGED <<Tables, agenda, job, actor, role, overlapped>> /\ Watch
      /\ doomed' = [doomed EXCEPT ![q] = {}] /\ held' = [held EXCEPT ![q] = 0]
  BY DEF Refuse
<1>3. /\ doomed'[q] = {} /\ held'[q] = 0
      /\ \A p \in Requests \ {q} : doomed'[p] = doomed[p] /\ held'[p] = held[p]
  BY <1>2 DEF IInv, TypeOK
<1>4. Moves(q)
  BY <1>1, <1>2, <1>3 DEF Moves, Working
<1>5. RequestsTyped'
  <2>1. held' \in [Requests -> Nat] /\ doomed' \in [Requests -> SUBSET (Roles \X Grantable)]
    BY <1>2 DEF IInv, TypeOK
  <2>2. Len(job[q].locales) \in Nat
    BY JobTypes, Locales2 DEF IInv
  <2>3. \A p \in Requests : held'[p] <= Len(job[p].locales)
    <3>1. \A p \in Requests : held[p] <= Len(job[p].locales)
      BY DEF IInv, TypeOK
    <3>2. QED
      BY <1>3, <2>2, <3>1
  <2>4. QED
    BY <1>1, <1>2, <2>1, <2>3 DEF IInv, TypeOK, RequestsTyped, Tables
<1>6. HandlerAt(q)'
  BY <1>1, <1>3 DEF HandlerAt, Replacers, Rewriting, At
<1>7. QED
  BY <1>1, <1>2, <1>3, <1>4, <1>5, <1>6, QuietStep DEF At, Replacers, Rewriting

LEMMA ProceedStep ==
  ASSUME IInv, NEW q \in Requests, NEW s \in Steps, Proceed(q, s), UNCHANGED role,
         step[q] \in Working, s # "grants", HandlerAt(q)',
         s \in Replacers => step[q] \in Replacers,
         s \in Rewriting => step[q] \in Rewriting,
         job[q].route = "settings.update" /\ s = "write" => CoherentMerge(settings, job[q])
  PROVE  IInv'
<1>1. /\ step' \in [Requests -> Steps] /\ step'[q] = s
      /\ \A p \in Requests \ {q} : step'[p] = step[p]
  BY ToFacts DEF Proceed
<1>2. UNCHANGED <<Tables, agenda, job, actor, doomed, held, overlapped>> /\ Watch
  BY DEF Proceed
<1>3. Moves(q)
  BY <1>1, <1>2 DEF Moves, Working
<1>4. RequestsTyped'
  BY <1>1, <1>2 DEF IInv, TypeOK, RequestsTyped, Tables
<1>5. QED
  BY <1>1, <1>2, <1>3, <1>4, QuietStep DEF At

(* The end of a request, whatever it has written. *)
LEMMA FinishFacts ==
  ASSUME IInv, NEW q \in Requests, Finish(q), step[q] \in Working,
         DOMAIN users \subseteq DOMAIN users'
  PROVE  /\ Moves(q) /\ step'[q] = "done" /\ UNCHANGED <<agenda, job>>
         /\ RequestsTyped' /\ Handlers' /\ Watched'
         /\ step'[q] \notin Replacers /\ ~At(q, "settings.update", "write")'
         /\ \A p \in Requests : step'[p] \in Rewriting => doomed'[p] = doomed[p]
<1>1. /\ step' \in [Requests -> Steps] /\ step'[q] = "done"
      /\ \A p \in Requests \ {q} : step'[p] = step[p]
  BY ToFacts DEF Finish, Steps
<1>2. /\ UNCHANGED <<agenda, job, actor, role>> /\ Watch
      /\ doomed' = [doomed EXCEPT ![q] = {}] /\ held' = [held EXCEPT ![q] = 0]
  BY DEF Finish
<1>3. /\ doomed'[q] = {} /\ held'[q] = 0
      /\ \A p \in Requests \ {q} : doomed'[p] = doomed[p] /\ held'[p] = held[p]
  BY <1>2 DEF IInv, TypeOK
<1>4. Moves(q)
  BY <1>1, <1>2, <1>3 DEF Moves, Working
<1>5. RequestsTyped'
  <2>1. held' \in [Requests -> Nat] /\ doomed' \in [Requests -> SUBSET (Roles \X Grantable)]
    BY <1>2 DEF IInv, TypeOK
  <2>2. Len(job[q].locales) \in Nat
    BY JobTypes, Locales2 DEF IInv
  <2>3. \A p \in Requests : held'[p] <= Len(job[p].locales)
    <3>1. \A p \in Requests : held[p] <= Len(job[p].locales)
      BY DEF IInv, TypeOK
    <3>2. QED
      BY <1>3, <2>2, <3>1
  <2>4. actor' \in [Requests -> DOMAIN users']
    BY <1>2 DEF IInv, TypeOK
  <2>5. QED
    BY <1>1, <1>2, <2>1, <2>3, <2>4 DEF IInv, TypeOK, RequestsTyped
<1>6. Handlers'
  <2>1. HandlerAt(q)'
    BY <1>1, <1>3 DEF HandlerAt, Replacers, Rewriting, At
  <2>2. \A p \in Requests \ {q} : HandlerAt(p)'
    BY <1>1, <1>2, <1>3 DEF IInv, Handlers, HandlerAt, At
  <2>3. QED
    BY <2>1, <2>2 DEF Handlers
<1>7. Watched'
  <2>1. \A p \in Requests : step'[p] = "grants" => step[p] = "grants" /\ role'[p] = role[p]
    BY <1>1, <1>2
  <2>2. QED
    BY <1>2, <2>1, WatchKeeps DEF IInv
<1>8. QED
  BY <1>1, <1>2, <1>3, <1>4, <1>5, <1>6, <1>7 DEF Replacers, Rewriting, At

(***************************************************************************)
(* The steps.                                                              *)
(***************************************************************************)

LEMMA ArriveStep ==
  ASSUME IInv, NEW q \in Requests, Arrive(q)
  PROVE  IInv'
<1>1. /\ step' \in [Requests -> Steps] /\ step'[q] = "account" /\ step[q] = "idle"
      /\ \A p \in Requests \ {q} : step'[p] = step[p]
  BY ToFacts DEF Arrive, Steps, Working
<1>2. /\ UNCHANGED <<Tables, agenda, role, doomed, held, overlapped>> /\ Watch
  BY DEF Arrive
<1>3. PICK j \in agenda, u \in DOMAIN users :
        job' = [job EXCEPT ![q] = j] /\ actor' = [actor EXCEPT ![q] = u]
  BY DEF Arrive
<1>4. /\ job' \in [Requests -> agenda] /\ job'[q] = j
      /\ \A p \in Requests \ {q} : job'[p] = job[p] /\ actor'[p] = actor[p]
      /\ actor' \in [Requests -> DOMAIN users]
  BY <1>3 DEF IInv, TypeOK
<1>5. Moves(q)
  BY <1>1, <1>2, <1>4 DEF Moves
<1>6. held[q] = 0 /\ doomed[q] = {}
  BY <1>1 DEF IInv, Handlers, HandlerAt, At, Rewriting
<1>7. RequestsTyped'
  <2>1. j \in Job
    BY JobsType DEF IInv, TypeOK
  <2>2. \A p \in Requests : held'[p] <= Len(job'[p].locales)
    <3>1. \A p \in Requests : held[p] <= Len(job[p].locales)
      BY DEF IInv, TypeOK
    <3>2. 0 <= Len(j.locales)
      BY <2>1, Locales2
    <3>3. QED
      BY <1>2, <1>4, <1>6, <3>1, <3>2
  <2>3. QED
    BY <1>1, <1>2, <1>4, <2>2 DEF IInv, TypeOK, RequestsTyped, Tables
<1>8. HandlerAt(q)'
  BY <1>1, <1>2, <1>6 DEF HandlerAt, Replacers, Rewriting, At
<1>9. QED
  BY <1>1, <1>2, <1>5, <1>7, <1>8, QuietStep DEF At, Replacers, Rewriting

LEMMA ReadAccountStep ==
  ASSUME IInv, NEW q \in Requests, ReadAccount(q)
  PROVE  IInv'
<1>1. CASE Refuse(q)
  BY <1>1, RefuseStep DEF ReadAccount, Working
<1>2. CASE /\ users[actor[q]].active /\ role' = [role EXCEPT ![q] = users[actor[q]].role]
           /\ Proceed(q, "grants")
  <2>1. /\ step' \in [Requests -> Steps] /\ step'[q] = "grants" /\ step[q] = "account"
        /\ \A p \in Requests \ {q} : step'[p] = step[p]
    BY <1>2, ToFacts DEF ReadAccount, Proceed, Steps, Working
  <2>2. UNCHANGED <<Tables, agenda, job, actor, doomed, held, overlapped>> /\ Watch
    BY <1>2 DEF Proceed
  <2>3. users[actor[q]].role \in Roles
    BY DEF IInv, TypeOK, Account
  <2>4. /\ role' \in [Requests -> Roles] /\ role'[q] = users[actor[q]].role
        /\ \A p \in Requests \ {q} : role'[p] = role[p]
    BY <1>2, <2>3 DEF IInv, TypeOK
  <2>5. Moves(q)
    BY <2>1, <2>2, <2>4 DEF Moves
  <2>6. RequestsTyped'
    BY <2>1, <2>2, <2>4 DEF IInv, TypeOK, RequestsTyped, Tables
  <2>7. HandlerAt(q)'
    BY <2>1, <2>2 DEF IInv, Handlers, HandlerAt, Replacers, Rewriting, At
  <2>8. QED
    BY <1>2, <2>1, <2>2, <2>4, <2>5, <2>6, <2>7, QuietStep DEF At, Replacers, Rewriting
<1>3. QED
  BY <1>1, <1>2 DEF ReadAccount

(* Checks that go on, or refuse. *)
LEMMA CheckSteps ==
  ASSUME IInv, NEW q \in Requests,
         \/ ReadGrants(q) \/ ConsiderRole(q) \/ ClearGrants(q) \/ CountAssigned(q)
         \/ CheckAccount(q) \/ ReadSettings(q) \/ CheckPage(q)
  PROVE  IInv'
<1>1. CASE Refuse(q)
  <2>1. step[q] \in Working
    BY DEF ReadGrants, ConsiderRole, ClearGrants, CountAssigned, CheckAccount, ReadSettings, CheckPage, At, Working
  <2>2. QED
    BY <1>1, <2>1, RefuseStep
<1>2. ASSUME NEW s \in Steps, Proceed(q, s)
      PROVE  step'[q] = s /\ UNCHANGED <<job, doomed, held>>
  BY <1>2, ToFacts DEF Proceed
<1>3. HandlerAt(q) /\ (job[q].role \in roles => job[q].role \in Roles)
  BY DEF IInv, Handlers, TypeOK
<1>4. CASE ReadGrants(q) /\ Proceed(q, "handler") /\ UNCHANGED role
  <2>1. step[q] = "grants"
    BY <1>4 DEF ReadGrants
  <2>2. HandlerAt(q)'
    BY <1>2, <1>3, <1>4, <2>1 DEF HandlerAt, Replacers, Rewriting, At, Steps, Working
  <2>3. QED
    BY <1>4, <2>1, <2>2, ProceedStep DEF Replacers, Rewriting, Steps, Working
<1>5. CASE ConsiderRole(q) /\ ~Refuse(q)
  <2>1. /\ step[q] = "handler" /\ job[q].route \in {"roles.update", "roles.delete"}
        /\ job[q].role \in Roles \ {Owner}
    BY <1>3, <1>5 DEF ConsiderRole, Editable
  <2>2. PICK s \in {"write", "considered"} :
          Proceed(q, s) /\ UNCHANGED role /\ (s = "write" <=> job[q].route = "roles.update")
    BY <1>5, <2>1 DEF ConsiderRole
  <2>3. s \in Steps
    BY DEF Steps, Working
  <2>4. HandlerAt(q)'
    BY <1>2, <1>3, <2>1, <2>2, <2>3 DEF HandlerAt, Replacers, Rewriting, At, Steps, Working
  <2>5. QED
    BY <2>1, <2>2, <2>3, <2>4, ProceedStep DEF Replacers, Rewriting, Steps, Working
<1>6. CASE ClearGrants(q) /\ Proceed(q, "cleared") /\ UNCHANGED role
  <2>1. step[q] = "clearing" /\ job[q].route = "roles.update"
    BY <1>6 DEF ClearGrants, At
  <2>2. HandlerAt(q)'
    BY <1>2, <1>3, <1>6, <2>1 DEF HandlerAt, Replacers, Rewriting, At, Steps, Working
  <2>3. QED
    BY <1>6, <2>1, <2>2, ProceedStep DEF Replacers, Rewriting, Steps, Working
<1>7. CASE CountAssigned(q) /\ Proceed(q, "write") /\ UNCHANGED role
  <2>1. step[q] = "considered" /\ job[q].route = "roles.delete" /\ job[q].role \in Roles \ {Owner}
    BY <1>3, <1>7 DEF CountAssigned, At, HandlerAt
  <2>2. HandlerAt(q)'
    BY <1>2, <1>3, <1>7, <2>1 DEF HandlerAt, Replacers, Rewriting, At, Steps, Working
  <2>3. QED
    BY <1>7, <2>1, <2>2, ProceedStep DEF Replacers, Rewriting, Steps, Working
<1>8. CASE CheckAccount(q) /\ Proceed(q, "write") /\ UNCHANGED role
  <2>1. step[q] = "handler" /\ job[q].route \in {"users.create", "users.update"}
    BY <1>8 DEF CheckAccount
  <2>2. HandlerAt(q)'
    BY <1>2, <1>3, <1>8, <2>1 DEF HandlerAt, Replacers, Rewriting, At, Steps, Working
  <2>3. QED
    BY <1>8, <2>1, <2>2, ProceedStep DEF Replacers, Rewriting, Steps, Working
<1>9. CASE ReadSettings(q) /\ CoherentMerge(settings, job[q]) /\ Proceed(q, "write") /\ UNCHANGED role
  <2>1. step[q] = "handler" /\ job[q].route = "settings.update"
    BY <1>9 DEF ReadSettings, At
  <2>2. HandlerAt(q)'
    BY <1>2, <1>3, <1>9, <2>1 DEF HandlerAt, Replacers, Rewriting, At, Steps, Working
  <2>3. QED
    BY <1>9, <2>1, <2>2, ProceedStep DEF Replacers, Rewriting, Steps, Working
<1>10. CASE CheckPage(q)
  <2>1. step[q] = "handler" /\ job[q].route = "seo.update" /\ Proceed(q, "write") /\ UNCHANGED role
    BY <1>10 DEF CheckPage, At
  <2>2. HandlerAt(q)'
    BY <1>2, <1>3, <2>1 DEF HandlerAt, Replacers, Rewriting, At, Steps, Working
  <2>3. QED
    BY <2>1, <2>2, ProceedStep DEF Replacers, Rewriting, Steps, Working
<1>11. QED
  BY <1>1, <1>4, <1>5, <1>6, <1>7, <1>8, <1>9, <1>10
     DEF ReadGrants, ConsiderRole, ClearGrants, CountAssigned, CheckAccount, ReadSettings

LEMMA UpsertStep ==
  ASSUME IInv, NEW q \in Requests, UpsertPage(q)
  PROVE  IInv'
<1>1. /\ UNCHANGED <<Tables, agenda, step, job, actor, role, doomed, overlapped>> /\ Watch
      /\ held' = [held EXCEPT ![q] = @ + 1]
      /\ At(q, "seo.update", "write") /\ held[q] < Len(job[q].locales)
  BY DEF UpsertPage, Upserting
<1>2. /\ held' \in [Requests -> Nat] /\ held'[q] = held[q] + 1
      /\ \A p \in Requests \ {q} : held'[p] = held[p]
  BY <1>1 DEF IInv, TypeOK
<1>3. Len(job[q].locales) \in Nat /\ held[q] \in Nat
  BY JobTypes, Locales2 DEF IInv, TypeOK
<1>4. RequestsTyped'
  <2>1. \A p \in Requests : held[p] <= Len(job[p].locales)
    BY DEF IInv, TypeOK
  <2>2. \A p \in Requests : held'[p] <= Len(job[p].locales)
    BY <1>1, <1>2, <1>3, <2>1
  <2>3. QED
    BY <1>1, <1>2, <2>2 DEF IInv, TypeOK, RequestsTyped, Tables
<1>5. Moves(q)
  BY <1>1, <1>2 DEF Moves, At
<1>6. HandlerAt(q)'
  BY <1>1 DEF IInv, Handlers, HandlerAt, Replacers, Rewriting, At
<1>7. QED
  BY <1>1, <1>4, <1>5, <1>6, QuietStep DEF At, Replacers, Rewriting

LEMMA BreakStep ==
  ASSUME IInv, NEW q \in Requests, BreakDeadlock(q)
  PROVE  IInv'
<1>1. step[q] = "write"
  BY DEF BreakDeadlock, WaitsFor, Upserting, At
<1>2. QED
  BY <1>1, RefuseStep DEF BreakDeadlock, Working

LEMMA WriteSettingsStep ==
  ASSUME IInv, NEW q \in Requests, WriteSettings(q)
  PROVE  IInv'
<1>1. /\ At(q, "settings.update", "write") /\ settings' = Merged(settings, job[q])
      /\ UNCHANGED <<users, roles, grants, pages>> /\ Finish(q)
      /\ overlapped' = IF \E p \in Requests \ {q} : At(p, "settings.update", "write")
                       THEN overlapped \union {Null} ELSE overlapped
  BY DEF WriteSettings
<1>2. /\ Moves(q) /\ step'[q] = "done" /\ UNCHANGED <<agenda, job>>
      /\ RequestsTyped' /\ Handlers' /\ Watched' /\ step'[q] \notin Replacers
      /\ ~At(q, "settings.update", "write")'
      /\ \A p \in Requests : step'[p] \in Rewriting => doomed'[p] = doomed[p]
  BY <1>1, FinishFacts DEF At, Working
<1>3. settings' \in Settings
  BY <1>1, JobTypes DEF IInv, TypeOK, Settings, Merged, Became, Job
<1>4. overlapped \subseteq overlapped' /\ overlapped' \subseteq overlapped \union {Null}
  BY <1>1
<1>5. TablesTyped'
  BY <1>1, <1>2, <1>3, <1>4 DEF IInv, TypeOK, TablesTyped
<1>6. RoleEdits'
  <2>1. \A r : GrantsOf(r)' = GrantsOf(r)
    BY <1>1 DEF GrantsOf
  <2>2. QED
    BY <1>1, <1>2, <1>4, <2>1, EditsKept DEF Rewriting, Replacers
<1>7. OneRequestsGrants'
  BY <1>1, <1>2, <1>4, GrantsKept
<1>8. \A p \in Requests : At(p, "settings.update", "write")' => p # q /\ At(p, "settings.update", "write")
  BY <1>2 DEF At, Moves
<1>9. Checked'
  BY <1>1, <1>8 DEF Checked
<1>10. SettingsCoherentAlone'
  <2>1. Null \in overlapped' \/ CoherentMerge(settings, job[q])
    BY <1>1, <1>4 DEF IInv, Checked
  <2>2. CoherentMerge(settings, job[q]) => SettingsCoherent'
    BY <1>1 DEF CoherentMerge, SettingsCoherent, PublicContainer
  <2>3. QED
    BY <2>1, <2>2 DEF SettingsCoherentAlone
<1>11. QED
  BY <1>1, <1>2, <1>5, <1>6, <1>7, <1>9, <1>10, TypedNext, PagesKept DEF IInv

(* An account is written; the roles and their grants stay. *)
LEMMA AccountStep ==
  ASSUME IInv, NEW q \in Requests, Finish(q), step[q] \in Working,
         UNCHANGED <<roles, grants, settings, pages, overlapped>>,
         DOMAIN users \subseteq DOMAIN users', DOMAIN users' \subseteq Users,
         \A u \in DOMAIN users' : users'[u] \in Account /\ users'[u].role \in roles
  PROVE  IInv'
<1>1. /\ Moves(q) /\ step'[q] = "done" /\ UNCHANGED <<agenda, job>>
      /\ RequestsTyped' /\ Handlers' /\ Watched' /\ step'[q] \notin Replacers
      /\ ~At(q, "settings.update", "write")'
      /\ \A p \in Requests : step'[p] \in Rewriting => doomed'[p] = doomed[p]
  BY FinishFacts
<1>2. TablesTyped'
  BY <1>1 DEF IInv, TypeOK, TablesTyped
<1>3. RoleEdits'
  <2>1. \A r : GrantsOf(r)' = GrantsOf(r)
    BY DEF GrantsOf
  <2>2. QED
    BY <1>1, <2>1, EditsKept DEF Rewriting, Replacers
<1>4. QED
  BY <1>1, <1>2, <1>3, TypedNext, PagesKept, SettingsKept, GrantsKept DEF IInv

LEMMA CreateUserStep ==
  ASSUME IInv, NEW q \in Requests, CreateUser(q)
  PROVE  IInv'
<1>1. At(q, "users.create", "write")
  BY DEF CreateUser
<1>2. CASE Refuse(q)
  BY <1>1, <1>2, RefuseStep DEF At, Working
<1>3. CASE /\ job[q].user \notin DOMAIN users /\ job[q].role \in roles
           /\ users' = [u \in DOMAIN users \union {job[q].user} |->
                          IF u = job[q].user
                          THEN [role |-> job[q].role, active |-> Became(TRUE, job[q].active)]
                          ELSE users[u]]
           /\ UNCHANGED <<roles, grants, settings, pages, overlapped>>
           /\ Finish(q)
  <2>1. job[q].user \in Users /\ job[q].active \in {Omitted} \union BOOLEAN
    BY <1>1, JobTypes DEF IInv, At, Job
  <2>2. Became(TRUE, job[q].active) \in BOOLEAN
    BY <2>1 DEF Became
  <2>3. [role |-> job[q].role, active |-> Became(TRUE, job[q].active)] \in Account
    BY <1>3, <2>2 DEF IInv, TypeOK, Account
  <2>4. DOMAIN users' = DOMAIN users \union {job[q].user}
    BY <1>3
  <2>5. \A u \in DOMAIN users' : users'[u] \in Account /\ users'[u].role \in roles
    BY <1>3, <2>3 DEF IInv, TypeOK
  <2>6. DOMAIN users \subseteq DOMAIN users' /\ DOMAIN users' \subseteq Users
    BY <2>1, <2>4 DEF IInv, TypeOK
  <2>7. QED
    BY <1>1, <1>3, <2>5, <2>6, AccountStep DEF At, Working
<1>4. QED
  BY <1>2, <1>3 DEF CreateUser

LEMMA UpdateUserStep ==
  ASSUME IInv, NEW q \in Requests, UpdateUser(q)
  PROVE  IInv'
<1>1. At(q, "users.update", "write")
  BY DEF UpdateUser
<1>2. CASE Refuse(q)
  BY <1>1, <1>2, RefuseStep DEF At, Working
<1>3. CASE /\ job[q].role \in roles \union {Omitted}
           /\ users' = [users EXCEPT ![job[q].user] =
                          [role   |-> Became(@.role, job[q].role),
                           active |-> Became(@.active, job[q].active)]]
           /\ UNCHANGED <<roles, grants, settings, pages, overlapped>>
           /\ Finish(q)
  <2>1. job[q].active \in {Omitted} \union BOOLEAN
    BY JobTypes DEF IInv, Job
  <2>2. ASSUME NEW u \in DOMAIN users
        PROVE  /\ [role   |-> Became(users[u].role, job[q].role),
                    active |-> Became(users[u].active, job[q].active)] \in Account
               /\ Became(users[u].role, job[q].role) \in roles
    <3>1. users[u] \in Account /\ users[u].role \in roles
      BY DEF IInv, TypeOK
    <3>2. Became(users[u].role, job[q].role) \in roles
      BY <1>3, <3>1 DEF Became
    <3>3. Became(users[u].active, job[q].active) \in BOOLEAN
      BY <2>1, <3>1 DEF Became, Account
    <3>4. QED
      BY <3>2, <3>3 DEF IInv, TypeOK, Account
  <2>3. DOMAIN users' = DOMAIN users
    BY <1>3
  <2>4. \A u \in DOMAIN users' : users'[u] \in Account /\ users'[u].role \in roles
    <3> SUFFICES ASSUME NEW u \in DOMAIN users PROVE users'[u] \in Account /\ users'[u].role \in roles
      BY <2>3
    <3>1. CASE u = job[q].user
      BY <1>3, <2>2, <3>1
    <3>2. CASE u # job[q].user
      BY <1>3, <3>2 DEF IInv, TypeOK
    <3>3. QED
      BY <3>1, <3>2
  <2>5. DOMAIN users' \subseteq Users
    BY <2>3 DEF IInv, TypeOK
  <2>6. QED
    BY <1>1, <1>3, <2>3, <2>4, <2>5, AccountStep DEF At, Working
<1>4. QED
  BY <1>2, <1>3 DEF UpdateUser

LEMMA CommitPageStep ==
  ASSUME IInv, NEW q \in Requests, CommitPage(q)
  PROVE  IInv'
<1>1. /\ At(q, "seo.update", "write") /\ held[q] = Len(job[q].locales)
      /\ pages' = [x \in DOMAIN pages \union Held(q) |-> IF x \in Held(q) THEN q ELSE pages[x]]
      /\ UNCHANGED <<users, roles, grants, settings, overlapped>> /\ Finish(q)
  BY DEF CommitPage
<1>2. /\ Moves(q) /\ step'[q] = "done" /\ UNCHANGED <<agenda, job>>
      /\ RequestsTyped' /\ Handlers' /\ Watched' /\ step'[q] \notin Replacers
      /\ ~At(q, "settings.update", "write")'
      /\ \A p \in Requests : step'[p] \in Rewriting => doomed'[p] = doomed[p]
  BY <1>1, FinishFacts DEF At, Working
<1>3. Held(q) = Named(q)
  BY <1>1 DEF Held, Named
<1>4. /\ Len(job[q].locales) \in Nat /\ DOMAIN job[q].locales = 1 .. Len(job[q].locales)
      /\ \A n \in 1 .. Len(job[q].locales) : job[q].locales[n] \in Locales
      /\ job[q].page \in Pages
  BY <1>1, JobTypes, Locales2 DEF IInv, At
<1>5. Named(q) \subseteq Pages \X Locales
  BY <1>4 DEF Named
<1>6. DOMAIN pages' = DOMAIN pages \union Named(q)
      /\ \A x \in DOMAIN pages' : pages'[x] = IF x \in Named(q) THEN q ELSE pages[x]
  BY <1>1, <1>3
<1>7. TablesTyped'
  <2>1. DOMAIN pages' \subseteq Pages \X Locales /\ \A x \in DOMAIN pages' : pages'[x] \in Requests
    BY <1>5, <1>6 DEF IInv, TypeOK
  <2>2. QED
    BY <1>1, <1>2, <2>1 DEF IInv, TypeOK, TablesTyped
<1>8. RoleEdits'
  <2>1. \A r : GrantsOf(r)' = GrantsOf(r)
    BY <1>1 DEF GrantsOf
  <2>2. QED
    BY <1>1, <1>2, <2>1, EditsKept DEF Rewriting, Replacers
<1>9. OneRequestsGrants' /\ Checked' /\ SettingsCoherentAlone'
  BY <1>1, <1>2, GrantsKept, SettingsKept
<1>10. PagesOf'
  <2> SUFFICES ASSUME NEW x \in DOMAIN pages' PROVE step'[pages'[x]] = "done" /\ x \in Named(pages'[x])
    BY <1>2 DEF PagesOf, Named
  <2>1. CASE x \in Named(q)
    BY <1>2, <1>6, <2>1
  <2>2. CASE x \notin Named(q)
    <3>1. x \in DOMAIN pages /\ pages'[x] = pages[x] /\ pages[x] \in Requests
      BY <1>6, <2>2 DEF IInv, TypeOK
    <3>2. step[pages[x]] = "done" /\ x \in Named(pages[x])
      BY <3>1 DEF IInv, PagesOf
    <3>3. QED
      BY <1>2, <3>1, <3>2, OverStays
  <2>3. QED
    BY <2>1, <2>2
<1>11. PagesAreWhole'
  <2> SUFFICES ASSUME NEW x \in DOMAIN pages', NEW y \in DOMAIN pages', x[1] = y[1], pages'[x] # pages'[y]
               PROVE  \E p \in {pages'[x], pages'[y]} :
                        ~({x[2], y[2]} \subseteq {job[p].locales[n] : n \in DOMAIN job[p].locales})
    BY <1>2 DEF PagesAreWhole
  <2>1. ASSUME NEW z \in DOMAIN pages', z \notin Named(q), z[1] = job[q].page
        PROVE  z[2] \notin {job[q].locales[n] : n \in DOMAIN job[q].locales}
    <3>1. z = <<z[1], z[2]>>
      BY <1>7 DEF TablesTyped
    <3>2. QED
      BY <1>4, <2>1, <3>1 DEF Named
  <2>2. \A z \in Named(q) : z[1] = job[q].page
    BY DEF Named
  <2>3. CASE x \notin Named(q) /\ y \notin Named(q)
    BY <1>6, <2>3 DEF IInv, PagesAreWhole
  <2>4. CASE x \in Named(q) /\ y \notin Named(q)
    BY <1>6, <2>1, <2>2, <2>4
  <2>5. CASE x \notin Named(q) /\ y \in Named(q)
    BY <1>6, <2>1, <2>2, <2>5
  <2>6. QED
    BY <1>6, <2>3, <2>4, <2>5
<1>12. QED
  BY <1>2, <1>7, <1>8, <1>9, <1>10, <1>11, TypedNext DEF IInv

(***************************************************************************)
(* Roles and their grants.                                                 *)
(***************************************************************************)

LEMMA OwnerStays == ASSUME IInv PROVE Owner \in roles
<1>1. <<Owner, Wildcard>> \in GrantsOf(Owner)
  BY DEF IInv, OneRequestsGrants
<1>2. GrantsOf(Owner) \subseteq roles \X Grantable
  BY DEF IInv, TypeOK, GrantsOf
<1>3. QED
  BY <1>1, <1>2

(* The grants of a role, as pairs and as permissions. *)
LEMMA Pairs ==
  ASSUME NEW r, NEW gs
  PROVE  {g[2] : g \in {r} \X gs} = gs /\ \A g \in {r} \X gs : g[1] = r
<1>1. \A x \in gs : <<r, x>> \in {r} \X gs /\ <<r, x>>[2] = x
  OBVIOUS
<1>2. \A g \in {r} \X gs : g[1] = r /\ g[2] \in gs
  OBVIOUS
<1>3. QED
  BY <1>1, <1>2

LEMMA CreateRoleStep ==
  ASSUME IInv, NEW q \in Requests, CreateRole(q)
  PROVE  IInv'
<1>1. At(q, "roles.create", "handler") /\ ~Deleted(job[q].role)
  BY DEF CreateRole
<1>2. CASE Refuse(q)
  BY <1>1, <1>2, RefuseStep DEF At, Working
<1>3. CASE /\ job[q].role \notin roles
           /\ roles' = roles \union {job[q].role}
           /\ grants' = grants \union ({job[q].role} \X job[q].grants)
           /\ UNCHANGED <<users, settings, pages, overlapped>>
           /\ Finish(q)
  <2>0. PICK r : r = job[q].role
    OBVIOUS
  <2>1. /\ Moves(q) /\ step'[q] = "done" /\ UNCHANGED <<agenda, job>>
        /\ RequestsTyped' /\ Handlers' /\ Watched' /\ step'[q] \notin Replacers
        /\ ~At(q, "settings.update", "write")'
        /\ \A p \in Requests : step'[p] \in Rewriting => doomed'[p] = doomed[p]
    BY <1>1, <1>3, FinishFacts DEF At, Working
  <2>2. r \in Roles /\ job[q].grants \subseteq Grantable /\ job[q].grants # Omitted
    BY <2>0, <1>1, JobTypes DEF IInv, At, Job
  <2>3. TablesTyped'
    BY <2>0, <1>3, <2>1, <2>2 DEF IInv, TypeOK, TablesTyped
  <2>4. GrantsOf(r) = {} /\ r # Owner
    BY <2>0, <1>3, OwnerStays DEF IInv, TypeOK, GrantsOf
  <2>5. \A x : x # r => GrantsOf(x)' = GrantsOf(x)
    BY <2>0, <1>3 DEF GrantsOf
  <2>6. GrantsOf(r)' = {r} \X job[q].grants
    <3>1. \A g \in {r} \X job[q].grants : g[1] = r
      BY <2>0, Pairs
    <3>2. \A g \in grants : g[1] # r
      BY <2>0, <2>4 DEF GrantsOf
    <3>3. grants' = grants \union ({r} \X job[q].grants)
      BY <2>0, <1>3
    <3>4. QED
      BY <2>0, <3>1, <3>2, <3>3 DEF GrantsOf
  <2>7. RoleEdits'
    <3>1. Replacing(r) = {}
      BY <2>0, <1>1, <1>3, <2>2 DEF IInv, RoleEdits, EditsOf
    <3>2. Replacing(r)' = {}
      BY <2>0, <2>1, <3>1 DEF Replacing, Moves, Replacers, Rewriting
    <3>3. ASSUME NEW x \in Roles, Replacing(x)' # {} PROVE GrantsOf(x)' \subseteq GrantsOf(x)
      <4>1. CASE x = r
        BY <2>0, <3>2, <3>3, <4>1 DEF Replacing
      <4>2. CASE x # r
        BY <2>0, <2>5, <4>2
      <4>3. QED
        BY <2>0, <4>1, <4>2
    <3>4. \A x \in roles : x \in roles' \/ Deleted(x)'
      BY <2>0, <1>3
    <3>5. QED
      BY <2>0, <1>3, <2>1, <3>3, <3>4, EditsKept DEF Rewriting, Replacers
  <2>8. OneRequestsGrants'
    <3>1. {g[2] : g \in GrantsOf(r)'} = job[q].grants
      <4>1. {g[2] : g \in {r} \X job[q].grants} = job[q].grants
        BY Pairs
      <4>2. QED
        BY <2>6, <4>1
    <3>2. job[q].grants \in Asked(r)'
      BY <2>0, <1>1, <2>1 DEF Asked, At
    <3>3. \A x : Asked(x) \subseteq Asked(x)'
      BY <2>0, <2>1, OverStays
    <3>4. ASSUME NEW x \in roles' \ ({Owner} \union overlapped')
          PROVE {g[2] : g \in GrantsOf(x)'} \in
                  ({{g[2] : g \in {y \in FirstGrants : y[1] = x}}} \union Asked(x)') \ {Omitted}
      <4>1. CASE x = r
        <5>1. /\ GrantsOf(x)' = GrantsOf(r)' /\ Asked(x)' = Asked(r)'
          BY <2>0, <4>1 DEF GrantsOf, Asked
        <5>2. QED
          BY <2>0, <2>2, <3>1, <3>2, <5>1
      <4>2. CASE x # r
        <5>1. x \in roles \ ({Owner} \union overlapped)
          BY <2>0, <1>3, <4>2
        <5>2. QED
          BY <2>0, <2>5, <3>3, <4>2, <5>1 DEF IInv, OneRequestsGrants
      <4>3. QED
        BY <2>0, <4>1, <4>2
    <3>5. GrantsOf(Owner)' = {<<Owner, Wildcard>>}
      BY <2>0, <2>4, <2>5 DEF IInv, OneRequestsGrants
    <3>6. QED
      BY <2>0, <3>4, <3>5 DEF OneRequestsGrants
  <2>9. QED
    BY <2>0, <1>3, <2>1, <2>3, <2>7, <2>8, TypedNext, PagesKept, SettingsKept DEF IInv
<1>4. QED
  BY <1>2, <1>3 DEF CreateRole

LEMMA DeleteRoleStep ==
  ASSUME IInv, NEW q \in Requests, DeleteRole(q)
  PROVE  IInv'
<1>1. At(q, "roles.delete", "write")
  BY DEF DeleteRole
<1>2. CASE Refuse(q)
  BY <1>1, <1>2, RefuseStep DEF At, Working
<1>3. CASE /\ job[q].role \in roles /\ Unassigned(job[q].role)
           /\ roles' = roles \ {job[q].role}
           /\ grants' = grants \ GrantsOf(job[q].role)
           /\ UNCHANGED <<users, settings, pages, overlapped>>
           /\ Finish(q)
  <2>0. PICK r : r = job[q].role
    OBVIOUS
  <2>1. /\ Moves(q) /\ step'[q] = "done" /\ UNCHANGED <<agenda, job>>
        /\ RequestsTyped' /\ Handlers' /\ Watched' /\ step'[q] \notin Replacers
        /\ ~At(q, "settings.update", "write")'
        /\ \A p \in Requests : step'[p] \in Rewriting => doomed'[p] = doomed[p]
    BY <1>1, <1>3, FinishFacts DEF At, Working
  <2>2. r # Owner
    BY <2>0, <1>1 DEF IInv, Handlers, HandlerAt
  <2>3. TablesTyped'
    BY <2>0, <1>3, <2>1 DEF IInv, TypeOK, TablesTyped, Unassigned, GrantsOf
  <2>4. (\A x : GrantsOf(x)' \subseteq GrantsOf(x)) /\ \A x : x # r => GrantsOf(x)' = GrantsOf(x)
    BY <2>0, <1>3 DEF GrantsOf
  <2>5. Deleted(r)'
    BY <2>0, <1>1, <2>1 DEF Deleted, At
  <2>6. RoleEdits'
    <3>1. ASSUME NEW x \in roles PROVE x \in roles' \/ Deleted(x)'
      <4>1. CASE x = r
        BY <2>0, <2>5, <4>1 DEF Deleted
      <4>2. CASE x # r
        BY <2>0, <1>3, <4>2
      <4>3. QED
        BY <2>0, <4>1, <4>2
    <3>2. QED
      BY <2>0, <1>3, <2>1, <2>4, <3>1, EditsKept DEF Rewriting, Replacers
  <2>7. OneRequestsGrants'
    <3>1. \A x : Asked(x) \subseteq Asked(x)'
      BY <2>0, <2>1, OverStays
    <3>2. QED
      BY <2>0, <1>3, <2>2, <2>4, <3>1 DEF IInv, OneRequestsGrants
  <2>8. QED
    BY <2>0, <1>3, <2>1, <2>3, <2>6, <2>7, TypedNext, PagesKept, SettingsKept DEF IInv
<1>4. QED
  BY <1>2, <1>3 DEF DeleteRole

(* A step of a replacement that changes no table. *)
LEMMA ReplacingStep ==
  ASSUME IInv, NEW q \in Requests, Moves(q), UNCHANGED <<Tables, agenda, job>>, Watch,
         overlapped \subseteq overlapped', overlapped' \subseteq Roles \union {Null},
         RequestsTyped', HandlerAt(q)', RoleEdits',
         \A p \in Requests \ {q} : doomed'[p] = doomed[p],
         step'[q] \in Replacers
  PROVE  IInv'
<1>1. UNCHANGED <<users, roles, grants, settings, pages>>
  BY DEF Tables
<1>2. TypeOK'
  BY <1>1 DEF IInv, TypeOK, TablesTyped, RequestsTyped
<1>3. Handlers'
  BY DEF IInv, Handlers, HandlerAt, Moves, At
<1>4. Watched'
  <2>1. \A p \in Requests : step'[p] = "grants" => step[p] = "grants" /\ role'[p] = role[p]
    BY DEF Moves, Replacers, Rewriting
  <2>2. QED
    BY <2>1, WatchKeeps DEF IInv
<1>5. ~At(q, "settings.update", "write")'
  BY DEF At, Replacers, Rewriting
<1>6. QED
  BY <1>1, <1>2, <1>3, <1>4, <1>5, GrantsKept, SettingsKept, PagesKept DEF IInv

LEMMA UpdateRoleStep ==
  ASSUME IInv, NEW q \in Requests, UpdateRole(q)
  PROVE  IInv'
<1>1. At(q, "roles.update", "write") /\ (job[q].named => Locked(q))
  BY DEF UpdateRole
<1>2. CASE Refuse(q)
  BY <1>1, <1>2, RefuseStep DEF At, Working
<1>3. CASE UNCHANGED <<Tables, overlapped>> /\ Finish(q)
  <2>1. /\ Moves(q) /\ step'[q] = "done" /\ UNCHANGED <<agenda, job>>
        /\ RequestsTyped' /\ Handlers' /\ Watched' /\ step'[q] \notin Replacers
        /\ ~At(q, "settings.update", "write")'
        /\ \A p \in Requests : step'[p] \in Rewriting => doomed'[p] = doomed[p]
    BY <1>1, <1>3, FinishFacts DEF At, Working, Tables
  <2>2. UNCHANGED <<users, roles, grants, settings, pages, overlapped>>
    BY <1>3 DEF Tables
  <2>3. TablesTyped'
    BY <2>1, <2>2 DEF IInv, TypeOK, TablesTyped
  <2>4. \A r : GrantsOf(r)' = GrantsOf(r)
    BY <2>2 DEF GrantsOf
  <2>5. RoleEdits'
    BY <2>1, <2>2, <2>4, EditsKept DEF Rewriting, Replacers
  <2>6. QED
    BY <2>1, <2>2, <2>3, <2>5, TypedNext, GrantsKept, SettingsKept, PagesKept DEF IInv
<1>4. CASE /\ job[q].role \in roles /\ job[q].grants # Omitted
           /\ Proceed(q, "updated") /\ UNCHANGED role
  <2>1. /\ step' \in [Requests -> Steps] /\ step'[q] = "updated"
        /\ \A p \in Requests \ {q} : step'[p] = step[p]
    BY <1>4, ToFacts DEF Proceed, Steps, Working
  <2>2. UNCHANGED <<Tables, agenda, job, actor, doomed, held, overlapped>> /\ Watch
    BY <1>4 DEF Proceed
  <2>3. Moves(q)
    BY <1>1, <1>4, <2>1, <2>2 DEF Moves, At
  <2>4. RequestsTyped'
    BY <1>4, <2>1, <2>2 DEF IInv, TypeOK, RequestsTyped, Tables
  <2>5. HandlerAt(q)'
    BY <1>1, <1>4, <2>1, <2>2 DEF IInv, Handlers, HandlerAt, Replacers, Rewriting, At
  <2>6. RoleEdits'
    <3>1. \A r : /\ r # job[q].role => Replacing(r)' = Replacing(r)
                 /\ r = job[q].role => Replacing(r)' = Replacing(r) \union {q} /\ q \notin Replacing(r)
      BY <1>1, <2>1, <2>2 DEF Replacing, At
    <3>2. \A r : GrantsOf(r)' = GrantsOf(r) /\ (Deleted(r) => Deleted(r)')
      BY <2>2, <2>3, OverStays DEF GrantsOf, Tables
    <3>3. \A r : \A p \in Replacing(r) : p \in Requests /\ p # q /\ step'[p] = step[p]
      BY <1>1, <2>1 DEF Replacing, At
    <3>4. ASSUME NEW r \in Roles PROVE EditsOf(r)'
      <4>1. EditsOf(r)
        BY DEF IInv, RoleEdits
      <4>2. CASE r # job[q].role
        BY <2>2, <3>1, <3>2, <3>3, <4>1, <4>2 DEF EditsOf, Tables
      <4>3. CASE r = job[q].role
        <5>1. job[q].named => \A p \in Replacing(r) : ~job[p].named
          BY <1>1, <3>3, <4>3 DEF Locked
        <5>2. \A p \in Replacing(r)' : p = q \/ (p \in Replacing(r) /\ step'[p] = step[p])
          BY <3>1, <3>3, <4>3
        <5>3. step'[q] \notin Rewriting
          BY <2>1 DEF Rewriting
        <5>4. r \in roles'
          BY <1>4, <2>2, <4>3 DEF Tables
        <5>5. QED
          BY <2>2, <3>2, <4>1, <5>1, <5>2, <5>3, <5>4 DEF EditsOf
      <4>4. QED
        BY <4>2, <4>3
    <3>5. QED
      BY <3>4 DEF RoleEdits
  <2>7. overlapped' \subseteq Roles \union {Null}
    BY <2>2 DEF IInv, TypeOK
  <2>8. QED
    BY <2>1, <2>2, <2>3, <2>4, <2>5, <2>6, <2>7, ReplacingStep DEF Replacers
<1>5. QED
  BY <1>2, <1>3, <1>4 DEF UpdateRole

LEMMA DeleteGrantsStep ==
  ASSUME IInv, NEW q \in Requests, DeleteGrants(q)
  PROVE  IInv'
<1> DEFINE r   == job[q].role
           met == {p \in Replacing(r) : /\ step[p] \in {"clearing", "cleared"}
                                        /\ ~(job[p].named /\ job[q].named)}
<1>1. /\ At(q, "roles.update", "updated") /\ To(q, "clearing")
      /\ doomed' = [doomed EXCEPT ![q] = GrantsOf(r)]
      /\ overlapped' = IF met # {} THEN overlapped \union {r} ELSE overlapped
      /\ UNCHANGED <<Tables, agenda, job, actor, role, held>> /\ Watch
  BY DEF DeleteGrants
<1>2. /\ step' \in [Requests -> Steps] /\ step'[q] = "clearing"
      /\ \A p \in Requests \ {q} : step'[p] = step[p]
  BY <1>1, ToFacts DEF Steps, Working
<1>3. GrantsOf(r) \in SUBSET (Roles \X Grantable) /\ r \in Roles \ {Owner}
  BY <1>1 DEF IInv, TypeOK, GrantsOf, Handlers, HandlerAt, Replacers, At
<1>4. /\ doomed' \in [Requests -> SUBSET (Roles \X Grantable)] /\ doomed'[q] = GrantsOf(r)
      /\ \A p \in Requests \ {q} : doomed'[p] = doomed[p]
  BY <1>1, <1>3 DEF IInv, TypeOK
<1>5. Moves(q)
  BY <1>1, <1>2 DEF Moves, At
<1>6. RequestsTyped'
  BY <1>1, <1>2, <1>4 DEF IInv, TypeOK, RequestsTyped, Tables
<1>7. HandlerAt(q)'
  BY <1>1, <1>2, <1>4 DEF IInv, Handlers, HandlerAt, Replacers, Rewriting, At, GrantsOf
<1>8. overlapped \subseteq overlapped' /\ overlapped' \subseteq Roles \union {Null}
  BY <1>1, <1>3 DEF IInv, TypeOK
<1>9. RoleEdits'
  <2>1. \A x : Replacing(x)' = Replacing(x)
    BY <1>1, <1>2 DEF Replacing, At
  <2>2. \A x : GrantsOf(x)' = GrantsOf(x) /\ (Deleted(x) => Deleted(x)')
    BY <1>1, <1>5, OverStays DEF GrantsOf, Tables
  <2>3. \A x : \A p \in Replacing(x) : p \in Requests /\ (p # q => step'[p] = step[p] /\ doomed'[p] = doomed[p])
    BY <1>2, <1>4 DEF Replacing
  <2>4. q \in Replacing(r)
    BY <1>1 DEF Replacing, At
  <2>5. ASSUME NEW x \in Roles PROVE EditsOf(x)'
    <3>1. EditsOf(x)
      BY DEF IInv, RoleEdits
    <3>2. CASE x # r
      <4>1. q \notin Replacing(x)
        BY <3>2 DEF Replacing
      <4>2. QED
        BY <1>1, <1>8, <2>1, <2>2, <2>3, <3>1, <4>1 DEF EditsOf, Tables
    <3>3. CASE x = r
      <4>1. \A p \in Replacing(r) \ {q} : step[p] \in Rewriting => p \in met
        BY <2>4, <3>1, <3>3 DEF EditsOf, Rewriting
      <4>2. \A p \in Replacing(r) \ {q} : step[p] \in Rewriting => r \in overlapped'
        BY <1>1, <4>1
      <4> HIDE DEF met
      <4>3. \A p, o \in Replacing(r) :
              step'[p] \in Rewriting /\ step'[o] \in Rewriting => p = o \/ r \in overlapped'
        BY <2>3, <4>2
      <4>4. \A p \in Replacing(r) : step'[p] \in Rewriting => r \in overlapped' \/ GrantsOf(r) \subseteq doomed'[p]
        BY <1>4, <2>3, <4>2
      <4>5. QED
        BY <1>1, <2>1, <2>2, <3>1, <3>3, <4>3, <4>4 DEF EditsOf, Tables
    <3>4. QED
      BY <3>2, <3>3
  <2>6. QED
    BY <2>5 DEF RoleEdits
<1>10. QED
  BY <1>1, <1>2, <1>4, <1>5, <1>6, <1>7, <1>8, <1>9, ReplacingStep DEF Replacers, Rewriting

LEMMA InsertGrantsStep ==
  ASSUME IInv, NEW q \in Requests, InsertGrants(q)
  PROVE  IInv'
<1>1. At(q, "roles.update", "cleared")
  BY DEF InsertGrants
<1>2. CASE Refuse(q)
  BY <1>1, <1>2, RefuseStep DEF At, Working
<1>3. CASE /\ job[q].role \in roles
           /\ grants' = (grants \ doomed[q]) \union ({job[q].role} \X job[q].grants)
           /\ doomed' = [p \in Requests |-> IF p = q THEN {} ELSE doomed[p] \ doomed[q]]
           /\ To(q, "done")
           /\ UNCHANGED <<users, roles, settings, pages, agenda, job, actor, role, held, overlapped>>
           /\ Watch
  <2>0. PICK r : r = job[q].role
    OBVIOUS
  <2>1. /\ step' \in [Requests -> Steps] /\ step'[q] = "done"
        /\ \A p \in Requests \ {q} : step'[p] = step[p]
    BY <1>3, ToFacts DEF Steps
  <2>2. Moves(q)
    BY <1>1, <1>3, <2>1 DEF Moves, At
  <2>3. /\ r \in Roles \ {Owner} /\ job[q].grants \subseteq Grantable /\ job[q].grants # Omitted
        /\ \A g \in doomed[q] : g[1] = r
    BY <1>1, <2>0, JobTypes DEF IInv, Handlers, HandlerAt, Replacers, Rewriting, At, Job
  <2>4. \A p \in Requests : doomed'[p] \subseteq doomed[p] /\ (p # q => doomed'[p] = doomed[p] \ doomed[q])
    BY <1>3
  <2>5. held[q] = 0
    BY <1>1 DEF IInv, Handlers, HandlerAt, At
  <2>6. RequestsTyped'
    <3>1. doomed' \in [Requests -> SUBSET (Roles \X Grantable)]
      BY <1>3 DEF IInv, TypeOK
    <3>2. QED
      BY <1>3, <2>1, <3>1 DEF IInv, TypeOK, RequestsTyped
  <2>7. TablesTyped'
    <3>1. {r} \X job[q].grants \subseteq roles \X Grantable
      BY <1>3, <2>0, <2>3
    <3>2. grants' \subseteq roles \X Grantable
      BY <1>3, <2>0, <3>1 DEF IInv, TypeOK
    <3>3. QED
      BY <1>3, <3>2 DEF IInv, TypeOK, TablesTyped
  <2>8. Handlers'
    <3>1. HandlerAt(q)'
      BY <1>3, <2>1, <2>5 DEF HandlerAt, Replacers, Rewriting, At
    <3>2. \A p \in Requests \ {q} : HandlerAt(p)'
      BY <1>3, <2>1, <2>4 DEF IInv, Handlers, HandlerAt, At
    <3>3. QED
      BY <3>1, <3>2 DEF Handlers
  <2>9. Watched'
    <3>1. \A p \in Requests : step'[p] = "grants" => step[p] = "grants" /\ role'[p] = role[p]
      BY <1>3, <2>1
    <3>2. QED
      BY <1>3, <3>1, WatchKeeps DEF IInv
  <2>10. \A x : x # r => GrantsOf(x)' = GrantsOf(x) /\ GrantsOf(x) \intersect doomed[q] = {}
    <3>1. \A g \in {r} \X job[q].grants : g[1] = r
      BY Pairs
    <3>2. grants' = (grants \ doomed[q]) \union ({r} \X job[q].grants)
      BY <1>3, <2>0
    <3>3. QED
      BY <2>3, <3>1, <3>2 DEF GrantsOf
  <2>11. q \in Replacing(r) /\ step[q] \in Rewriting
    BY <1>1, <2>0 DEF Replacing, At, Rewriting
  <2>12. r \in overlapped \/ GrantsOf(r)' = {r} \X job[q].grants
    <3>1. r \in overlapped \/ GrantsOf(r) \subseteq doomed[q]
      BY <2>3, <2>11 DEF IInv, RoleEdits, EditsOf
    <3>2. \A g \in {r} \X job[q].grants : g[1] = r
      BY Pairs
    <3>3. grants' = (grants \ doomed[q]) \union ({r} \X job[q].grants)
      BY <1>3, <2>0
    <3>4. QED
      BY <3>1, <3>2, <3>3 DEF GrantsOf
  <2>13. RoleEdits'
    <3>1. \A x : /\ Replacing(x)' \subseteq Replacing(x) \ {q}
                 /\ \A p \in Replacing(x)' : p \in Requests /\ step'[p] = step[p]
      BY <1>3, <2>1 DEF Replacing
    <3>2. \A x : Deleted(x) => Deleted(x)'
      BY <2>2, OverStays
    <3>3. ASSUME NEW x \in Roles PROVE EditsOf(x)'
      <4>1. EditsOf(x)
        BY DEF IInv, RoleEdits
      <4>2. ASSUME NEW p \in Replacing(x)', step'[p] \in Rewriting
            PROVE  x \in overlapped \/ GrantsOf(x)' \subseteq doomed'[p]
        <5>1. p \in Replacing(x) /\ p # q /\ p \in Requests /\ step[p] \in Rewriting
          BY <3>1, <4>2
        <5>2. CASE x = r
          BY <2>11, <4>1, <5>1, <5>2 DEF EditsOf
        <5>3. CASE x # r
          <6>1. x \in overlapped \/ GrantsOf(x) \subseteq doomed[p]
            BY <4>1, <5>1 DEF EditsOf
          <6>2. QED
            BY <2>4, <2>10, <5>1, <5>3, <6>1
        <5>4. QED
          BY <5>2, <5>3
      <4>3. QED
        BY <1>3, <3>1, <3>2, <4>1, <4>2 DEF EditsOf
    <3>4. QED
      BY <3>3 DEF RoleEdits
  <2>14. OneRequestsGrants'
    <3>1. job[q].grants \in Asked(r)'
      BY <1>1, <1>3, <2>0, <2>1 DEF Asked, At
    <3>2. \A x : Asked(x) \subseteq Asked(x)'
      BY <2>2, OverStays
    <3>3. ASSUME NEW x \in roles' \ ({Owner} \union overlapped')
          PROVE {g[2] : g \in GrantsOf(x)'} \in
                  ({{g[2] : g \in {y \in FirstGrants : y[1] = x}}} \union Asked(x)') \ {Omitted}
      <4>1. CASE x = r
        <5>1. GrantsOf(r)' = {r} \X job[q].grants
          BY <1>3, <2>12, <4>1
        <5>2. {g[2] : g \in {r} \X job[q].grants} = job[q].grants
          BY Pairs
        <5>3. {g[2] : g \in GrantsOf(r)'} = job[q].grants
          BY <5>1, <5>2
        <5>4. QED
          BY <2>3, <3>1, <4>1, <5>3
      <4>2. CASE x # r
        <5>1. x \in roles \ ({Owner} \union overlapped)
          BY <1>3
        <5>2. QED
          BY <2>10, <3>2, <4>2, <5>1 DEF IInv, OneRequestsGrants
      <4>3. QED
        BY <4>1, <4>2
    <3>4. GrantsOf(Owner)' = {<<Owner, Wildcard>>}
      BY <2>3, <2>10 DEF IInv, OneRequestsGrants
    <3>5. QED
      BY <3>3, <3>4 DEF OneRequestsGrants
  <2>15. ~At(q, "settings.update", "write")'
    BY <2>1 DEF At
  <2>16. QED
    BY <1>3, <2>2, <2>6, <2>7, <2>8, <2>9, <2>13, <2>14, <2>15, TypedNext, SettingsKept, PagesKept DEF IInv
<1>4. QED
  BY <1>2, <1>3 DEF InsertGrants

(***************************************************************************)
(* The specification.                                                      *)
(***************************************************************************)

LEMMA InitInvariant == Init => IInv
<1> SUFFICES ASSUME Init PROVE IInv
  OBVIOUS
<1>1. agenda \in Jobs /\ agenda # {} /\ agenda \subseteq Job
  BY JobsType DEF Init
<1>2. (CHOOSE j \in agenda : TRUE) \in agenda /\ (CHOOSE u \in DOMAIN FirstUsers : TRUE) \in DOMAIN FirstUsers
  BY <1>1, FirstType
<1>3. job \in [Requests -> agenda] /\ actor \in [Requests -> DOMAIN users]
  BY <1>2 DEF Init
<1>4. /\ \A q \in Requests : step[q] = "idle" /\ held[q] = 0 /\ doomed[q] = {}
      /\ overlapped = {} /\ grants = FirstGrants /\ DOMAIN pages = {} /\ users = FirstUsers
  BY DEF Init
<1>5. TypeOK
  <2>1. roles \subseteq Roles /\ grants \subseteq roles \X Grantable
    BY FirstType DEF Init, Account
  <2>2. \A u \in DOMAIN users : users[u] \in Account /\ users[u].role \in roles
    BY FirstType DEF Init
  <2>3. step \in [Requests -> Steps] /\ role \in [Requests -> Roles]
        /\ doomed \in [Requests -> SUBSET (Roles \X Grantable)]
    BY OwnerIsRole DEF Init, Steps
  <2>4. settings \in Settings
    BY DEF Init, Settings
  <2>5. \A q \in Requests : held[q] <= Len(job[q].locales)
    <3> SUFFICES ASSUME NEW q \in Requests PROVE held[q] <= Len(job[q].locales)
      OBVIOUS
    <3>1. Len(job[q].locales) \in Nat
      BY <1>1, <1>3, Locales2
    <3>2. QED
      BY <1>4, <3>1
  <2>6. held \in [Requests -> Nat]
    BY DEF Init
  <2>7. DOMAIN users \subseteq Users
    BY <1>4, FirstType
  <2>8. QED
    BY <1>1, <1>3, <1>4, <2>1, <2>2, <2>3, <2>4, <2>5, <2>6, <2>7 DEF TypeOK
<1>6. Handlers /\ Watched /\ Checked
  BY <1>4 DEF Handlers, HandlerAt, Watched, Checked, At, Replacers, Rewriting
<1>7. RoleEdits
  <2>1. \A r : Replacing(r) = {}
    BY <1>4 DEF Replacing
  <2>2. QED
    BY <2>1 DEF RoleEdits, EditsOf
<1>8. OneRequestsGrants
  <2>1. GrantsOf(Owner) = {<<Owner, Wildcard>>}
    <3>1. \A g \in GrantsOf(Owner) : g = <<Owner, Wildcard>>
      BY <1>4, FirstType DEF GrantsOf
    <3>2. <<Owner, Wildcard>> \in GrantsOf(Owner)
      BY <1>4, FirstType DEF GrantsOf
    <3>3. QED
      BY <3>1, <3>2
  <2>2. ASSUME NEW r
        PROVE  /\ {g[2] : g \in GrantsOf(r)} = {g[2] : g \in {x \in FirstGrants : x[1] = r}}
               /\ {g[2] : g \in GrantsOf(r)} \subseteq Grantable
    BY <1>4, FirstType DEF GrantsOf
  <2>3. \A gs : gs \subseteq Grantable => gs # Omitted
    BY NullIsNothing
  <2>4. QED
    BY <2>1, <2>2, <2>3 DEF OneRequestsGrants
<1>9. SettingsCoherentAlone
  BY DEF Init, SettingsCoherentAlone, SettingsCoherent, PublicContainer
<1>10. PagesOf /\ PagesAreWhole
  BY <1>4 DEF PagesOf, PagesAreWhole
<1>11. QED
  BY <1>5, <1>6, <1>7, <1>8, <1>9, <1>10 DEF IInv

LEMMA StutterKeeps == ASSUME IInv, UNCHANGED vars PROVE IInv'
<1>1. /\ UNCHANGED <<users, roles, grants, settings, pages, agenda, step, job, actor, role>>
      /\ UNCHANGED <<doomed, held, shown, overlapped>>
  BY DEF vars
<1>2. TypeOK' /\ Handlers' /\ Watched'
  BY <1>1 DEF IInv, TypeOK, Handlers, HandlerAt, Watched, At
<1>3. RoleEdits' /\ OneRequestsGrants'
  <2>1. \A r : /\ Replacing(r)' = Replacing(r) /\ (Deleted(r)' <=> Deleted(r))
               /\ GrantsOf(r)' = GrantsOf(r) /\ Asked(r)' = Asked(r)
    BY <1>1 DEF Replacing, Deleted, GrantsOf, Asked, At
  <2>2. RoleEdits'
    BY <1>1, <2>1 DEF IInv, RoleEdits, EditsOf
  <2>3. OneRequestsGrants'
    BY <1>1, <2>1 DEF IInv, OneRequestsGrants
  <2>4. QED
    BY <2>2, <2>3
<1>4. Checked' /\ SettingsCoherentAlone' /\ PagesOf' /\ PagesAreWhole'
  BY <1>1 DEF IInv, Checked, CoherentMerge, Merged, Became, SettingsCoherentAlone, SettingsCoherent,
     PublicContainer, PagesOf, Named, PagesAreWhole, At
<1>5. QED
  BY <1>2, <1>3, <1>4 DEF IInv

LEMMA StepInvariant == IInv /\ [Next]_vars => IInv'
  BY ArriveStep, ReadAccountStep, CheckSteps, UpsertStep, BreakStep, WriteSettingsStep, CreateUserStep,
     UpdateUserStep, CommitPageStep, CreateRoleStep, DeleteRoleStep, UpdateRoleStep, DeleteGrantsStep,
     InsertGrantsStep, StutterKeeps DEF Next, Do

LEMMA InvariantHolds == Spec => []IInv
  BY InitInvariant, StepInvariant, PTL DEF Spec

(* A request moves none but itself. *)
LEMMA OwnStep ==
  ASSUME NEW q \in Requests, Do(q)
  PROVE  UNCHANGED step \/ \E s : step' = [step EXCEPT ![q] = s]
<1>1. ASSUME NEW s, To(q, s) \/ Proceed(q, s) PROVE \E t : step' = [step EXCEPT ![q] = t]
  BY <1>1 DEF To, Proceed
<1>2. Refuse(q) \/ Finish(q) => \E t : step' = [step EXCEPT ![q] = t]
  BY <1>1 DEF Refuse, Finish
<1>3. CASE Arrive(q) \/ ReadAccount(q) \/ ReadGrants(q) \/ ConsiderRole(q) \/ ClearGrants(q)
  BY <1>1, <1>2, <1>3 DEF Arrive, ReadAccount, ReadGrants, ConsiderRole, ClearGrants
<1>4. CASE CreateRole(q) \/ UpdateRole(q) \/ DeleteGrants(q) \/ InsertGrants(q) \/ DeleteRole(q)
  BY <1>1, <1>2, <1>4 DEF CreateRole, UpdateRole, DeleteGrants, InsertGrants, DeleteRole
<1>5. CASE CountAssigned(q) \/ CheckAccount(q) \/ CreateUser(q) \/ UpdateUser(q) \/ ReadSettings(q)
  BY <1>1, <1>2, <1>5 DEF CountAssigned, CheckAccount, CreateUser, UpdateUser, ReadSettings
<1>6. CASE WriteSettings(q) \/ CheckPage(q) \/ UpsertPage(q) \/ CommitPage(q) \/ BreakDeadlock(q)
  BY <1>1, <1>2, <1>6 DEF WriteSettings, CheckPage, UpsertPage, CommitPage, BreakDeadlock
<1>7. QED
  BY <1>3, <1>4, <1>5, <1>6 DEF Do

(* Types; no account or grant is left without its role.                    *)
THEOREM TypeCorrect == Spec => []TypeOK
<1>1. IInv => TypeOK
  BY DEF IInv
<1>2. QED
  BY <1>1, InvariantHolds, PTL

(* A role has the grants one request asked for, unless two replacements    *)
(* met without the lock of its row; the owner keeps exactly the wildcard.  *)
THEOREM ReplacedWholesale == Spec => []OneRequestsGrants
<1>1. IInv => OneRequestsGrants
  BY DEF IInv
<1>2. QED
  BY <1>1, InvariantHolds, PTL

(* The tracking switch is on only with a container, unless two updates     *)
(* were decided on the same row.                                           *)
THEOREM TrackingCoherent == Spec => []SettingsCoherentAlone
<1>1. IInv => SettingsCoherentAlone
  BY DEF IInv
<1>2. QED
  BY <1>1, InvariantHolds, PTL

(* Of two bodies that both name two locales of a page, both locales are    *)
(* published from the same one.                                            *)
THEOREM PagesNotMixed == Spec => []PagesAreWhole
<1>1. IInv => PagesAreWhole
  BY DEF IInv
<1>2. QED
  BY <1>1, InvariantHolds, PTL

(* Whoever passes the guards had, while inside them, an active account in  *)
(* a role, and that role the permission: what was taken away before is     *)
(* never honoured.                                                         *)
THEOREM GuardsAreCurrent == Spec => RevocationIsImmediate
<1>1. ASSUME IInv, [Next]_vars,
             NEW q \in Requests, step[q] = "grants", step'[q] = "handler"
      PROVE  \E r \in Roles : /\ <<r, Omitted>> \in shown[q]
                              /\ \E g \in {Wildcard, job[q].route} : <<r, g>> \in shown[q]
  <2>1. grants \subseteq shown[q] /\ <<role[q], Omitted>> \in shown[q] /\ role[q] \in Roles
    BY <1>1 DEF IInv, Watched, TypeOK
  <2>2. ASSUME NEW p \in Requests, Do(p) PROVE p = q
    <3>1. step'[q] # step[q]
      BY <1>1
    <3>2. UNCHANGED step \/ \E s : step' = [step EXCEPT ![p] = s]
      BY <2>2, OwnStep
    <3>3. QED
      BY <1>1, <3>1, <3>2 DEF IInv, TypeOK
  <2>3. Do(q)
    BY <1>1, <2>2 DEF Next, vars
  <2>4. {Wildcard, job[q].route} \intersect Resolved(q) # {}
    <3>1. ~BreakDeadlock(q)
      BY <1>1 DEF BreakDeadlock, WaitsFor, Upserting, At
    <3>2. ReadGrants(q)
      BY <1>1, <2>3, <3>1 DEF Do, Arrive, ReadAccount, CreateRole, ConsiderRole, UpdateRole, DeleteGrants,
         ClearGrants, InsertGrants, CountAssigned, DeleteRole, CheckAccount, CreateUser, UpdateUser, ReadSettings,
         WriteSettings, CheckPage, UpsertPage, CommitPage, Upserting, At
    <3>3. ~Refuse(q)
      BY <1>1 DEF Refuse, To, IInv, TypeOK
    <3>4. QED
      BY <3>2, <3>3 DEF ReadGrants
  <2>5. PICK g \in {Wildcard, job[q].route} : <<role[q], g>> \in grants
    <3>1. PICK g \in {Wildcard, job[q].route} : g \in Resolved(q)
      BY <2>4
    <3>2. PICK x \in GrantsOf(role[q]) : g = x[2]
      BY <3>1 DEF Resolved
    <3>3. x = <<role[q], g>> /\ x \in grants
      BY <1>1, <3>2 DEF GrantsOf, IInv, TypeOK
    <3>4. QED
      BY <3>3
  <2>6. QED
    BY <2>1, <2>5
<1>2. IInv /\ [Next]_vars =>
        [\A q \in Requests : step[q] = "grants" /\ step'[q] = "handler" =>
           \E r \in Roles : /\ <<r, Omitted>> \in shown[q]
                            /\ \E g \in {Wildcard, job[q].route} : <<r, g>> \in shown[q]]_vars
  BY <1>1
<1>3. QED
  BY <1>2, InvariantHolds, PTL DEF Spec, RevocationIsImmediate

(***************************************************************************)
(* Sessions.                                                               *)
(***************************************************************************)

(* A call that has created no token yet: nothing is stored under its name. *)
BeforeToken == {"new", "login", "issuing", "refresh", "claiming", "claimed"}

(* A call past the read that found the presented token. *)
TokenFound == {"claiming", "claimed", "rotated", "reuse", "revoking", "leaving", "reused"}

NothingCreatedYet == \A c \in Calls : pc[c] \in BeforeToken => tokens[c] = NoToken

LoginsByUsers == \A c \in Calls : pc[c] \in {"login", "issuing"} => subject[c] \in Accounts

PresentedExists == \A c \in Calls : pc[c] \in TokenFound => subject[c] \in Issued

ClaimsExclusive ==
  /\ \A c \in Calls : pc[c] = "claimed" => Live(subject[c])
  /\ \A c, d \in Calls :
       pc[c] = "claimed" /\ pc[d] = "claimed" /\ subject[c] = subject[d] => c = d

(* The token that opened a family is stored. *)
FamiliesOpened == \A t \in Issued : FamilyOf(t) \in Issued

SuccessorsOfRotated ==
  \A s \in Issued : tokens[s].parent # NoCall =>
    /\ tokens[s].parent \in Issued
    /\ tokens[tokens[s].parent].revoked = "rotated"
    /\ tokens[tokens[s].parent].family = tokens[s].family

RevocationSawSuccessor ==
  \A c \in Calls :
    /\ pc[c] \in {"reuse", "revoking"} => ~Live(subject[c])
    /\ pc[c] = "revoking" =>
         \A s \in Issued : tokens[s].parent = subject[c] /\ Live(s) => s \in sighted[c]

SessionInv ==
  /\ SessionTypeOK
  /\ NothingCreatedYet
  /\ LoginsByUsers
  /\ PresentedExists
  /\ ClaimsExclusive
  /\ FamiliesOpened
  /\ SuccessorsOfRotated
  /\ RevocationSawSuccessor
  /\ ClaimedOnce
  /\ OneLivePerFamily
  /\ RotatedHasSuccessor
  /\ ReplayKillsSuccessor

(* The initial state: nothing is stored and no call has arrived. *)
LEMMA SessionInitInvariant == SessionInit => SessionInv
  BY DEF SessionInit, SessionInv, SessionTypeOK, NothingCreatedYet, LoginsByUsers, PresentedExists, TokenFound,
     ClaimsExclusive, FamiliesOpened, SuccessorsOfRotated, RevocationSawSuccessor,
     ClaimedOnce, OneLivePerFamily, RotatedHasSuccessor, ReplayKillsSuccessor, Issued

(* Steps that store and revoke nothing: they move a call, or the world.    *)
(* Each of them keeps every conjunct because the tokens are the same and   *)
(* the label a call moves to promises no more than the guard has seen.     *)
LEMMA QuietSessionStep ==
  ASSUME SessionInv,
         \/ \E c \in Calls :
              \/ Receive(c) \/ LoginAccepted(c) \/ LoginDenied(c) \/ ReadPresented(c)
              \/ Claim(c) \/ AbortRotation(c) \/ AskAccount(c) \/ LogoutUnknown(c)
              \/ Answer(c) \/ LoseAnswer(c) \/ StatementFails(c) \/ Expire(c)
         \/ \E u \in Accounts : SetActive(u)
         \/ Crash
         \/ UNCHANGED sessionVars
  PROVE  SessionInv'
<1> USE NoTokenIsNoToken, CallsAreCalls
    DEF SessionInv, SessionTypeOK, NothingCreatedYet, BeforeToken, LoginsByUsers, PresentedExists, TokenFound,
        ClaimsExclusive, FamiliesOpened, SuccessorsOfRotated, RevocationSawSuccessor,
        ClaimedOnce, OneLivePerFamily, RotatedHasSuccessor, ReplayKillsSuccessor,
        Issued, Live, FamilyOf, Goto, Underway, Ended
<1>1. ASSUME NEW c \in Calls, Receive(c) PROVE SessionInv'
  BY <1>1 DEF Receive
<1>2. ASSUME NEW c \in Calls, LoginAccepted(c) PROVE SessionInv'
  BY <1>2 DEF LoginAccepted
<1>3. ASSUME NEW c \in Calls, LoginDenied(c) PROVE SessionInv'
  BY <1>3 DEF LoginDenied
<1>4. ASSUME NEW c \in Calls, ReadPresented(c) PROVE SessionInv'
  BY <1>4 DEF ReadPresented
<1>5. ASSUME NEW c \in Calls, Claim(c) PROVE SessionInv'
  BY <1>5 DEF Claim, ClaimHolds, RowLocked
<1>6. ASSUME NEW c \in Calls, AbortRotation(c) PROVE SessionInv'
  BY <1>6 DEF AbortRotation
<1>7. ASSUME NEW c \in Calls, AskAccount(c) PROVE SessionInv'
  BY <1>7 DEF AskAccount
<1>8. ASSUME NEW c \in Calls, LogoutUnknown(c) PROVE SessionInv'
  BY <1>8 DEF LogoutUnknown
<1>9. ASSUME NEW c \in Calls, Answer(c) PROVE SessionInv'
  BY <1>9 DEF Answer
<1>10. ASSUME NEW c \in Calls, LoseAnswer(c) PROVE SessionInv'
  BY <1>10 DEF LoseAnswer
<1>11. ASSUME NEW c \in Calls, Expire(c) PROVE SessionInv'
  BY <1>11 DEF Expire
<1>12. ASSUME NEW u \in Accounts, SetActive(u) PROVE SessionInv'
  BY <1>12 DEF SetActive
<1>13. ASSUME Crash PROVE SessionInv'
  BY <1>13 DEF Crash
<1>14. ASSUME UNCHANGED sessionVars PROVE SessionInv'
  BY <1>14 DEF sessionVars
<1>15. ASSUME NEW c \in Calls, StatementFails(c) PROVE SessionInv'
  BY <1>15 DEF StatementFails
<1>16. QED
  BY <1>1, <1>2, <1>3, <1>4, <1>5, <1>6, <1>7, <1>8, <1>9, <1>10, <1>11, <1>12, <1>13, <1>14, <1>15

(* A login stores a token of a family nobody has seen. *)
LEMMA LoginStep ==
  ASSUME SessionInv, NEW c \in Calls, issueNewFamily(c)
  PROVE  SessionInv'
<1> USE NoTokenIsNoToken, CallsAreCalls DEF issueNewFamily, Goto, Issued, Live, FamilyOf
<1> DEFINE new == [user |-> subject[c], family |-> c, parent |-> NoCall, revoked |-> "no"]
<1>1. /\ tokens \in [Calls -> Token \union {NoToken}]
      /\ tokens[c] = NoToken
      /\ new \in Token
      /\ tokens' = [tokens EXCEPT ![c] = new]
  BY DEF SessionInv, SessionTypeOK, NothingCreatedYet, BeforeToken, LoginsByUsers, Token
<1>2. Issued' = Issued \union {c} /\ c \notin Issued
  BY <1>1
<1>3. SessionTypeOK'
  BY <1>1 DEF SessionInv, SessionTypeOK, Underway, Ended
<1>4. NothingCreatedYet' /\ LoginsByUsers' /\ PresentedExists' /\ ClaimsExclusive'
  BY <1>1, <1>2 DEF SessionInv, SessionTypeOK, NothingCreatedYet, BeforeToken, LoginsByUsers, PresentedExists,
     TokenFound, ClaimsExclusive
<1>5. FamiliesOpened' /\ OneLivePerFamily'
  BY <1>1, <1>2 DEF SessionInv, FamiliesOpened, OneLivePerFamily
<1>6. SuccessorsOfRotated' /\ RotatedHasSuccessor' /\ ClaimedOnce'
  BY <1>1, <1>2 DEF SessionInv, SuccessorsOfRotated, RotatedHasSuccessor, ClaimedOnce
<1>7. RevocationSawSuccessor' /\ ReplayKillsSuccessor'
  BY <1>1, <1>2 DEF SessionInv, SessionTypeOK, PresentedExists, TokenFound, RevocationSawSuccessor, ReplayKillsSuccessor
<1>8. QED
  BY <1>3, <1>4, <1>5, <1>6, <1>7 DEF SessionInv

(* A rotation revokes the row it holds and stores its replacement: the row *)
(* was the one live token of the family, and the replacement is the next.  *)
LEMMA RotationStep ==
  ASSUME SessionInv, NEW c \in Calls, CommitRotation(c)
  PROVE  SessionInv'
<1> DEFINE t == subject[c]
<1> USE NoTokenIsNoToken, CallsAreCalls
<1>1. /\ tokens \in [Calls -> Token \union {NoToken}]
      /\ t \in Calls /\ tokens[t] \in Token /\ tokens[t].revoked = "no"
      /\ tokens[c] = NoToken /\ t # c
      /\ Successor(c) \in Token
      /\ [tokens[t] EXCEPT !.revoked = "rotated"] \in Token
  BY DEF SessionInv, SessionTypeOK, NothingCreatedYet, BeforeToken, ClaimsExclusive, Token, CommitRotation,
     Issued, Live, FamilyOf, Successor
<1>2. tokens' = [tokens EXCEPT ![t] = [tokens[t] EXCEPT !.revoked = "rotated"], ![c] = Successor(c)]
  BY <1>1 DEF CommitRotation
<1>3. /\ \A s \in Calls : s # c /\ s # t => tokens'[s] = tokens[s]
      /\ tokens'[c].parent = t /\ tokens'[c].revoked = "no" /\ tokens'[c].family = tokens[t].family
      /\ tokens'[t].parent = tokens[t].parent /\ tokens'[t].revoked = "rotated"
      /\ tokens'[t].family = tokens[t].family
      /\ tokens'[c] \in Token /\ tokens'[t] \in Token
      /\ tokens' \in [Calls -> Token \union {NoToken}]
  BY <1>1, <1>2 DEF Successor, FamilyOf, Token
<1>4. /\ Issued' = Issued \union {c} /\ Issued \subseteq Calls
      /\ c \notin Issued /\ t \in Issued
  BY <1>1, <1>3 DEF Issued
<1>5. SessionTypeOK'
  BY <1>3 DEF SessionInv, SessionTypeOK, Underway, Ended, CommitRotation, Goto
<1>6. NothingCreatedYet' /\ LoginsByUsers' /\ PresentedExists'
  BY <1>1, <1>3, <1>4 DEF SessionInv, SessionTypeOK, NothingCreatedYet, BeforeToken, LoginsByUsers,
     PresentedExists, TokenFound, CommitRotation, Goto
<1>7. ClaimsExclusive'
  BY <1>1, <1>3, <1>4 DEF SessionInv, SessionTypeOK, ClaimsExclusive, CommitRotation, Goto, Live
<1>8. FamiliesOpened'
  BY <1>1, <1>3, <1>4 DEF SessionInv, FamiliesOpened, FamilyOf
<1>9. OneLivePerFamily'
  <2>1. \A s \in Issued : tokens[s].revoked = "no" /\ tokens[s].family = tokens[t].family => s = t
    BY <1>1, <1>4 DEF SessionInv, OneLivePerFamily, Live, FamilyOf
  <2>2. QED
    BY <2>1, <1>1, <1>3, <1>4 DEF SessionInv, OneLivePerFamily, Live, FamilyOf
<1>10. \A s \in Issued : tokens[s].parent # t
  BY <1>1 DEF SessionInv, SuccessorsOfRotated
<1>11. SuccessorsOfRotated'
  BY <1>3, <1>4 DEF SessionInv, SuccessorsOfRotated
<1>12. RotatedHasSuccessor'
  BY <1>3, <1>4 DEF SessionInv, RotatedHasSuccessor
<1>13. ClaimedOnce'
  BY <1>3, <1>4, <1>10 DEF SessionInv, ClaimedOnce
<1>14. RevocationSawSuccessor' /\ ReplayKillsSuccessor'
  <2>1. Live(t)
    BY <1>1, <1>4 DEF Live
  <2>2. /\ \A d \in Calls : pc'[d] # "rotated" => pc'[d] = pc[d]
        /\ subject' = subject /\ sighted' = sighted
    BY DEF SessionInv, SessionTypeOK, CommitRotation, Goto
  <2>3. \A d \in Calls : pc[d] \in {"reuse", "revoking", "reused"} =>
          subject[d] \in Issued /\ ~Live(subject[d])
    BY DEF SessionInv, PresentedExists, TokenFound, RevocationSawSuccessor, ReplayKillsSuccessor
  <2>4. /\ \A s \in Issued : s # t => tokens'[s] = tokens[s]
        /\ tokens'[t].revoked = "rotated"
    BY <1>3, <1>4
  <2>5. \A s \in Issued' :
          \/ s = c /\ tokens'[s].parent = t
          \/ s \in Issued /\ tokens'[s].parent = tokens[s].parent
    BY <1>3, <1>4
  <2>6. RevocationSawSuccessor'
    <3> SUFFICES ASSUME NEW d \in Calls, pc'[d] \in {"reuse", "revoking"}
                 PROVE  /\ tokens'[subject[d]].revoked # "no"
                        /\ pc'[d] = "revoking" =>
                             \A s \in Issued' : tokens'[s].parent = subject[d] /\ tokens'[s].revoked = "no"
                               => s \in sighted[d]
      BY <2>2 DEF RevocationSawSuccessor, Live
    <3>1. pc'[d] = pc[d] /\ subject[d] \in Issued /\ subject[d] # t /\ tokens'[subject[d]].revoked # "no"
      BY <2>1, <2>2, <2>3, <2>4 DEF Live
    <3>2. ASSUME NEW s \in Issued', pc'[d] = "revoking", tokens'[s].parent = subject[d], tokens'[s].revoked = "no"
          PROVE  s \in sighted[d]
      <4>1. s \in Issued /\ tokens[s].parent = subject[d] /\ Live(s)
        BY <2>4, <2>5, <3>1, <3>2 DEF Live
      <4>2. QED
        BY <4>1, <3>1, <3>2 DEF SessionInv, RevocationSawSuccessor
    <3>3. QED
      BY <3>1, <3>2, <2>2
  <2>7. ReplayKillsSuccessor'
    <3> SUFFICES ASSUME NEW d \in Calls, pc'[d] = "reused"
                 PROVE  /\ tokens'[subject[d]].revoked # "no"
                        /\ \A s \in Issued' : tokens'[s].parent = subject[d] => tokens'[s].revoked # "no"
      BY <2>2 DEF ReplayKillsSuccessor, Live
    <3>1. pc[d] = "reused" /\ subject[d] \in Issued /\ subject[d] # t /\ tokens'[subject[d]].revoked # "no"
      BY <2>1, <2>2, <2>3, <2>4 DEF Live
    <3>2. ASSUME NEW s \in Issued', tokens'[s].parent = subject[d]
          PROVE  tokens'[s].revoked # "no"
      <4>1. s \in Issued /\ tokens[s].parent = subject[d]
        BY <2>5, <3>1, <3>2
      <4>2. ~Live(s)
        BY <4>1, <3>1 DEF SessionInv, ReplayKillsSuccessor
      <4>3. QED
        BY <4>1, <4>2, <2>4 DEF Live
    <3>3. QED
      BY <3>1, <3>2
  <2>8. QED
    BY <2>6, <2>7
<1>15. QED
  BY <1>5, <1>6, <1>7, <1>8, <1>9, <1>11, <1>12, <1>13, <1>14 DEF SessionInv

(* A revocation starts from a presented token that is dead: its            *)
(* replacement, if it has one, is stored and in its snapshot.              *)
LEMMA RevocationStarts ==
  ASSUME SessionInv, NEW c \in Calls, StartRevocation(c)
  PROVE  SessionInv'
<1> USE NoTokenIsNoToken, CallsAreCalls
    DEF StartRevocation, Goto, Issued, Live, FamilyOf, Family
<1>1. SessionTypeOK'
  BY DEF SessionInv, SessionTypeOK, Underway, Ended
<1>2. NothingCreatedYet' /\ LoginsByUsers' /\ PresentedExists' /\ ClaimsExclusive'
  BY DEF SessionInv, SessionTypeOK, NothingCreatedYet, BeforeToken, LoginsByUsers, PresentedExists, TokenFound, ClaimsExclusive
<1>3. FamiliesOpened' /\ SuccessorsOfRotated' /\ ClaimedOnce' /\ OneLivePerFamily' /\ RotatedHasSuccessor'
  BY DEF SessionInv, FamiliesOpened, SuccessorsOfRotated, ClaimedOnce, OneLivePerFamily, RotatedHasSuccessor
<1>4. RevocationSawSuccessor' /\ ReplayKillsSuccessor'
  <2>1. subject[c] \in Issued
    OBVIOUS
  <2>2. pc'[c] = "revoking" => ~Live(subject[c])
    BY DEF SessionInv, SessionTypeOK, RevocationSawSuccessor
  <2>3. \A s \in Issued : tokens[s].parent = subject[c] /\ Live(s) =>
          FamilyOf(s) = FamilyOf(subject[c])
    BY <2>1, NoTokenIsNoToken, CallsAreCalls DEF SessionInv, SessionTypeOK, SuccessorsOfRotated, Token
  <2>4. QED
    BY <2>1, <2>2, <2>3 DEF SessionInv, SessionTypeOK, RevocationSawSuccessor, ReplayKillsSuccessor
<1>5. QED
  BY <1>1, <1>2, <1>3, <1>4 DEF SessionInv

(* A revocation ends: some live tokens die, none of them under a claim, and *)
(* nothing else about any token changes.                                    *)
LEMMA RevocationEnds ==
  ASSUME SessionInv, NEW c \in Calls, FinishRevocation(c)
  PROVE  SessionInv'
<1> USE NoTokenIsNoToken, CallsAreCalls
<1>1. /\ tokens \in [Calls -> Token \union {NoToken}]
      /\ tokens' \in [Calls -> Token \union {NoToken}]
  <2>1. \A t \in Calls : Live(t) => [tokens[t] EXCEPT !.revoked = "withFamily"] \in Token
    BY DEF SessionInv, SessionTypeOK, Live, Issued, Token
  <2>2. QED
    BY <2>1 DEF SessionInv, SessionTypeOK, FinishRevocation, Live
<1>2. Issued' = Issued
  BY <1>1 DEF FinishRevocation, Live, Issued, Token
<1>3. \A t \in Issued :
        /\ tokens'[t].parent = tokens[t].parent
        /\ tokens'[t].family = tokens[t].family
        /\ tokens'[t].user = tokens[t].user
        /\ tokens'[t].revoked =
             IF t \in sighted[c] /\ tokens[t].revoked = "no" THEN "withFamily" ELSE tokens[t].revoked
  BY <1>1 DEF FinishRevocation, Live, Issued, Token
<1>4. SessionTypeOK'
  BY <1>1 DEF SessionInv, SessionTypeOK, Underway, Ended, FinishRevocation, Goto
<1>5. NothingCreatedYet' /\ LoginsByUsers' /\ PresentedExists'
  <2>1. /\ subject' = subject /\ subject[c] \in Issued
        /\ \A d \in Calls : pc'[d] = pc[d] \/ (d = c /\ pc'[d] \in {"reused", "loggedOut", "failed", "gone"})
    <3>1. subject[c] \in Issued
      BY DEF SessionInv, FinishRevocation, PresentedExists, TokenFound
    <3>2. QED
      BY <3>1 DEF SessionInv, SessionTypeOK, FinishRevocation, Goto, PresentedExists, TokenFound
  <2>2. \A d \in Calls : tokens[d] = NoToken => tokens'[d] = NoToken
    BY <1>1, <1>2 DEF Issued
  <2>3. QED
    BY <1>2, <2>1, <2>2 DEF SessionInv, NothingCreatedYet, BeforeToken, LoginsByUsers, PresentedExists, TokenFound
<1>6. ClaimsExclusive'
  <2>1. \A d \in Calls : pc'[d] = "claimed" =>
          pc[d] = "claimed" /\ subject'[d] = subject[d] /\ subject[d] \notin sighted[c]
    BY DEF SessionInv, SessionTypeOK, FinishRevocation, Goto, RowLocked
  <2>2. QED
    BY <1>2, <1>3, <2>1 DEF SessionInv, ClaimsExclusive, Live
<1>7. FamiliesOpened' /\ OneLivePerFamily' /\ SuccessorsOfRotated' /\ RotatedHasSuccessor' /\ ClaimedOnce'
  BY <1>2, <1>3 DEF SessionInv, FamiliesOpened, OneLivePerFamily, SuccessorsOfRotated,
     RotatedHasSuccessor, ClaimedOnce, Live, FamilyOf
<1>8. RevocationSawSuccessor'
  <2>1. \A d \in Calls : pc'[d] \in {"reuse", "revoking"} =>
          pc'[d] = pc[d] /\ subject'[d] = subject[d] /\ sighted'[d] = sighted[d] /\ subject[d] \in Issued
    BY DEF SessionInv, SessionTypeOK, FinishRevocation, Goto, PresentedExists, TokenFound
  <2>2. QED
    BY <1>2, <1>3, <2>1 DEF SessionInv, RevocationSawSuccessor, Live
<1>9. ReplayKillsSuccessor'
  <2>1. \A d \in Calls : pc'[d] = "reused" =>
          /\ subject'[d] = subject[d] /\ subject[d] \in Issued
          /\ pc[d] = "reused" \/ (d = c /\ pc[d] = "revoking")
    BY DEF SessionInv, SessionTypeOK, FinishRevocation, Goto, PresentedExists, TokenFound
  <2>2. QED
    BY <1>2, <1>3, <2>1 DEF SessionInv, RevocationSawSuccessor, ReplayKillsSuccessor, Live
<1>10. QED
  BY <1>4, <1>5, <1>6, <1>7, <1>8, <1>9 DEF SessionInv

(* Every step keeps the invariant. *)
LEMMA SessionStepInvariant == SessionInv /\ [SessionNext]_sessionVars => SessionInv'
  BY QuietSessionStep, LoginStep, RotationStep, RevocationStarts, RevocationEnds DEF SessionNext, Handle

(* The inductive invariant holds in every reachable state. *)
LEMMA SessionInvariantHolds == SessionSpec => []SessionInv
  BY SessionInitInvariant, SessionStepInvariant, PTL DEF SessionSpec

(* Types, for any sets of calls and users. *)
THEOREM SessionsTypeCorrect == SessionSpec => []SessionTypeOK
<1>1. SessionInv => SessionTypeOK
  BY DEF SessionInv
<1>2. QED
  BY <1>1, SessionInvariantHolds, PTL

(* However many requests present one token at the same moment, it is       *)
(* exchanged at most once.                                                 *)
THEOREM ExchangedAtMostOnce == SessionSpec => []ClaimedOnce
<1>1. SessionInv => ClaimedOnce
  BY DEF SessionInv
<1>2. QED
  BY <1>1, SessionInvariantHolds, PTL

(* A session has at most one usable refresh token at any time. *)
THEOREM SessionsHaveOneToken == SessionSpec => []OneLivePerFamily
<1>1. SessionInv => OneLivePerFamily
  BY DEF SessionInv
<1>2. QED
  BY <1>1, SessionInvariantHolds, PTL

(* Claim and replacement are one: no token is used up for nothing. *)
THEOREM ClaimIsAtomic == SessionSpec => []RotatedHasSuccessor
<1>1. SessionInv => RotatedHasSuccessor
  BY DEF SessionInv
<1>2. QED
  BY <1>1, SessionInvariantHolds, PTL

(* The 401 for a replayed token means that the token and what it was       *)
(* exchanged for are dead.                                                 *)
THEOREM ReplayDetected == SessionSpec => []ReplayKillsSuccessor
<1>1. SessionInv => ReplayKillsSuccessor
  BY DEF SessionInv
<1>2. QED
  BY <1>1, SessionInvariantHolds, PTL

(* What one step may do to tokens: none disappears, none is revived, and a *)
(* new one opens a family of its own or replaces a live one.               *)
TokenOpensFamily(t) == tokens'[t].family = t

TokenReplacesLive(t) == \E s \in Issued : Live(s) /\ tokens'[t].family = tokens[s].family

LEMMA TokenHistory ==
  ASSUME SessionInv, [SessionNext]_sessionVars
  PROVE  /\ \A t \in Issued :
              /\ t \in Issued'
              /\ tokens'[t].family = tokens[t].family
              /\ tokens[t].revoked # "no" => tokens'[t].revoked # "no"
         /\ \A t \in Issued' \ Issued : TokenOpensFamily(t) \/ TokenReplacesLive(t)
<1> USE NoTokenIsNoToken
<1> DEFINE Goal ==
      /\ \A t \in Issued :
           /\ t \in Issued'
           /\ tokens'[t].family = tokens[t].family
           /\ tokens[t].revoked # "no" => tokens'[t].revoked # "no"
      /\ \A t \in Issued' \ Issued : TokenOpensFamily(t) \/ TokenReplacesLive(t)
<1>1. ASSUME tokens' = tokens PROVE Goal
  BY <1>1 DEF Issued
<1>2. ASSUME NEW c \in Calls, issueNewFamily(c) PROVE Goal
  BY <1>2 DEF SessionInv, SessionTypeOK, NothingCreatedYet, BeforeToken, issueNewFamily, Issued, TokenOpensFamily
<1>3. ASSUME NEW c \in Calls, CommitRotation(c) PROVE Goal
  BY <1>3 DEF SessionInv, SessionTypeOK, NothingCreatedYet, BeforeToken, ClaimsExclusive, CommitRotation,
     Successor, FamilyOf, Issued, Live, Token, TokenReplacesLive
<1>4. ASSUME NEW c \in Calls, FinishRevocation(c) PROVE Goal
  BY <1>4 DEF SessionInv, SessionTypeOK, FinishRevocation, Issued, Live, Token
<1>5. tokens' = tokens \/ \E c \in Calls : issueNewFamily(c) \/ CommitRotation(c) \/ FinishRevocation(c)
  BY DEF SessionNext, Handle, sessionVars, Receive, LoginAccepted, LoginDenied, ReadPresented, Claim, AbortRotation,
     AskAccount, StartRevocation, LogoutUnknown, Answer, LoseAnswer, StatementFails, Expire, SetActive, Crash
<1>6. QED
  BY <1>1, <1>2, <1>3, <1>4, <1>5

(* A dead family stays dead: after logout or replay detection have killed  *)
(* the last token and no rotation is open, only a login opens a session.   *)
THEOREM DeadStaysDead == SessionSpec => DeadFamilyStaysDead
<1>1. ASSUME SessionInv, SessionInv', [SessionNext]_sessionVars, NEW f \in Calls, Dead(f)
      PROVE  Dead(f)'
  <2>1. \A t \in Issued' : tokens'[t].family = f => t \in Issued /\ tokens'[t].revoked # "no"
    <3> SUFFICES ASSUME NEW t \in Issued', tokens'[t].family = f
                 PROVE  t \in Issued /\ tokens'[t].revoked # "no"
      OBVIOUS
    <3>1. CASE t \in Issued
      BY <3>1, <1>1, TokenHistory DEF Dead, Family, Live
    <3>2. CASE t \notin Issued
      <4>1. f \in Issued
        BY <1>1 DEF Dead, Family, SessionInv, FamiliesOpened, FamilyOf
      <4>2. \A s \in Issued : tokens[s].family = f => ~Live(s)
        BY <1>1 DEF Dead, Family
      <4>3. TokenOpensFamily(t) \/ TokenReplacesLive(t)
        BY <3>2, <1>1, TokenHistory
      <4>4. QED
        BY <4>1, <4>2, <4>3, <3>2 DEF TokenOpensFamily, TokenReplacesLive
    <3>3. QED
      BY <3>1, <3>2
  <2>2. \E t \in Issued' : tokens'[t].family = f
    BY <1>1, TokenHistory DEF Dead, Family
  <2>3. \A c \in Calls : pc'[c] = "claimed" => tokens'[subject'[c]].revoked = "no"
    BY <1>1 DEF SessionInv, ClaimsExclusive, Live
  <2>4. QED
    BY <2>1, <2>2, <2>3 DEF Dead, Family, Live, RowLocked
<1>2. SessionInv /\ SessionInv' /\ [SessionNext]_sessionVars => [\A f \in Calls : Dead(f) => Dead(f)']_sessionVars
  BY <1>1
<1>3. QED
  BY <1>2, SessionInvariantHolds, PTL DEF SessionSpec, DeadFamilyStaysDead

(***************************************************************************)
(* The sessions keep SessionLedger: what every label of a call shows of    *)
(* it, then one lemma for each promise that a step keeps.                  *)
(***************************************************************************)

(* What the ledger needs of a call besides: where a call's token is, who   *)
(* knows a token, and what a running revocation will reach.                *)
Refreshing == {"refresh", "claiming", "claimed", "rotated", "reuse", "revoking"}

CallFacts ==
  /\ \A c \in Calls :
       /\ pc[c] = "new" => subject[c] = NoCall /\ route[c] = "none"
       /\ pc[c] \in {"login", "issuing"} => route[c] = "login"
       /\ pc[c] \in Refreshing => route[c] = "refresh"
       /\ pc[c] \in {"logout", "leaving"} => route[c] = "logout"
       /\ pc[c] # "new" => route[c] # "none"
  /\ \A c \in Calls : pc[c] \in {"rotated", "issued"} => c \in Issued
  /\ \A c \in known : pc[c] = "ok"
  /\ \A c \in Calls : pc[c] \in {"revoking", "leaving"} =>
       /\ sighted[c] \subseteq Family(FamilyOf(subject[c]))
       /\ subject[c] \in Issued
       /\ Live(subject[c]) => subject[c] \in sighted[c]

(* A token that is stored stays stored, with its owner, family and parent. *)
LEMMA RowsStay ==
  ASSUME SessionInv, [SessionNext]_sessionVars, NEW t \in Issued
  PROVE  /\ t \in Issued'
         /\ tokens'[t].family = tokens[t].family
         /\ Live(t)' => Live(t)
  BY TokenHistory DEF Live

(* A step is a step of one call; the others stay where they are, unless    *)
(* the process dies under them.                                            *)
LEMMA OneCallMoves ==
  ASSUME SessionTypeOK, [SessionNext]_sessionVars, NEW d \in Calls
  PROVE  \/ Receive(d) \/ Handle(d) \/ StatementFails(d)
         \/ /\ pc'[d] = pc[d] /\ route'[d] = route[d] /\ subject'[d] = subject[d]
            /\ sighted'[d] = sighted[d] \/ pc[d] \notin Underway
         \/ /\ pc'[d] = "gone" /\ pc[d] \in Underway
            /\ route'[d] = route[d] /\ subject'[d] = subject[d]
<1> DEFINE Still ==
      /\ pc'[d] = pc[d] /\ route'[d] = route[d] /\ subject'[d] = subject[d]
      /\ sighted'[d] = sighted[d] \/ pc[d] \notin Underway
<1>1. ASSUME NEW c \in Calls, c # d, Receive(c) \/ Handle(c) \/ StatementFails(c) PROVE Still
  BY <1>1 DEF SessionTypeOK, Handle, Receive, LoginAccepted, LoginDenied, issueNewFamily, ReadPresented, Claim,
     CommitRotation, AbortRotation, AskAccount, StartRevocation, FinishRevocation, LogoutUnknown, Answer, LoseAnswer,
     StatementFails, Goto
<1>2. ASSUME NEW c \in Calls, Expire(c) PROVE Still
  BY <1>2 DEF Expire
<1>3. ASSUME NEW u \in Accounts, SetActive(u) PROVE Still
  BY <1>3 DEF SetActive
<1>4. ASSUME Crash
      PROVE  Still \/ (/\ pc'[d] = "gone" /\ pc[d] \in Underway
                       /\ route'[d] = route[d] /\ subject'[d] = subject[d])
  BY <1>4 DEF Crash
<1>5. ASSUME UNCHANGED sessionVars PROVE Still
  BY <1>5 DEF sessionVars
<1>6. QED
  BY <1>1, <1>2, <1>3, <1>4, <1>5 DEF SessionNext

(* These facts are kept: a label is reached only by the step that made     *)
(* them true, and a dead token stays dead.                                 *)
LEMMA CallFactsKept ==
  ASSUME SessionInv, CallFacts, [SessionNext]_sessionVars
  PROVE  CallFacts'
<1> USE NoTokenIsNoToken, CallsAreCalls
<1>1. Issued \subseteq Issued' /\ SessionTypeOK
  BY RowsStay DEF SessionInv
<1>2. \A c \in Calls : pc'[c] = "new" => pc[c] = "new" /\ subject'[c] = subject[c] /\ route'[c] = route[c]
  BY <1>1, OneCallMoves DEF SessionTypeOK, Receive, Handle, LoginAccepted, LoginDenied, issueNewFamily,
     ReadPresented, Claim, CommitRotation, AbortRotation, AskAccount, StartRevocation, FinishRevocation, LogoutUnknown,
     Answer, LoseAnswer, StatementFails, Goto, Underway
<1>3. \A c \in Calls : pc'[c] \in {"rotated", "issued"} =>
        pc[c] \in {"rotated", "issued"} \/ issueNewFamily(c) \/ CommitRotation(c)
  BY <1>1, OneCallMoves DEF SessionTypeOK, Receive, Handle, LoginAccepted, LoginDenied, issueNewFamily,
     ReadPresented, Claim, CommitRotation, AbortRotation, AskAccount, StartRevocation, FinishRevocation, LogoutUnknown,
     Answer, LoseAnswer, StatementFails, Goto, Underway
<1>4. \A c \in Calls : issueNewFamily(c) \/ CommitRotation(c) => c \in Issued'
  <2>1. ASSUME NEW c \in Calls, issueNewFamily(c) PROVE c \in Issued'
    BY <1>1, <2>1 DEF SessionTypeOK, issueNewFamily, Issued, SessionInv, LoginsByUsers, Token
  <2>2. ASSUME NEW c \in Calls, CommitRotation(c) PROVE c \in Issued'
    BY <1>1, <2>2 DEF SessionTypeOK, SessionInv, CommitRotation, Successor, ClaimsExclusive, Live, Issued, Token, FamilyOf
  <2>3. QED
    BY <2>1, <2>2
<1>5. \A c \in known' : pc'[c] = "ok"
  BY <1>1 DEF CallFacts, SessionTypeOK, SessionNext, Handle, sessionVars, Receive, LoginAccepted, LoginDenied,
     issueNewFamily, ReadPresented, Claim, CommitRotation, AbortRotation, AskAccount, StartRevocation,
     FinishRevocation, LogoutUnknown, Answer, LoseAnswer, StatementFails, Expire, SetActive, Crash, Goto, Underway
<1>6. \A c \in Calls : pc'[c] \in {"revoking", "leaving"} =>
        /\ subject'[c] = subject[c]
        /\ \/ pc[c] \in {"revoking", "leaving"} /\ sighted'[c] = sighted[c]
           \/ /\ subject[c] \in Issued
              /\ sighted'[c] = {t \in Family(FamilyOf(subject[c])) : Live(t)}
  BY <1>1, OneCallMoves DEF SessionTypeOK, Receive, Handle, LoginAccepted, LoginDenied, issueNewFamily,
     ReadPresented, Claim, CommitRotation, AbortRotation, AskAccount, StartRevocation, FinishRevocation, LogoutUnknown,
     Answer, LoseAnswer, StatementFails, Goto, Underway
<1>7. ASSUME NEW c \in Calls, pc'[c] \in {"revoking", "leaving"}
      PROVE  /\ sighted'[c] \subseteq Family(FamilyOf(subject[c]))'
             /\ subject'[c] \in Issued'
             /\ Live(subject[c])' => subject'[c] \in sighted'[c]
  <2>1. /\ sighted'[c] \subseteq Family(FamilyOf(subject[c]))
        /\ subject[c] \in Issued
        /\ Live(subject[c]) => subject[c] \in sighted'[c]
    BY <1>6, <1>7 DEF CallFacts, Family, FamilyOf
  <2>2. subject'[c] = subject[c]
    BY <1>6, <1>7
  <2>3. \A t \in Issued : t \in Issued' /\ tokens'[t].family = tokens[t].family /\ (Live(t)' => Live(t))
    BY RowsStay
  <2>4. QED
    BY <2>1, <2>2, <2>3 DEF Family, FamilyOf, Live
<1>8. \A c \in Calls :
        /\ pc'[c] \in {"login", "issuing"} => route'[c] = "login"
        /\ pc'[c] \in Refreshing => route'[c] = "refresh"
        /\ pc'[c] \in {"logout", "leaving"} => route'[c] = "logout"
        /\ pc'[c] # "new" => route'[c] # "none"
  BY <1>1, OneCallMoves DEF CallFacts, SessionTypeOK, Refreshing, Receive, Handle, LoginAccepted, LoginDenied,
     issueNewFamily, ReadPresented, Claim, CommitRotation, AbortRotation, AskAccount, StartRevocation,
     FinishRevocation, LogoutUnknown, Answer, LoseAnswer, StatementFails, Goto, Underway
<1>9. QED
  BY <1>1, <1>2, <1>3, <1>4, <1>5, <1>7, <1>8 DEF CallFacts

(* They hold at the start: nobody has asked. *)
LEMMA CallFactsInit == SessionInit => CallFacts
  BY DEF SessionInit, CallFacts, Refreshing

(* What the ledger shows of tokens follows from the tokens alone. *)
LEMMA SameTokens ==
  ASSUME tokens' = tokens
  PROVE  Granted' = Granted /\ Usable' = Usable
  BY DEF Granted, Usable, Live, Issued, FamilyOf

(* A call that goes on has been told nothing.                              *)
LEMMA SameTold ==
  ASSUME SessionTypeOK, NEW c \in Calls, pc[c] \notin Ended,
         NEW label \in Underway, Goto(c, label)
  PROVE  Told' = Told
  BY DEF SessionTypeOK, Told, Goto, Ended, Underway

(* A call that ends is told its answer, once.                              *)
LEMMA TellsAnswer ==
  ASSUME SessionTypeOK, NEW c \in Calls, pc[c] \notin Ended,
         NEW label \in Ended, Goto(c, label)
  PROVE  Sessions!Tell(c, label)
  BY DEF SessionTypeOK, Told, Goto, Ended, Underway, Sessions!Tell

(* A step that stores and revokes nothing and answers nobody. *)
LEMMA Unnoticed ==
  ASSUME UNCHANGED <<tokens, active, route, subject>>, Told' = Told
  PROVE  UNCHANGED Sessions!sessionLedgerVars
  BY SameTokens DEF Sessions!sessionLedgerVars

(* Nobody hears of a call again.                                           *)
LEMMA VanishesUnheard ==
  ASSUME SessionTypeOK, CallFacts, NEW lost \in SUBSET Calls,
         \A c \in lost : pc[c] \in Underway,
         pc' = [c \in Calls |-> IF c \in lost THEN "gone" ELSE pc[c]],
         UNCHANGED <<tokens, active, route, subject>>
  PROVE  Sessions!Vanish
<1>1. \A c \in lost : route[c] # "none" /\ Told[c] = "none"
  BY DEF CallFacts, Told, Underway, Ended
<1>2. Told' = [c \in Calls |-> IF c \in lost THEN "gone" ELSE Told[c]]
  BY <1>1 DEF Told, Ended
<1>3. lost \in SUBSET {c \in Calls : route[c] # "none" /\ Told[c] = "none"}
  BY <1>1
<1>4. QED
  BY <1>2, <1>3, SameTokens DEF Sessions!Vanish

(* An arrival asks with what a client was given, or with nothing known.    *)
LEMMA ReceiveAsksLedger ==
  ASSUME SessionInv, CallFacts, NEW c \in Calls, Receive(c)
  PROVE  Sessions!Ask(c)
<1>1. SessionTypeOK /\ pc[c] = "new" /\ route[c] = "none" /\ UNCHANGED <<tokens, active>>
  BY DEF SessionInv, CallFacts, Receive
<1>2. PICK to \in {"login", "refresh", "logout"} :
        /\ Goto(c, to) /\ route' = [route EXCEPT ![c] = to]
        /\ \E s \in IF to = "login" THEN Accounts ELSE known \union {NoCall} :
             subject' = [subject EXCEPT ![c] = s]
  BY DEF Receive
<1>3. Told' = Told /\ Told[c] = "none"
  BY <1>1, <1>2, SameTold DEF Told, Ended, Underway
<1>4. known \subseteq {t \in Calls : Told[t] = "ok"}
  BY <1>1 DEF CallFacts, SessionTypeOK, Told, Ended
<1>5. route'[c] = to
  BY <1>1, <1>2 DEF SessionTypeOK
<1>6. \E s \in IF route'[c] = "login" THEN Accounts ELSE {t \in Calls : Told[t] = "ok"} \union {NoCall} :
        subject' = [subject EXCEPT ![c] = s]
  BY <1>2, <1>4, <1>5
<1>7. QED
  BY <1>1, <1>2, <1>3, <1>6, SameTokens DEF Sessions!Ask

(* A login opens a session.                                                *)
LEMMA LoginOpens ==
  ASSUME SessionInv, CallFacts, NEW c \in Calls, issueNewFamily(c)
  PROVE  Sessions!Open(c)
<1> USE NoTokenIsNoToken, CallsAreCalls
<1>1. SessionTypeOK /\ pc[c] = "issuing" /\ route[c] = "login" /\ subject[c] \in Accounts /\ c \notin Issued
  BY DEF SessionInv, CallFacts, issueNewFamily, LoginsByUsers, NothingCreatedYet, BeforeToken, Issued
<1>2. Told' = Told /\ Told[c] = "none"
  BY <1>1, SameTold DEF issueNewFamily, Told, Ended, Underway
<1>3. /\ \A t \in Calls \ {c} : tokens'[t] = tokens[t]
      /\ tokens'[c] = [user |-> subject[c], family |-> c, parent |-> NoCall, revoked |-> "no"]
      /\ tokens'[c] \in Token
  BY <1>1 DEF issueNewFamily, SessionTypeOK, Token
<1>4. Issued' = Issued \union {c} /\ Usable' = Usable \union {c}
  BY <1>1, <1>3 DEF Issued, Usable, Live
<1>5. Granted' = [t \in DOMAIN Granted \union {c} |->
                    IF t = c THEN [user |-> subject[c], family |-> c, parent |-> NoCall] ELSE Granted[t]]
  BY <1>1, <1>3, <1>4 DEF Granted, FamilyOf, Issued
<1>6. QED
  BY <1>1, <1>2, <1>4, <1>5 DEF Sessions!Open, Sessions!Issue, issueNewFamily, Granted

(* The commit of a rotation is the exchange: the token was still good,     *)
(* because the claim kept its row live.                                    *)
LEMMA RotationExchanges ==
  ASSUME SessionInv, CallFacts, NEW c \in Calls, CommitRotation(c)
  PROVE  Sessions!Exchange(c)
<1> USE NoTokenIsNoToken, CallsAreCalls
<1>1. /\ SessionTypeOK /\ pc[c] = "claimed" /\ route[c] = "refresh" /\ c \notin Issued
      /\ subject[c] \in Issued /\ Live(subject[c]) /\ subject[c] \in Calls /\ subject[c] # c
      /\ tokens[subject[c]] \in Token
  BY DEF SessionInv, SessionTypeOK, CallFacts, Refreshing, CommitRotation, ClaimsExclusive, NothingCreatedYet,
     BeforeToken, Issued, Live
<1>2. Told' = Told /\ Told[c] = "none"
  BY <1>1, SameTold DEF CommitRotation, Told, Ended, Underway
<1>3. /\ \A t \in Calls \ {c, subject[c]} : tokens'[t] = tokens[t]
      /\ tokens'[c] = Successor(c)
      /\ tokens'[subject[c]] = [tokens[subject[c]] EXCEPT !.revoked = "rotated"]
  BY <1>1 DEF CommitRotation, SessionTypeOK
<1>4. /\ tokens'[c] \in Token /\ tokens'[c].revoked = "no"
      /\ tokens'[c].user = tokens[subject[c]].user
      /\ tokens'[c].family = tokens[subject[c]].family
      /\ tokens'[c].parent = subject[c]
  BY <1>1, <1>3 DEF Successor, Token, FamilyOf, SessionTypeOK
<1>5. /\ tokens'[subject[c]] \in Token /\ tokens'[subject[c]].revoked = "rotated"
      /\ tokens'[subject[c]].user = tokens[subject[c]].user
      /\ tokens'[subject[c]].family = tokens[subject[c]].family
      /\ tokens'[subject[c]].parent = tokens[subject[c]].parent
  BY <1>1, <1>3 DEF Token
<1>6. Issued' = Issued \union {c} /\ Usable' = (Usable \ {subject[c]}) \union {c}
  <2>1. Issued' = Issued \union {c}
    BY <1>1, <1>3, <1>4, <1>5 DEF Issued
  <2>2. \A t \in Calls : Live(t)' <=> t = c \/ (Live(t) /\ t # subject[c])
    BY <1>1, <1>3, <1>4, <1>5, <2>1 DEF Live
  <2>3. QED
    BY <2>1, <2>2, <1>1 DEF Usable
<1>7. Granted' = [t \in DOMAIN Granted \union {c} |->
         IF t = c THEN [user |-> Granted[subject[c]].user, family |-> Granted[subject[c]].family, parent |-> subject[c]]
         ELSE Granted[t]]
  BY <1>1, <1>3, <1>4, <1>5, <1>6 DEF Granted, FamilyOf, Issued
<1>8. QED
  BY <1>1, <1>2, <1>6, <1>7 DEF Sessions!Exchange, Sessions!Issue, CommitRotation, Granted, Usable

(* The end of a revocation revokes tokens of the presented token's family, *)
(* that token among them, whatever its caller hears of it.                 *)
LEMMA RevocationRevokes ==
  ASSUME SessionInv, CallFacts, SessionInv', NEW c \in Calls, FinishRevocation(c)
  PROVE  \E answer \in {"loggedOut", "reused", "failed", "gone"} : Sessions!Revoke(c, answer)
<1> USE NoTokenIsNoToken
<1>0. PICK answer \in {IF pc[c] = "revoking" THEN "reused" ELSE "loggedOut", "failed", "gone"} : Goto(c, answer)
  BY DEF FinishRevocation
<1>1. /\ SessionTypeOK /\ pc[c] \in {"revoking", "leaving"} /\ subject' = subject
      /\ subject[c] \in Issued /\ subject[c] \in Calls
      /\ sighted[c] \subseteq Family(FamilyOf(subject[c]))
      /\ Live(subject[c]) => subject[c] \in sighted[c]
  BY DEF SessionInv, CallFacts, FinishRevocation, Issued
<1>2. Sessions!Tell(c, answer) /\ pc'[c] = answer
  BY <1>0, <1>1, TellsAnswer DEF Ended, Goto, SessionTypeOK
<1>3. /\ Issued' = Issued
      /\ \A t \in Issued :
           /\ tokens'[t].user = tokens[t].user
           /\ tokens'[t].family = tokens[t].family
           /\ tokens'[t].parent = tokens[t].parent
      /\ Usable' = Usable \ sighted[c]
  <2>1. \A t \in Issued : tokens[t] \in Token
    BY <1>1 DEF SessionTypeOK, Issued
  <2>2. QED
    BY <2>1 DEF FinishRevocation, Issued, Live, Usable, Token
<1>4. Granted' = Granted
  BY <1>3 DEF Granted, FamilyOf
<1>5. /\ DOMAIN Granted = Issued
      /\ \A t \in Issued : Granted[t].family = tokens[t].family /\ Granted[t].parent = tokens[t].parent
      /\ Usable \subseteq Issued
  BY DEF Granted, FamilyOf, Usable, Live
<1>6. \A t \in Usable \ Usable' : Granted[t].family = Granted[subject[c]].family
  BY <1>1, <1>3, <1>5 DEF Family, FamilyOf
<1>7. subject[c] \notin Usable'
  BY <1>1, <1>3 DEF Usable
<1>8. /\ pc[c] = "revoking" => route[c] = "refresh" /\ subject[c] \notin Usable
      /\ pc[c] = "leaving" => route[c] = "logout"
  BY DEF CallFacts, Refreshing, SessionInv, RevocationSawSuccessor, Usable
<1>9. ASSUME answer = "reused"
      PROVE  \A t \in Usable' : Granted[t].parent # subject[c]
  <2>1. \A s \in Issued' : tokens'[s].parent = subject'[c] => s \notin Usable'
    BY <1>2, <1>9 DEF SessionInv, ReplayKillsSuccessor, Usable
  <2>2. QED
    BY <1>1, <1>3, <1>5, <2>1 DEF Usable
<1>10. UNCHANGED <<active, route>> /\ Usable' \subseteq Usable
  BY <1>3 DEF FinishRevocation
<1>11. /\ answer = "reused" => pc[c] = "revoking"
       /\ answer = "loggedOut" => pc[c] = "leaving"
  BY <1>1
<1>12. Sessions!Revoke(c, answer)
  BY <1>1, <1>2, <1>4, <1>5, <1>6, <1>7, <1>8, <1>9, <1>10, <1>11 DEF Sessions!Revoke
<1>13. QED
  BY <1>12

(* A refusal moves no token.                                               *)
LEMMA RefusalDenies ==
  ASSUME SessionTypeOK, NEW c \in Calls, pc[c] \notin Ended, Goto(c, "denied"),
         UNCHANGED <<tokens, active, route, subject>>, route[c] \in {"login", "refresh"},
         c \in Issued => route[c] = "refresh" /\ tokens[c].user \notin active
  PROVE  Sessions!Deny(c)
<1>1. Sessions!Tell(c, "denied")
  BY TellsAnswer DEF Ended
<1>2. DOMAIN Granted = Issued /\ (c \in Issued => Granted[c].user = tokens[c].user)
  BY DEF Granted
<1>3. QED
  BY <1>1, <1>2, SameTokens DEF Sessions!Deny

(* An error moves no token. *)
LEMMA ErrorFails ==
  ASSUME SessionTypeOK, CallFacts, NEW c \in Calls, pc[c] \in Underway, Goto(c, "failed"),
         UNCHANGED <<tokens, active, route, subject>>
  PROVE  Sessions!Fail(c)
<1>1. Sessions!Tell(c, "failed") /\ route[c] # "none"
  BY TellsAnswer DEF CallFacts, Underway, Ended
<1>2. QED
  BY <1>1, SameTokens DEF Sessions!Fail

(* Every step of a handler is one of the ledger's, or goes unnoticed.      *)
LEMMA HandlerKeepsLedger ==
  ASSUME SessionInv, CallFacts, SessionInv', NEW c \in Calls, Handle(c)
  PROVE  Sessions!Next \/ UNCHANGED Sessions!sessionLedgerVars
<1> USE NoTokenIsNoToken, CallsAreCalls
<1>0. SessionTypeOK
  BY DEF SessionInv
<1>1. ASSUME NEW label \in Underway, pc[c] \notin Ended, Goto(c, label),
             UNCHANGED <<tokens, active, route, subject>>
      PROVE  UNCHANGED Sessions!sessionLedgerVars
  BY <1>0, <1>1, SameTold, Unnoticed
<1>2. Sessions!Deny(c) \/ Sessions!Fail(c) \/ Sessions!Vanish => Sessions!Next
  BY DEF Sessions!Next
<1>3. CASE LoginAccepted(c)
  BY <1>1, <1>3 DEF LoginAccepted, Underway, Ended
<1>4. CASE LoginDenied(c)
  <2>1. c \notin Issued /\ route[c] = "login"
    BY <1>4 DEF LoginDenied, SessionInv, NothingCreatedYet, BeforeToken, Issued, CallFacts
  <2>2. QED
    BY <1>0, <1>2, <1>4, <2>1, RefusalDenies DEF LoginDenied, Ended
<1>5. CASE issueNewFamily(c)
  BY <1>5, LoginOpens DEF Sessions!Next
<1>6. CASE ReadPresented(c)
  <2>1. PICK label \in {"denied", "reuse", "claiming"} : Goto(c, label)
    BY <1>6 DEF ReadPresented
  <2>2. CASE label = "denied"
    <3>1. c \notin Issued /\ route[c] = "refresh"
      BY <1>6 DEF ReadPresented, SessionInv, NothingCreatedYet, BeforeToken, Issued, CallFacts, Refreshing
    <3>2. QED
      BY <1>0, <1>2, <1>6, <2>1, <2>2, <3>1, RefusalDenies DEF ReadPresented, Ended
  <2>3. CASE label # "denied"
    BY <1>1, <1>6, <2>1, <2>3 DEF ReadPresented, Underway, Ended
  <2>4. QED
    BY <2>2, <2>3
<1>7. CASE Claim(c)
  <2>1. PICK label \in {"claimed", "reuse"} : Goto(c, label)
    BY <1>7 DEF Claim
  <2>2. QED
    BY <1>1, <1>7, <2>1 DEF Claim, Underway, Ended
<1>8. CASE CommitRotation(c)
  BY <1>8, RotationExchanges DEF Sessions!Next
<1>9. CASE AbortRotation(c)
  BY <1>0, <1>2, <1>9, ErrorFails DEF AbortRotation, Underway
<1>10. CASE AskAccount(c)
  <2>1. PICK label \in {"issued", "denied"} :
          Goto(c, label) /\ (label = "denied" => tokens[c].user \notin active)
    BY <1>10 DEF AskAccount
  <2>2. CASE label = "denied"
    <3>1. route[c] = "refresh"
      BY <1>10 DEF AskAccount, CallFacts, Refreshing
    <3>2. QED
      BY <1>0, <1>2, <1>10, <2>1, <2>2, <3>1, RefusalDenies DEF AskAccount, Ended
  <2>3. CASE label = "issued"
    BY <1>1, <1>10, <2>1, <2>3 DEF AskAccount, Underway, Ended
  <2>4. QED
    BY <2>2, <2>3
<1>11. CASE StartRevocation(c)
  <2>1. PICK label \in {"revoking", "leaving"} : Goto(c, label)
    BY <1>11 DEF StartRevocation
  <2>2. QED
    BY <1>1, <1>11, <2>1 DEF StartRevocation, Underway, Ended
<1>12. CASE FinishRevocation(c)
  BY <1>12, RevocationRevokes DEF Sessions!Next
<1>13. CASE LogoutUnknown(c)
  <2>1. Sessions!Tell(c, "loggedOut")
    BY <1>0, <1>13, TellsAnswer DEF LogoutUnknown, Ended
  <2>2. /\ Granted' = Granted /\ Usable' = Usable /\ UNCHANGED <<active, route, subject>>
        /\ subject[c] \notin Usable /\ route[c] = "logout"
    BY <1>13, SameTokens DEF LogoutUnknown, Usable, Live, CallFacts
  <2>3. Sessions!Revoke(c, "loggedOut")
    BY <2>1, <2>2 DEF Sessions!Revoke
  <2>4. QED
    BY <2>3 DEF Sessions!Next
<1>14. CASE Answer(c)
  <2>1. Sessions!Tell(c, "ok") /\ c \in Issued
    BY <1>0, <1>14, TellsAnswer DEF Answer, Ended, CallFacts
  <2>2. Sessions!Give(c)
    BY <1>14, <2>1, SameTokens DEF Answer, Sessions!Give, Granted
  <2>3. QED
    BY <2>2 DEF Sessions!Next
<1>15. CASE LoseAnswer(c)
  <2> DEFINE lost == {c}
  <2>1. /\ pc' = [d \in Calls |-> IF d \in lost THEN "gone" ELSE pc[d]]
        /\ lost \in SUBSET Calls /\ \A d \in lost : pc[d] \in Underway
        /\ UNCHANGED <<tokens, active, route, subject>>
    BY <1>0, <1>15 DEF LoseAnswer, Goto, SessionTypeOK, Underway
  <2> HIDE DEF lost
  <2>2. Sessions!Vanish
    BY <1>0, <2>1, VanishesUnheard
  <2>3. QED
    BY <1>2, <2>2
<1>16. QED
  BY <1>3, <1>4, <1>5, <1>6, <1>7, <1>8, <1>9, <1>10, <1>11, <1>12, <1>13, <1>14, <1>15 DEF Handle

(* So is every other step: expiry moves no token, and errors, deactivation *)
(* and a crash move none either.                                           *)
LEMMA StepsKeepSessions ==
  ASSUME SessionInv, CallFacts, SessionInv', [SessionNext]_sessionVars
  PROVE  Sessions!Next \/ UNCHANGED Sessions!sessionLedgerVars
<1>0. SessionTypeOK
  BY DEF SessionInv
<1>1. ASSUME NEW c \in Calls, Receive(c) \/ Handle(c) \/ StatementFails(c)
      PROVE  Sessions!Next \/ UNCHANGED Sessions!sessionLedgerVars
  <2>1. CASE Receive(c)
    BY <2>1, ReceiveAsksLedger DEF Sessions!Next
  <2>2. CASE StatementFails(c)
    BY <1>0, <2>2, ErrorFails DEF StatementFails, Sessions!Next
  <2>3. QED
    BY <1>1, <2>1, <2>2, HandlerKeepsLedger
<1>2. ASSUME NEW c \in Calls, Expire(c) PROVE UNCHANGED Sessions!sessionLedgerVars
  BY <1>2, Unnoticed DEF Expire, Told
<1>3. ASSUME NEW u \in Accounts, SetActive(u) PROVE Sessions!Next
  BY <1>3, SameTokens DEF SetActive, Told, Sessions!SetActive, Sessions!Next
<1>4. ASSUME Crash PROVE Sessions!Next
  <2> DEFINE lost == {c \in Calls : pc[c] \in Underway}
  <2>1. pc' = [c \in Calls |-> IF c \in lost THEN "gone" ELSE pc[c]]
    BY <1>4 DEF Crash
  <2>2. QED
    BY <1>0, <1>4, <2>1, VanishesUnheard DEF Crash, Sessions!Next
<1>5. ASSUME UNCHANGED sessionVars PROVE UNCHANGED Sessions!sessionLedgerVars
  BY <1>5, Unnoticed DEF sessionVars, Told
<1>6. QED
  BY <1>1, <1>2, <1>3, <1>4, <1>5 DEF SessionNext

(* Sessions keep the ledger, for any accounts and any number of calls:     *)
(* each exchange is atomic whatever races it, and besides its exchange     *)
(* only a logout or a replay of its own session takes a token; one that is *)
(* refused after an exchange is refused for a deactivated account.         *)
THEOREM SessionsKept == SessionSpec => KeepsSessions
<1>1. SessionInit => Sessions!Init
  BY DEF SessionInit, Sessions!Init, Told, Granted, Usable, Live, Issued, Ended
<1>2. SessionSpec => []CallFacts
  BY CallFactsInit, CallFactsKept, SessionInvariantHolds, PTL DEF SessionSpec
<1>3. SessionInv /\ CallFacts /\ SessionInv' /\ [SessionNext]_sessionVars => [Sessions!Next]_(Sessions!sessionLedgerVars)
  BY StepsKeepSessions
<1>4. QED
  BY <1>1, <1>2, <1>3, SessionInvariantHolds, PTL DEF SessionSpec, KeepsSessions, Sessions!Spec
=============================================================================
