----------------------------- MODULE Deployment -----------------------------
(***************************************************************************)
(* The production deploy: the workflow's runs, one at a time, and the      *)
(* script each pipes to the server, command by command, with the files,    *)
(* the schema and the process it works on.  A run may be lost at any       *)
(* command, and the script stops with it.                                  *)
(*                                                                         *)
(* A release is named by the run that built it; 0 is the one in place.     *)
(* Commits are numbered as main takes them, and each brings a migration.   *)
(*                                                                         *)
(* A definition marked "Fault" is no part of the specification: it is the  *)
(* next definition with a plausible bug, which some property must notice.  *)
(***************************************************************************)
EXTENDS Integers, FiniteSets

CONSTANTS
  MaxRuns,    \* bound: runs of the workflow
  MaxCommit,  \* bound: commits main takes
  Keep,       \* KEEP_RELEASES
  Broken,     \* commits whose code cannot read the database
  Breaking,   \* commits whose migration removes what earlier code reads
  None

ASSUME BoundsType == MaxRuns \in Nat /\ MaxCommit \in Nat \ {0} /\ Keep \in Nat \ {0}
ASSUME CommitsType == Broken \subseteq 2..MaxCommit /\ Breaking \subseteq 2..MaxCommit
ASSUME NoneIsNothing == None \notin Nat

VARIABLES
  main,     \* the tip of the branch
  runs,     \* how many runs have started; the last is the one in the slot
  sha,      \* release -> the commit it was built from
  step,     \* where the run in the slot is
  gate, proceed, ship, cutover, \* the outcomes the summary is given
  reports,  \* run -> how it was reported
  trees,    \* the release directories
  whole,    \* those that hold all of their release
  current,  \* the release the link names
  prev,     \* PREV
  applied,  \* the migrations the schema has
  stuck,    \* the migration recorded as failed, or None
  process,  \* the release the service was started from, or None
  db,       \* the database answers
  verified, \* verify_app passed since `current` last moved (history)
  began,    \* the runs whose remote half began (history)
  last      \* the last run that moved `current` (history)

server == <<trees, whole, current, prev, applied, stuck, process>>
past   == <<verified, began, last>>
given  == <<gate, proceed, ship, cutover>>
vars   == <<main, runs, sha, step, given, reports, server, db, past>>

Commits  == 1..MaxCommit
Releases == 0..MaxRuns

Remote  == {"extract", "migrate", "swap", "restart", "verify", "rollback", "restart back",
            "verify back", "prune"}
Steps   == Remote \union {"none", "preflight", "checks", "prepare", "gate", "ship"}
Outcome == {"unset", "success", "failure", "cancelled", "skipped"}
Report  == {"unset", "aborted", "not the target", "superseded", "already current",
            "checks failed", "released", "failed before the decision", "failed shipping",
            "remote failure", "unexpected", "runner lost"}

(* The run in the slot, and the release it builds. *)
Release == runs

(* Fault: a tip that cannot be told is taken for the commit at hand. *)
AnyTip(c) == c \in Commits

(* The main-tip lookup, when it answers. *)
IsTip(c) == c = main

(***************************************************************************)
(* The report.                                                             *)
(***************************************************************************)

(* Fault: a decision that was never written reads as "main moved". *)
AbsenceAsSuperseded(g, p, s, c) ==
  CASE p # "true" -> "superseded"
    [] p = "true" /\ s = "success" /\ c = "success" -> "released"
    [] p = "true" /\ s = "failure" -> "failed shipping"
    [] OTHER -> "remote failure"

(* deploy-summary.sh *)
Summary(g, p, s, c) ==
  CASE g = "success" /\ p = "true" /\ s = "success" /\ c = "success" -> "released"
    [] g = "success" /\ p = "false" /\ s = "skipped" /\ c = "skipped" -> "superseded"
    [] g \notin {"unset", "success"} /\ s = "skipped" /\ c = "skipped" -> "failed before the decision"
    [] g = "success" /\ p = "true" /\ s = "failure" /\ c = "skipped" -> "failed shipping"
    [] g = "success" /\ p = "true" /\ s = "success" /\ c = "failure" -> "remote failure"
    [] OTHER -> "unexpected"

End(report) ==
  /\ step' = "none"
  /\ reports' = [reports EXCEPT ![runs] = report]

(* The deploy job ends: its last step reports whatever happened, unless    *)
(* the runner itself is lost, of which GitHub says that and no more.       *)
Conclude(g, p, s, c) ==
  /\ gate' = g /\ proceed' = p /\ ship' = s /\ cutover' = c
  /\ End(Summary(g, p, s, c)) \/ End("runner lost")

Lost == {"failure", "cancelled"}

(* The script stops: a command failed under `set -e`, or the run was lost. *)
Stop == \E c \in Lost : Conclude(gate, proceed, ship, c)

(***************************************************************************)
(* The workflow.                                                           *)
(***************************************************************************)

Merge ==
  /\ main < MaxCommit
  /\ main' = main + 1
  /\ UNCHANGED <<runs, sha, step, given, reports, server, db, past>>

(* A push, the merged-PR fallback, or a run started again by hand: the     *)
(* concurrency group admits one at a time.                                 *)
Start ==
  /\ step = "none" /\ runs < MaxRuns
  /\ runs' = runs + 1
  /\ \E c \in 1..main : sha' = [sha EXCEPT ![runs + 1] = c]
  /\ step' = "preflight"
  /\ gate' = "unset" /\ proceed' = "unset" /\ ship' = "unset" /\ cutover' = "unset"
  /\ UNCHANGED <<main, reports, server, db, past>>

(* target_sha, an input of a run started by hand, is read here only.  The  *)
(* live release is read over ssh; an unreadable one is taken for none.     *)
Preflight ==
  /\ step = "preflight"
  /\ \/ End("aborted")
     \/ \E target \in Commits : target # sha[Release] /\ End("not the target")
     \/ ~ IsTip(sha[Release]) /\ End("superseded")
     \/ IsTip(sha[Release]) /\ sha[current] = sha[Release] /\ End("already current")
     \/ IsTip(sha[Release]) /\ step' = "checks" /\ UNCHANGED reports
  /\ UNCHANGED <<main, runs, sha, given, server, db, past>>

(* The verify and e2e jobs, and the owner's approval. *)
Checks ==
  /\ step = "checks"
  /\ \/ End("checks failed")
     \/ step' = "prepare" /\ UNCHANGED reports
  /\ UNCHANGED <<main, runs, sha, given, server, db, past>>

(* Checkout, build and packaging. *)
Prepare ==
  /\ step = "prepare"
  /\ \/ Conclude("skipped", "unset", "skipped", "skipped")
     \/ step' = "gate" /\ UNCHANGED <<given, reports>>
  /\ UNCHANGED <<main, runs, sha, server, db, past>>

(* "Re-check github.sha is still current main" *)
Gate ==
  /\ step = "gate"
  /\ \/ \E g \in Lost : Conclude(g, "unset", "skipped", "skipped")
     \/ ~ IsTip(sha[Release]) /\ Conclude("success", "false", "skipped", "skipped")
     \/ /\ IsTip(sha[Release])
        /\ step' = "ship"
        /\ gate' = "success" /\ proceed' = "true"
        /\ UNCHANGED <<ship, cutover, reports>>
  /\ UNCHANGED <<main, runs, sha, server, db, past>>

(* scp; then the script starts, and reads what `current` names. *)
Ship ==
  /\ step = "ship"
  /\ \/ /\ \E s \in Lost : Conclude(gate, proceed, s, "skipped")
        /\ UNCHANGED <<began, prev>>
     \/ /\ step' = "extract"
        /\ ship' = "success"
        /\ prev' = current
        /\ began' = began \union {Release}
        /\ UNCHANGED <<gate, proceed, cutover, reports>>
  /\ UNCHANGED <<main, runs, sha, trees, whole, current, applied, stuck, process, db, verified, last>>

(***************************************************************************)
(* remote-cutover.sh                                                       *)
(***************************************************************************)

(* The tree may be left half extracted. *)
Extract ==
  /\ step = "extract"
  /\ trees' = trees \union {Release}
  /\ \/ whole' = whole \union {Release} /\ step' = "migrate" /\ UNCHANGED <<given, reports>>
     \/ UNCHANGED whole /\ Stop
  /\ UNCHANGED <<main, runs, sha, current, prev, applied, stuck, process, db, past>>

Pending == 1..sha[Release] \ applied

(* Fault: a failed migration does not stop the script. *)
MigrateOrGoOn ==
  /\ step = "migrate"
  /\ \/ Pending = {} /\ step' = "swap" /\ UNCHANGED <<applied, stuck, given, reports>>
     \/ /\ stuck = None /\ db
        /\ \E m \in Pending :
             /\ \A n \in Pending : m <= n
             /\ \/ applied' = applied \union {m} /\ UNCHANGED <<stuck, step, given, reports>>
                \/ stuck' = m /\ step' = "swap" /\ UNCHANGED <<applied, given, reports>>
     \/ Stop /\ UNCHANGED <<applied, stuck>>
  /\ UNCHANGED <<main, runs, sha, trees, whole, current, prev, process, db, past>>

(* `prisma migrate deploy`, one migration at a time: a migration that      *)
(* fails, or is cut off, is recorded, and until someone resolves it every  *)
(* later call fails.                                                       *)
Migrate ==
  /\ step = "migrate"
  /\ \/ /\ Pending = {} /\ stuck = None /\ db
        /\ step' = "swap"
        /\ UNCHANGED <<applied, stuck, given, reports>>
     \/ /\ stuck = None /\ db
        /\ \E m \in Pending :
             /\ \A n \in Pending : m <= n
             /\ \/ applied' = applied \union {m} /\ UNCHANGED <<stuck, step, given, reports>>
                \/ stuck' = m /\ Stop /\ UNCHANGED applied
     \/ Stop /\ UNCHANGED <<applied, stuck>>
  /\ UNCHANGED <<main, runs, sha, trees, whole, current, prev, process, db, past>>

(* ln -sfn, mv -Tf *)
Swap ==
  /\ step = "swap"
  /\ \/ /\ current' = Release /\ last' = Release
        /\ verified' = FALSE
        /\ step' = "restart"
        /\ UNCHANGED <<given, reports>>
     \/ Stop /\ UNCHANGED <<current, last, verified>>
  /\ UNCHANGED <<main, runs, sha, trees, whole, prev, applied, stuck, process, db, began>>

(* systemctl restart: a restart that fails leaves the old process, or no   *)
(* process.                                                                *)
Restarted(next) ==
  \/ process' = current /\ step' = next /\ UNCHANGED <<given, reports>>
  \/ process' \in {process, None} /\ Stop

Restart ==
  /\ step = "restart"
  /\ Restarted("verify")
  /\ UNCHANGED <<main, runs, sha, trees, whole, current, prev, applied, stuck, db, past>>

Reads(r) == sha[r] \notin Broken /\ ~ \E c \in applied : c \in Breaking /\ c > sha[r]

Live  == process # None
Ready == Live /\ db
Smoke == Ready /\ Reads(process)

(* Fault: the gate of 2026-08-14. *)
LivenessOnly == Live

VerifyApp == Live /\ Ready /\ Smoke

CanRollBack == prev \in trees /\ prev # Release

(* The health gate. *)
Verify ==
  /\ step = "verify"
  /\ \/ VerifyApp /\ verified' = TRUE /\ step' = "prune" /\ UNCHANGED <<given, reports>>
     \/ /\ ~ VerifyApp /\ CanRollBack
        /\ step' = "rollback"
        /\ UNCHANGED <<verified, given, reports>>
     \/ Stop /\ UNCHANGED verified
  /\ UNCHANGED <<main, runs, sha, server, db, began, last>>

RollBack ==
  /\ step = "rollback"
  /\ \/ current' = prev /\ verified' = FALSE /\ step' = "restart back" /\ UNCHANGED <<given, reports>>
     \/ Stop /\ UNCHANGED <<current, verified>>
  /\ UNCHANGED <<main, runs, sha, trees, whole, prev, applied, stuck, process, db, began, last>>

RestartBack ==
  /\ step = "restart back"
  /\ Restarted("verify back")
  /\ UNCHANGED <<main, runs, sha, trees, whole, current, prev, applied, stuck, db, past>>

(* The target gets the same checks, and the script ends with exit 1. *)
VerifyBack ==
  /\ step = "verify back"
  /\ verified' \in {verified, VerifyApp}
  /\ Stop
  /\ UNCHANGED <<main, runs, sha, server, db, began, last>>

(* The newest, in whatever order the directories' times put them. *)
Newest == {k \in SUBSET trees : Cardinality(k) = Keep \/ (k = trees /\ Cardinality(trees) < Keep)}

(* Fault: the live release is pruned like any other. *)
PrunableAny == {trees \ k : k \in Newest}

(* Releases beyond the newest Keep, and never the live one, "whatever the  *)
(* mtime ordering claims".                                                 *)
Prunable == {trees \ (k \union {current}) : k \in Newest}

(* prune_old_releases is never fatal: a tree that cannot be removed stays, *)
(* and may have lost files.                                                *)
Prune ==
  /\ step = "prune"
  /\ \E old \in Prunable : \E gone \in SUBSET old :
       trees' = trees \ gone /\ whole' = whole \ old
  /\ \E c \in {"success"} \union Lost : Conclude(gate, proceed, ship, c)
  /\ UNCHANGED <<main, runs, sha, current, prev, applied, stuck, process, db, past>>

(***************************************************************************)
(* The server.                                                             *)
(***************************************************************************)

(* The database comes and goes. *)
Database ==
  /\ db' = ~ db
  /\ UNCHANGED <<main, runs, sha, step, given, reports, server, past>>

(* The machine restarts: a script on it is lost, and the service starts    *)
(* from `current`.                                                         *)
Reboot ==
  /\ process' = current
  /\ IF step \in Remote THEN Stop ELSE UNCHANGED <<step, given, reports>>
  /\ UNCHANGED <<main, runs, sha, trees, whole, current, prev, applied, stuck, db, past>>

(* `prisma migrate resolve`, by hand: rolled back, or brought to its end. *)
Resolve ==
  /\ stuck # None /\ step = "none"
  /\ stuck' = None
  /\ applied' \in {applied, applied \union {stuck}}
  /\ UNCHANGED <<main, runs, sha, step, given, reports, trees, whole, current, prev, process, db, past>>

Init ==
  /\ main = 1 /\ runs = 0 /\ step = "none"
  /\ sha = [r \in Releases |-> 1]
  /\ gate = "unset" /\ proceed = "unset" /\ ship = "unset" /\ cutover = "unset"
  /\ reports = [r \in Releases |-> "unset"]
  /\ trees = {0} /\ whole = {0} /\ current = 0 /\ prev = None
  /\ applied = {1} /\ stuck = None /\ process = 0 /\ db = TRUE
  /\ verified = TRUE /\ began = {} /\ last = 0

Next ==
  \/ Merge \/ Start \/ Preflight \/ Checks \/ Prepare \/ Gate \/ Ship
  \/ Extract \/ Migrate \/ Swap \/ Restart \/ Verify \/ RollBack \/ RestartBack \/ VerifyBack \/ Prune
  \/ Database \/ Reboot \/ Resolve

Spec == Init /\ [][Next]_vars

(***************************************************************************)
(* Properties.                                                             *)
(***************************************************************************)

TypeOK ==
  /\ main \in Commits /\ runs \in Releases /\ sha \in [Releases -> Commits] /\ step \in Steps
  /\ gate \in Outcome /\ proceed \in {"unset", "true", "false"} /\ ship \in Outcome /\ cutover \in Outcome
  /\ reports \in [Releases -> Report]
  /\ trees \subseteq Releases /\ whole \subseteq trees
  /\ current \in Releases /\ prev \in Releases \union {None}
  /\ applied \subseteq Commits /\ stuck \in Commits \union {None}
  /\ process \in Releases \union {None} /\ db \in BOOLEAN
  /\ verified \in BOOLEAN /\ began \subseteq Releases /\ last \in Releases

(* Whatever command a run is lost at, the link names a release that is     *)
(* there, complete, with every migration its code was written for: after a *)
(* crash the service can start (remote-cutover.sh:105-119, 86-90).         *)
CurrentIsDeployable ==
  current \in whole /\ 1..sha[current] \subseteq applied

(* A run reported as released left a process of that very release serving  *)
(* from the database, not merely listening (remote-cutover.sh:11-18).      *)
ReleasedServes ==
  [][\A r \in Releases : reports[r] # "released" /\ reports'[r] = "released"
       => current = r /\ process = r /\ Reads(r)]_vars

(* An unverified link, and a process that is not the link's, are never     *)
(* left in silence: the run that moved the link last was reported as       *)
(* failed, in the remote half, or as lost with its runner.  A report that  *)
(* claims that the branch moved on is true, and so is one by which the     *)
(* server was left alone (deploy-summary.sh:8-10).                         *)
ReportsAreTrue ==
  /\ step = "none" /\ (~ verified \/ process # current)
       => last # 0 /\ reports[last] \in {"remote failure", "unexpected", "runner lost"}
  /\ \A r \in Releases :
       /\ reports[r] = "superseded" => sha[r] # main
       /\ reports[r] \in {"not the target", "superseded", "failed before the decision", "failed shipping"}
            => r \notin began

(* Except for a rollback, the link never moves to an older commit than it  *)
(* names, in whichever order runs are started and started again            *)
(* (deploy.yml:20-28).                                                     *)
NeverGoesBack ==
  [][current' # current => sha[current'] >= sha[current] \/ (step = "rollback" /\ current' = prev)]_vars
=============================================================================
