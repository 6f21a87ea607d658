------------------------- MODULE Deployment_proofs -------------------------
(***************************************************************************)
(* What the deploy guarantees for every number of runs, commits and kept   *)
(* releases, and whichever commits are broken.                             *)
(***************************************************************************)
EXTENDS Deployment, TLAPS

Deployable(r) == r \in whole /\ 1..sha[r] \subseteq applied

(* What the remote half relies on, command by command. *)
Ground ==
  /\ current <= runs /\ Deployable(current)
  /\ step \in Remote => prev \in Nat /\ prev <= runs /\ Deployable(prev)
  /\ step \in Remote \ {"extract"} => runs \in whole
  /\ step \in Remote \ {"extract", "migrate"} => 1..sha[runs] \subseteq applied

(* No release is ahead of main, and none of the one that passed the gate. *)
Order ==
  /\ \A r \in Releases : sha[r] <= main
  /\ step \in Remote \union {"ship"} => \A r \in Releases : sha[r] <= sha[runs]

Failed == {"remote failure", "unexpected", "runner lost"}
Harmless == {"superseded", "not the target", "failed before the decision", "failed shipping"}

(* What a script under way knows of its own job. *)
Outcomes ==
  /\ step \in Remote \union {"ship"} => gate = "success" /\ proceed = "true"
  /\ step \in Remote => ship = "success"

(* A run reports once, at its end, and reaches the server late. *)
Slot ==
  /\ last <= runs
  /\ step # "none" => runs # 0 /\ reports[runs] = "unset"
  /\ step \notin Remote \union {"none"} => last < runs /\ runs \notin began
  /\ \A r \in Releases : r > runs => reports[r] = "unset" /\ r \notin began

(* Where the link and the process are, between the commands that move      *)
(* them, and who answers for a pair that was not verified.                 *)
Link ==
  /\ step \in {"restart", "verify", "rollback", "restart back", "verify back"} => last = runs
  /\ step \in {"restart", "verify", "prune"} => current = runs
  /\ step \in {"verify", "verify back", "prune"} => process = current
  /\ step = "prune" => verified /\ Reads(runs)
  /\ ~ verified \/ process # current
       => last # 0 /\ ((step \in Remote /\ last = runs) \/ reports[last] \in Failed)

Honest ==
  \A r \in Releases :
    /\ reports[r] = "superseded" => sha[r] < main
    /\ reports[r] \in Harmless => r \notin began

(* A script that stops ends its run; what it had learned is kept, and the  *)
(* report is a failure of the remote half.                                 *)
LEMMA StopEnds ==
  ASSUME Stop
  PROVE  /\ step' = "none"
         /\ gate' = gate /\ proceed' = proceed /\ ship' = ship
         /\ gate = "success" /\ proceed = "true" /\ ship = "success"
              => \E f \in Failed : reports' = [reports EXCEPT ![runs] = f]
<1>0. "runner lost" \in Failed
  BY DEF Failed
<1>1. PICK c \in Lost : Conclude(gate, proceed, ship, c)
  BY DEF Stop
<1>2. gate = "success" /\ proceed = "true" /\ ship = "success"
        => Summary(gate, proceed, ship, c) \in Failed
  BY DEF Summary, Lost, Failed
<1> QED
  BY <1>0, <1>1, <1>2 DEF Conclude, End

(* The reports of the jobs' earlier ends. *)
LEMMA PrepareEnds ==
  Summary("skipped", "unset", "skipped", "skipped") = "failed before the decision"
  BY DEF Summary

LEMMA GateEnds ==
  /\ \A g \in Lost : Summary(g, "unset", "skipped", "skipped") = "failed before the decision"
  /\ Summary("success", "false", "skipped", "skipped") = "superseded"
  BY DEF Summary, Lost

LEMMA ShipEnds ==
  \A s \in Lost : Summary("success", "true", s, "skipped") \in {"failed shipping", "unexpected"}
  BY DEF Summary, Lost

LEMMA PruneEnds ==
  \A c \in {"success"} \union Lost :
    Conclude(gate, proceed, ship, c)
      => /\ step' = "none"
         /\ gate = "success" /\ proceed = "true" /\ ship = "success"
              => \E f \in {"released"} \union Failed : reports' = [reports EXCEPT ![runs] = f]
  BY DEF Conclude, End, Summary, Lost, Failed

(***************************************************************************)
(* The types, in two halves: what the workflow records, and the rest.      *)
(***************************************************************************)

JobTypes ==
  /\ step \in Steps
  /\ gate \in Outcome /\ proceed \in {"unset", "true", "false"} /\ ship \in Outcome /\ cutover \in Outcome
  /\ reports \in [Releases -> Report]

LEMMA EndTypes ==
  ASSUME TypeOK, NEW x \in Report, End(x)
  PROVE  step' \in Steps /\ reports' \in [Releases -> Report]
<1>1. "none" \in Steps
  BY DEF Steps
<1> QED
  BY <1>1 DEF TypeOK, End

LEMMA ConcludeTypes ==
  ASSUME TypeOK, NEW g \in Outcome, NEW p \in {"unset", "true", "false"}, NEW s \in Outcome,
         NEW c \in Outcome, Conclude(g, p, s, c)
  PROVE  JobTypes'
<1>1. Summary(g, p, s, c) \in Report /\ "runner lost" \in Report
  BY DEF Summary, Report
<1>2. End(Summary(g, p, s, c)) \/ End("runner lost")
  BY DEF Conclude
<1>3. step' \in Steps /\ reports' \in [Releases -> Report]
  BY <1>1, <1>2, EndTypes
<1>4. gate' \in Outcome /\ proceed' \in {"unset", "true", "false"} /\ ship' \in Outcome /\ cutover' \in Outcome
  BY DEF Conclude
<1> QED
  BY <1>3, <1>4 DEF JobTypes

LEMMA Outcomes4 ==
  /\ Lost \subseteq Outcome
  /\ "unset" \in Outcome /\ "success" \in Outcome /\ "skipped" \in Outcome
  BY DEF Lost, Outcome

LEMMA StopTypes ==
  ASSUME TypeOK, Stop
  PROVE  JobTypes'
<1>1. gate \in Outcome /\ proceed \in {"unset", "true", "false"} /\ ship \in Outcome
  BY DEF TypeOK
<1> QED
  BY <1>1, ConcludeTypes, Outcomes4 DEF Stop

(* A step that only moves the run on. *)
LEMMA MoveTypes ==
  ASSUME TypeOK, step' \in Steps, UNCHANGED <<given, reports>>
  PROVE  JobTypes'
  BY DEF TypeOK, JobTypes, given

LEMMA StepLabels ==
  /\ "none" \in Steps /\ "preflight" \in Steps /\ "checks" \in Steps /\ "prepare" \in Steps
  /\ "gate" \in Steps /\ "ship" \in Steps /\ "extract" \in Steps /\ "migrate" \in Steps
  /\ "swap" \in Steps /\ "restart" \in Steps /\ "verify" \in Steps /\ "rollback" \in Steps
  /\ "restart back" \in Steps /\ "verify back" \in Steps /\ "prune" \in Steps
  BY DEF Steps, Remote

LEMMA ReportLabels ==
  /\ "aborted" \in Report /\ "not the target" \in Report /\ "superseded" \in Report /\ "already current" \in Report
  /\ "checks failed" \in Report
  BY DEF Report

(* Every step keeps the types. *)
LEMMA TypeStep ==
  ASSUME TypeOK, Ground, [Next]_vars PROVE TypeOK'
<1> USE BoundsType
<1>1. CASE Merge
  <2>1. JobTypes'
    BY <1>1 DEF Merge, TypeOK, JobTypes, given
  <2> QED
    BY <1>1, <2>1 DEF Merge, TypeOK, JobTypes, server, past, Commits
<1>2. CASE Start
  <2>1. JobTypes'
    BY <1>2, StepLabels, Outcomes4 DEF Start, TypeOK, JobTypes
  <2> QED
    BY <1>2, <2>1 DEF Start, TypeOK, JobTypes, server, past, Commits, Releases
<1>3. CASE Preflight
  <2>1. JobTypes'
    BY <1>3, EndTypes, MoveTypes, StepLabels, ReportLabels DEF Preflight, TypeOK, JobTypes, given
  <2> QED
    BY <1>3, <2>1 DEF Preflight, TypeOK, JobTypes, server, past
<1>4. CASE Checks
  <2>1. JobTypes'
    BY <1>4, EndTypes, MoveTypes, StepLabels, ReportLabels DEF Checks, TypeOK, JobTypes, given
  <2> QED
    BY <1>4, <2>1 DEF Checks, TypeOK, JobTypes, server, past
<1>5. CASE Prepare
  <2>1. JobTypes'
    BY <1>5, ConcludeTypes, MoveTypes, StepLabels, Outcomes4 DEF Prepare
  <2> QED
    BY <1>5, <2>1 DEF Prepare, TypeOK, JobTypes, server, past
<1>6. CASE Gate
  <2>1. JobTypes'
    BY <1>6, ConcludeTypes, StepLabels, Outcomes4 DEF Gate, TypeOK, JobTypes
  <2> QED
    BY <1>6, <2>1 DEF Gate, TypeOK, JobTypes, server, past
<1>7. CASE Ship
  <2>1. JobTypes'
    BY <1>7, ConcludeTypes, StepLabels, Outcomes4 DEF Ship, TypeOK, JobTypes
  <2> QED
    BY <1>7, <2>1 DEF Ship, TypeOK, JobTypes, server, past, Release
<1>8. CASE Extract
  <2>1. JobTypes'
    BY <1>8, StopTypes, MoveTypes, StepLabels DEF Extract
  <2> QED
    BY <1>8, <2>1 DEF Extract, TypeOK, JobTypes, server, past, Release
<1>9. CASE Migrate
  <2>1. JobTypes'
    BY <1>9, StopTypes, MoveTypes, StepLabels DEF Migrate, TypeOK, JobTypes, given
  <2>2. Pending \subseteq Commits
    BY DEF Pending, Release, TypeOK, Commits, Releases
  <2>3. applied' \subseteq Commits /\ stuck' \in Commits \union {None}
    BY <1>9, <2>2 DEF Migrate, TypeOK
  <2> QED
    BY <1>9, <2>1, <2>3 DEF Migrate, TypeOK, JobTypes, server, past
<1>10. CASE Swap
  <2>1. JobTypes'
    BY <1>10, StopTypes, MoveTypes, StepLabels DEF Swap
  <2> QED
    BY <1>10, <2>1 DEF Swap, TypeOK, JobTypes, server, past, Release
<1>11. CASE Restart
  <2>1. JobTypes'
    BY <1>11, StopTypes, MoveTypes, StepLabels DEF Restart, Restarted
  <2> QED
    BY <1>11, <2>1 DEF Restart, TypeOK, JobTypes, server, past, Restarted
<1>12. CASE Verify
  <2>1. JobTypes'
    BY <1>12, StopTypes, MoveTypes, StepLabels DEF Verify
  <2> QED
    BY <1>12, <2>1 DEF Verify, TypeOK, JobTypes, server, past, VerifyApp, Live, Ready, Smoke, Reads
<1>13. CASE RollBack
  <2>1. JobTypes'
    BY <1>13, StopTypes, MoveTypes, StepLabels DEF RollBack
  <2>2. step = "rollback" => prev \in Releases
    BY DEF Ground, TypeOK, Releases, Remote
  <2> QED
    BY <1>13, <2>1, <2>2 DEF RollBack, TypeOK, JobTypes, server, past
<1>14. CASE RestartBack
  <2>1. JobTypes'
    BY <1>14, StopTypes, MoveTypes, StepLabels DEF RestartBack, Restarted
  <2> QED
    BY <1>14, <2>1 DEF RestartBack, TypeOK, JobTypes, server, past, Restarted
<1>15. CASE VerifyBack
  <2>1. JobTypes'
    BY <1>15, StopTypes DEF VerifyBack
  <2> QED
    BY <1>15, <2>1 DEF VerifyBack, TypeOK, JobTypes, server, past, VerifyApp, Live, Ready, Smoke, Reads
<1>16. CASE Prune
  <2>1. JobTypes'
    BY <1>16, ConcludeTypes, Outcomes4 DEF Prune, TypeOK
  <2> QED
    BY <1>16, <2>1 DEF Prune, TypeOK, JobTypes, server, past, Prunable, Newest
<1>17. CASE Database
  <2>1. JobTypes'
    BY <1>17 DEF Database, TypeOK, JobTypes, given
  <2> QED
    BY <1>17, <2>1 DEF Database, TypeOK, JobTypes, server, past
<1>18. CASE Reboot
  <2>1. JobTypes'
    BY <1>18, StopTypes DEF Reboot, TypeOK, JobTypes, given
  <2> QED
    BY <1>18, <2>1 DEF Reboot, TypeOK, JobTypes, server, past
<1>19. CASE Resolve
  <2>1. JobTypes'
    BY <1>19 DEF Resolve, TypeOK, JobTypes, given
  <2> QED
    BY <1>19, <2>1 DEF Resolve, TypeOK, JobTypes, server, past
<1>20. CASE UNCHANGED vars
  BY <1>20 DEF vars, TypeOK, server, past, given
<1> QED
  BY <1>1, <1>2, <1>3, <1>4, <1>5, <1>6, <1>7, <1>8, <1>9, <1>10, <1>11, <1>12, <1>13, <1>14, <1>15, <1>16, <1>17, <1>18, <1>19, <1>20 DEF Next

(* The numbers the releases go by. *)
LEMMA NextRelease ==
  ASSUME TypeOK, Start PROVE runs + 1 \in Releases /\ runs + 1 > runs
  BY BoundsType DEF TypeOK, Releases, Start

LEMMA CurrentIsNumber ==
  ASSUME TypeOK PROVE current \in Nat
  BY BoundsType DEF TypeOK, Releases

(* Every step keeps what the remote half relies on. *)
LEMMA GroundStep ==
  ASSUME TypeOK, Ground, [Next]_vars PROVE Ground'
<1> USE BoundsType, NoneIsNothing DEF TypeOK, Commits, Releases, Remote, server, past, given, Ground, Deployable
<1>1. CASE Merge
  BY <1>1 DEF Merge
<1>2. CASE Start
  BY <1>2 DEF Start
<1>3. CASE Preflight
  BY <1>3 DEF Preflight, End, IsTip, Release
<1>4. CASE Checks
  BY <1>4 DEF Checks, End
<1>5. CASE Prepare
  BY <1>5, PrepareEnds DEF Prepare, Conclude, End
<1>6. CASE Gate
  BY <1>6, GateEnds DEF Gate, Conclude, End, IsTip, Release, Lost
<1>7. CASE Ship
  <2>1. CASE step' = "none"
    BY <1>7, <2>1 DEF Ship
  <2>2. CASE step' # "none"
    <3>1. step' = "extract" /\ prev' = current /\ UNCHANGED <<runs, sha, whole, applied, current>>
      BY <1>7, <2>2 DEF Ship, Conclude, End
    <3>2. prev' \in Nat /\ prev' <= runs' /\ Deployable(current)
      BY <3>1, CurrentIsNumber
    <3> QED
      BY <3>1, <3>2
  <2> QED
    BY <2>1, <2>2
<1>8. CASE Extract
  BY <1>8, StopEnds DEF Extract, Release
<1>9. CASE Migrate
  BY <1>9, StopEnds DEF Migrate, Pending, Release
<1>10. CASE Swap
  <2>1. CASE Stop
    BY <1>10, <2>1, StopEnds DEF Swap, Release
  <2>2. CASE current' = runs /\ step' = "restart"
    BY <1>10, <2>2 DEF Swap
  <2> QED
    BY <1>10, <2>1, <2>2 DEF Swap, Release
<1>11. CASE Restart
  BY <1>11, StopEnds DEF Restart, Restarted
<1>12. CASE Verify
  BY <1>12, StopEnds DEF Verify, VerifyApp, Live, Ready, Smoke, CanRollBack, Release
<1>13. CASE RollBack
  BY <1>13, StopEnds DEF RollBack
<1>14. CASE RestartBack
  BY <1>14, StopEnds DEF RestartBack, Restarted
<1>15. CASE VerifyBack
  BY <1>15, StopEnds DEF VerifyBack, VerifyApp, Live, Ready, Smoke
<1>16. CASE Prune
  BY <1>16, PruneEnds DEF Prune, Prunable, Newest
<1>17. CASE Database
  BY <1>17 DEF Database
<1>18. CASE Reboot
  BY <1>18, StopEnds DEF Reboot
<1>19. CASE Resolve
  BY <1>19 DEF Resolve
<1>20. CASE UNCHANGED vars
  BY <1>20 DEF vars
<1> QED
  BY <1>1, <1>2, <1>3, <1>4, <1>5, <1>6, <1>7, <1>8, <1>9, <1>10, <1>11, <1>12, <1>13, <1>14, <1>15, <1>16, <1>17, <1>18, <1>19, <1>20 DEF Next

LEMMA Numbers ==
  ASSUME TypeOK
  PROVE  main \in Nat /\ runs \in Releases /\ \A r \in Releases : sha[r] \in Nat
  BY BoundsType DEF TypeOK, Releases, Commits

LEMMA MergeKeepsOrder ==
  ASSUME TypeOK, Order, Merge PROVE Order'
<1>1. main' = main + 1 /\ UNCHANGED <<runs, sha, step>>
  BY DEF Merge
<1>2. \A r \in Releases : sha[r] <= main + 1
  BY Numbers DEF Order
<1> QED
  BY <1>1, <1>2 DEF Order

(* A report of a moved branch stays true, because main only grows. *)
LEMMA MergeKeepsHonest ==
  ASSUME TypeOK, Honest, Merge PROVE Honest'
<1>1. main' = main + 1 /\ UNCHANGED <<sha, reports, began>>
  BY DEF Merge, past
<1> QED
  BY <1>1, Numbers DEF Honest

(* Writing the report of one run, which has not begun. *)
LEMMA ReportKeepsHonest ==
  ASSUME TypeOK, Order, Honest, UNCHANGED <<main, sha, began>>, runs \notin began,
         NEW x, reports' = [reports EXCEPT ![runs] = x],
         x = "superseded" => sha[runs] # main
  PROVE  Honest'
<1>1. sha[runs] <= main
  BY Numbers DEF Order
<1>2. \A r \in Releases : reports'[r] = IF r = runs THEN x ELSE reports[r]
  BY DEF TypeOK
<1>3. x = "superseded" => sha[runs] < main
  BY <1>1, Numbers
<1> QED
  BY <1>2, <1>3 DEF Honest

(* Every step keeps the order of the commits. *)
LEMMA OrderStep ==
  ASSUME TypeOK, Order, [Next]_vars PROVE Order'
<1> USE BoundsType, NoneIsNothing DEF TypeOK, Commits, Releases, Remote, server, past, given, Order
<1>1. CASE Merge
  BY <1>1, MergeKeepsOrder
<1>2. CASE Start
  BY <1>2 DEF Start
<1>3. CASE Preflight
  BY <1>3 DEF Preflight, End, IsTip, Release
<1>4. CASE Checks
  BY <1>4 DEF Checks, End
<1>5. CASE Prepare
  BY <1>5, PrepareEnds DEF Prepare, Conclude, End
<1>6. CASE Gate
  BY <1>6, GateEnds DEF Gate, Conclude, End, IsTip, Release
<1>7. CASE Ship
  BY <1>7, ShipEnds DEF Ship, Conclude, End, Release
<1>8. CASE Extract
  BY <1>8, StopEnds DEF Extract, Release
<1>9. CASE Migrate
  BY <1>9, StopEnds DEF Migrate, Pending, Release
<1>10. CASE Swap
  BY <1>10, StopEnds DEF Swap, Release
<1>11. CASE Restart
  BY <1>11, StopEnds DEF Restart, Restarted
<1>12. CASE Verify
  BY <1>12, StopEnds DEF Verify, VerifyApp, Live, Ready, Smoke, CanRollBack, Release
<1>13. CASE RollBack
  BY <1>13, StopEnds DEF RollBack
<1>14. CASE RestartBack
  BY <1>14, StopEnds DEF RestartBack, Restarted
<1>15. CASE VerifyBack
  BY <1>15, StopEnds DEF VerifyBack, VerifyApp, Live, Ready, Smoke
<1>16. CASE Prune
  BY <1>16, PruneEnds DEF Prune, Prunable, Newest
<1>17. CASE Database
  BY <1>17 DEF Database
<1>18. CASE Reboot
  BY <1>18, StopEnds DEF Reboot
<1>19. CASE Resolve
  BY <1>19 DEF Resolve
<1>20. CASE UNCHANGED vars
  BY <1>20 DEF vars
<1> QED
  BY <1>1, <1>2, <1>3, <1>4, <1>5, <1>6, <1>7, <1>8, <1>9, <1>10, <1>11, <1>12, <1>13, <1>14, <1>15, <1>16, <1>17, <1>18, <1>19, <1>20 DEF Next

(* Every step keeps what the script knows of its job. *)
LEMMA OutcomesStep ==
  ASSUME TypeOK, Outcomes, [Next]_vars PROVE Outcomes'
<1> USE BoundsType, NoneIsNothing DEF TypeOK, Commits, Releases, Remote, server, past, given, Outcomes
<1>1. CASE Merge
  BY <1>1 DEF Merge
<1>2. CASE Start
  BY <1>2 DEF Start
<1>3. CASE Preflight
  BY <1>3 DEF Preflight, End, IsTip, Release
<1>4. CASE Checks
  BY <1>4 DEF Checks, End
<1>5. CASE Prepare
  BY <1>5, PrepareEnds DEF Prepare, Conclude, End
<1>6. CASE Gate
  BY <1>6, GateEnds DEF Gate, Conclude, End, IsTip, Release
<1>7. CASE Ship
  BY <1>7, ShipEnds DEF Ship, Conclude, End, Release
<1>8. CASE Extract
  BY <1>8, StopEnds DEF Extract, Release
<1>9. CASE Migrate
  BY <1>9, StopEnds DEF Migrate, Pending, Release
<1>10. CASE Swap
  BY <1>10, StopEnds DEF Swap, Release
<1>11. CASE Restart
  BY <1>11, StopEnds DEF Restart, Restarted
<1>12. CASE Verify
  BY <1>12, StopEnds DEF Verify, VerifyApp, Live, Ready, Smoke, CanRollBack, Release
<1>13. CASE RollBack
  BY <1>13, StopEnds DEF RollBack
<1>14. CASE RestartBack
  BY <1>14, StopEnds DEF RestartBack, Restarted
<1>15. CASE VerifyBack
  BY <1>15, StopEnds DEF VerifyBack, VerifyApp, Live, Ready, Smoke
<1>16. CASE Prune
  BY <1>16, PruneEnds DEF Prune, Prunable, Newest
<1>17. CASE Database
  BY <1>17 DEF Database
<1>18. CASE Reboot
  BY <1>18, StopEnds DEF Reboot
<1>19. CASE Resolve
  BY <1>19 DEF Resolve
<1>20. CASE UNCHANGED vars
  BY <1>20 DEF vars
<1> QED
  BY <1>1, <1>2, <1>3, <1>4, <1>5, <1>6, <1>7, <1>8, <1>9, <1>10, <1>11, <1>12, <1>13, <1>14, <1>15, <1>16, <1>17, <1>18, <1>19, <1>20 DEF Next

(* A step that ends the run keeps its slot: only the run's own report is   *)
(* written, and later runs are untouched.                                  *)
LEMMA SlotEnds ==
  ASSUME TypeOK, Slot, UNCHANGED <<runs, began, last>>, step' = "none",
         NEW x, reports' = [reports EXCEPT ![runs] = x]
  PROVE  Slot'
<1>1. \A r \in Releases : r > runs => reports'[r] = reports[r]
  BY BoundsType DEF TypeOK, Releases
<1> QED
  BY <1>1 DEF Slot

LEMMA SlotMoves ==
  ASSUME Slot, UNCHANGED <<runs, reports, began, last>>,
         step' \in Remote <=> step \in Remote, step' = "none" <=> step = "none"
  PROVE  Slot'
  BY DEF Slot

(* A run still reports once. *)
LEMMA SlotStep ==
  ASSUME TypeOK, Outcomes, Slot, [Next]_vars PROVE Slot'
<1>0. ASSUME step \in Remote, Stop, UNCHANGED <<runs, began, last>>
      PROVE  Slot'
  <2>1. PICK f \in Failed : reports' = [reports EXCEPT ![runs] = f]
    BY <1>0, StopEnds DEF Outcomes
  <2> QED
    BY <1>0, <2>1, SlotEnds, StopEnds
<1>1. CASE Merge
  BY <1>1, SlotMoves DEF Merge, past
<1>2. CASE Start
  <2>1. runs \in Nat /\ last \in Nat /\ runs + 1 \in Releases
    BY <1>2, BoundsType DEF Start, TypeOK, Releases
  <2> QED
    BY <1>2, <2>1 DEF Start, past, Slot, Releases, Remote
<1>3. CASE Preflight
  BY <1>3, SlotEnds, SlotMoves DEF Preflight, End, past, Remote
<1>4. CASE Checks
  BY <1>4, SlotEnds, SlotMoves DEF Checks, End, past, Remote
<1>5. CASE Prepare
  BY <1>5, SlotEnds, SlotMoves DEF Prepare, Conclude, End, past, Remote
<1>6. CASE Gate
  BY <1>6, SlotEnds, SlotMoves DEF Gate, Conclude, End, past, Remote
<1>7. CASE Ship
  <2>1. CASE step' = "none"
    BY <1>7, <2>1, SlotEnds DEF Ship, Conclude, End
  <2>2. CASE step' = "extract" /\ began' = began \union {runs} /\ UNCHANGED reports
    BY <1>7, <2>2, BoundsType DEF Ship, Slot, Remote, TypeOK, Releases
  <2> QED
    BY <1>7, <2>1, <2>2 DEF Ship, Conclude, End, Release
<1>8. CASE Extract
  BY <1>8, <1>0, SlotMoves DEF Extract, past, Remote
<1>9. CASE Migrate
  BY <1>9, <1>0, SlotMoves DEF Migrate, past, Remote
<1>10. CASE Swap
  <2>1. CASE Stop /\ UNCHANGED last
    BY <1>10, <2>1, <1>0 DEF Swap, Remote
  <2>2. CASE step' = "restart" /\ last' = runs /\ UNCHANGED reports
    BY <1>10, <2>2, BoundsType DEF Swap, Slot, Remote, TypeOK, Releases
  <2> QED
    BY <1>10, <2>1, <2>2 DEF Swap, Release
<1>11. CASE Restart
  BY <1>11, <1>0, SlotMoves DEF Restart, Restarted, past, Remote
<1>12. CASE Verify
  BY <1>12, <1>0, SlotMoves DEF Verify, Remote
<1>13. CASE RollBack
  BY <1>13, <1>0, SlotMoves DEF RollBack, Remote
<1>14. CASE RestartBack
  BY <1>14, <1>0, SlotMoves DEF RestartBack, Restarted, past, Remote
<1>15. CASE VerifyBack
  BY <1>15, <1>0 DEF VerifyBack, Remote
<1>16. CASE Prune
  <2>1. step \in Remote /\ step # "none" /\ UNCHANGED <<runs, began, last>>
    BY <1>16 DEF Prune, Remote, past
  <2>2. PICK c \in {"success"} \union Lost : Conclude(gate, proceed, ship, c)
    BY <1>16 DEF Prune
  <2> QED
    BY <2>1, <2>2, SlotEnds DEF Conclude, End
<1>17. CASE Database
  BY <1>17, SlotMoves DEF Database, past
<1>18. CASE Reboot
  <2>1. CASE step \in Remote
    BY <1>18, <2>1, <1>0 DEF Reboot, past
  <2>2. CASE step \notin Remote
    BY <1>18, <2>2, SlotMoves DEF Reboot, past
  <2> QED
    BY <2>1, <2>2
<1>19. CASE Resolve
  BY <1>19, SlotMoves DEF Resolve, past
<1>20. CASE UNCHANGED vars
  BY <1>20, SlotMoves DEF vars, past
<1> QED
  BY <1>1, <1>2, <1>3, <1>4, <1>5, <1>6, <1>7, <1>8, <1>9, <1>10, <1>11, <1>12, <1>13, <1>14, <1>15, <1>16, <1>17, <1>18, <1>19, <1>20 DEF Next

(* Somebody still answers for the link. *)
LEMMA LinkStep ==
  ASSUME TypeOK, Outcomes, Slot, Link, [Next]_vars PROVE Link'
<1> USE BoundsType, NoneIsNothing DEF TypeOK, Commits, Releases, Remote, server, past, given, Outcomes, Slot, Link, Failed, Reads
<1>1. CASE Merge
  BY <1>1 DEF Merge
<1>2. CASE Start
  BY <1>2 DEF Start
<1>3. CASE Preflight
  BY <1>3 DEF Preflight, End, IsTip, Release
<1>4. CASE Checks
  BY <1>4 DEF Checks, End
<1>5. CASE Prepare
  BY <1>5, PrepareEnds DEF Prepare, Conclude, End
<1>6. CASE Gate
  BY <1>6, GateEnds DEF Gate, Conclude, End, IsTip, Release
<1>7. CASE Ship
  BY <1>7, ShipEnds DEF Ship, Conclude, End, Release
<1>8. CASE Extract
  BY <1>8, StopEnds DEF Extract, Release
<1>9. CASE Migrate
  BY <1>9, StopEnds DEF Migrate, Pending, Release
<1>10. CASE Swap
  BY <1>10, StopEnds DEF Swap, Release
<1>11. CASE Restart
  BY <1>11, StopEnds DEF Restart, Restarted
<1>12. CASE Verify
  BY <1>12, StopEnds DEF Verify, VerifyApp, Live, Ready, Smoke, CanRollBack, Release
<1>13. CASE RollBack
  BY <1>13, StopEnds DEF RollBack
<1>14. CASE RestartBack
  BY <1>14, StopEnds DEF RestartBack, Restarted
<1>15. CASE VerifyBack
  BY <1>15, StopEnds DEF VerifyBack, VerifyApp, Live, Ready, Smoke
<1>16. CASE Prune
  BY <1>16, PruneEnds DEF Prune, Prunable, Newest
<1>17. CASE Database
  BY <1>17 DEF Database
<1>18. CASE Reboot
  BY <1>18, StopEnds DEF Reboot
<1>19. CASE Resolve
  BY <1>19 DEF Resolve
<1>20. CASE UNCHANGED vars
  BY <1>20 DEF vars
<1> QED
  BY <1>1, <1>2, <1>3, <1>4, <1>5, <1>6, <1>7, <1>8, <1>9, <1>10, <1>11, <1>12, <1>13, <1>14, <1>15, <1>16, <1>17, <1>18, <1>19, <1>20 DEF Next

(* The claims stay true. *)
LEMMA HonestStep ==
  ASSUME TypeOK, Outcomes, Slot, Order, Honest, [Next]_vars PROVE Honest'
<1> USE BoundsType, NoneIsNothing DEF TypeOK, Commits, Releases, Remote, server, past, given, Outcomes, Slot, Order, Honest, Harmless, Failed
<1>1. CASE Merge
  BY <1>1, MergeKeepsHonest
<1>2. CASE Start
  <2>1. /\ UNCHANGED <<main, reports, began>>
        /\ \A r \in Releases : r # runs + 1 => sha'[r] = sha[r]
    BY <1>2 DEF Start
  <2>2. runs + 1 \in Releases /\ runs + 1 > runs
    BY <1>2, NextRelease
  <2>3. reports[runs + 1] = "unset"
    BY <2>2
  <2> QED
    BY <2>1, <2>3
<1>3. CASE Preflight
  BY <1>3, ReportKeepsHonest DEF Preflight, End, IsTip, Release
<1>4. CASE Checks
  BY <1>4 DEF Checks, End
<1>5. CASE Prepare
  BY <1>5, PrepareEnds DEF Prepare, Conclude, End
<1>6. CASE Gate
  BY <1>6, GateEnds, ReportKeepsHonest DEF Gate, Conclude, End, IsTip, Release
<1>7. CASE Ship
  <2>1. UNCHANGED <<main, sha>> /\ runs \notin began /\ reports[runs] = "unset"
    BY <1>7 DEF Ship
  <2>2. CASE UNCHANGED reports /\ began' = began \union {runs}
    BY <2>1, <2>2
  <2>3. CASE UNCHANGED began /\ \E x \in {"failed shipping", "unexpected"} : reports' = [reports EXCEPT ![runs] = x]
    BY <2>1, <2>3, ReportKeepsHonest
  <2> QED
    BY <1>7, <2>2, <2>3, ShipEnds DEF Ship, Conclude, End, Release
<1>8. CASE Extract
  BY <1>8, StopEnds DEF Extract, Release
<1>9. CASE Migrate
  BY <1>9, StopEnds DEF Migrate, Pending, Release
<1>10. CASE Swap
  BY <1>10, StopEnds DEF Swap, Release
<1>11. CASE Restart
  BY <1>11, StopEnds DEF Restart, Restarted
<1>12. CASE Verify
  BY <1>12, StopEnds DEF Verify, VerifyApp, Live, Ready, Smoke, CanRollBack, Release
<1>13. CASE RollBack
  BY <1>13, StopEnds DEF RollBack
<1>14. CASE RestartBack
  BY <1>14, StopEnds DEF RestartBack, Restarted
<1>15. CASE VerifyBack
  BY <1>15, StopEnds DEF VerifyBack, VerifyApp, Live, Ready, Smoke
<1>16. CASE Prune
  BY <1>16, PruneEnds DEF Prune, Prunable, Newest
<1>17. CASE Database
  BY <1>17 DEF Database
<1>18. CASE Reboot
  BY <1>18, StopEnds DEF Reboot
<1>19. CASE Resolve
  BY <1>19 DEF Resolve
<1>20. CASE UNCHANGED vars
  BY <1>20 DEF vars
<1> QED
  BY <1>1, <1>2, <1>3, <1>4, <1>5, <1>6, <1>7, <1>8, <1>9, <1>10, <1>11, <1>12, <1>13, <1>14, <1>15, <1>16, <1>17, <1>18, <1>19, <1>20 DEF Next

(***************************************************************************)
(* The theorems.                                                           *)
(***************************************************************************)

IInv == TypeOK /\ Ground /\ Order /\ Outcomes /\ Slot /\ Link /\ Honest

(* At first only the release in place is there, and it was verified. *)
LEMMA InitInvariant == Init => IInv
<1> SUFFICES ASSUME Init PROVE IInv
  OBVIOUS
<1> USE BoundsType, NoneIsNothing DEF Init
<1>1. TypeOK
  BY DEF TypeOK, Commits, Releases, Steps, Outcome, Report
<1>2. Ground
  BY DEF Ground, Deployable, Remote, Releases
<1>3. Order
  BY DEF Order, Remote, Releases
<1>4. Outcomes /\ Slot /\ Link
  BY DEF Outcomes, Slot, Link, Remote, Releases
<1>5. Honest
  BY DEF Honest, Harmless, Releases
<1> QED
  BY <1>1, <1>2, <1>3, <1>4, <1>5 DEF IInv

(* Every step keeps the whole invariant. *)
LEMMA StepInvariant == IInv /\ [Next]_vars => IInv'
  BY TypeStep, GroundStep, OrderStep, OutcomesStep, SlotStep, LinkStep, HonestStep DEF IInv

THEOREM Invariance == Spec => []IInv
<1> QED
  BY InitInvariant, StepInvariant, PTL DEF Spec

(* The types hold for every bound; that a rollback has somewhere to go is  *)
(* part of why (Ground).                                                   *)
THEOREM Types == Spec => []TypeOK
<1>1. IInv => TypeOK
  BY DEF IInv
<1> QED
  BY <1>1, Invariance, PTL

(* Wherever a run is lost, the service can start from the link: extraction *)
(* and migration come before the swap, pruning spares the link, and the    *)
(* rollback goes to a release that was the link.                           *)
THEOREM LinkIsDeployable == Spec => []CurrentIsDeployable
<1>1. IInv => CurrentIsDeployable
  BY DEF IInv, Ground, Deployable, CurrentIsDeployable
<1> QED
  BY <1>1, Invariance, PTL

(* Nobody leaves the server in an unverified state without a report that   *)
(* says so, and no report claims what the run did not see.                 *)
THEOREM ReportsHold == Spec => []ReportsAreTrue
<1>1. ASSUME IInv PROVE ReportsAreTrue
  <2>1. step = "none" /\ (~ verified \/ process # current) => last # 0 /\ reports[last] \in Failed
    BY <1>1 DEF IInv, Link, Remote
  <2>2. ASSUME NEW r \in Releases
        PROVE  /\ reports[r] = "superseded" => sha[r] # main
               /\ reports[r] \in Harmless => r \notin began
    BY <1>1, Numbers DEF IInv, Honest
  <2> QED
    BY <2>1, <2>2 DEF ReportsAreTrue, Failed, Harmless
<1> QED
  BY <1>1, Invariance, PTL

(* A release is reported by the step that prunes, and pruning comes after  *)
(* the process of that release has answered from the database.             *)
LEMMA ReleasedStep ==
  ASSUME IInv, [Next]_vars, NEW r \in Releases, reports[r] # "released", reports'[r] = "released"
  PROVE  current = r /\ process = r /\ Reads(r)
<1> USE DEF IInv
<1>1. ASSUME NEW x, reports' = [reports EXCEPT ![runs] = x] PROVE r = runs /\ x = "released"
  BY <1>1 DEF TypeOK
<1>2. reports' # reports
  OBVIOUS
<1>3. ASSUME step \in Remote, Stop PROVE FALSE
  <2>1. PICK f \in Failed : reports' = [reports EXCEPT ![runs] = f]
    BY <1>3, StopEnds DEF Outcomes
  <2> QED
    BY <2>1, <1>1 DEF Failed
<1>4. Prune
  <2>1. ~ (Merge \/ Start \/ Database \/ Resolve \/ UNCHANGED vars)
    BY <1>2 DEF Merge, Start, Database, Resolve, vars
  <2>2. ~ (Preflight \/ Checks)
    BY <1>1, <1>2 DEF Preflight, Checks, End
  <2>3. ~ Prepare
    BY <1>1, <1>2, PrepareEnds DEF Prepare, Conclude, End
  <2>4. ~ Gate
    BY <1>1, <1>2, GateEnds DEF Gate, Conclude, End
  <2>5. ~ Ship
    BY <1>1, <1>2, ShipEnds DEF Ship, Conclude, End, Outcomes
  <2>6. ~ (Extract \/ Migrate \/ Swap)
    BY <1>2, <1>3 DEF Extract, Migrate, Swap, Remote
  <2>7. ~ (Restart \/ RestartBack)
    BY <1>2, <1>3 DEF Restart, RestartBack, Restarted, Remote
  <2>8. ~ (Verify \/ RollBack \/ VerifyBack)
    BY <1>2, <1>3 DEF Verify, RollBack, VerifyBack, Remote
  <2>9. ~ Reboot
    BY <1>2, <1>3 DEF Reboot
  <2> QED
    BY <2>1, <2>2, <2>3, <2>4, <2>5, <2>6, <2>7, <2>8, <2>9 DEF Next
<1>5. r = runs
  <2>1. PICK c \in {"success"} \union Lost : Conclude(gate, proceed, ship, c)
    BY <1>4 DEF Prune
  <2> QED
    BY <2>1, <1>1 DEF Conclude, End
<1> QED
  BY <1>4, <1>5 DEF Prune, Link

(* What is reported as released serves from the database. *)
THEOREM ReleasesServe == Spec => ReleasedServes
<1>1. IInv /\ [Next]_vars
        => [\A r \in Releases : reports[r] # "released" /\ reports'[r] = "released"
              => current = r /\ process = r /\ Reads(r)]_vars
  BY ReleasedStep
<1> QED
  BY <1>1, Invariance, PTL DEF Spec, ReleasedServes

(* Only a swap and a rollback move the link, and what passed the gate is   *)
(* as new as anything that was ever started.                               *)
LEMMA LinkStepForward ==
  ASSUME IInv, [Next]_vars, current' # current
  PROVE  sha[current'] >= sha[current] \/ (step = "rollback" /\ current' = prev)
<1>1. Swap \/ RollBack
  BY DEF Next, vars, server, Merge, Start, Preflight, Checks, Prepare, Gate, Ship, Extract, Migrate,
     Restart, Verify, RestartBack, VerifyBack, Prune, Database, Reboot, Resolve
<1>2. CASE Swap
  <2>1. current' = runs /\ step \in Remote
    BY <1>2 DEF Swap, Release, Remote
  <2>2. sha[current] <= sha[runs] /\ runs \in Releases
    BY <2>1 DEF IInv, Order, TypeOK
  <2> QED
    BY <2>1, <2>2, Numbers DEF IInv, TypeOK
<1>3. CASE RollBack
  BY <1>3 DEF RollBack
<1> QED
  BY <1>1, <1>2, <1>3

(* However runs are started again, an old commit never replaces a newer    *)
(* one.                                                                    *)
THEOREM LinkNeverGoesBack == Spec => NeverGoesBack
<1>1. IInv /\ [Next]_vars
        => [current' # current
              => sha[current'] >= sha[current] \/ (step = "rollback" /\ current' = prev)]_vars
  BY LinkStepForward
<1> QED
  BY <1>1, Invariance, PTL DEF Spec, NeverGoesBack
=============================================================================
