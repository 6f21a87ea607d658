---------------------------- MODULE RefreshTokens ----------------------------
(***************************************************************************)
(* Sessions: AuthService over RefreshTokenService.  Opaque refresh tokens  *)
(* rotate; presenting one that was already used revokes its whole family.  *)
(*                                                                         *)
(* The database runs at READ COMMITTED.  What that means here:             *)
(*   - a statement sees what was committed when it started;                *)
(*   - an UPDATE that meets a row locked by an open transaction waits, and *)
(*     then tests its WHERE again on the committed row;                    *)
(*   - it never learns of rows committed after it started.                 *)
(* An open rotation holds the lock of the one row it claimed; its writes   *)
(* exist nowhere but in its own pc until it commits.                       *)
(*                                                                         *)
(* A call creates at most one token, so a token's id is the call that      *)
(* created it, and a family's id is the login that opened it.              *)
(*                                                                         *)
(* A definition marked "Fault" is no part of the specification: it is the  *)
(* next definition with a plausible bug, which some property must notice.  *)
(***************************************************************************)
EXTENDS Integers, FiniteSets

CONSTANTS
  Calls,    \* HTTP calls: login, refresh or logout
  Accounts,
  NoCall,   \* no call, no token
  NoToken   \* a call that has created no token

ASSUME CallsAreCalls    == NoCall \notin Calls /\ Accounts \intersect Calls = {} /\ NoCall \notin Accounts

VARIABLES
  tokens,   \* refresh_tokens: the committed rows, by id
  expired,  \* tokens whose expiresAt has passed
  active,   \* users with isActive
  known,    \* tokens that reached a client
  pc,       \* where each call stands
  route,    \* what each call is
  subject,  \* the user who logs in, or the token presented
  sighted   \* the rows a running revokeFamily statement saw live

sessionVars == <<tokens, expired, active, known, pc, route, subject, sighted>>

Token ==
  [user    : Accounts,
   family  : Calls,
   parent  : Calls \union {NoCall},                \* the token it replaced (history)
   revoked : {"no", "rotated", "withFamily"}]      \* revokedAt, and by what it was set

ASSUME NoTokenIsNoToken == NoToken \notin Token

Underway == {"login", "issuing", "refresh", "claiming", "claimed", "rotated",
             "reuse", "revoking", "logout", "leaving", "issued"}
Ended   == {"ok", "loggedOut", "denied", "reused", "failed", "gone"}

SessionTypeOK ==
  /\ tokens \in [Calls -> Token \union {NoToken}]
  /\ expired \subseteq Calls
  /\ active \subseteq Accounts
  /\ known \subseteq Calls
  /\ pc \in [Calls -> {"new"} \union Underway \union Ended]
  /\ route \in [Calls -> {"none", "login", "refresh", "logout"}]
  /\ subject \in [Calls -> Accounts \union Calls \union {NoCall}]
  /\ sighted \in [Calls -> SUBSET Calls]

SessionInit ==
  /\ tokens = [c \in Calls |-> NoToken]
  /\ expired = {}
  /\ active = Accounts
  /\ known = {}
  /\ pc = [c \in Calls |-> "new"]
  /\ route = [c \in Calls |-> "none"]
  /\ subject = [c \in Calls |-> NoCall]
  /\ sighted = [c \in Calls |-> {}]

(***************************************************************************)
(* Helpers.                                                                *)
(***************************************************************************)

Goto(c, label) == pc' = [pc EXCEPT ![c] = label]

Issued    == {t \in Calls : tokens[t] # NoToken}
Live(t)   == t \in Issued /\ tokens[t].revoked = "no"
Family(f) == {t \in Issued : tokens[t].family = f}
FamilyOf(t) == tokens[t].family

(* Fault: a rotation whose process died is never rolled back. *)
LockedForGood(t) == \E c \in Calls : pc[c] \in {"claimed", "gone"} /\ subject[c] = t

(* An open rotation has claimed row t and not committed. *)
RowLocked(t) == \E c \in Calls : pc[c] = "claimed" /\ subject[c] = t

(***************************************************************************)
(* Arrival: a login, or a refresh or logout with a token some client       *)
(* holds, or with one the database does not know.                          *)
(***************************************************************************)

Receive(c) ==
  /\ pc[c] = "new"
  /\ \E to \in {"login", "refresh", "logout"} :
       /\ Goto(c, to)
       /\ route' = [route EXCEPT ![c] = to]
       /\ \E s \in IF to = "login" THEN Accounts ELSE known \union {NoCall} :
            subject' = [subject EXCEPT ![c] = s]
  /\ UNCHANGED <<tokens, expired, active, known, sighted>>

(***************************************************************************)
(* login.                                                                  *)
(***************************************************************************)

LoginAccepted(c) ==
  /\ pc[c] = "login"
  /\ subject[c] \in active
  /\ Goto(c, "issuing")
  /\ UNCHANGED <<tokens, expired, active, known, route, subject, sighted>>

(* Wrong password, unknown email or a deactivated account. *)
LoginDenied(c) ==
  /\ pc[c] = "login"
  /\ Goto(c, "denied")
  /\ UNCHANGED <<tokens, expired, active, known, route, subject, sighted>>

issueNewFamily(c) ==
  /\ pc[c] = "issuing"
  /\ tokens' = [tokens EXCEPT ![c] =
       [user |-> subject[c], family |-> c, parent |-> NoCall, revoked |-> "no"]]
  /\ Goto(c, "issued")
  /\ UNCHANGED <<expired, active, known, route, subject, sighted>>

(***************************************************************************)
(* refresh: rotateOrThrow, then the account check.                         *)
(***************************************************************************)

(* The read that opens rotateOrThrow.  Everything after it works from this *)
(* read, however old it has become.                                        *)
ReadPresented(c) ==
  LET t == subject[c]
  IN  /\ pc[c] = "refresh"
      /\ Goto(c, IF t \notin Issued THEN "denied"
                 ELSE IF ~Live(t) THEN "reuse"
                 ELSE IF t \in expired THEN "denied"
                 ELSE "claiming")
      /\ UNCHANGED <<tokens, expired, active, known, route, subject, sighted>>

(* Fault: the UPDATE tests for a successor only. *)
ClaimUnlessRotated(c) == tokens[subject[c]].revoked # "rotated"

(* The conditional UPDATE: it waits for the row's lock, and the row as it  *)
(* is then committed decides.  Losing the claim is treated as reuse.       *)
ClaimHolds(c) == Live(subject[c])

(* Fault: a lost claim is answered without revokeFamily. *)
ClaimLosesQuietly(c) ==
  /\ pc[c] = "claiming"
  /\ ~RowLocked(subject[c])
  /\ Goto(c, IF ClaimHolds(c) THEN "claimed" ELSE "reused")
  /\ UNCHANGED <<tokens, expired, active, known, route, subject, sighted>>

Claim(c) ==
  /\ pc[c] = "claiming"
  /\ ~RowLocked(subject[c])
  /\ Goto(c, IF ClaimHolds(c) THEN "claimed" ELSE "reuse")
  /\ UNCHANGED <<tokens, expired, active, known, route, subject, sighted>>

Successor(c) ==
  [user |-> tokens[subject[c]].user, family |-> FamilyOf(subject[c]),
   parent |-> subject[c], revoked |-> "no"]

(* Fault: the successor is inserted, the claim is not written. *)
CommitWithoutClaim(c) ==
  /\ pc[c] = "claimed"
  /\ tokens' = [tokens EXCEPT ![c] = Successor(c)]
  /\ Goto(c, "rotated")
  /\ UNCHANGED <<expired, active, known, route, subject, sighted>>

(* INSERT of the successor and COMMIT: claim and successor appear at once. *)
CommitRotation(c) ==
  /\ pc[c] = "claimed"
  /\ tokens' = [tokens EXCEPT ![subject[c]].revoked = "rotated", ![c] = Successor(c)]
  /\ Goto(c, "rotated")
  /\ UNCHANGED <<expired, active, known, route, subject, sighted>>

(* Fault: claim and insert do not share a transaction. *)
AbortKeepsClaim(c) ==
  /\ pc[c] \in {"claiming", "claimed"}
  /\ IF pc[c] = "claimed"
     THEN tokens' = [tokens EXCEPT ![subject[c]].revoked = "rotated"]
     ELSE UNCHANGED tokens
  /\ Goto(c, "failed")
  /\ UNCHANGED <<expired, active, known, route, subject, sighted>>

(* The insert fails, or the transaction outlives its timeout: rolled back. *)
AbortRotation(c) ==
  /\ pc[c] \in {"claiming", "claimed"}
  /\ Goto(c, "failed")
  /\ UNCHANGED <<tokens, expired, active, known, route, subject, sighted>>

(* AuthService.refresh asks for the account only after the rotation. *)
AskAccount(c) ==
  /\ pc[c] = "rotated"
  /\ Goto(c, IF tokens[c].user \in active THEN "issued" ELSE "denied")
  /\ UNCHANGED <<tokens, expired, active, known, route, subject, sighted>>

(***************************************************************************)
(* revokeFamily, from reuse detection and from logout.                     *)
(***************************************************************************)

(* The UPDATE starts: these are the rows it will ever see. *)
StartRevocation(c) ==
  /\ pc[c] \in {"reuse", "logout"}
  /\ subject[c] \in Issued
  /\ sighted' = [sighted EXCEPT ![c] = {t \in Family(FamilyOf(subject[c])) : Live(t)}]
  /\ Goto(c, IF pc[c] = "reuse" THEN "revoking" ELSE "leaving")
  /\ UNCHANGED <<tokens, expired, active, known, route, subject>>

(* It ends once none of them is locked; rows revoked meanwhile stay as     *)
(* they are.  The caller hears of it, or of an error only, or of nothing.  *)
FinishRevocation(c) ==
  /\ pc[c] \in {"revoking", "leaving"}
  /\ \A t \in sighted[c] : ~RowLocked(t)
  /\ tokens' = [t \in Calls |->
       IF t \in sighted[c] /\ Live(t)
       THEN [tokens[t] EXCEPT !.revoked = "withFamily"] ELSE tokens[t]]
  /\ sighted' = [sighted EXCEPT ![c] = {}]
  /\ \E label \in {IF pc[c] = "revoking" THEN "reused" ELSE "loggedOut", "failed", "gone"} :
       Goto(c, label)
  /\ UNCHANGED <<expired, active, known, route, subject>>

(* logout with no token, or one the database does not know, is a no-op. *)
LogoutUnknown(c) ==
  /\ pc[c] = "logout"
  /\ subject[c] \notin Issued
  /\ Goto(c, "loggedOut")
  /\ UNCHANGED <<tokens, expired, active, known, route, subject, sighted>>

(***************************************************************************)
(* The answer carries the new token, if it arrives.                        *)
(***************************************************************************)

Answer(c) ==
  /\ pc[c] = "issued"
  /\ known' = known \union {c}
  /\ Goto(c, "ok")
  /\ UNCHANGED <<tokens, expired, active, route, subject, sighted>>

LoseAnswer(c) ==
  /\ pc[c] = "issued"
  /\ Goto(c, "gone")
  /\ UNCHANGED <<tokens, expired, active, known, route, subject, sighted>>

Handle(c) ==
  \/ LoginAccepted(c)
  \/ LoginDenied(c)
  \/ issueNewFamily(c)
  \/ ReadPresented(c)
  \/ Claim(c)
  \/ CommitRotation(c)
  \/ AbortRotation(c)
  \/ AskAccount(c)
  \/ StartRevocation(c)
  \/ FinishRevocation(c)
  \/ LogoutUnknown(c)
  \/ Answer(c)
  \/ LoseAnswer(c)

(* A statement, or the signing of the access token, throws outside the     *)
(* rotation's transaction: a 500, and what has been committed stays.  A    *)
(* statement that took effect and then threw is that statement, and this.  *)
StatementFails(c) ==
  /\ pc[c] \in Underway \ {"claiming", "claimed"}
  /\ Goto(c, "failed")
  /\ sighted' = [sighted EXCEPT ![c] = {}]
  /\ UNCHANGED <<tokens, expired, active, known, route, subject>>

(***************************************************************************)
(* The rest of the system.                                                 *)
(***************************************************************************)

Expire(t) ==
  /\ t \in Issued \ expired
  /\ expired' = expired \union {t}
  /\ UNCHANGED <<tokens, active, known, pc, route, subject, sighted>>

(* updateUser flips isActive. *)
SetActive(u) ==
  /\ active' = IF u \in active THEN active \ {u} ELSE active \union {u}
  /\ UNCHANGED <<tokens, expired, known, pc, route, subject, sighted>>

(* The process dies: open transactions roll back, nobody is answered. *)
Crash ==
  /\ \E c \in Calls : pc[c] \in Underway
  /\ pc' = [c \in Calls |-> IF pc[c] \in Underway THEN "gone" ELSE pc[c]]
  /\ sighted' = [c \in Calls |-> {}]
  /\ UNCHANGED <<tokens, expired, active, known, route, subject>>

SessionNext ==
  \/ \E c \in Calls : Receive(c) \/ Handle(c) \/ StatementFails(c) \/ Expire(c)
  \/ \E u \in Accounts : SetActive(u)
  \/ Crash

(* A call in progress goes on: row locks are held by calls that go on too. *)
Fairness == \A c \in Calls : WF_sessionVars(Handle(c))

SessionSpec == SessionInit /\ [][SessionNext]_sessionVars /\ Fairness

(***************************************************************************)
(* Properties.                                                             *)
(***************************************************************************)

(* "One token can be claimed successfully exactly once, however many       *)
(* requests present it at the same moment."                                *)
ClaimedOnce ==
  \A s, t \in Issued : tokens[s].parent = tokens[t].parent /\ tokens[s].parent # NoCall => s = t

(* A family never has two usable tokens, through any mix of rotations,     *)
(* revocations, aborted transactions and crashes.                          *)
OneLivePerFamily == \A s, t \in Issued : Live(s) /\ Live(t) /\ FamilyOf(s) = FamilyOf(t) => s = t

(* A token is never left revoked by a rotation without its replacement.    *)
RotatedHasSuccessor ==
  \A t \in Issued : tokens[t].revoked = "rotated" => \E s \in Issued : tokens[s].parent = t

(* Whoever is answered "revoked" has killed what the presented token was   *)
(* exchanged for: when the 401 is out, the token and its replacement are   *)
(* both dead, also when the two presentations raced.                       *)
ReplayKillsSuccessor ==
  \A c \in Calls : pc[c] = "reused" =>
    /\ ~Live(subject[c])
    /\ \A s \in Issued : tokens[s].parent = subject[c] => ~Live(s)

(* A family is dead when it has no usable token and no open rotation that  *)
(* could still commit one.  It stays dead: only a new login helps.         *)
Dead(f) ==
  /\ Family(f) # {}
  /\ \A t \in Family(f) : ~Live(t) /\ ~RowLocked(t)

DeadFamilyStaysDead == [][\A f \in Calls : Dead(f) => Dead(f)']_sessionVars

(* Every call ends: waiting for row locks never blocks for good. *)
CallsEnd == \A c \in Calls : pc[c] \in Underway ~> pc[c] \in Ended

(***************************************************************************)
(* What clients are promised, as SessionLedger states it.  A claim that    *)
(* has not committed is none of its business; a token is good as long as   *)
(* its row is live.                                                        *)
(***************************************************************************)

Told    == [c \in Calls |-> IF pc[c] \in Ended THEN pc[c] ELSE "none"]
Granted == [t \in Issued |->
  [user |-> tokens[t].user, family |-> FamilyOf(t), parent |-> tokens[t].parent]]
Usable  == {t \in Calls : Live(t)}

Sessions == INSTANCE SessionLedger WITH
  asked <- subject, told <- Told, issued <- Granted, good <- Usable

(* Sessions keep the ledger: a token is taken by its exchange, which is one *)
(* step whatever races it, by a logout or by a replay, and by nothing else; *)
(* a call that made a token and is denied is for a deactivated account.     *)
KeepsSessions == Sessions!Spec

(***************************************************************************)
(* What the repository says of families and the code does not keep.        *)
(***************************************************************************)

(* "Logout revokes the whole family", and after reuse "the whole family is *)
(* revoked, forcing re-login".                                             *)
RevocationEndsFamily ==
  \A c \in Calls : pc[c] \in {"loggedOut", "reused"} /\ subject[c] \in Issued =>
    \A t \in Family(FamilyOf(subject[c])) : ~Live(t)
=============================================================================
