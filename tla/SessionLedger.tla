---------------------------- MODULE SessionLedger ----------------------------
(***************************************************************************)
(* What a client is promised of its session, with no statements, no row    *)
(* locks, no clock and no process that dies: which tokens have been given  *)
(* out for what, and which of them are still good.                         *)
(*                                                                         *)
(* A good token is exchanged in one step: it stops being good as its       *)
(* replacement becomes good, and no other step replaces it.  Besides that, *)
(* tokens only stop being good by a logout or a replay, and only those of  *)
(* the presented token's session.                                          *)
(*                                                                         *)
(* What this does not promise: that the replacement is delivered.  A call  *)
(* may fail, die, or be denied for a deactivated account after its         *)
(* exchange; the presented token is spent then, and nobody is told of the  *)
(* token made for it.                                                      *)
(***************************************************************************)
CONSTANTS
  Calls, Accounts,
  NoCall     \* a call that presents nothing, or an unknown token

VARIABLES
  active,  \* the accounts that may hold a session
  route,   \* what each call is: a login, a refresh or a logout
  asked,   \* who logs in, or the token that is presented
  told,    \* what each call was answered
  issued,  \* the tokens that were made, by the call that made them
  good     \* the tokens that may still be exchanged

sessionLedgerVars == <<active, route, asked, told, issued, good>>

Init ==
  /\ active = Accounts
  /\ route = [c \in Calls |-> "none"]
  /\ asked = [c \in Calls |-> NoCall]
  /\ told = [c \in Calls |-> "none"]
  /\ issued = [t \in {} |-> NoCall]
  /\ good = {}

SetActive(u) ==
  /\ active' = IF u \in active THEN active \ {u} ELSE active \union {u}
  /\ UNCHANGED <<route, asked, told, issued, good>>

Tell(c, answer) ==
  /\ told[c] = "none"
  /\ told' = [told EXCEPT ![c] = answer]

Issue(c, user, family, parent) ==
  /\ told[c] = "none"
  /\ c \notin DOMAIN issued
  /\ issued' = [t \in DOMAIN issued \union {c} |->
                  IF t = c THEN [user |-> user, family |-> family, parent |-> parent] ELSE issued[t]]

(* Clients present only what an answer brought them, or nothing known. *)
Ask(c) ==
  /\ route[c] = "none"
  /\ told[c] = "none"
  /\ \E to \in {"login", "refresh", "logout"} : route' = [route EXCEPT ![c] = to]
  /\ \E s \in IF route'[c] = "login" THEN Accounts ELSE {t \in Calls : told[t] = "ok"} \union {NoCall} :
       asked' = [asked EXCEPT ![c] = s]
  /\ UNCHANGED <<active, told, issued, good>>

Open(c) ==
  /\ route[c] = "login"
  /\ Issue(c, asked[c], c, NoCall)
  /\ good' = good \union {c}
  /\ UNCHANGED <<active, route, asked, told>>

Exchange(c) ==
  /\ route[c] = "refresh"
  /\ asked[c] \in good
  /\ Issue(c, issued[asked[c]].user, issued[asked[c]].family, asked[c])
  /\ good' = (good \ {asked[c]}) \union {c}
  /\ UNCHANGED <<active, route, asked, told>>

Give(c) ==
  /\ c \in DOMAIN issued
  /\ Tell(c, "ok")
  /\ UNCHANGED <<active, route, asked, issued, good>>

(* A logout revokes, and so does a refresh with a token that is not good.  *)
(* What is revoked is of the session of the token presented, which itself  *)
(* is not good afterwards; not all of that session need be.  "Reused" says *)
(* besides that what the token was exchanged for is dead too.  Whoever is  *)
(* told of an error, or of nothing, may have revoked all the same.         *)
Revoke(c, answer) ==
  /\ Tell(c, answer)
  /\ answer = "loggedOut" => route[c] = "logout"
  /\ answer = "reused" => route[c] = "refresh" /\ asked[c] \in DOMAIN issued
  /\ route[c] = "logout" \/ (route[c] = "refresh" /\ asked[c] \notin good)
  /\ good' \subseteq good
  /\ \A t \in good \ good' : asked[c] \in DOMAIN issued /\ issued[t].family = issued[asked[c]].family
  /\ asked[c] \notin good'
  /\ answer = "reused" => \A t \in good' : issued[t].parent # asked[c]
  /\ UNCHANGED <<active, route, asked, issued>>

(* A refusal takes no token.  Of a call that has made one, it says that    *)
(* the account is deactivated.                                             *)
Deny(c) ==
  /\ route[c] \in {"login", "refresh"}
  /\ Tell(c, "denied")
  /\ c \in DOMAIN issued => route[c] = "refresh" /\ issued[c].user \notin active
  /\ UNCHANGED <<active, route, asked, issued, good>>

(* An error may come at any point: it takes no token either. *)
Fail(c) ==
  /\ route[c] # "none"
  /\ Tell(c, "failed")
  /\ UNCHANGED <<active, route, asked, issued, good>>

(* Nobody hears of some of the calls again, and they do nothing more. *)
Vanish ==
  /\ \E lost \in SUBSET {c \in Calls : route[c] # "none" /\ told[c] = "none"} :
       told' = [c \in Calls |-> IF c \in lost THEN "gone" ELSE told[c]]
  /\ UNCHANGED <<active, route, asked, issued, good>>

Next ==
  \/ \E c \in Calls :
       \/ Ask(c) \/ Open(c) \/ Exchange(c) \/ Give(c) \/ Deny(c) \/ Fail(c)
       \/ \E answer \in {"loggedOut", "reused", "failed", "gone"} : Revoke(c, answer)
  \/ \E u \in Accounts : SetActive(u)
  \/ Vanish

Spec == Init /\ [][Next]_sessionLedgerVars
=============================================================================
