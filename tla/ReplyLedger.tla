----------------------------- MODULE ReplyLedger -----------------------------
(***************************************************************************)
(* What operators and visitors are promised of replies, with no handlers,  *)
(* no rows read earlier and no retries: a ledger of the attempts that have *)
(* been made, one at most under each message and client key, and of what   *)
(* every request was told.                                                 *)
(*                                                                         *)
(* An attempt is its first request's: its operator, its text, its time.    *)
(* Its mail reaches the visitor once while the relay's window is open, and *)
(* never later than one send after that.  SENT is recorded of it only when *)
(* it was mailed and FAILED only by the request that made it; a reply says *)
(* an outcome only when that outcome was recorded.  An error says nothing: *)
(* the attempt may have been made or not, and been recorded or not.        *)
(***************************************************************************)
EXTENDS Integers

CONSTANTS
  Requests, Messages, Repliable, Keys, Users, Bodies,
  NoInput,     \* a request that has not been asked
  NoCopy,      \* a request that was not answered with an attempt
  Retention,   \* how long the relay remembers a key
  SendBound    \* how long a send may take

VARIABLES
  now,
  stored,      \* messages that still exist
  asked,       \* what each request asks for
  attempts,    \* the attempts that have been made, under message and key
  answers,     \* what each request was answered
  copies       \* the attempt a request was shown

ledgerVars == <<now, stored, asked, attempts, answers, copies>>

Input  == [message : Messages, key : Keys, body : Bodies, user : Users]
Status == {"PENDING", "SENT", "FAILED"}
Copy   == [user : Users, body : Bodies, status : Status]

Init ==
  /\ now = 0
  /\ stored = Messages
  /\ asked = [r \in Requests |-> NoInput]
  /\ attempts = [s \in {} |-> NoCopy]
  /\ answers = [r \in Requests |-> "none"]
  /\ copies = [r \in Requests |-> NoCopy]

Slot(r) == <<asked[r].message, asked[r].key>>

Waiting(r) == asked[r] # NoInput /\ answers[r] = "none"

Tell(r, answer, copy) ==
  /\ answers' = [answers EXCEPT ![r] = answer]
  /\ copies' = [copies EXCEPT ![r] = copy]

TellNobody == UNCHANGED <<answers, copies>>

CopyOf(s, status) == [user |-> attempts[s].user, body |-> attempts[s].body, status |-> status]

(* A message that is gone, or has no address, is refused at once. *)
FirstAnswer(in) ==
  IF in.message \notin stored THEN "notFound"
  ELSE IF in.message \notin Repliable THEN "conflict" ELSE "none"

Ask(r) ==
  /\ asked[r] = NoInput
  /\ \E in \in Input : \E answer \in {FirstAnswer(in), "error"} :
       /\ asked' = [asked EXCEPT ![r] = in]
       /\ Tell(r, answer, NoCopy)
  /\ UNCHANGED <<now, stored, attempts>>

(* Whoever opens an attempt goes on with it, or never hears of it. *)
Open(r) ==
  /\ Waiting(r)
  /\ \E answer \in {"none", "error"} : Tell(r, answer, NoCopy)
  /\ asked[r].message \in stored \intersect Repliable
  /\ Slot(r) \notin DOMAIN attempts
  /\ attempts' = [s \in DOMAIN attempts \union {Slot(r)} |->
                    IF s = Slot(r)
                    THEN [by |-> r, user |-> asked[r].user, body |-> asked[r].body, at |-> now,
                          status |-> "PENDING", outcomes |-> {}, mails |-> {}]
                    ELSE attempts[s]]
  /\ UNCHANGED <<now, stored, asked>>

(* The visitor's mailbox: once in the window, nothing long after it, and   *)
(* nothing that no request is waiting for.                                 *)
Deliver(r) ==
  /\ Waiting(r)
  /\ TellNobody
  /\ Slot(r) \in DOMAIN attempts
  /\ now < attempts[Slot(r)].at + Retention + SendBound
  /\ attempts[Slot(r)].mails = {} \/ now >= attempts[Slot(r)].at + Retention
  /\ attempts' = [attempts EXCEPT ![Slot(r)].mails = @ \union {[by |-> r, at |-> now]}]
  /\ UNCHANGED <<now, stored, asked>>

(* An outcome is recorded by a request that works for the attempt. *)
Conclude(r, status) ==
  /\ Waiting(r)
  /\ TellNobody
  /\ Slot(r) \in DOMAIN attempts
  /\ attempts[Slot(r)].status # "purged"
  /\ status = "SENT" => attempts[Slot(r)].mails # {}
  /\ status = "FAILED" => attempts[Slot(r)].by = r
  /\ attempts' = [attempts EXCEPT ![Slot(r)].status = status, ![Slot(r)].outcomes = @ \union {status}]
  /\ UNCHANGED <<now, stored, asked>>

(* A request is shown the attempt as it is or was: an outcome only if it   *)
(* was recorded, and no request its own attempt without one.               *)
Show(r, status) ==
  /\ Waiting(r)
  /\ Tell(r, "reply", CopyOf(Slot(r), status))
  /\ Slot(r) \in DOMAIN attempts
  /\ IF status = "PENDING" THEN attempts[Slot(r)].by # r ELSE status \in attempts[Slot(r)].outcomes
  /\ UNCHANGED <<now, stored, asked, attempts>>

(* "Not found" and "conflict" are said of messages that are gone; an error *)
(* may be said of any.  Neither changes what was made or recorded.         *)
Refuse(r, answer) ==
  /\ Waiting(r)
  /\ Tell(r, answer, NoCopy)
  /\ answer # "error" => asked[r].message \notin stored
  /\ UNCHANGED <<now, stored, asked, attempts>>

Purge(m) ==
  /\ m \in stored
  /\ stored' = stored \ {m}
  /\ attempts' = [s \in DOMAIN attempts |->
                    IF s[1] = m THEN [attempts[s] EXCEPT !.status = "purged"] ELSE attempts[s]]
  /\ UNCHANGED <<now, asked, answers, copies>>

Tick == now' = now + 1 /\ UNCHANGED <<stored, asked, attempts, answers, copies>>

Next ==
  \/ \E r \in Requests :
       \/ Ask(r) \/ Open(r) \/ Deliver(r)
       \/ \E status \in {"SENT", "FAILED"} : Conclude(r, status)
       \/ \E status \in Status : Show(r, status)
       \/ \E answer \in {"notFound", "conflict", "error"} : Refuse(r, answer)
  \/ \E m \in Messages : Purge(m)
  \/ Tick

Spec == Init /\ [][Next]_ledgerVars
=============================================================================
