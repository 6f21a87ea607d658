------------------------ MODULE ContactInbox_proofs ------------------------
(***************************************************************************)
(* Proofs about ContactInbox, for any number of messages and PATCHes and   *)
(* any bounds on time and attempts.                                        *)
(*                                                                         *)
(* Two arguments that share the types.  The mails: a message's send is the *)
(* one its dispatch stands at (Standing), and what the relay took of it is *)
(* no more than the attempts it has made (Counted).  The triage: a PATCH   *)
(* that holds an outdated isArchived finds an archivedAt of this very tick *)
(* or none (StaleReads), so that no instant is older than the last time    *)
(* the message went into the archive (ArchivedSince); and a message whose  *)
(* PATCHes never overlapped has one reader, who is right (OneReader).      *)
(***************************************************************************)
EXTENDS ContactInbox, TLAPS

Audience == {"owner", "visitor"}

(* The mail under way is the one the dispatch stands at. *)
StandingAt(m) ==
  /\ dispatch[m] = "none" <=> m \notin DOMAIN form
  /\ dispatch[m] \notin {"none", "dropped"} => ~form[m].trapped
  /\ dispatch[m] \notin Audience => sends[m].state = "idle"
  /\ dispatch[m] \in Audience => sends[m].mail = MailTo(m, dispatch[m])
  /\ dispatch[m] = "visitor" => "email" \in form[m].row

Standing == \A m \in Messages : StandingAt(m)

Attempting ==
  \A m \in Messages :
    /\ sends[m].state = "trying" => sends[m].attempt \in 1 .. MaxAttempts
    /\ sends[m].state \in {"backoff", "awake"} => sends[m].attempt \in 1 .. (MaxAttempts - 1)

UnderWay == {"trying", "backoff", "awake"}

(* The transport calls of the send under way that have ended. *)
Tried(m) == IF sends[m].state = "trying" THEN sends[m].attempt - 1 ELSE sends[m].attempt

CountedAt(m) ==
  \A who \in Audience :
    MailTo(m, who) \in DOMAIN copies =>
      /\ dispatch[m] \notin {"none", "dropped", "committed"}
      /\ who = "visitor" => dispatch[m] # "owner" /\ "email" \in form[m].row
      /\ copies[MailTo(m, who)] \in 0 .. MaxAttempts
      /\ dispatch[m] = who /\ sends[m].state \in UnderWay => copies[MailTo(m, who)] <= Tried(m)

Counted == \A m \in Messages : CountedAt(m)

(* A row keeps what the form was given, and a PATCH has read a row. *)
RowsOfForms ==
  /\ \A p \in Patches : patch[p].state = "read" => patch[p].message \in DOMAIN form
  /\ \A m \in DOMAIN form : form[m].row = form[m].supplied
  /\ \A m \in DOMAIN rows : rows[m].reach = form[m].row /\ form[m].row # {}

Reading(p, m) == patch[p].state = "read" /\ patch[p].message = m

StaleReads ==
  \A m \in DOMAIN rows, p \in Patches :
    Reading(p, m) /\ patch[p].was # rows[m].archived => rows[m].archivedAt \in {Never, now}

ArchivedSince ==
  /\ \A m \in DOMAIN since : since[m] <= now
  /\ \A m \in DOMAIN rows : rows[m].archived =>
       /\ m \in DOMAIN since
       /\ rows[m].archivedAt # Never => since[m] <= rows[m].archivedAt

OneReader ==
  \A m \in DOMAIN rows \ crossed :
    /\ \A p, o \in Patches : Reading(p, m) /\ Reading(o, m) => p = o
    /\ \A p \in Patches : Reading(p, m) => patch[p].was = rows[m].archived

Mails  == Standing /\ Attempting /\ Counted
Triage == RowsOfForms /\ StaleReads /\ ArchivedSince /\ OneReader /\ TriageCoherentAlone

IInv == TypeOK /\ Mails /\ Triage

(***************************************************************************)
(* Operators.                                                              *)
(***************************************************************************)

LEMMA OneMailEach ==
  /\ \A m, n \in Messages, a, b \in Audience : MailTo(m, a) = MailTo(n, b) => m = n /\ a = b
  /\ \A m \in Messages, a \in Audience :
       /\ MailTo(m, a) \in InboxMails /\ MailTo(m, a).message = m /\ MailTo(m, a).to = a
  /\ \A x \in InboxMails : \E m \in Messages, a \in Audience : x = MailTo(m, a)
  BY DEF MailTo, InboxMails, Audience

(* What a valid form says reaches the row as it was typed, and it says     *)
(* something.                                                              *)
LEMMA FormKept ==
  ASSUME NEW f \in Form, Valid(f)
  PROVE  Reach(f) = Supplied(f) /\ Reach(f) # {} /\ Reach(f) \subseteq Methods
<1>1. \A x \in Methods : Normalized(f, x) # "none" <=> f.reach[x] \notin {"none", "blank"}
  BY DEF Normalized
<1>2. Reach(f) = Supplied(f)
  BY <1>1 DEF Reach, Supplied
<1>3. Reach(f) # {}
  BY DEF Valid, Reach, Methods
<1>4. QED
  BY <1>2, <1>3 DEF Reach

(***************************************************************************)
(* MailService, as this component calls it.                                *)
(***************************************************************************)

LEMMA MailBegins ==
  ASSUME Mail!TypeOK, Attempting, NEW m \in Messages, NEW x \in InboxMails, Mail!Begin(m, x)
  PROVE  /\ Mail!TypeOK' /\ Attempting'
         /\ sends' = [sends EXCEPT ![m] = sends'[m]]
         /\ sends'[m].mail = x /\ Tried(m)' = 0
         /\ UNCHANGED <<now, stopping, seen, delivered>>
<1> DEFINE new == [state |-> IF MailEnabled THEN "trying" ELSE "disabled", mail |-> x,
                   attempt |-> IF MailEnabled THEN 1 ELSE 0, startedAt |-> now, timer |-> FALSE]
<1>1. sends' = [sends EXCEPT ![m] = new] /\ UNCHANGED <<now, stopping, seen, delivered>>
  BY DEF Mail!Begin, Mail!Begun
<1>2. new \in Mail!SendRecord
  BY InboxMail DEF Mail!SendRecord, Mail!Running, Mail!Finished, Mail!TypeOK
<1>3. Mail!TypeOK'
  BY <1>1, <1>2 DEF Mail!TypeOK
<1>4. sends'[m] = new /\ \A n \in Messages \ {m} : sends'[n] = sends[n]
  BY <1>1 DEF Mail!TypeOK
<1>5. Attempting'
  BY <1>4, InboxMail DEF Attempting
<1>6. Tried(m)' = 0
  BY <1>4 DEF Tried
<1> HIDE DEF new
<1>7. sends'[m].mail = x
  BY <1>4 DEF new
<1>8. QED
  BY <1>1, <1>3, <1>4, <1>5, <1>6, <1>7

(* A send starts over, or ends for its caller. *)
LEMMA MailForgotten ==
  ASSUME Mail!TypeOK, Attempting, NEW m \in Messages, Forget(m)
  PROVE  /\ Mail!TypeOK' /\ Attempting'
         /\ sends'[m].state = "idle" /\ \A n \in Messages \ {m} : sends'[n] = sends[n]
         /\ dispatch' = [dispatch EXCEPT ![m] = "over"]
<1>1. Mail!Idle \in Mail!SendRecord /\ Mail!Idle.state = "idle"
  BY InboxMail DEF Mail!Idle, Mail!SendRecord, Mail!Running, Mail!Finished
<1>2. /\ sends' = [sends EXCEPT ![m] = Mail!Idle] /\ UNCHANGED <<now, stopping, seen, delivered>>
      /\ dispatch' = [dispatch EXCEPT ![m] = "over"]
  BY DEF Forget
<1>3. sends'[m] = Mail!Idle /\ \A n \in Messages \ {m} : sends'[n] = sends[n]
  BY <1>2 DEF Mail!TypeOK
<1>4. Mail!TypeOK'
  BY <1>1, <1>2 DEF Mail!TypeOK
<1>5. Attempting'
  BY <1>1, <1>3 DEF Attempting
<1>6. QED
  BY <1>1, <1>2, <1>3, <1>4, <1>5

(* A send after a transport call: a result, or asleep with the attempts it *)
(* has made.                                                               *)
LEMMA AttemptEnds ==
  ASSUME Mail!TypeOK, NEW m \in Messages, sends[m].state = "trying", sends[m].mail \in InboxMails,
         \/ Mail!AttemptAccepted(m) \/ Mail!AttemptLost(m)
         \/ Mail!AttemptTransient(m) \/ Mail!AttemptRejected(m)
  PROVE  \E send \in Mail!SendRecord :
           /\ sends' = [sends EXCEPT ![m] = send]
           /\ send.mail = sends[m].mail /\ send.state \in {"sent", "failed", "backoff"}
           /\ send.state = "backoff" =>
                send.attempt = sends[m].attempt /\ sends[m].attempt # MaxAttempts
<1>1. ASSUME NEW r \in {"sent", "failed"}, Mail!Finish(m, r)
      PROVE  /\ sends' = [sends EXCEPT ![m] = Mail!Result(m, r)]
             /\ Mail!Result(m, r) \in Mail!SendRecord /\ Mail!Result(m, r).state = r
             /\ Mail!Result(m, r).mail = sends[m].mail
  BY <1>1, InboxMail DEF Mail!Finish, Mail!Result, Mail!SendRecord, Mail!Finished
<1>2. CASE ~Mail!GivesUp(m) /\ Mail!Sleep(m)
  <2> DEFINE send == [sends[m] EXCEPT !.state = "backoff", !.timer = TRUE]
  <2>1. /\ sends \in [Messages -> Mail!SendRecord] /\ sends[m] \in Mail!SendRecord
        /\ sends[m].attempt # MaxAttempts
    BY <1>2 DEF Mail!TypeOK, Mail!GivesUp
  <2>2. sends' = [sends EXCEPT ![m] = send]
    BY <1>2, <2>1 DEF Mail!Sleep
  <2>3. send \in Mail!SendRecord
    BY <2>1 DEF Mail!SendRecord, Mail!Running
  <2>4. send.mail = sends[m].mail /\ send.state = "backoff" /\ send.attempt = sends[m].attempt
    BY <2>1 DEF Mail!SendRecord
  <2> HIDE DEF send
  <2>5. QED
    BY <2>1, <2>2, <2>3, <2>4
<1>3. \/ Mail!Finish(m, "sent") \/ Mail!Finish(m, "failed")
      \/ ~Mail!GivesUp(m) /\ Mail!Sleep(m)
  BY DEF Mail!AttemptAccepted, Mail!AttemptLost, Mail!AttemptTransient, Mail!AttemptRejected,
     Mail!AfterFailure
<1>4. ASSUME NEW r \in {"sent", "failed"}, Mail!Finish(m, r)
      PROVE  \E send \in Mail!SendRecord :
           /\ sends' = [sends EXCEPT ![m] = send]
           /\ send.mail = sends[m].mail /\ send.state \in {"sent", "failed", "backoff"}
           /\ send.state = "backoff" =>
                send.attempt = sends[m].attempt /\ sends[m].attempt # MaxAttempts
  BY <1>1, <1>4
<1>5. QED
  BY <1>2, <1>3, <1>4

(* What one transport call, or the end of a backoff, does to a send. *)
LEMMA SendMoves ==
  ASSUME Mail!TypeOK, Attempting, NEW m \in Messages, Mail!SendStep(m),
         sends[m].mail \in InboxMails
  PROVE  /\ Mail!TypeOK' /\ Attempting'
         /\ sends' = [sends EXCEPT ![m] = sends'[m]]
         /\ sends[m].state \in UnderWay /\ sends'[m].state # "idle"
         /\ sends'[m].mail = sends[m].mail
         /\ sends'[m].state \in UnderWay =>
              Tried(m)' = IF sends[m].state = "trying" THEN Tried(m) + 1 ELSE Tried(m)
         /\ UNCHANGED <<now, stopping>>
<1>1. CASE Mail!Wake(m)
  <2> DEFINE send == [sends[m] EXCEPT !.state = "trying", !.attempt = @ + 1, !.timer = FALSE]
  <2>1. sends' = [sends EXCEPT ![m] = send] /\ UNCHANGED <<now, stopping, seen, delivered>>
    BY <1>1 DEF Mail!Wake, Mail!TypeOK
  <2>2. sends[m].state \in {"backoff", "awake"} /\ sends[m].attempt \in 1 .. (MaxAttempts - 1)
    BY <1>1 DEF Mail!Wake, Mail!Wakes, Attempting
  <2>3. /\ send \in Mail!SendRecord /\ send.state = "trying" /\ send.attempt = sends[m].attempt + 1
        /\ send.mail = sends[m].mail
    <3>1. sends[m] \in Mail!SendRecord
      BY DEF Mail!TypeOK
    <3>2. sends[m].attempt + 1 \in 0 .. MaxAttempts
      BY <2>2, InboxMail
    <3>3. send \in Mail!SendRecord
      BY <3>1, <3>2 DEF Mail!SendRecord, Mail!Running, Mail!Finished
    <3>4. QED
      BY <3>1, <3>3 DEF Mail!SendRecord
  <2> HIDE DEF send
  <2>4. sends'[m] = send /\ \A n \in Messages \ {m} : sends'[n] = sends[n]
    BY <2>1 DEF Mail!TypeOK
  <2>5. Mail!TypeOK'
    BY <2>1, <2>3 DEF Mail!TypeOK
  <2>6. Attempting'
    BY <2>2, <2>3, <2>4, InboxMail DEF Attempting
  <2>7. Tried(m)' = Tried(m)
    BY <2>2, <2>3, <2>4 DEF Tried
  <2>8. QED
    BY <2>1, <2>2, <2>3, <2>4, <2>5, <2>6, <2>7 DEF UnderWay
<1>2. CASE ~Mail!Wake(m)
  <2>1. /\ sends[m].state = "trying" /\ sends[m].attempt \in 1 .. MaxAttempts
        /\ UNCHANGED <<now, stopping>>
    BY <1>2 DEF Mail!SendStep, Mail!AttemptAccepted, Mail!AttemptLost, Mail!AttemptTransient,
       Mail!AttemptRejected, Attempting
  <2>2. PICK send \in Mail!SendRecord :
          /\ sends' = [sends EXCEPT ![m] = send]
          /\ send.mail = sends[m].mail /\ send.state \in {"sent", "failed", "backoff"}
          /\ send.state = "backoff" =>
               send.attempt = sends[m].attempt /\ sends[m].attempt # MaxAttempts
    BY <1>2, <2>1, AttemptEnds DEF Mail!SendStep
  <2>3. seen' \in [{} -> Nat \union {Mail!Never}] /\ delivered' \subseteq Mail!Delivery
    <3>1. CASE UNCHANGED <<seen, delivered>>
      BY <3>1 DEF Mail!TypeOK
    <3>2. CASE /\ seen' = [k \in {} |-> IF k = Mail!Header(m) THEN now ELSE seen[k]]
               /\ delivered' = delivered \union {[mail |-> sends[m].mail, by |-> m, at |-> now]}
      BY <3>2 DEF Mail!TypeOK, Mail!Delivery
    <3>3. QED
      BY <1>2, <3>1, <3>2 DEF Mail!SendStep, Mail!AttemptAccepted, Mail!AttemptLost,
         Mail!AttemptTransient, Mail!AttemptRejected, Mail!RelayTakes
  <2>4. sends'[m] = send /\ \A n \in Messages \ {m} : sends'[n] = sends[n]
    BY <2>2 DEF Mail!TypeOK
  <2>5. Mail!TypeOK'
    BY <2>1, <2>2, <2>3 DEF Mail!TypeOK
  <2>6. Attempting'
    BY <2>1, <2>2, <2>4, InboxMail DEF Attempting
  <2>7. sends'[m].state \in UnderWay => Tried(m)' = Tried(m) + 1
    BY <2>1, <2>2, <2>4 DEF Tried, UnderWay
  <2>8. QED
    BY <2>1, <2>2, <2>4, <2>5, <2>6, <2>7 DEF UnderWay
<1>3. QED
  BY <1>1, <1>2

(***************************************************************************)
(* What a step leaves alone.                                               *)
(***************************************************************************)

LEMMA TriageFrame ==
  ASSUME Triage, UNCHANGED <<rows, patch, since, crossed, form, now>>
  PROVE  Triage'
  BY DEF Triage, RowsOfForms, StaleReads, ArchivedSince, OneReader, TriageCoherentAlone, Reading

LEMMA MailsFrame ==
  ASSUME Mails, UNCHANGED <<sends, form, dispatch, copies>>
  PROVE  Mails'
  BY DEF Mails, Standing, StandingAt, Attempting, Counted, CountedAt, Tried

(* A step of one message's dispatch. *)
LEMMA OthersKept ==
  ASSUME Mails, NEW m \in Messages, UNCHANGED <<form, copies>>, Attempting',
         \A n \in Messages \ {m} : sends'[n] = sends[n] /\ dispatch'[n] = dispatch[n],
         StandingAt(m)', CountedAt(m)'
  PROVE  Mails'
<1>1. \A n \in Messages \ {m} : StandingAt(n)' /\ CountedAt(n)'
  BY DEF Mails, Standing, StandingAt, Counted, CountedAt, Tried
<1>2. QED
  BY <1>1 DEF Mails, Standing, Counted

(***************************************************************************)
(* The steps.                                                              *)
(***************************************************************************)

LEMMA SubmitStep ==
  ASSUME IInv, NEW m \in Messages, Submit(m)
  PROVE  IInv'
<1>1. PICK f \in {x \in Form : Valid(x)} :
        /\ form' = Set(form, m, [trapped |-> f.website \/ f.elapsed < MinFill,
                                 supplied |-> Supplied(f), row |-> Reach(f)])
        /\ \/ /\ isSpam(f)
              /\ dispatch' = [dispatch EXCEPT ![m] = "dropped"]
              /\ UNCHANGED rows
           \/ /\ ~isSpam(f)
              /\ dispatch' = [dispatch EXCEPT ![m] = "committed"]
              /\ rows' = Set(rows, m, [reach |-> Reach(f), archived |-> FALSE, archivedAt |-> Never])
  BY DEF Submit
<1>2. /\ m \notin DOMAIN form /\ m \notin DOMAIN rows /\ dispatch[m] = "none"
      /\ UNCHANGED <<now, stopping, sends, seen, delivered, patch, copies, since, crossed>>
  BY DEF Submit, IInv, TypeOK, Mails, Standing, StandingAt
<1>3. Reach(f) = Supplied(f) /\ Reach(f) # {} /\ Reach(f) \subseteq Methods
  BY FormKept
<1> DEFINE said == [trapped |-> f.website \/ f.elapsed < MinFill, supplied |-> Supplied(f), row |-> Reach(f)]
           row  == [reach |-> Reach(f), archived |-> FALSE, archivedAt |-> Never]
<1>4. /\ said \in [trapped : BOOLEAN, supplied : SUBSET Methods, row : SUBSET Methods]
      /\ said.row = said.supplied /\ said.row # {} /\ said.row = Reach(f)
      /\ ~isSpam(f) => ~said.trapped
  BY <1>3 DEF Form, isSpam
<1>5. row \in Row /\ row.reach = Reach(f) /\ row.archived = FALSE /\ row.archivedAt = Never
  BY <1>3 DEF Row
<1>6. form' = Set(form, m, said)
  BY <1>1
<1>7. isSpam(f) \/ rows' = Set(rows, m, row)
  BY <1>1
<1> HIDE DEF said, row
<1>8. /\ DOMAIN form' = DOMAIN form \union {m} /\ form'[m] = said
      /\ \A n \in DOMAIN form : form'[n] = form[n]
  BY <1>2, <1>6 DEF Set
<1>9. \/ dispatch' = [dispatch EXCEPT ![m] = "dropped"] /\ UNCHANGED rows
      \/ /\ dispatch' = [dispatch EXCEPT ![m] = "committed"] /\ ~said.trapped
         /\ DOMAIN rows' = DOMAIN rows \union {m} /\ rows'[m] = row
         /\ \A n \in DOMAIN rows : rows'[n] = rows[n]
  BY <1>1, <1>2, <1>4, <1>7 DEF Set
<1>10. TypeOK'
  <2>1. Mail!TypeOK'
    BY <1>2 DEF IInv, TypeOK, Mail!TypeOK
  <2>2. /\ DOMAIN form' \subseteq Messages
        /\ \A n \in DOMAIN form' : form'[n] \in [trapped : BOOLEAN, supplied : SUBSET Methods, row : SUBSET Methods]
    BY <1>4, <1>8 DEF IInv, TypeOK
  <2>3. DOMAIN rows' \subseteq DOMAIN form' /\ \A n \in DOMAIN rows' : rows'[n] \in Row
    BY <1>5, <1>8, <1>9 DEF IInv, TypeOK
  <2>4. QED
    BY <1>2, <1>9, <2>1, <2>2, <2>3 DEF IInv, TypeOK
<1>11. Mails'
  <2>1. /\ \A n \in Messages \ {m} : dispatch'[n] = dispatch[n]
        /\ dispatch'[m] \in {"dropped", "committed"}
        /\ dispatch'[m] # "dropped" => ~said.trapped
    BY <1>9 DEF IInv, TypeOK
  <2>2. \A n \in Messages \ {m} : StandingAt(n)' /\ CountedAt(n)'
    BY <1>2, <1>8, <2>1 DEF IInv, Mails, Standing, StandingAt, Counted, CountedAt, Tried, Audience
  <2>3. StandingAt(m)'
    BY <1>2, <1>8, <2>1 DEF IInv, Mails, Standing, StandingAt, Audience
  <2>4. \A who \in Audience : MailTo(m, who) \notin DOMAIN copies'
    BY <1>2 DEF IInv, Mails, Counted, CountedAt
  <2>5. CountedAt(m)'
    BY <2>4 DEF CountedAt
  <2>6. Attempting'
    BY <1>2 DEF IInv, Mails, Attempting
  <2>7. QED
    BY <2>2, <2>3, <2>5, <2>6 DEF Mails, Standing, Counted
<1>12. Triage'
  <2>1. \A p \in Patches : ~Reading(p, m) /\ ~Reading(p, m)'
    BY <1>2 DEF IInv, Triage, RowsOfForms, Reading
  <2>2. RowsOfForms'
    <3>1. /\ \A p \in Patches : patch'[p].state = "read" => patch'[p].message \in DOMAIN form'
          /\ \A n \in DOMAIN form' : form'[n].row = form'[n].supplied
      BY <1>2, <1>4, <1>8 DEF IInv, Triage, RowsOfForms
    <3>2. \A n \in DOMAIN rows' : rows'[n].reach = form'[n].row /\ form'[n].row # {}
      BY <1>2, <1>4, <1>5, <1>8, <1>9 DEF IInv, Triage, RowsOfForms, TypeOK
    <3>3. QED
      BY <3>1, <3>2 DEF RowsOfForms
  <2>3. StaleReads'
    BY <1>2, <1>9, <2>1 DEF IInv, Triage, StaleReads, Reading
  <2>4. ArchivedSince'
    BY <1>2, <1>5, <1>9 DEF IInv, Triage, ArchivedSince
  <2>5. OneReader'
    BY <1>2, <1>9, <2>1 DEF IInv, Triage, OneReader, Reading
  <2>6. TriageCoherentAlone'
    BY <1>2, <1>5, <1>9 DEF IInv, Triage, TriageCoherentAlone
  <2>7. QED
    BY <2>2, <2>3, <2>4, <2>5, <2>6 DEF Triage
<1>13. QED
  BY <1>10, <1>11, <1>12 DEF IInv

LEMMA NotifyStep ==
  ASSUME IInv, NEW m \in Messages, NotifyOwner(m)
  PROVE  IInv'
<1>1. UNCHANGED <<form, rows, patch, since, crossed, copies>> /\ dispatch[m] = "committed"
  BY DEF NotifyOwner, inboxVars
<1>2. \A who \in Audience : MailTo(m, who) \notin DOMAIN copies
  BY <1>1 DEF IInv, Mails, Counted, CountedAt
<1>3. CountedAt(m)'
  BY <1>1, <1>2 DEF CountedAt
<1>4. MailTo(m, "owner") \in InboxMails
  BY OneMailEach DEF Audience
<1>5. CASE Mail!Begin(m, MailTo(m, "owner")) /\ dispatch' = [dispatch EXCEPT ![m] = "owner"]
  <2>1. /\ Mail!TypeOK' /\ Attempting' /\ sends' = [sends EXCEPT ![m] = sends'[m]]
        /\ sends'[m].mail = MailTo(m, "owner") /\ UNCHANGED now
    BY <1>4, <1>5, MailBegins DEF IInv, TypeOK, Mails
  <2>2. TypeOK'
    BY <1>1, <1>5, <2>1 DEF IInv, TypeOK
  <2>3. StandingAt(m)'
    BY <1>1, <1>5, <2>1 DEF IInv, TypeOK, Mails, Standing, StandingAt, Audience
  <2>4. \A n \in Messages \ {m} : sends'[n] = sends[n] /\ dispatch'[n] = dispatch[n]
    BY <1>5, <2>1 DEF IInv, TypeOK, Mail!TypeOK
  <2>5. Mails'
    BY <1>1, <1>3, <2>1, <2>3, <2>4, OthersKept DEF IInv
  <2>6. QED
    BY <1>1, <2>1, <2>2, <2>5, TriageFrame DEF IInv
<1>6. CASE /\ dispatch' = [dispatch EXCEPT ![m] = "over"]
           /\ UNCHANGED <<now, stopping, sends, seen, delivered>>
  <2>1. TypeOK'
    BY <1>1, <1>6 DEF IInv, TypeOK, Mail!TypeOK
  <2>2. StandingAt(m)'
    BY <1>1, <1>6 DEF IInv, TypeOK, Mails, Standing, StandingAt, Audience
  <2>3. Attempting' /\ \A n \in Messages \ {m} : sends'[n] = sends[n] /\ dispatch'[n] = dispatch[n]
    BY <1>6 DEF IInv, TypeOK, Mails, Attempting
  <2>4. Mails'
    BY <1>1, <1>3, <2>2, <2>3, OthersKept DEF IInv
  <2>5. QED
    BY <1>1, <1>6, <2>1, <2>4, TriageFrame DEF IInv
<1>7. QED
  BY <1>5, <1>6 DEF NotifyOwner

(* The dispatch of a message is over: its mails are counted as they are. *)
LEMMA OverStep ==
  ASSUME IInv, NEW m \in Messages, dispatch[m] \in Audience, Forget(m),
         UNCHANGED <<form, rows, patch, since, crossed, copies>>,
         "email" \in form[m].row \/ dispatch[m] = "owner"
  PROVE  IInv'
<1>1. /\ Mail!TypeOK' /\ Attempting' /\ UNCHANGED <<now, stopping, seen, delivered>>
      /\ sends'[m].state = "idle" /\ \A n \in Messages \ {m} : sends'[n] = sends[n]
      /\ dispatch' = [dispatch EXCEPT ![m] = "over"]
  BY MailForgotten DEF Forget, IInv, TypeOK, Mails
<1>2. TypeOK'
  BY <1>1 DEF IInv, TypeOK
<1>3. dispatch'[m] = "over" /\ \A n \in Messages \ {m} : dispatch'[n] = dispatch[n]
  BY <1>1 DEF IInv, TypeOK
<1>4. StandingAt(m)'
  BY <1>1, <1>3 DEF IInv, Mails, Standing, StandingAt, Audience
<1>5. CountedAt(m)'
  BY <1>3 DEF IInv, Mails, Counted, CountedAt, Audience
<1>6. QED
  BY <1>1, <1>2, <1>3, <1>4, <1>5, OthersKept, TriageFrame DEF IInv

LEMMA AcknowledgeStep ==
  ASSUME IInv, NEW m \in Messages, Acknowledge(m)
  PROVE  IInv'
<1>1. UNCHANGED <<form, rows, patch, since, crossed, copies>> /\ dispatch[m] = "owner"
  BY DEF Acknowledge, inboxVars
<1>2. CASE Forget(m)
  BY <1>1, <1>2, OverStep DEF Audience
<1>3. CASE /\ "email" \in form[m].row /\ Mail!Begin(m, MailTo(m, "visitor"))
           /\ dispatch' = [dispatch EXCEPT ![m] = "visitor"]
  <2>1. MailTo(m, "visitor") \in InboxMails
    BY OneMailEach DEF Audience
  <2>2. /\ Mail!TypeOK' /\ Attempting' /\ sends' = [sends EXCEPT ![m] = sends'[m]]
        /\ sends'[m].mail = MailTo(m, "visitor") /\ UNCHANGED now
    BY <1>3, <2>1, MailBegins DEF IInv, TypeOK, Mails
  <2>3. TypeOK'
    BY <1>1, <1>3, <2>2 DEF IInv, TypeOK
  <2>4. dispatch'[m] = "visitor" /\ \A n \in Messages \ {m} : sends'[n] = sends[n] /\ dispatch'[n] = dispatch[n]
    BY <1>3, <2>2 DEF IInv, TypeOK, Mail!TypeOK
  <2>5. StandingAt(m)'
    BY <1>1, <1>3, <2>2, <2>4 DEF IInv, Mails, Standing, StandingAt, Audience
  <2>6. MailTo(m, "visitor") \notin DOMAIN copies
    BY <1>1 DEF IInv, Mails, Counted, CountedAt, Audience
  <2>7. CountedAt(m)'
    BY <1>1, <2>4, <2>6 DEF IInv, Mails, Counted, CountedAt, Audience
  <2>8. QED
    BY <1>1, <2>2, <2>3, <2>4, <2>5, <2>7, OthersKept, TriageFrame DEF IInv
<1>4. QED
  BY <1>2, <1>3 DEF Acknowledge

LEMMA EndStep ==
  ASSUME IInv, NEW m \in Messages, EndDispatch(m)
  PROVE  IInv'
<1>1. UNCHANGED <<form, rows, patch, since, crossed, copies>> /\ dispatch[m] = "visitor" /\ Forget(m)
  BY DEF EndDispatch, inboxVars
<1>2. "email" \in form[m].row
  BY <1>1 DEF IInv, Mails, Standing, StandingAt
<1>3. QED
  BY <1>1, <1>2, OverStep DEF Audience

(* A transport call counts as one whether or not its answer arrives. *)
LEMMA DeliverStep ==
  ASSUME IInv, NEW m \in Messages, Deliver(m)
  PROVE  IInv'
<1>1. Mail!SendStep(m) /\ UNCHANGED <<form, rows, patch, since, crossed, dispatch>>
  BY DEF Deliver, inboxVars, Mail!SendStep
<1>2. dispatch[m] \in Audience
  BY <1>1 DEF IInv, Mails, Standing, StandingAt, Mail!SendStep, Mail!AttemptAccepted, Mail!AttemptLost,
     Mail!AttemptTransient, Mail!AttemptRejected, Mail!Wake, Mail!Wakes
<1> DEFINE x == MailTo(m, dispatch[m])
<1>3. sends[m].mail = x /\ x \in InboxMails
  BY <1>2, OneMailEach DEF IInv, Mails, Standing, StandingAt
<1>4. /\ Mail!TypeOK' /\ Attempting' /\ sends' = [sends EXCEPT ![m] = sends'[m]]
      /\ sends[m].state \in UnderWay /\ sends'[m].mail = sends[m].mail
      /\ sends'[m].state \in UnderWay =>
           Tried(m)' = IF sends[m].state = "trying" THEN Tried(m) + 1 ELSE Tried(m)
      /\ UNCHANGED <<now, stopping>>
  BY <1>1, <1>3, SendMoves DEF IInv, TypeOK, Mails
<1>5. \A n \in Messages \ {m} : sends'[n] = sends[n]
  BY <1>4 DEF IInv, TypeOK, Mail!TypeOK
<1>6. /\ sends[m].attempt \in 1 .. MaxAttempts
      /\ Tried(m) = IF sends[m].state = "trying" THEN sends[m].attempt - 1 ELSE sends[m].attempt
  BY <1>4, InboxMail DEF IInv, Mails, Attempting, Tried, UnderWay
<1>7. \A n \in Messages : StandingAt(n)'
  BY <1>1, <1>2, <1>3, <1>4, <1>5 DEF IInv, Mails, Standing, StandingAt
<1>8. CASE UNCHANGED copies
  <2>1. CountedAt(m)'
    <3> SUFFICES ASSUME NEW who \in Audience, MailTo(m, who) \in DOMAIN copies
                 PROVE  /\ dispatch[m] \notin {"none", "dropped", "committed"}
                        /\ who = "visitor" => dispatch[m] # "owner" /\ "email" \in form[m].row
                        /\ copies[MailTo(m, who)] \in 0 .. MaxAttempts
                        /\ dispatch[m] = who /\ sends'[m].state \in UnderWay =>
                             copies[MailTo(m, who)] <= Tried(m)'
      BY <1>1, <1>8 DEF CountedAt
    <3> HIDE DEF x
    <3>1. QED
      BY <1>4, <1>6, InboxMail DEF IInv, Mails, Counted, CountedAt
  <2>2. TypeOK'
    BY <1>1, <1>4, <1>8 DEF IInv, TypeOK
  <2>3. QED
    BY <1>1, <1>4, <1>5, <1>7, <1>8, <2>1, <2>2, OthersKept, TriageFrame DEF IInv
<1>9. CASE /\ sends[m].state = "trying"
           /\ copies' = Set(copies, x, 1 + IF x \in DOMAIN copies THEN copies[x] ELSE 0)
  <2> DEFINE k == 1 + IF x \in DOMAIN copies THEN copies[x] ELSE 0
  <2>1. k \in 1 .. MaxAttempts /\ (sends'[m].state \in UnderWay => k <= Tried(m)')
    <3>1. x \in DOMAIN copies => copies[x] \in 0 .. MaxAttempts /\ copies[x] <= Tried(m)
      BY <1>2, <1>4 DEF IInv, Mails, Counted, CountedAt
    <3>2. QED
      BY <1>4, <1>6, <1>9, <3>1, InboxMail
  <2> HIDE DEF k
  <2>2. copies' = Set(copies, x, k)
    BY <1>9 DEF k
  <2>3. /\ DOMAIN copies' = DOMAIN copies \union {x} /\ copies'[x] = k
        /\ \A y \in DOMAIN copies \ {x} : copies'[y] = copies[y]
    BY <2>2 DEF Set
  <2>4. \A n \in Messages, who \in Audience : ~(n = m /\ who = dispatch[m]) => MailTo(n, who) # x
    BY <1>2, OneMailEach
  <2>5. CountedAt(m)'
    <3> SUFFICES ASSUME NEW who \in Audience, MailTo(m, who) \in DOMAIN copies'
                 PROVE  /\ dispatch[m] \notin {"none", "dropped", "committed"}
                        /\ who = "visitor" => dispatch[m] # "owner" /\ "email" \in form[m].row
                        /\ copies'[MailTo(m, who)] \in 0 .. MaxAttempts
                        /\ dispatch[m] = who /\ sends'[m].state \in UnderWay =>
                             copies'[MailTo(m, who)] <= Tried(m)'
      BY <1>1 DEF CountedAt
    <3>1. CASE who = dispatch[m]
      <4>1. who = "visitor" => dispatch[m] # "owner" /\ "email" \in form[m].row
        BY <3>1 DEF IInv, Mails, Standing, StandingAt
      <4>2. QED
        BY <1>2, <2>1, <2>3, <3>1, <4>1, InboxMail DEF Audience
    <3>2. CASE who # dispatch[m]
      <4>1. MailTo(m, who) \in DOMAIN copies \ {x}
        BY <2>3, <2>4, <3>2
      <4>2. QED
        BY <2>3, <3>2, <4>1 DEF IInv, Mails, Counted, CountedAt
    <3>3. QED
      BY <3>1, <3>2
  <2>6. \A n \in Messages \ {m} : CountedAt(n)'
    <3> SUFFICES ASSUME NEW n \in Messages \ {m} PROVE CountedAt(n)'
      OBVIOUS
    <3>1. \A who \in Audience : MailTo(n, who) # x
      BY <2>4
    <3>2. CountedAt(n) /\ Tried(n)' = Tried(n) /\ sends'[n] = sends[n]
      BY <1>5 DEF IInv, Mails, Counted, Tried
    <3>3. QED
      BY <1>1, <2>3, <3>1, <3>2 DEF CountedAt
  <2>7. TypeOK'
    <3>1. \A y \in DOMAIN copies' : copies'[y] \in Nat
      BY <2>1, <2>3, InboxMail DEF IInv, TypeOK
    <3>2. DOMAIN copies' \subseteq InboxMails
      BY <1>3, <2>3 DEF IInv, TypeOK
    <3>3. QED
      BY <1>1, <1>4, <3>1, <3>2 DEF IInv, TypeOK
  <2>8. Mails'
    BY <1>4, <1>7, <2>5, <2>6 DEF Mails, Standing, Counted
  <2>9. QED
    BY <1>1, <1>4, <2>7, <2>8, TriageFrame DEF IInv
<1>10. QED
  <2>1. UNCHANGED copies \/ (/\ sends[m].state = "trying"
          /\ copies' = Set(copies, sends[m].mail,
                1 + IF sends[m].mail \in DOMAIN copies THEN copies[sends[m].mail] ELSE 0))
    BY DEF Deliver, Mail!AttemptAccepted, Mail!AttemptLost
  <2>2. QED
    BY <1>3, <1>8, <1>9, <2>1

(***************************************************************************)
(* Triage.                                                                 *)
(***************************************************************************)

LEMMA ReadStep ==
  ASSUME IInv, NEW p \in Patches, ReadMessage(p)
  PROVE  IInv'
<1>1. PICK m \in DOMAIN rows, a \in BOOLEAN :
        /\ patch' = [patch EXCEPT ![p] =
                       [state |-> "read", message |-> m, archive |-> a, was |-> rows[m].archived]]
        /\ crossed' = IF \E o \in Patches : patch[o].state = "read" /\ patch[o].message = m
                      THEN crossed \union {m} ELSE crossed
  BY DEF ReadMessage
<1>2. /\ UNCHANGED <<now, stopping, sends, seen, delivered, form, rows, dispatch, copies, since>>
      /\ patch[p].state = "idle"
  BY DEF ReadMessage
<1>3. m \in Messages /\ m \in DOMAIN form /\ rows[m].archived \in BOOLEAN
  BY DEF IInv, TypeOK, Row
<1> DEFINE new == [state |-> "read", message |-> m, archive |-> a, was |-> rows[m].archived]
<1>4. /\ new \in Patch /\ new.state = "read" /\ new.message = m /\ new.was = rows[m].archived
      /\ patch' = [patch EXCEPT ![p] = new]
  BY <1>1, <1>3 DEF Patch
<1> HIDE DEF new
<1>5. patch'[p] = new /\ \A o \in Patches \ {p} : patch'[o] = patch[o]
  BY <1>4 DEF IInv, TypeOK
<1>6. TypeOK'
  <2>1. Mail!TypeOK'
    BY <1>2 DEF IInv, TypeOK, Mail!TypeOK
  <2>2. patch' \in [Patches -> Patch] /\ crossed' \subseteq Messages
    BY <1>1, <1>3, <1>4 DEF IInv, TypeOK
  <2>3. QED
    BY <1>2, <2>1, <2>2 DEF IInv, TypeOK
<1>7. Mails'
  BY <1>2, MailsFrame DEF IInv
<1>8. RowsOfForms'
  BY <1>2, <1>3, <1>4, <1>5 DEF IInv, Triage, RowsOfForms
<1>9. StaleReads'
  BY <1>2, <1>4, <1>5 DEF IInv, Triage, StaleReads, Reading
<1>10. ArchivedSince' /\ TriageCoherentAlone'
  BY <1>1, <1>2 DEF IInv, Triage, ArchivedSince, TriageCoherentAlone
<1>11. OneReader'
  <2> SUFFICES ASSUME NEW n \in DOMAIN rows \ crossed'
               PROVE  /\ \A q, o \in Patches : Reading(q, n)' /\ Reading(o, n)' => q = o
                      /\ \A q \in Patches : Reading(q, n)' => patch'[q].was = rows[n].archived
    BY <1>2 DEF OneReader
  <2>1. n \notin crossed
    BY <1>1
  <2>2. CASE n = m
    <3>1. \A o \in Patches : ~Reading(o, m)
      BY <1>1, <2>2 DEF Reading
    <3>2. \A o \in Patches : Reading(o, m)' => o = p
      BY <1>5, <3>1 DEF Reading
    <3>3. QED
      BY <1>4, <1>5, <2>2, <3>2
  <2>3. CASE n # m
    <3>1. \A o \in Patches : Reading(o, n)' => o # p /\ Reading(o, n) /\ patch'[o] = patch[o]
      BY <1>4, <1>5, <2>3 DEF Reading
    <3>2. QED
      BY <2>1, <3>1 DEF IInv, Triage, OneReader
  <2>4. QED
    BY <2>2, <2>3
<1>12. QED
  BY <1>6, <1>7, <1>8, <1>9, <1>10, <1>11 DEF IInv, Triage

(* What the write does to the row it finds. *)
LEMMA WriteMoves ==
  ASSUME IInv, NEW p \in Patches, NEW m \in DOMAIN rows, Reading(p, m)
  PROVE  LET row == Triaged(p, rows[m])
         IN  /\ row \in Row /\ row.reach = rows[m].reach
             /\ row.archived = patch[p].archive
             /\ \/ row.archivedAt = now /\ row.archived
                \/ row.archivedAt = Never /\ ~row.archived
                \/ row.archivedAt = rows[m].archivedAt /\ patch[p].was = row.archived
             /\ row.archived = patch[p].was \/ (row.archivedAt # Never <=> row.archived)
<1>1. /\ rows[m] \in Row /\ patch[p].archive \in BOOLEAN /\ patch[p].was \in BOOLEAN
      /\ now \in Nat
  BY DEF IInv, TypeOK, Patch, Mail!TypeOK
<1>2. Instant(p, rows[m]) \in Nat \union {Never}
  BY <1>1 DEF Instant, Row
<1>3. /\ Triaged(p, rows[m]) \in Row
      /\ Triaged(p, rows[m]).reach = rows[m].reach
      /\ Triaged(p, rows[m]).archived = patch[p].archive
      /\ Triaged(p, rows[m]).archivedAt = Instant(p, rows[m])
  BY <1>1, <1>2 DEF Triaged, Row
<1>4. QED
  BY <1>1, <1>3 DEF Instant, Never

LEMMA WriteStep ==
  ASSUME IInv, NEW p \in Patches, WriteMessage(p)
  PROVE  IInv'
<1> DEFINE m == patch[p].message
<1>1. /\ patch[p].state = "read" /\ patch' = [patch EXCEPT ![p] = Unsent]
      /\ UNCHANGED <<now, stopping, sends, seen, delivered, form, dispatch, copies, crossed>>
  BY DEF WriteMessage
<1>2. Reading(p, m) /\ m \in DOMAIN form /\ m \in Messages
  BY <1>1 DEF Reading, IInv, Triage, RowsOfForms, TypeOK
<1>3. Unsent \in Patch /\ Unsent.state = "idle"
  BY DEF Unsent, Patch
<1>4. patch'[p] = Unsent /\ \A o \in Patches \ {p} : patch'[o] = patch[o]
  BY <1>1 DEF IInv, TypeOK
<1>5. \A o \in Patches, n \in Messages : Reading(o, n)' => o # p /\ Reading(o, n) /\ patch'[o] = patch[o]
  BY <1>3, <1>4 DEF Reading
<1>6. Mails' /\ Mail!TypeOK' /\ patch' \in [Patches -> Patch]
  BY <1>1, <1>3, MailsFrame DEF IInv, TypeOK, Mail!TypeOK
<1>7. CASE m \notin DOMAIN rows
  <2>1. UNCHANGED <<rows, since>>
    BY <1>7 DEF WriteMessage
  <2>2. TypeOK'
    BY <1>1, <1>6, <2>1 DEF IInv, TypeOK
  <2>3. RowsOfForms' /\ ArchivedSince' /\ TriageCoherentAlone'
    BY <1>1, <1>3, <1>4, <2>1 DEF IInv, Triage, RowsOfForms, ArchivedSince, TriageCoherentAlone
  <2>4. StaleReads' /\ OneReader'
    BY <1>1, <1>5, <2>1 DEF IInv, Triage, StaleReads, OneReader, TypeOK
  <2>5. QED
    BY <1>6, <2>2, <2>3, <2>4 DEF IInv, Triage
<1>8. CASE m \in DOMAIN rows
  <2> DEFINE row == Triaged(p, rows[m])
  <2>1. /\ row \in Row /\ row.reach = rows[m].reach
        /\ row.archived = patch[p].archive
        /\ \/ row.archivedAt = now /\ row.archived
           \/ row.archivedAt = Never /\ ~row.archived
           \/ row.archivedAt = rows[m].archivedAt /\ patch[p].was = row.archived
        /\ row.archived = patch[p].was \/ (row.archivedAt # Never <=> row.archived)
    BY <1>2, <1>8, WriteMoves
  <2>2. /\ rows' = [rows EXCEPT ![m] = row]
        /\ since' = IF rows'[m].archived /\ ~rows[m].archived THEN Set(since, m, now) ELSE since
    BY <1>8 DEF WriteMessage
  <2> HIDE DEF row
  <2>3. DOMAIN rows' = DOMAIN rows /\ rows'[m] = row /\ \A n \in DOMAIN rows \ {m} : rows'[n] = rows[n]
    BY <1>8, <2>2
  <2>4. /\ DOMAIN since' \subseteq DOMAIN since \union {m} /\ DOMAIN since \subseteq DOMAIN since'
        /\ \A n \in DOMAIN since \ {m} : since'[n] = since[n]
        /\ IF row.archived /\ ~rows[m].archived
           THEN m \in DOMAIN since' /\ since'[m] = now ELSE since' = since
    BY <2>2, <2>3 DEF Set
  <2>5. now \in Nat /\ rows[m] \in Row
    BY <1>8 DEF IInv, TypeOK, Mail!TypeOK
  <2>6. TypeOK'
    <3>1. \A n \in DOMAIN since' : since'[n] \in Nat
      BY <2>4, <2>5 DEF IInv, TypeOK
    <3>2. DOMAIN since' \subseteq Messages
      BY <1>2, <2>4 DEF IInv, TypeOK
    <3>3. \A n \in DOMAIN rows' : rows'[n] \in Row
      BY <2>1, <2>3 DEF IInv, TypeOK
    <3>4. QED
      BY <1>1, <1>6, <2>3, <3>1, <3>2, <3>3 DEF IInv, TypeOK
  <2>7. RowsOfForms'
    BY <1>1, <1>3, <1>4, <2>1, <2>3, <1>8 DEF IInv, Triage, RowsOfForms
  <2>8. StaleReads'
    <3> SUFFICES ASSUME NEW n \in DOMAIN rows, NEW o \in Patches, Reading(o, n)',
                        patch'[o].was # rows'[n].archived
                 PROVE  rows'[n].archivedAt \in {Never, now}
      BY <1>1, <2>3 DEF StaleReads
    <3>1. Reading(o, n) /\ patch'[o] = patch[o] /\ n \in Messages
      BY <1>5 DEF IInv, TypeOK
    <3>2. CASE n # m
      BY <2>3, <3>1, <3>2 DEF IInv, Triage, StaleReads
    <3>3. CASE n = m
      <4>1. CASE patch[p].was # rows[m].archived
        BY <1>2, <1>8, <2>1, <2>3, <3>3, <4>1 DEF IInv, Triage, StaleReads
      <4>2. CASE patch[p].was = rows[m].archived /\ row.archived = rows[m].archived /\ row.archivedAt = rows[m].archivedAt
        BY <1>8, <2>3, <3>1, <3>3, <4>2 DEF IInv, Triage, StaleReads
      <4>3. QED
        BY <2>1, <2>3, <3>3, <4>1, <4>2
    <3>4. QED
      BY <3>2, <3>3
  <2>9. ArchivedSince'
    <3>1. \A n \in DOMAIN since' : since'[n] <= now'
      BY <1>1, <2>4, <2>5 DEF IInv, Triage, ArchivedSince
    <3>2. ASSUME NEW n \in DOMAIN rows', rows'[n].archived
          PROVE  n \in DOMAIN since' /\ (rows'[n].archivedAt # Never => since'[n] <= rows'[n].archivedAt)
      <4>1. CASE n # m
        BY <2>3, <2>4, <3>2, <4>1 DEF IInv, Triage, ArchivedSince
      <4>2. CASE n = m /\ ~rows[m].archived
        <5>1. m \in DOMAIN since' /\ since'[m] = now
          BY <2>3, <2>4, <3>2, <4>2
        <5>2. row.archivedAt \in {Never, now}
          BY <1>2, <1>8, <2>1, <2>3, <3>2, <4>2 DEF IInv, Triage, StaleReads
        <5>3. QED
          BY <2>3, <2>5, <4>2, <5>1, <5>2
      <4>3. CASE n = m /\ rows[m].archived
        <5>1. since' = since /\ m \in DOMAIN since /\ since[m] <= now
          BY <1>8, <2>4, <4>3 DEF IInv, Triage, ArchivedSince
        <5>2. row.archived /\ row.archivedAt \in {now, rows[m].archivedAt}
          BY <2>1, <2>3, <3>2, <4>3
        <5>3. rows[m].archivedAt # Never => since[m] <= rows[m].archivedAt
          BY <1>8, <4>3 DEF IInv, Triage, ArchivedSince
        <5>4. QED
          BY <2>3, <4>3, <5>1, <5>2, <5>3
      <4>4. QED
        BY <4>1, <4>2, <4>3
    <3>3. QED
      BY <3>1, <3>2 DEF ArchivedSince
  <2>10. OneReader' /\ TriageCoherentAlone'
    <3>1. ASSUME NEW n \in DOMAIN rows \ crossed
          PROVE  /\ \A q, o \in Patches : Reading(q, n)' /\ Reading(o, n)' => q = o
                 /\ \A q \in Patches : Reading(q, n)' => patch'[q].was = rows'[n].archived
                 /\ rows'[n].archived <=> rows'[n].archivedAt # Never
      <4>1. n \in Messages
        BY DEF IInv, TypeOK
      <4>2. CASE n # m
        BY <1>5, <2>3, <4>1, <4>2 DEF IInv, Triage, OneReader, TriageCoherentAlone
      <4>3. CASE n = m
        <5>1. \A o \in Patches : ~Reading(o, n)'
          BY <1>2, <1>5, <4>1, <4>3 DEF IInv, Triage, OneReader
        <5>2. patch[p].was = rows[m].archived /\ (rows[m].archived <=> rows[m].archivedAt # Never)
          BY <1>2, <4>3 DEF IInv, Triage, OneReader, TriageCoherentAlone
        <5>3. row.archived <=> row.archivedAt # Never
          BY <2>1, <2>5, <5>2 DEF Never
        <5>4. QED
          BY <2>3, <4>3, <5>1, <5>3
      <4>4. QED
        BY <4>2, <4>3
    <3>2. QED
      BY <1>1, <2>3, <3>1 DEF OneReader, TriageCoherentAlone
  <2>11. QED
    BY <1>6, <2>6, <2>7, <2>8, <2>9, <2>10 DEF IInv, Triage
<1>9. QED
  BY <1>7, <1>8

LEMMA PurgeStep ==
  ASSUME IInv, Purge
  PROVE  IInv'
<1>1. /\ DOMAIN rows' \subseteq DOMAIN rows /\ \A n \in DOMAIN rows' : rows'[n] = rows[n]
      /\ UNCHANGED <<now, stopping, sends, seen, delivered, form, dispatch, patch, copies, since, crossed>>
  BY DEF Purge
<1>2. Mails' /\ Mail!TypeOK'
  BY <1>1, MailsFrame DEF IInv, TypeOK, Mail!TypeOK
<1>3. TypeOK'
  BY <1>1, <1>2 DEF IInv, TypeOK
<1>4. RowsOfForms' /\ ArchivedSince' /\ TriageCoherentAlone'
  BY <1>1 DEF IInv, Triage, RowsOfForms, ArchivedSince, TriageCoherentAlone
<1>5. StaleReads' /\ OneReader'
  BY <1>1 DEF IInv, Triage, StaleReads, OneReader, Reading
<1>6. QED
  BY <1>2, <1>3, <1>4, <1>5 DEF IInv, Triage

LEMMA CrashStep ==
  ASSUME IInv, Crash
  PROVE  IInv'
<1>1. /\ UNCHANGED <<now, seen, delivered, form, rows, copies, since, crossed>> /\ stopping' = FALSE
      /\ sends' = [m \in Messages |-> Mail!Idle] /\ patch' = [p \in Patches |-> Unsent]
  BY DEF Crash, Mail!Restart
<1>2. \A m \in Messages :
        dispatch'[m] = IF dispatch[m] \in {"committed", "owner", "visitor"} THEN "lost" ELSE dispatch[m]
  BY DEF Crash
<1>3. Mail!Idle \in Mail!SendRecord /\ Mail!Idle.state = "idle"
  BY InboxMail DEF Mail!Idle, Mail!SendRecord, Mail!Running, Mail!Finished
<1>4. Unsent \in Patch /\ \A p \in Patches, m \in Messages : ~Reading(p, m)'
  BY <1>1 DEF Unsent, Patch, Reading
<1>5. TypeOK'
  <2>1. Mail!TypeOK'
    BY <1>1, <1>3 DEF IInv, TypeOK, Mail!TypeOK
  <2>2. dispatch' \in [Messages -> {"none", "dropped", "committed", "owner", "visitor", "over", "lost"}]
    BY DEF IInv, TypeOK, Crash
  <2>3. QED
    BY <1>1, <1>4, <2>1, <2>2 DEF IInv, TypeOK
<1>6. Mails'
  <2>1. Attempting'
    BY <1>1, <1>3 DEF Attempting
  <2>2. Standing'
    BY <1>1, <1>2, <1>3 DEF IInv, TypeOK, Mails, Standing, StandingAt, Audience
  <2>3. Counted'
    BY <1>1, <1>2 DEF IInv, TypeOK, Mails, Counted, CountedAt, Audience
  <2>4. QED
    BY <2>1, <2>2, <2>3 DEF Mails
<1>7. RowsOfForms' /\ ArchivedSince' /\ TriageCoherentAlone'
  BY <1>1 DEF IInv, Triage, RowsOfForms, ArchivedSince, TriageCoherentAlone, Unsent
<1>8. StaleReads' /\ OneReader'
  BY <1>1, <1>4 DEF IInv, TypeOK, StaleReads, OneReader
<1>9. QED
  BY <1>5, <1>6, <1>7, <1>8 DEF IInv, Triage

LEMMA TickStep ==
  ASSUME IInv, Tick
  PROVE  IInv'
<1>1. /\ now' = now + 1 /\ now \in Nat /\ \A p \in Patches : patch[p].state # "read"
      /\ UNCHANGED <<stopping, sends, seen, delivered, form, rows, patch, since, crossed, dispatch, copies>>
  BY DEF Tick, Mail!Tick, inboxVars, IInv, TypeOK, Mail!TypeOK
<1>2. Mail!TypeOK'
  BY <1>1 DEF IInv, TypeOK, Mail!TypeOK
<1>3. TypeOK' /\ Mails'
  BY <1>1, <1>2, MailsFrame DEF IInv, TypeOK
<1>4. RowsOfForms' /\ TriageCoherentAlone' /\ StaleReads' /\ OneReader'
  BY <1>1 DEF IInv, Triage, RowsOfForms, TriageCoherentAlone, StaleReads, OneReader, Reading
<1>5. ArchivedSince'
  BY <1>1 DEF IInv, TypeOK, Triage, ArchivedSince
<1>6. QED
  BY <1>3, <1>4, <1>5 DEF IInv, Triage

(* The sleepers wake early, with the attempts they have made. *)
LEMMA ShutdownStep ==
  ASSUME IInv, Shutdown
  PROVE  IInv'
<1>1. /\ UNCHANGED <<now, seen, delivered, form, rows, patch, since, crossed, dispatch, copies>>
      /\ stopping' = TRUE /\ sends' = [m \in Messages |-> Mail!Resolved(sends[m])]
  BY DEF Shutdown, Mail!Shutdown, inboxVars
<1>2. \A m \in Messages :
        /\ sends'[m] \in Mail!SendRecord
        /\ sends'[m].mail = sends[m].mail /\ sends'[m].attempt = sends[m].attempt
        /\ \/ sends'[m].state = sends[m].state
           \/ sends[m].state = "backoff" /\ sends'[m].state = "awake"
  <2> SUFFICES ASSUME NEW m \in Messages
               PROVE  /\ sends'[m] \in Mail!SendRecord
                      /\ sends'[m].mail = sends[m].mail /\ sends'[m].attempt = sends[m].attempt
                      /\ \/ sends'[m].state = sends[m].state
                         \/ sends[m].state = "backoff" /\ sends'[m].state = "awake"
    OBVIOUS
  <2>1. sends[m] \in Mail!SendRecord /\ sends'[m] = Mail!Resolved(sends[m])
    BY <1>1 DEF IInv, TypeOK, Mail!TypeOK
  <2>2. CASE sends[m].state = "backoff"
    <3> DEFINE woken == [sends[m] EXCEPT !.state = "awake", !.timer = FALSE]
    <3>1. sends'[m] = woken
      BY <2>1, <2>2 DEF Mail!Resolved
    <3>2. woken \in Mail!SendRecord
      BY <2>1 DEF Mail!SendRecord, Mail!Running
    <3>3. woken.mail = sends[m].mail /\ woken.attempt = sends[m].attempt /\ woken.state = "awake"
      BY <2>1 DEF Mail!SendRecord
    <3> HIDE DEF woken
    <3>4. QED
      BY <2>2, <3>1, <3>2, <3>3
  <2>3. CASE sends[m].state # "backoff"
    BY <2>1, <2>3 DEF Mail!Resolved
  <2>4. QED
    BY <2>2, <2>3
<1>3. sends' \in [Messages -> Mail!SendRecord]
  BY <1>1, <1>2
<1>4. TypeOK'
  BY <1>1, <1>3 DEF IInv, TypeOK, Mail!TypeOK
<1>5. Attempting' /\ Standing'
  BY <1>1, <1>2 DEF IInv, Mails, Attempting, Standing, StandingAt
<1>6. \A m \in Messages : Tried(m)' = Tried(m) /\ (sends'[m].state \in UnderWay <=> sends[m].state \in UnderWay)
  BY <1>2 DEF Tried, UnderWay
<1>7. Counted'
  BY <1>1, <1>6 DEF IInv, Mails, Counted, CountedAt
<1>8. QED
  BY <1>1, <1>4, <1>5, <1>7, TriageFrame DEF IInv, Mails

LEMMA StillStep ==
  ASSUME IInv, UNCHANGED vars
  PROVE  IInv'
<1>1. TypeOK'
  BY DEF vars, IInv, TypeOK, Mail!TypeOK
<1>2. QED
  BY <1>1, MailsFrame, TriageFrame DEF IInv, vars

(***************************************************************************)
(* The specification.                                                      *)
(***************************************************************************)

LEMMA InitInvariant == Init => IInv
<1> SUFFICES ASSUME Init PROVE IInv
  OBVIOUS
<1>1. Mail!Idle \in Mail!SendRecord /\ Mail!Idle.state = "idle"
  BY InboxMail DEF Mail!Idle, Mail!SendRecord, Mail!Running, Mail!Finished
<1>2. Unsent \in Patch /\ Unsent.state = "idle"
  BY DEF Unsent, Patch
<1>3. DOMAIN form = {} /\ DOMAIN rows = {} /\ DOMAIN copies = {} /\ DOMAIN since = {} /\ crossed = {}
  BY DEF Init
<1>4. Mail!TypeOK
  BY <1>1 DEF Init, Mail!Init, Mail!TypeOK
<1>5. TypeOK
  BY <1>2, <1>3, <1>4 DEF Init, TypeOK
<1>6. Mails
  BY <1>1, <1>3 DEF Init, Mail!Init, Mails, Standing, StandingAt, Attempting, Counted, CountedAt, Audience
<1>7. Triage
  BY <1>2, <1>3 DEF Init, Triage, RowsOfForms, StaleReads, ArchivedSince, OneReader, TriageCoherentAlone
<1>8. QED
  BY <1>5, <1>6, <1>7 DEF IInv

LEMMA StepInvariant == IInv /\ [Next]_vars => IInv'
  BY SubmitStep, NotifyStep, DeliverStep, AcknowledgeStep, EndStep, ReadStep, WriteStep, PurgeStep,
     CrashStep, TickStep, ShutdownStep, StillStep DEF Next

LEMMA InvariantHolds == Spec => []IInv
  BY InitInvariant, StepInvariant, PTL DEF Spec

(* Types, of the inbox and of the mail it sends.                           *)
THEOREM TypeCorrect == Spec => []TypeOK
<1>1. IInv => TypeOK
  BY DEF IInv
<1>2. QED
  BY <1>1, InvariantHolds, PTL

(* However the relay fails, a trapped submission is never mailed about, a  *)
(* visitor is written to only at an address of theirs and only after the   *)
(* owner's turn, and no mail goes out more often than one send tries.      *)
THEOREM NoAmplifier == Spec => []MailsBounded
<1>1. IInv => MailsBounded
  <2> SUFFICES ASSUME IInv, NEW x \in DOMAIN copies
               PROVE  /\ ~form[x.message].trapped
                      /\ x.to = "visitor" => "email" \in form[x.message].supplied /\ dispatch[x.message] # "owner"
                      /\ copies[x] <= MaxAttempts
    BY DEF MailsBounded
  <2>1. PICK m \in Messages, who \in Audience : x = MailTo(m, who)
    BY OneMailEach DEF IInv, TypeOK
  <2>2. x.message = m /\ x.to = who
    BY <2>1, OneMailEach
  <2>3. /\ dispatch[m] \notin {"none", "dropped", "committed"} /\ copies[x] \in 0 .. MaxAttempts
        /\ who = "visitor" => dispatch[m] # "owner" /\ "email" \in form[m].row
    BY <2>1 DEF IInv, Mails, Counted, CountedAt
  <2>4. m \in DOMAIN form /\ ~form[m].trapped /\ form[m].row = form[m].supplied
    BY <2>3 DEF IInv, Mails, Standing, StandingAt, Triage, RowsOfForms
  <2>5. QED
    BY <2>2, <2>3, <2>4, InboxMail
<1>2. QED
  BY <1>1, InvariantHolds, PTL

(* Every stored message keeps each way of answering it that was typed, and *)
(* has at least one.                                                       *)
THEOREM ReachKept == Spec => []NothingDiscarded
<1>1. IInv => NothingDiscarded
  BY DEF IInv, Triage, RowsOfForms, TypeOK, NothingDiscarded
<1>2. QED
  BY <1>1, InvariantHolds, PTL

(* archivedAt says whether a message is archived, for every message whose  *)
(* PATCHes did not overlap.                                                *)
THEOREM InstantFits == Spec => []TriageCoherentAlone
<1>1. IInv => TriageCoherentAlone
  BY DEF IInv, Triage
<1>2. QED
  BY <1>1, InvariantHolds, PTL

(* The retention job never takes a message that has been in the archive    *)
(* for less than the retention period, whatever stale reads decided its    *)
(* archivedAt.                                                             *)
THEOREM RecentIsKept == Spec => PurgeKeepsRecent
<1> DEFINE Keeps == \A m \in DOMAIN rows \ DOMAIN rows' : m \in DOMAIN since /\ since[m] < now - RetentionPeriod
<1>1. ASSUME IInv, [Next]_vars PROVE Keeps
  <2>1. CASE Purge
    <3> SUFFICES ASSUME NEW m \in DOMAIN rows \ DOMAIN rows'
                 PROVE  m \in DOMAIN since /\ since[m] < now - RetentionPeriod
      OBVIOUS
    <3>1. Expired(rows[m])
      BY <2>1 DEF Purge
    <3>2. rows[m].archived /\ rows[m].archivedAt # Never /\ rows[m].archivedAt < now - RetentionPeriod
      BY <3>1 DEF Expired
    <3>3. m \in DOMAIN since /\ since[m] <= rows[m].archivedAt
      BY <1>1, <3>2 DEF IInv, Triage, ArchivedSince
    <3>4. since[m] \in Nat /\ rows[m].archivedAt \in Nat /\ now \in Nat /\ RetentionPeriod \in Nat
      BY <1>1, <3>2, <3>3, InboxTimes DEF IInv, TypeOK, Row, Mail!TypeOK
    <3>5. QED
      BY <3>2, <3>3, <3>4
  <2>2. CASE \E m \in Messages : Submit(m)
    <3>1. PICK m \in Messages : Submit(m)
      BY <2>2
    <3>2. DOMAIN rows \subseteq DOMAIN rows'
      BY <3>1 DEF Submit, Set
    <3>3. QED
      BY <3>2
  <2>3. CASE \E p \in Patches : WriteMessage(p)
    <3>1. DOMAIN rows' = DOMAIN rows
      BY <2>3 DEF WriteMessage
    <3>2. QED
      BY <3>1
  <2>4. CASE UNCHANGED rows
    BY <2>4
  <2>5. ASSUME NEW m \in Messages, NotifyOwner(m) \/ Deliver(m) \/ Acknowledge(m) \/ EndDispatch(m)
        PROVE  UNCHANGED rows
    BY <2>5 DEF NotifyOwner, Deliver, Acknowledge, EndDispatch, inboxVars
  <2>6. ASSUME NEW p \in Patches, ReadMessage(p) PROVE UNCHANGED rows
    BY <2>6 DEF ReadMessage
  <2>7. Shutdown \/ Crash \/ Tick \/ UNCHANGED vars => UNCHANGED rows
    BY DEF Shutdown, Crash, Tick, inboxVars, vars
  <2>8. QED
    BY <1>1, <2>1, <2>2, <2>3, <2>4, <2>5, <2>6, <2>7 DEF Next
<1>2. IInv /\ [Next]_vars => [Keeps]_vars
  BY <1>1
<1>3. QED
  BY <1>2, InvariantHolds, PTL DEF Spec, PurgeKeepsRecent
=============================================================================
