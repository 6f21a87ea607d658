------------------------- MODULE ContactReply_proofs -------------------------
(***************************************************************************)
(* Proofs about ContactReply, for any sets of requests, messages, keys,    *)
(* operators and texts and any bounds on time.                             *)
(*                                                                         *)
(* The argument follows an attempt's identity.  A row is inserted by one   *)
(* request, which keeps a copy of it (RowsInserted); every other handler   *)
(* holds a copy with the same identity (HeldCopies); a send carries the    *)
(* mail of the copy its handler holds (SendsOfHeld); and so every mail the *)
(* relay took under a row's key is that row's mail, sent in its time       *)
(* (DeliveriesOfRows).                                                     *)
(*                                                                         *)
(* That identity outlives the row.  The last part shows, step by step,     *)
(* that the handlers implement ReplyLedger (LedgerKept): a maker's copy    *)
(* stands for its attempt after the purge has taken the row (RowsKept,     *)
(* OneMade), and whoever recorded an outcome keeps a copy of it, so that   *)
(* what any copy says was recorded once (RowsRecorded).                    *)
(***************************************************************************)
EXTENDS ContactReply, TLAPS

Relay == INSTANCE MailDelivery_proofs WITH
           Senders      <- Requests,
           Mails        <- ReplyMails,
           ProviderKeys <- {ProviderKey(r) : r \in Requests}

(* Request i has inserted a row, and holds a copy of it. *)
Inserted(i) == held[i] # NoRow /\ held[i].id = i

SameAttempt(a, b) ==
  /\ a.id = b.id
  /\ a.message = b.message
  /\ a.key = b.key
  /\ a.body = b.body
  /\ a.user = b.user
  /\ a.createdAt = b.createdAt

(* What a request has when it stands at each label. *)
HandlersWellFormed ==
  \A r \in Requests :
    /\ pc[r] \in Working => input[r] \in Input
    /\ pc[r] = "claim" => input[r].message \in Repliable
    /\ pc[r] \in {"new", "claim", "lost"} => held[r] = NoRow /\ sends[r].state = "idle"
    /\ pc[r] \in {"found", "first", "recovery", "recorded"} => held[r] # NoRow
    /\ pc[r] = "first" => held[r].id = r

RowsInserted ==
  \A i \in Requests : rows[i] # NoRow => Inserted(i) /\ SameAttempt(rows[i], held[i])

HeldCopies ==
  \A r \in Requests : held[r] # NoRow =>
    /\ Inserted(held[r].id)
    /\ SameAttempt(held[r], held[held[r].id])
    /\ input[r] \in Input /\ held[r].message = input[r].message
    /\ held[r].createdAt <= now

SendsOfHeld ==
  \A r \in Requests : sends[r].state # "idle" =>
    /\ held[r] # NoRow
    /\ sends[r].mail = ReplyMail(r, held[r])
    /\ sends[r].state \in Mail!Running =>
         /\ held[r].createdAt <= sends[r].startedAt
         /\ sends[r].startedAt < held[r].createdAt + Retention
         /\ sends[r].startedAt <= now
         /\ now <= sends[r].startedAt + SendBound

DeliveriesOfRows ==
  \A i \in Requests : \A d \in MailsOf(i) :
    /\ Inserted(i)
    /\ d.mail.to = held[i].message
    /\ d.mail.text = held[i].body
    /\ held[i].createdAt <= d.at
    /\ d.at < held[i].createdAt + Retention + SendBound

IInv ==
  /\ TypeOK
  /\ Relay!MailInv
  /\ HandlersWellFormed
  /\ RowsInserted
  /\ HeldCopies
  /\ SendsOfHeld
  /\ DeliveriesOfRows
  /\ OneAttemptPerKey
  /\ RowsAnswerable
  /\ FailedByFirstSendOnly
  /\ SentWasAccepted

(***************************************************************************)
(* The relay: what MailDelivery_proofs shows, for this instance.           *)
(***************************************************************************)

LEMMA ReplyMailKeys ==
  /\ \A m \in ReplyMails : m.key \in {ProviderKey(r) : r \in Requests} \union {NoKey}
  /\ \A r, q \in Requests : ProviderKey(r) = ProviderKey(q) => r = q
  /\ \A r \in Requests : ProviderKey(r) # NoKey
  BY NoKeyIsNoKey DEF ReplyMails, ProviderKey

LEMMA RelayInit == Mail!Init => Relay!MailInv
<1>1. Mail!Init => Relay!Init
  BY DEF Mail!Init, Relay!Init, Mail!Idle, Relay!Idle, Mail!Never, Relay!Never
<1>2. QED
  BY <1>1, Relay!InitInvariant, ReplyMailKeys, RequestsNotEmpty, NoKeyIsNoKey, NoMailIsNoMail, BoundsType, Zenon

LEMMA RelayBegin ==
  ASSUME Relay!MailInv, NEW r \in Requests, NEW m \in ReplyMails, Mail!Begin(r, m)
  PROVE  Relay!MailInv'
<1>1. Relay!Begin(r, m)
  BY DEF Mail!Begin, Relay!Begin, Mail!Begun, Relay!Begun, Mail!Running, Relay!Running
<1>2. QED
  BY <1>1, Relay!BeginStep, ReplyMailKeys, RequestsNotEmpty, NoKeyIsNoKey, NoMailIsNoMail, BoundsType, Zenon

LEMMA RelaySend ==
  ASSUME Relay!MailInv, NEW r \in Requests, Mail!SendStep(r)
  PROVE  Relay!MailInv'
<1>1. Relay!SendStep(r)
  BY DEF Mail!SendStep, Relay!SendStep, Mail!AttemptAccepted, Relay!AttemptAccepted,
     Mail!AttemptLost, Relay!AttemptLost, Mail!AttemptTransient, Relay!AttemptTransient,
     Mail!AttemptRejected, Relay!AttemptRejected, Mail!Wake, Relay!Wake, Mail!Wakes, Relay!Wakes,
     Mail!RelayTakes, Relay!RelayTakes, Mail!Header, Relay!Header, Mail!Remembered, Relay!Remembered,
     Mail!Finish, Relay!Finish, Mail!Result, Relay!Result, Mail!Sleep, Relay!Sleep,
     Mail!AfterFailure, Relay!AfterFailure,
     Mail!GivesUp, Relay!GivesUp, Mail!Never, Relay!Never
<1>2. Relay!Next
  BY <1>1 DEF Relay!Next
<1>3. QED
  BY <1>2, Relay!StepInvariant, ReplyMailKeys, RequestsNotEmpty, NoKeyIsNoKey, NoMailIsNoMail, BoundsType, Zenon

LEMMA RelayWorld ==
  ASSUME Relay!MailInv,
         Mail!Shutdown \/ Mail!Restart \/ Mail!Tick \/ UNCHANGED <<now, stopping, sends, seen, delivered>>
  PROVE  Relay!MailInv'
<1>1. Relay!Shutdown \/ Relay!Restart \/ Relay!Tick \/ UNCHANGED Relay!mailVars
  BY DEF Mail!Shutdown, Relay!Shutdown, Mail!Resolved, Relay!Resolved, Mail!Restart, Relay!Restart, Mail!Tick, Relay!Tick,
     Mail!Idle, Relay!Idle, Mail!Running, Relay!Running, Relay!mailVars
<1>2. QED
  BY <1>1, Relay!WorldStep, ReplyMailKeys, RequestsNotEmpty, NoKeyIsNoKey, NoMailIsNoMail, BoundsType, Zenon

LEMMA RelayTypes == Relay!MailInv => Mail!TypeOK
  BY DEF Relay!MailInv, Relay!TypeOK, Mail!TypeOK, Relay!SendRecord, Mail!SendRecord,
     Relay!Running, Mail!Running, Relay!Finished, Mail!Finished, Relay!Delivery, Mail!Delivery,
     Relay!Never, Mail!Never

LEMMA RelayTypesNext == ASSUME Relay!MailInv' PROVE Mail!TypeOK'
  BY DEF Relay!MailInv, Relay!TypeOK, Mail!TypeOK, Relay!SendRecord, Mail!SendRecord,
     Relay!Running, Mail!Running, Relay!Finished, Mail!Finished, Relay!Delivery, Mail!Delivery,
     Relay!Never, Mail!Never

(* One step of a send: the handler's own send moves, and the relay may     *)
(* take the mail it carries.                                               *)
LEMMA SendEffect ==
  ASSUME Mail!TypeOK, NEW r \in Requests, Mail!SendStep(r)
  PROVE  /\ now' = now
         /\ sends[r].state \in Mail!Running
         /\ sends'[r].mail = sends[r].mail
         /\ sends'[r].state \in Mail!Running => sends'[r].startedAt = sends[r].startedAt
         /\ sends'[r].state # "idle"
         /\ \A q \in Requests : q # r => sends'[q] = sends[q]
         /\ \/ delivered' = delivered
            \/ delivered' = delivered \union {[mail |-> sends[r].mail, by |-> r, at |-> now]}
  BY DEF Mail!TypeOK, Mail!SendRecord, Mail!SendStep, Mail!AttemptAccepted, Mail!AttemptLost,
     Mail!AttemptTransient, Mail!AttemptRejected, Mail!Wake, Mail!Wakes, Mail!RelayTakes, Mail!Header,
     Mail!Finish, Mail!Result, Mail!Sleep, Mail!AfterFailure, Mail!Running, Mail!Finished

LEMMA BeginEffect ==
  ASSUME Mail!TypeOK, NEW r \in Requests, NEW m, Mail!Begin(r, m)
  PROVE  /\ now' = now /\ delivered' = delivered
         /\ sends'[r].mail = m /\ sends'[r].startedAt = now /\ sends'[r].state # "sent"
         /\ sends'[r].state # "idle"
         /\ \A q \in Requests : q # r => sends'[q] = sends[q]
  BY DEF Mail!TypeOK, Mail!Begin, Mail!Begun

(***************************************************************************)
(* The handlers.                                                           *)
(***************************************************************************)

LEMMA InitInvariant == Init => IInv
<1> SUFFICES ASSUME Init PROVE IInv
  OBVIOUS
<1>1. Relay!MailInv
  BY RelayInit DEF Init
<1>2. TypeOK
  BY <1>1, RelayTypes DEF Init, TypeOK
<1>3. \A r \in Requests : sends[r].state = "idle"
  BY DEF Init, Mail!Init, Mail!Idle
<1>4. delivered = {}
  BY DEF Init, Mail!Init
<1>5. QED
  BY <1>1, <1>2, <1>3, <1>4
  DEF Init, IInv, HandlersWellFormed, Working, RowsInserted, HeldCopies, SendsOfHeld, DeliveriesOfRows,
      OneAttemptPerKey, RowsAnswerable, FailedByFirstSendOnly, SentWasAccepted, MailsOf

(* Steps that move one handler and change nothing else: refusals, a lost   *)
(* claim, an answer without a send, a failing statement, a late answer.    *)
LEMMA QuietStep ==
  ASSUME IInv,
         \/ \E r \in Requests :
              Receive(r) \/ ClaimLost(r) \/ ClaimOrphaned(r) \/ StatementFails(r) \/ Answer(r)
         \/ UNCHANGED vars
  PROVE  IInv'
<1>1. Relay!MailInv' /\ Mail!TypeOK'
  <2>1. UNCHANGED <<now, stopping, sends, seen, delivered>>
    BY DEF Receive, ClaimLost, ClaimOrphaned, StatementFails, Answer, vars
  <2>2. QED
    BY <2>1, RelayWorld, RelayTypes DEF IInv, TypeOK, Mail!TypeOK
<1> USE <1>1, NoRowIsNoRow, NoInputIsNoInput
    DEF IInv, TypeOK, HandlersWellFormed, RowsInserted, HeldCopies, Inserted, SameAttempt, SendsOfHeld,
        DeliveriesOfRows, OneAttemptPerKey, RowsAnswerable, FailedByFirstSendOnly, SentWasAccepted,
        MailsOf, ReplyMail, Goto, Working, Answers, Replying
<1>2. ASSUME NEW r \in Requests, Receive(r) PROVE IInv'
  BY <1>2 DEF Receive, Checked
<1>3. ASSUME NEW r \in Requests, ClaimLost(r) PROVE IInv'
  BY <1>3 DEF ClaimLost
<1>4. ASSUME NEW r \in Requests, ClaimOrphaned(r) PROVE IInv'
  BY <1>4 DEF ClaimOrphaned
<1>5. ASSUME NEW r \in Requests, StatementFails(r) PROVE IInv'
  BY <1>5 DEF StatementFails
<1>6. ASSUME NEW r \in Requests, Answer(r) PROVE IInv'
  BY <1>6 DEF Answer
<1>7. ASSUME UNCHANGED vars PROVE IInv'
  BY <1>7 DEF vars
<1>8. QED
  BY <1>2, <1>3, <1>4, <1>5, <1>6, <1>7

(* The mail of a row is a mail of this system. *)
LEMMA ReplyMailType ==
  ASSUME NEW r \in Requests, NEW row \in Row, input[r] \in Input
  PROVE  ReplyMail(r, row) \in ReplyMails
  BY DEF ReplyMail, ReplyMails, Row, Input

(* A won claim: a new row, a copy of it, and its first send, or a claim    *)
(* whose request never hears of it. *)
LEMMA ClaimStep ==
  ASSUME IInv, NEW r \in Requests, ClaimInserted(r) \/ ClaimUnheard(r)
  PROVE  IInv'
<1> DEFINE new == NewRow(r)
<1> USE NoRowIsNoRow, BoundsType
<1>1. /\ pc[r] = "claim" /\ input[r] \in Input /\ input[r].message \in Repliable \intersect stored
      /\ held[r] = NoRow /\ sends[r].state = "idle" /\ now \in Nat /\ Mail!TypeOK
      /\ rows[r] = NoRow
      /\ rows \in [Requests -> Row \union {NoRow}] /\ held \in [Requests -> Row \union {NoRow}]
  BY DEF ClaimInserted, ClaimUnheard, Insert, IInv, HandlersWellFormed, TypeOK, Mail!TypeOK,
     RowsInserted, Inserted, Working
<1>2. /\ new \in Row /\ new.id = r /\ new.message = input[r].message /\ new.key = input[r].key
      /\ new.status = "PENDING" /\ new.failedAt = FALSE /\ new.createdAt = now
  BY <1>1 DEF NewRow, Row, Input, Status
<1>3. /\ rows' = [rows EXCEPT ![r] = new] /\ held' = [held EXCEPT ![r] = new]
      /\ UNCHANGED <<stored, input>>
      /\ \/ pc' = [pc EXCEPT ![r] = "first"] /\ Mail!Begin(r, ReplyMail(r, new))
         \/ /\ pc' = [pc EXCEPT ![r] = "error"]
            /\ UNCHANGED <<now, stopping, sends, seen, delivered>>
      /\ Claimed(input[r].message, input[r].key) = {}
  BY DEF ClaimInserted, ClaimUnheard, Insert, Goto
<1> HIDE DEF new
<1>4. ReplyMail(r, new) \in ReplyMails
  BY <1>1, <1>2, ReplyMailType
<1>5. Relay!MailInv' /\ Mail!TypeOK'
  BY <1>3, <1>4, RelayBegin, RelayWorld, RelayTypesNext DEF IInv
<1>6. /\ now' = now /\ delivered' = delivered
      /\ \/ sends'[r].mail = ReplyMail(r, new) /\ sends'[r].startedAt = now
         \/ sends'[r].state = "idle"
      /\ \A q \in Requests : q # r => sends'[q] = sends[q]
  BY <1>1, <1>3, BeginEffect
<1>7. TypeOK'
  BY <1>2, <1>3, <1>5 DEF IInv, TypeOK, Working, Answers
<1>8. \A q \in Requests : q # r => rows'[q] = rows[q] /\ held'[q] = held[q] /\ pc'[q] = pc[q]
  BY <1>3 DEF IInv, TypeOK
<1>9. rows'[r] = new /\ held'[r] = new /\ pc'[r] \in {"first", "error"}
  BY <1>3 DEF IInv, TypeOK
<1>10. HandlersWellFormed'
  BY <1>1, <1>2, <1>3, <1>6, <1>8, <1>9 DEF IInv, HandlersWellFormed, Working
<1>11. \A q \in Requests : held[q] # NoRow => held[q].id # r
  BY <1>1 DEF IInv, HeldCopies, Inserted, TypeOK, Row
<1>12. RowsInserted' /\ HeldCopies'
  BY <1>1, <1>2, <1>3, <1>6, <1>8, <1>9, <1>11
  DEF IInv, RowsInserted, HeldCopies, Inserted, SameAttempt, TypeOK, Row
<1>13. SendsOfHeld'
  BY <1>1, <1>2, <1>3, <1>6, <1>8, <1>9 DEF IInv, SendsOfHeld, ReplyMail
<1>14. DeliveriesOfRows'
  <2>1. MailsOf(r) = {}
    BY <1>1 DEF IInv, DeliveriesOfRows, Inserted
  <2>2. QED
    BY <2>1, <1>6, <1>8 DEF IInv, DeliveriesOfRows, Inserted, MailsOf
<1>15. OneAttemptPerKey'
  BY <1>2, <1>3, <1>8, <1>9 DEF IInv, OneAttemptPerKey, Claimed
<1>16. RowsAnswerable' /\ FailedByFirstSendOnly' /\ SentWasAccepted'
  BY <1>1, <1>2, <1>3, <1>6, <1>8, <1>9
  DEF IInv, RowsAnswerable, FailedByFirstSendOnly, SentWasAccepted, MailsOf
<1>17. QED
  BY <1>5, <1>7, <1>10, <1>12, <1>13, <1>14, <1>15, <1>16 DEF IInv

(* A lost claim reads the owner's row: a copy of the same attempt, for the *)
(* same message. *)
LEMMA FindStep ==
  ASSUME IInv, NEW r \in Requests, FindClaimed(r)
  PROVE  IInv'
<1> USE NoRowIsNoRow DEF FindClaimed, Goto
<1>1. Relay!MailInv' /\ Mail!TypeOK'
  BY RelayWorld, RelayTypesNext DEF IInv
<1>2. /\ pc[r] = "lost" /\ input[r] \in Input /\ held[r] = NoRow /\ sends[r].state = "idle"
      /\ held \in [Requests -> Row \union {NoRow}] /\ pc \in [Requests -> {"new", "gone"} \union Working \union Answers]
  BY DEF IInv, HandlersWellFormed, Working, TypeOK
<1>3. ASSUME held' = held, pc' = [pc EXCEPT ![r] = "notFound"]
      PROVE  IInv'
  BY <1>1, <1>2, <1>3
  DEF IInv, TypeOK, Working, Answers, HandlersWellFormed, RowsInserted, HeldCopies, Inserted, SameAttempt,
      SendsOfHeld, DeliveriesOfRows, MailsOf, OneAttemptPerKey, RowsAnswerable, FailedByFirstSendOnly,
      SentWasAccepted, ReplyMail
<1>4. ASSUME NEW i \in Claimed(input[r].message, input[r].key),
             held' = [held EXCEPT ![r] = rows[i]], pc' = [pc EXCEPT ![r] = "found"]
      PROVE  IInv'
  <2>1. /\ i \in Requests /\ rows[i] # NoRow /\ rows[i] \in Row
        /\ rows[i].message = input[r].message
        /\ Inserted(i) /\ SameAttempt(rows[i], held[i]) /\ i # r
    BY <1>2, <1>4 DEF Claimed, IInv, RowsInserted, TypeOK, Inserted
  <2>2. /\ held'[r] = rows[i] /\ pc'[r] = "found"
        /\ \A q \in Requests : q # r => held'[q] = held[q] /\ pc'[q] = pc[q]
    BY <1>2, <1>4
  <2>3. rows[i].id = i /\ rows[i].createdAt <= now
    BY <2>1 DEF Inserted, SameAttempt, IInv, HeldCopies
  <2>4. \A q \in Requests : held[q] # NoRow => held[q].id # r
    BY <1>2 DEF IInv, HeldCopies, Inserted, TypeOK, Row
  <2>5. TypeOK'
    BY <1>1, <1>4, <2>1 DEF IInv, TypeOK, Working, Answers
  <2>6. HandlersWellFormed'
    BY <1>2, <2>1, <2>2 DEF IInv, HandlersWellFormed
  <2>7. RowsInserted'
    BY <1>2, <2>2 DEF IInv, RowsInserted, Inserted, SameAttempt
  <2>8. HeldCopies'
    <3>1. \A q \in Requests : held[q] # NoRow =>
            /\ held[held[q].id] # NoRow /\ held[held[q].id].id = held[q].id
            /\ SameAttempt(held[q], held[held[q].id])
            /\ held'[held[q].id] = held[held[q].id]
      BY <1>2, <2>2, <2>4 DEF IInv, HeldCopies, Inserted, TypeOK, Row
    <3>2. held'[i] = held[i]
      BY <2>1, <2>2
    <3>3. now' = now /\ input' = input
      OBVIOUS
    <3>4. ASSUME NEW q \in Requests, held'[q] # NoRow
          PROVE  /\ held'[held'[q].id] # NoRow /\ held'[held'[q].id].id = held'[q].id
                 /\ SameAttempt(held'[q], held'[held'[q].id])
                 /\ input[q] \in Input /\ held'[q].message = input[q].message
                 /\ held'[q].createdAt <= now
      <4>1. CASE q = r
        BY <4>1, <1>2, <2>1, <2>2, <2>3, <3>2 DEF Inserted
      <4>2. CASE q # r
        BY <4>2, <3>4, <2>2, <3>1 DEF IInv, HeldCopies
      <4>3. QED
        BY <4>1, <4>2
    <3>5. QED
      BY <3>3, <3>4 DEF HeldCopies, Inserted, SameAttempt
  <2>9. SendsOfHeld'
    BY <1>2, <2>2 DEF IInv, SendsOfHeld, ReplyMail
  <2>10. DeliveriesOfRows'
    BY <1>2, <2>2 DEF IInv, DeliveriesOfRows, Inserted, MailsOf
  <2>11. OneAttemptPerKey' /\ RowsAnswerable' /\ SentWasAccepted'
    BY DEF IInv, OneAttemptPerKey, RowsAnswerable, SentWasAccepted, MailsOf
  <2>12. FailedByFirstSendOnly'
    BY <1>2, <2>2 DEF IInv, FailedByFirstSendOnly
  <2>13. QED
    BY <1>1, <2>5, <2>6, <2>7, <2>8, <2>9, <2>10, <2>11, <2>12 DEF IInv
<1>5. QED
  BY <1>3, <1>4

(* replay answers with the copy it holds, or sends it inside the window. *)
LEMMA ReplayStep ==
  ASSUME IInv, NEW r \in Requests, Replay(r)
  PROVE  IInv'
<1> USE NoRowIsNoRow, BoundsType
<1>1. /\ pc[r] = "found" /\ input[r] \in Input /\ held[r] \in Row /\ held[r] # NoRow
      /\ now \in Nat /\ Mail!TypeOK /\ UNCHANGED <<stored, rows, input, held>>
      /\ pc \in [Requests -> {"new", "gone"} \union Working \union Answers]
  BY DEF Replay, IInv, HandlersWellFormed, Working, TypeOK, Mail!TypeOK
<1>2. ASSUME Goto(r, "answered"), UNCHANGED <<now, stopping, sends, seen, delivered>>
      PROVE  IInv'
  <2>1. Relay!MailInv' /\ Mail!TypeOK'
    BY <1>2, RelayWorld, RelayTypesNext DEF IInv
  <2>2. QED
    BY <1>1, <1>2, <2>1
    DEF Goto, IInv, TypeOK, Working, Answers, HandlersWellFormed, RowsInserted, HeldCopies, Inserted,
        SameAttempt, SendsOfHeld, DeliveriesOfRows, MailsOf, OneAttemptPerKey, RowsAnswerable,
        FailedByFirstSendOnly, SentWasAccepted, ReplyMail
<1>3. ASSUME MayResend(held[r]), Mail!Begin(r, ReplyMail(r, held[r])), Goto(r, "recovery")
      PROVE  IInv'
  <2>1. ReplyMail(r, held[r]) \in ReplyMails
    BY <1>1, ReplyMailType
  <2>2. Relay!MailInv' /\ Mail!TypeOK'
    BY <1>3, <2>1, RelayBegin, RelayTypesNext DEF IInv
  <2>3. /\ now' = now /\ delivered' = delivered
        /\ sends'[r].mail = ReplyMail(r, held[r]) /\ sends'[r].startedAt = now
        /\ \A q \in Requests : q # r => sends'[q] = sends[q]
    BY <1>1, <1>3, BeginEffect
  <2>4. pc'[r] = "recovery" /\ \A q \in Requests : q # r => pc'[q] = pc[q]
    BY <1>1, <1>3 DEF Goto
  <2>5. held[r].createdAt \in Nat /\ held[r].createdAt <= now /\ now < held[r].createdAt + Retention
    BY <1>1, <1>3 DEF MayResend, isWithinProviderIdempotencyWindow, IInv, HeldCopies, Row
  <2>6. TypeOK'
    BY <1>1, <1>3, <2>2 DEF IInv, TypeOK, Working, Goto
  <2>7. HandlersWellFormed'
    BY <1>1, <2>3, <2>4 DEF IInv, HandlersWellFormed
  <2>8. RowsInserted' /\ HeldCopies' /\ DeliveriesOfRows' /\ OneAttemptPerKey' /\ RowsAnswerable' /\ SentWasAccepted'
    BY <1>1, <2>3 DEF IInv, RowsInserted, HeldCopies, DeliveriesOfRows, OneAttemptPerKey, RowsAnswerable,
       SentWasAccepted, Inserted, SameAttempt, MailsOf
  <2>9. SendsOfHeld'
    BY <1>1, <2>3, <2>5 DEF IInv, SendsOfHeld, ReplyMail
  <2>10. FailedByFirstSendOnly'
    BY <1>1, <2>4 DEF IInv, FailedByFirstSendOnly
  <2>11. QED
    BY <2>2, <2>6, <2>7, <2>8, <2>9, <2>10 DEF IInv
<1>4. QED
  BY <1>2, <1>3 DEF Replay

(* A step of a send: what the relay takes is the mail of the row whose     *)
(* copy the handler holds, within the send's time. *)
LEMMA SendingStep ==
  ASSUME IInv, NEW r \in Requests, Send(r)
  PROVE  IInv'
<1> USE NoRowIsNoRow, BoundsType
<1>1. /\ pc[r] \in Replying /\ Mail!SendStep(r) /\ UNCHANGED <<stored, rows, pc, input, held>>
      /\ Mail!TypeOK /\ now \in Nat
  BY DEF Send, serviceVars, IInv, TypeOK, Mail!TypeOK
<1>2. Relay!MailInv' /\ Mail!TypeOK'
  BY <1>1, RelaySend, RelayTypesNext DEF IInv
<1> DEFINE new == [mail |-> sends[r].mail, by |-> r, at |-> now]
<1>3. /\ now' = now
      /\ sends[r].state \in Mail!Running
      /\ sends'[r].mail = sends[r].mail
      /\ sends'[r].state \in Mail!Running => sends'[r].startedAt = sends[r].startedAt
      /\ sends'[r].state # "idle"
      /\ \A q \in Requests : q # r => sends'[q] = sends[q]
      /\ delivered' = delivered \/ delivered' = delivered \union {new}
  BY <1>1, SendEffect
<1> DEFINE i == held[r].id
<1>4. /\ sends[r].state # "idle"
      /\ held[r] \in Row /\ i \in Requests /\ sends[r].mail = ReplyMail(r, held[r])
      /\ Inserted(i) /\ SameAttempt(held[r], held[i]) /\ held[r].message = input[r].message
  BY <1>1, <1>3 DEF IInv, TypeOK, SendsOfHeld, HeldCopies, Mail!Running, Row
<1>5. /\ new.mail.key = ProviderKey(i) /\ new.mail.to = held[i].message
      /\ new.mail.text = held[i].body /\ new.at = now
  BY <1>4 DEF ReplyMail, SameAttempt
<1>6. held[i].createdAt <= now /\ now < held[i].createdAt + Retention + SendBound
  <2>1. /\ held[r].createdAt \in Nat /\ held[r].createdAt <= now
        /\ sends[r].startedAt \in Nat
        /\ sends[r].startedAt < held[r].createdAt + Retention
        /\ now <= sends[r].startedAt + SendBound
    BY <1>1, <1>3, <1>4 DEF IInv, SendsOfHeld, HeldCopies, Row, Mail!TypeOK, Mail!SendRecord
  <2>2. QED
    BY <1>1, <1>4, <2>1 DEF SameAttempt
<1> HIDE DEF new, i
<1>7. TypeOK'
  BY <1>1, <1>2 DEF IInv, TypeOK
<1>8. HandlersWellFormed' /\ RowsInserted' /\ HeldCopies'
  BY <1>1, <1>3 DEF IInv, HandlersWellFormed, RowsInserted, HeldCopies, Inserted, SameAttempt, Replying
<1>9. SendsOfHeld'
  BY <1>1, <1>3, <1>4 DEF IInv, SendsOfHeld, ReplyMail, Mail!Running
<1>10. DeliveriesOfRows'
  <2> SUFFICES ASSUME NEW j \in Requests, NEW d \in delivered', d.mail.key = ProviderKey(j)
               PROVE  /\ Inserted(j) /\ d.mail.to = held[j].message /\ d.mail.text = held[j].body
                      /\ held[j].createdAt <= d.at /\ d.at < held[j].createdAt + Retention + SendBound
    BY <1>1 DEF DeliveriesOfRows, MailsOf, Inserted
  <2>1. CASE d \in delivered
    BY <2>1 DEF IInv, DeliveriesOfRows, MailsOf
  <2>2. CASE d = new
    <3>1. j = i
      BY <2>2, <1>4, <1>5, ReplyMailKeys
    <3>2. QED
      BY <3>1, <2>2, <1>4, <1>5, <1>6
  <2>3. QED
    BY <2>1, <2>2, <1>3
<1>11. OneAttemptPerKey' /\ RowsAnswerable' /\ FailedByFirstSendOnly'
  BY <1>1 DEF IInv, OneAttemptPerKey, RowsAnswerable, FailedByFirstSendOnly
<1>12. SentWasAccepted'
  BY <1>1, <1>3 DEF IInv, SentWasAccepted, MailsOf
<1>13. QED
  BY <1>2, <1>7, <1>8, <1>9, <1>10, <1>11, <1>12 DEF IInv

(* A send that reported success has put the row's own mail at the relay. *)
LEMMA SentMail ==
  ASSUME IInv, NEW r \in Requests, sends[r].state = "sent"
  PROVE  \E d \in MailsOf(held[r].id) :
           d.mail.to = held[held[r].id].message /\ d.mail.text = held[held[r].id].body
<1>1. held[r] \in Row /\ held[r].id \in Requests /\ sends[r].mail.key = ProviderKey(held[r].id)
  <2>1. held[r] # NoRow /\ sends[r].mail = ReplyMail(r, held[r])
    BY DEF IInv, SendsOfHeld
  <2>2. held[r] \in Row
    BY <2>1 DEF IInv, TypeOK
  <2>3. QED
    BY <2>1, <2>2 DEF ReplyMail, Row
<1>2. \E d \in delivered : d.mail.key = sends[r].mail.key
  BY <1>1, ReplyMailKeys DEF IInv, Relay!MailInv, Relay!SentWasTaken
<1>3. QED
  BY <1>1, <1>2 DEF IInv, DeliveriesOfRows, MailsOf

(* An UPDATE that keeps the row's identity, reports SENT only after a send *)
(* that succeeded, and sets failedAt only for the request that inserted    *)
(* the row and answers FAILED. *)
LEMMA UpdateStep ==
  ASSUME IInv, NEW r \in Requests, pc[r] \in Replying,
         UNCHANGED <<now, stopping, sends, seen, delivered, stored, input>>,
         NEW row \in Row,
         rows[held[r].id] # NoRow, SameAttempt(row, rows[held[r].id]),
         row.status = "SENT" => rows[held[r].id].status = "SENT" \/ sends[r].state = "sent",
         row.failedAt => rows[held[r].id].failedAt \/ (pc[r] = "first" /\ row.status = "FAILED"),
         rows' = [rows EXCEPT ![held[r].id] = row],
         held' = [held EXCEPT ![r] = row],
         Goto(r, "recorded")
  PROVE  IInv'
<1> DEFINE i == held[r].id
<1> USE NoRowIsNoRow
<1>1. /\ held[r] \in Row /\ held[r] # NoRow /\ i \in Requests /\ row # NoRow
      /\ input[r] \in Input
      /\ held \in [Requests -> Row \union {NoRow}] /\ rows \in [Requests -> Row \union {NoRow}]
      /\ pc \in [Requests -> {"new", "gone"} \union Working \union Answers]
  BY DEF IInv, TypeOK, HandlersWellFormed, Row, Replying, Working
<1>2. /\ Inserted(i) /\ SameAttempt(rows[i], held[i]) /\ SameAttempt(held[r], held[i])
      /\ SameAttempt(row, held[r]) /\ SameAttempt(row, held[i])
  BY <1>1 DEF IInv, RowsInserted, HeldCopies, SameAttempt
<1>3. /\ rows'[i] = row /\ \A j \in Requests : j # i => rows'[j] = rows[j]
      /\ held'[r] = row /\ \A q \in Requests : q # r => held'[q] = held[q]
      /\ pc'[r] = "recorded" /\ \A q \in Requests : q # r => pc'[q] = pc[q]
  BY <1>1 DEF Goto
<1>4. Relay!MailInv' /\ Mail!TypeOK'
  BY RelayWorld, RelayTypesNext DEF IInv
<1>5. TypeOK'
  BY <1>1, <1>4 DEF IInv, TypeOK, Working, Goto
<1>6. \A q \in Requests : held[q] # NoRow => held'[q] # NoRow /\ SameAttempt(held'[q], held[q])
  <2>1. held'[r] # NoRow /\ SameAttempt(held'[r], held[r])
    BY <1>1, <1>2, <1>3
  <2>2. \A q \in Requests : q # r => SameAttempt(held'[q], held[q]) /\ held'[q] = held[q]
    BY <1>3 DEF SameAttempt
  <2>3. QED
    BY <2>1, <2>2
<1>7. \A q \in Requests : held'[q] # NoRow => held[q] # NoRow
  BY <1>1, <1>3
<1>8. HandlersWellFormed'
  BY <1>1, <1>3, <1>6 DEF IInv, HandlersWellFormed, Replying
<1> HIDE DEF i
<1>9. RowsInserted'
  BY <1>1, <1>2, <1>3, <1>6 DEF IInv, RowsInserted, Inserted, SameAttempt
<1>10. HeldCopies'
  <2> SUFFICES ASSUME NEW q \in Requests, held'[q] # NoRow
               PROVE  /\ held'[held'[q].id] # NoRow /\ held'[held'[q].id].id = held'[q].id
                      /\ SameAttempt(held'[q], held'[held'[q].id])
                      /\ input[q] \in Input /\ held'[q].message = input[q].message
                      /\ held'[q].createdAt <= now
    BY DEF HeldCopies, Inserted, SameAttempt
  <2>1. /\ held[q] # NoRow /\ SameAttempt(held'[q], held[q]) /\ held[q].id \in Requests
        /\ held[held[q].id] # NoRow /\ held[held[q].id].id = held[q].id
        /\ SameAttempt(held[q], held[held[q].id])
        /\ input[q] \in Input /\ held[q].message = input[q].message /\ held[q].createdAt <= now
    BY <1>1, <1>6, <1>7 DEF IInv, HeldCopies, Inserted, Row
  <2>2. held'[held[q].id] # NoRow /\ SameAttempt(held'[held[q].id], held[held[q].id])
    BY <2>1, <1>6
  <2>3. QED
    BY <2>1, <2>2 DEF SameAttempt
<1>11. SendsOfHeld'
  <2> SUFFICES ASSUME NEW q \in Requests, sends[q].state # "idle"
               PROVE  /\ held'[q] # NoRow
                      /\ sends[q].mail = [key |-> ProviderKey(held'[q].id), to |-> input[q].message,
                                          text |-> held'[q].body]
                      /\ sends[q].state \in Mail!Running =>
                           /\ held'[q].createdAt <= sends[q].startedAt
                           /\ sends[q].startedAt < held'[q].createdAt + Retention
                           /\ sends[q].startedAt <= now
                           /\ now <= sends[q].startedAt + SendBound
    BY DEF SendsOfHeld, ReplyMail
  <2>1. held[q] # NoRow /\ sends[q].mail = ReplyMail(q, held[q])
    BY DEF IInv, SendsOfHeld
  <2>2. held'[q] # NoRow /\ SameAttempt(held'[q], held[q])
    BY <1>6, <2>1
  <2>3. QED
    BY <2>1, <2>2 DEF IInv, SendsOfHeld, SameAttempt, ReplyMail
<1>12. DeliveriesOfRows'
  <2> SUFFICES ASSUME NEW j \in Requests, NEW d \in MailsOf(j)
               PROVE  /\ held'[j] # NoRow /\ held'[j].id = j
                      /\ d.mail.to = held'[j].message /\ d.mail.text = held'[j].body
                      /\ held'[j].createdAt <= d.at
                      /\ d.at < held'[j].createdAt + Retention + SendBound
    BY DEF DeliveriesOfRows, MailsOf, Inserted
  <2>1. QED
    BY <1>6 DEF IInv, DeliveriesOfRows, Inserted, SameAttempt
<1>13. OneAttemptPerKey'
  BY <1>1, <1>3 DEF IInv, OneAttemptPerKey, SameAttempt, i
<1>14. RowsAnswerable'
  BY <1>1, <1>3 DEF IInv, RowsAnswerable, SameAttempt, i
<1>15. FailedByFirstSendOnly'
  <2>1. pc[r] = "first" => i = r
    BY DEF IInv, HandlersWellFormed, i
  <2>2. \A j \in Requests : rows[j] # NoRow /\ rows[j].failedAt => j # r
    BY DEF IInv, FailedByFirstSendOnly, Replying
  <2>3. QED
    BY <1>1, <1>3, <2>1, <2>2 DEF IInv, FailedByFirstSendOnly, i
<1>16. SentWasAccepted'
  <2>1. ASSUME row.status = "SENT"
        PROVE  \E d \in MailsOf(i) : d.mail.to = row.message /\ d.mail.text = row.body
    <3>1. CASE rows[i].status = "SENT"
      BY <3>1, <1>1 DEF IInv, SentWasAccepted, SameAttempt, i
    <3>2. CASE sends[r].state = "sent"
      BY <3>2, <1>2, SentMail DEF SameAttempt, i
    <3>3. QED
      BY <2>1, <3>1, <3>2 DEF i
  <2>2. QED
    BY <1>3, <2>1 DEF IInv, SentWasAccepted, MailsOf
<1>17. QED
  BY <1>4, <1>5, <1>8, <1>9, <1>10, <1>11, <1>12, <1>13, <1>14, <1>15, <1>16 DEF IInv

(* An answer that writes nothing. *)
LEMMA AnswerStep ==
  ASSUME IInv, NEW r \in Requests, pc[r] \in Replying, NEW label \in Answers, Goto(r, label),
         UNCHANGED <<now, stopping, sends, seen, delivered, stored, rows, input, held>>
  PROVE  IInv'
<1>1. Relay!MailInv' /\ Mail!TypeOK'
  BY RelayWorld, RelayTypesNext DEF IInv
<1>2. QED
  BY <1>1
  DEF Goto, IInv, TypeOK, Working, Answers, Replying, HandlersWellFormed, RowsInserted, HeldCopies, Inserted,
      SameAttempt, SendsOfHeld, DeliveriesOfRows, MailsOf, OneAttemptPerKey, RowsAnswerable,
      FailedByFirstSendOnly, SentWasAccepted, ReplyMail

LEMMA RecordSentStep ==
  ASSUME IInv, NEW r \in Requests, RecordSent(r)
  PROVE  IInv'
<1> DEFINE i == held[r].id
<1>1. PICK id \in {r, NoId} : Write(r, MarkSent(Current(r), held[r], id))
  BY DEF RecordSent
<1>2. CASE rows[i] = NoRow
  BY <1>1, <1>2, AnswerStep DEF RecordSent, Write, Current, Answers
<1>3. CASE rows[i] # NoRow
  <2> DEFINE row == MarkSent(rows[i], held[r], id)
  <2>1. held[r] \in Row /\ i \in Requests /\ rows[i] \in Row
    BY <1>3 DEF RecordSent, IInv, HandlersWellFormed, TypeOK, Row, Replying
  <2>2. rows' = [rows EXCEPT ![i] = row] /\ held' = [held EXCEPT ![r] = row] /\ Goto(r, "recorded")
    BY <1>1, <1>3, <2>1 DEF Write, Current, IInv, TypeOK
  <2>3. row \in Row /\ SameAttempt(row, rows[i]) /\ row.status = "SENT" /\ row.failedAt = rows[i].failedAt
    BY <2>1 DEF MarkSent, Row, Status, SameAttempt
  <2> HIDE DEF row
  <2>4. QED
    BY <1>3, <2>2, <2>3, UpdateStep DEF RecordSent
<1>4. QED
  BY <1>2, <1>3

LEMMA RecordRefusedStep ==
  ASSUME IInv, NEW r \in Requests, RecordRefused(r)
  PROVE  IInv'
<1> DEFINE i == held[r].id
<1>1. CASE pc[r] = "recovery"
  BY <1>1, AnswerStep DEF RecordRefused, Answers, Replying
<1>2. CASE pc[r] = "first" /\ rows[i] = NoRow
  BY <1>2, AnswerStep DEF RecordRefused, Write, Current, Answers, Replying
<1>3. CASE pc[r] = "first" /\ rows[i] # NoRow
  <2> DEFINE row == MarkFailed(rows[i])
  <2>1. held[r] \in Row /\ i \in Requests /\ rows[i] \in Row
    BY <1>3 DEF IInv, HandlersWellFormed, TypeOK, Row
  <2>2. rows' = [rows EXCEPT ![i] = row] /\ held' = [held EXCEPT ![r] = row] /\ Goto(r, "recorded")
    BY <1>3, <2>1 DEF RecordRefused, Write, Current, IInv, TypeOK
  <2>3. row \in Row /\ SameAttempt(row, rows[i]) /\ row.status = "FAILED"
    BY <2>1 DEF MarkFailed, Row, Status, SameAttempt
  <2> HIDE DEF row
  <2>4. QED
    BY <1>3, <2>2, <2>3, UpdateStep DEF RecordRefused, Replying
<1>4. QED
  BY <1>1, <1>2, <1>3 DEF RecordRefused

(***************************************************************************)
(* The purge, the clock and the process.                                   *)
(***************************************************************************)

(* A purge removes a message and, by the cascade, its rows. *)
LEMMA PurgeStep ==
  ASSUME IInv, NEW m \in Messages, Purge(m)
  PROVE  IInv'
<1> USE NoRowIsNoRow
<1>1. Relay!MailInv' /\ Mail!TypeOK'
  BY RelayWorld, RelayTypesNext DEF IInv, Purge
<1>2. /\ UNCHANGED <<now, sends, delivered, pc, input, held>> /\ stored' = stored \ {m}
      /\ rows' \in [Requests -> Row \union {NoRow}]
      /\ \A i \in Requests :
           rows'[i] = NoRow \/ (rows'[i] = rows[i] /\ rows[i].message # m)
  BY DEF Purge, IInv, TypeOK
<1>3. TypeOK'
  BY <1>1, <1>2 DEF Purge, IInv, TypeOK
<1>4. HandlersWellFormed' /\ HeldCopies' /\ SendsOfHeld' /\ DeliveriesOfRows'
  BY <1>2 DEF IInv, HandlersWellFormed, HeldCopies, SendsOfHeld, DeliveriesOfRows, Inserted,
     SameAttempt, MailsOf, ReplyMail
<1>5. RowsInserted' /\ OneAttemptPerKey' /\ RowsAnswerable' /\ FailedByFirstSendOnly' /\ SentWasAccepted'
  BY <1>2 DEF IInv, RowsInserted, OneAttemptPerKey, RowsAnswerable, FailedByFirstSendOnly,
     SentWasAccepted, Inserted, SameAttempt, MailsOf
<1>6. QED
  BY <1>1, <1>3, <1>4, <1>5 DEF IInv

LEMMA ShutdownStep ==
  ASSUME IInv, Shutdown
  PROVE  IInv'
<1>1. Relay!MailInv' /\ Mail!TypeOK'
  BY RelayWorld, RelayTypesNext DEF IInv, Shutdown
<1>2. /\ UNCHANGED <<now, delivered, stored, rows, pc, input, held>>
      /\ \A r \in Requests :
           /\ sends'[r].mail = sends[r].mail /\ sends'[r].startedAt = sends[r].startedAt
           /\ sends'[r].state = "idle" <=> sends[r].state = "idle"
           /\ sends'[r].state \in Mail!Running <=> sends[r].state \in Mail!Running
  BY DEF Shutdown, Mail!Shutdown, Mail!Resolved, serviceVars, IInv, TypeOK, Mail!TypeOK, Mail!SendRecord,
     Mail!Running, Mail!Finished
<1>3. TypeOK' /\ HandlersWellFormed'
  BY <1>1, <1>2 DEF Shutdown, IInv, TypeOK, HandlersWellFormed
<1>4. SendsOfHeld'
  BY <1>2 DEF IInv, SendsOfHeld, ReplyMail
<1>5. RowsInserted' /\ HeldCopies' /\ DeliveriesOfRows' /\ OneAttemptPerKey' /\ RowsAnswerable'
      /\ FailedByFirstSendOnly' /\ SentWasAccepted'
  BY <1>2 DEF IInv, RowsInserted, HeldCopies, Inserted, SameAttempt, DeliveriesOfRows, MailsOf,
     OneAttemptPerKey, RowsAnswerable, FailedByFirstSendOnly, SentWasAccepted
<1>6. QED
  BY <1>1, <1>3, <1>4, <1>5 DEF IInv

LEMMA CrashStep ==
  ASSUME IInv, Crash
  PROVE  IInv'
<1>1. Relay!MailInv' /\ Mail!TypeOK'
  BY RelayWorld, RelayTypesNext DEF IInv, Crash
<1>2. /\ UNCHANGED <<now, delivered, stored, rows, input, held>>
      /\ \A r \in Requests : sends'[r].state = "idle"
      /\ pc' = [r \in Requests |-> IF pc[r] \in Working THEN "gone" ELSE pc[r]]
  BY DEF Crash, Mail!Restart, Mail!Idle
<1>3. TypeOK'
  BY <1>1, <1>2 DEF IInv, TypeOK
<1>4. HandlersWellFormed'
  BY <1>2 DEF IInv, HandlersWellFormed, Working
<1>5. RowsInserted' /\ HeldCopies' /\ SendsOfHeld' /\ DeliveriesOfRows'
  BY <1>2 DEF IInv, RowsInserted, HeldCopies, SendsOfHeld, DeliveriesOfRows, Inserted, SameAttempt, MailsOf
<1>6. OneAttemptPerKey' /\ RowsAnswerable' /\ SentWasAccepted'
  BY <1>2 DEF IInv, OneAttemptPerKey, RowsAnswerable, SentWasAccepted, MailsOf
<1>7. FailedByFirstSendOnly'
  BY <1>2 DEF IInv, FailedByFirstSendOnly, Working
<1>8. QED
  BY <1>1, <1>3, <1>4, <1>5, <1>6, <1>7 DEF IInv

LEMMA TickStep ==
  ASSUME IInv, Tick
  PROVE  IInv'
<1> USE BoundsType
<1>1. Relay!MailInv' /\ Mail!TypeOK'
  BY RelayWorld, RelayTypesNext DEF IInv, Tick
<1>2. /\ UNCHANGED <<sends, delivered, stored, rows, pc, input, held>>
      /\ now' = now + 1 /\ now \in Nat
      /\ \A r \in Requests : sends[r].state \in Mail!Running => now < sends[r].startedAt + SendBound
  BY DEF Tick, Mail!Tick, serviceVars, IInv, TypeOK, Mail!TypeOK
<1>3. TypeOK'
  BY <1>1, <1>2 DEF IInv, TypeOK
<1>4. \A r \in Requests :
        /\ sends[r].startedAt \in Nat
        /\ held[r] # NoRow => held[r].createdAt \in Nat
  BY DEF IInv, TypeOK, Mail!TypeOK, Mail!SendRecord, Row
<1>5. HeldCopies'
  BY <1>2, <1>4 DEF IInv, HeldCopies, Inserted, SameAttempt
<1>6. SendsOfHeld'
  BY <1>2, <1>4 DEF IInv, SendsOfHeld, ReplyMail
<1>7. HandlersWellFormed' /\ RowsInserted' /\ DeliveriesOfRows' /\ OneAttemptPerKey'
  BY <1>2 DEF IInv, HandlersWellFormed, RowsInserted, DeliveriesOfRows, OneAttemptPerKey,
     Inserted, SameAttempt, MailsOf
<1>8. RowsAnswerable' /\ FailedByFirstSendOnly' /\ SentWasAccepted'
  BY <1>2 DEF IInv, RowsAnswerable, FailedByFirstSendOnly, SentWasAccepted, MailsOf
<1>9. QED
  BY <1>1, <1>3, <1>5, <1>6, <1>7, <1>8 DEF IInv

(* Every step keeps the invariant. *)
LEMMA StepInvariant == IInv /\ [Next]_vars => IInv'
  BY QuietStep, ClaimStep, FindStep, ReplayStep, SendingStep, RecordSentStep, RecordRefusedStep,
     PurgeStep, ShutdownStep, CrashStep, TickStep
  DEF Next, Handle, Fail

LEMMA InvariantHolds == Spec => []IInv
  BY InitInvariant, StepInvariant, PTL DEF Spec

(***************************************************************************)
(* The theorems.                                                           *)
(***************************************************************************)

(* Types, for any sets of requests, messages, keys, operators and texts. *)
THEOREM TypeCorrect == Spec => []TypeOK
<1>1. IInv => TypeOK
  BY DEF IInv
<1>2. QED
  BY <1>1, InvariantHolds, PTL

(* The duplicate-send invariant: one row per message and client key. *)
THEOREM OneAttempt == Spec => []OneAttemptPerKey
<1>1. IInv => OneAttemptPerKey
  BY DEF IInv
<1>2. QED
  BY <1>1, InvariantHolds, PTL

(* Rows belong to stored messages that can be answered. *)
THEOREM Answerable == Spec => []RowsAnswerable
<1>1. IInv => RowsAnswerable
  BY DEF IInv
<1>2. QED
  BY <1>1, InvariantHolds, PTL

(* A row says SENT only when its own mail is at the relay. *)
THEOREM SentIsTrue == Spec => []SentWasAccepted
<1>1. IInv => SentWasAccepted
  BY DEF IInv
<1>2. QED
  BY <1>1, InvariantHolds, PTL

(* No recovery ever records a failure. *)
THEOREM FailureIsFirstSends == Spec => []FailedByFirstSendOnly
<1>1. IInv => FailedByFirstSendOnly
  BY DEF IInv
<1>2. QED
  BY <1>1, InvariantHolds, PTL

(* At most one mail per attempt inside the relay's window, and none much   *)
(* later: because deliveries under one key are a retention apart and all   *)
(* of a row's deliveries come after its creation. *)
THEOREM OneMailInWindow == Spec => []MailsWithinWindow
<1>1. IInv => MailsWithinWindow
  <2> SUFFICES ASSUME IInv, NEW i \in Requests
               PROVE  /\ \A d \in MailsOf(i) : d.at < held[i].createdAt + Retention + SendBound
                      /\ \A d, e \in MailsOf(i) :
                           d.at < held[i].createdAt + Retention /\ e.at < held[i].createdAt + Retention => d = e
    BY DEF MailsWithinWindow
  <2>1. \A d \in MailsOf(i) : d.at < held[i].createdAt + Retention + SendBound
    BY DEF IInv, DeliveriesOfRows
  <2>2. ASSUME NEW d \in MailsOf(i), NEW e \in MailsOf(i), d # e,
               d.at < held[i].createdAt + Retention, e.at < held[i].createdAt + Retention
        PROVE  FALSE
    <3>1. d.at \in Nat /\ e.at \in Nat /\ held[i].createdAt \in Nat
      BY DEF IInv, TypeOK, Mail!TypeOK, Mail!Delivery, MailsOf, DeliveriesOfRows, Inserted, Row
    <3>2. held[i].createdAt <= d.at /\ held[i].createdAt <= e.at
      BY DEF IInv, DeliveriesOfRows
    <3>3. d.at >= e.at + Retention \/ e.at >= d.at + Retention
      BY <2>2, ReplyMailKeys DEF IInv, Relay!MailInv, Relay!KeyedMailsFarApart, MailsOf
    <3>4. QED
      BY <2>2, <3>1, <3>2, <3>3, BoundsType
  <2>3. QED
    BY <2>1, <2>2
<1>2. QED
  BY <1>1, InvariantHolds, PTL

(* What a step may do to a stored row: leave it, purge it, or, by a        *)
(* handler that is sending it, record an outcome. *)
LEMMA RowHistory ==
  ASSUME IInv, [Next]_vars, NEW i \in Requests, rows[i] # NoRow, rows'[i] # NoRow
  PROVE  \/ rows'[i] = rows[i]
         \/ /\ \E r \in Requests : pc[r] \in Replying /\ held[r].id = i
            /\ SameAttempt(rows'[i], rows[i]) /\ rows'[i].status # "PENDING"
<1> DEFINE Goal == \/ rows'[i] = rows[i]
                   \/ /\ \E r \in Requests : pc[r] \in Replying /\ held[r].id = i
                      /\ SameAttempt(rows'[i], rows[i]) /\ rows'[i].status # "PENDING"
<1>1. CASE rows' = rows
  BY <1>1
<1>2. ASSUME NEW r \in Requests, Insert(r) PROVE Goal
  <2>1. r # i
    BY <1>2, NoRowIsNoRow DEF Insert, IInv, HandlersWellFormed, RowsInserted, Inserted
  <2>2. QED
    BY <1>2, <2>1 DEF Insert, IInv, TypeOK
<1>3. ASSUME NEW r \in Requests, RecordSent(r) PROVE Goal
  <2>1. PICK id \in {r, NoId} : Write(r, MarkSent(Current(r), held[r], id))
    BY <1>3 DEF RecordSent
  <2>2. CASE held[r].id # i
    BY <2>1, <2>2 DEF Write, IInv, TypeOK
  <2>3. CASE held[r].id = i
    <3>1. rows'[i] = MarkSent(rows[i], held[r], id)
      BY <2>1, <2>3 DEF Write, Current, IInv, TypeOK
    <3>2. rows[i] \in Row
      BY DEF IInv, TypeOK
    <3>3. SameAttempt(rows'[i], rows[i]) /\ rows'[i].status = "SENT"
      BY <3>1, <3>2 DEF MarkSent, Row, SameAttempt
    <3>4. QED
      BY <1>3, <2>3, <3>3 DEF RecordSent
  <2>4. QED
    BY <2>2, <2>3
<1>4. ASSUME NEW r \in Requests, RecordRefused(r) PROVE Goal
  <2>1. rows' = rows \/ (pc[r] = "first" /\ Write(r, MarkFailed(Current(r))))
    BY <1>4 DEF RecordRefused
  <2>2. CASE pc[r] = "first" /\ Write(r, MarkFailed(Current(r))) /\ held[r].id # i
    BY <2>2 DEF Write, IInv, TypeOK
  <2>3. CASE pc[r] = "first" /\ Write(r, MarkFailed(Current(r))) /\ held[r].id = i
    <3>1. rows'[i] = MarkFailed(rows[i])
      BY <2>3 DEF Write, Current, IInv, TypeOK
    <3>2. rows[i] \in Row
      BY DEF IInv, TypeOK
    <3>3. SameAttempt(rows'[i], rows[i]) /\ rows'[i].status = "FAILED"
      BY <3>1, <3>2 DEF MarkFailed, Row, SameAttempt
    <3>4. QED
      BY <2>3, <3>3 DEF Replying
  <2>4. QED
    BY <1>1, <2>1, <2>2, <2>3
<1>5. ASSUME NEW m \in Messages, Purge(m) PROVE Goal
  BY <1>5 DEF Purge
<1>6. \/ rows' = rows
      \/ \E r \in Requests : Insert(r) \/ RecordSent(r) \/ RecordRefused(r)
      \/ \E m \in Messages : Purge(m)
  BY DEF Next, Handle, Fail, vars, serviceVars, Receive, ClaimInserted, ClaimUnheard, ClaimLost,
     ClaimOrphaned, FindClaimed, Replay, Send, Answer, StatementFails, Shutdown, Crash, Tick
<1>7. QED
  BY <1>1, <1>2, <1>3, <1>4, <1>5, <1>6

(* What a step may do to the relay: only a handler that is sending a row   *)
(* adds a mail of it. *)
LEMMA MailHistory ==
  ASSUME IInv, [Next]_vars, NEW i \in Requests
  PROVE  \/ MailsOf(i)' = MailsOf(i)
         \/ \E r \in Requests : pc[r] \in Replying /\ held[r].id = i
<1>1. CASE delivered' = delivered
  BY <1>1 DEF MailsOf
<1>2. ASSUME NEW r \in Requests, Send(r), held[r].id # i
      PROVE  MailsOf(i)' = MailsOf(i)
  <2> DEFINE new == [mail |-> sends[r].mail, by |-> r, at |-> now]
  <2>1. /\ delivered' = delivered \/ delivered' = delivered \union {new}
        /\ sends[r].state \in Mail!Running
    BY <1>2, SendEffect DEF Send, IInv, TypeOK
  <2>2. new.mail.key = ProviderKey(held[r].id) /\ held[r].id \in Requests
    <3>1. held[r] # NoRow /\ sends[r].mail = ReplyMail(r, held[r])
      BY <2>1 DEF IInv, SendsOfHeld, Mail!Running
    <3>2. held[r] \in Row
      BY <3>1 DEF IInv, TypeOK
    <3>3. QED
      BY <3>1, <3>2 DEF ReplyMail, Row
  <2> HIDE DEF new
  <2>3. QED
    BY <1>2, <2>1, <2>2, ReplyMailKeys DEF MailsOf
<1>3. delivered' = delivered \/ \E r \in Requests : Send(r)
  BY DEF Next, Handle, Fail, vars, Receive, ClaimInserted, ClaimUnheard, ClaimLost, ClaimOrphaned,
     FindClaimed, Replay, RecordSent, RecordRefused, Answer, StatementFails, Purge, Shutdown, Crash, Tick,
     Mail!Begin, Mail!Shutdown, Mail!Restart, Mail!Tick
<1>4. QED
  BY <1>1, <1>2, <1>3 DEF Send

(* A row's identity is written once, and a terminal status never returns   *)
(* to PENDING. *)
THEOREM IdentityImmutable == Spec => AttemptImmutable
<1>1. ASSUME IInv, [Next]_vars, NEW i \in Requests PROVE Immutable(i)
  BY <1>1, RowHistory DEF Immutable, SameAttempt
<1>2. IInv /\ [Next]_vars => [\A i \in Requests : Immutable(i)]_vars
  BY <1>1
<1>3. QED
  BY <1>2, InvariantHolds, PTL DEF Spec, AttemptImmutable

(* Whoever sends a row holds a copy that says PENDING. *)
SendersHoldPending == \A r \in Requests : pc[r] \in Replying => held[r].status = "PENDING"

LEMMA SendersPending == Spec => []SendersHoldPending
<1>1. Init => SendersHoldPending
  BY DEF Init, SendersHoldPending, Replying
<1>2. ASSUME IInv, SendersHoldPending, [Next]_vars
      PROVE  SendersHoldPending'
  <2> SUFFICES ASSUME NEW r \in Requests, pc'[r] \in Replying
               PROVE  held'[r].status = "PENDING"
    BY DEF SendersHoldPending, Replying
  <2>1. pc \in [Requests -> {"new", "gone"} \union Working \union Answers]
    BY <1>2 DEF IInv, TypeOK
  <2>2. CASE pc'[r] = pc[r] /\ held'[r] = held[r]
    BY <1>2, <2>2 DEF SendersHoldPending
  <2>3. ASSUME NEW q \in Requests, Receive(q) \/ Handle(q) \/ Fail(q)
        PROVE  (pc'[r] = pc[r] /\ held'[r] = held[r]) \/ held'[r].status = "PENDING"
    <3>1. CASE q # r
      <4> DEFINE Same == pc'[r] = pc[r] /\ held'[r] = held[r]
      <4>1. /\ held \in [Requests -> Row \union {NoRow}]
            /\ \A row : Write(q, row) => Same
            /\ \A label : Goto(q, label) => pc'[r] = pc[r]
        BY <1>2, <2>1, <3>1 DEF IInv, TypeOK, Write, Goto
      <4>2. Receive(q) \/ Fail(q) \/ ClaimInserted(q) \/ ClaimLost(q) \/ ClaimOrphaned(q) \/ FindClaimed(q)
              => Same
        BY <3>1, <4>1 DEF Receive, Fail, StatementFails, ClaimUnheard, ClaimInserted, Insert, ClaimLost,
           ClaimOrphaned, FindClaimed
      <4>3. Replay(q) \/ Send(q) => Same
        BY <3>1, <4>1 DEF Replay, Send, serviceVars
      <4>4. RecordSent(q) \/ RecordRefused(q) \/ Answer(q) => Same
        BY <3>1, <4>1 DEF RecordSent, RecordRefused, Answer
      <4>5. QED
        BY <2>3, <4>2, <4>3, <4>4 DEF Handle
    <3>2. CASE q = r /\ Insert(r)
      <4>1. held'[r] = NewRow(r)
        BY <1>2, <3>2 DEF Insert, IInv, TypeOK
      <4>2. QED
        BY <4>1 DEF NewRow
    <3>3. CASE q = r /\ Replay(r)
      BY <2>1, <3>3 DEF Replay, MayResend, Goto, Replying
    <3>4. CASE q = r /\ Send(r)
      BY <3>4 DEF Send, serviceVars
    <3>5. CASE q = r /\ (Receive(r) \/ ClaimLost(r) \/ ClaimOrphaned(r) \/ FindClaimed(r)
                         \/ RecordSent(r) \/ RecordRefused(r) \/ Answer(r) \/ StatementFails(r))
      BY <2>1, <3>5 DEF Receive, Checked, ClaimLost, ClaimOrphaned, FindClaimed, RecordSent, RecordRefused,
         Answer, StatementFails, Write, Goto, Replying
    <3>6. QED
      BY <2>3, <3>1, <3>2, <3>3, <3>4, <3>5 DEF Handle, Fail, ClaimInserted, ClaimUnheard
  <2>4. CASE \E m \in Messages : Purge(m)
    BY <2>2, <2>4 DEF Purge
  <2>5. CASE Shutdown \/ Tick \/ UNCHANGED vars
    BY <2>2, <2>5 DEF Shutdown, Tick, serviceVars, vars
  <2>6. CASE Crash
    BY <2>1, <2>2, <2>6 DEF Crash, Replying, Working
  <2>7. QED
    BY <1>2, <2>2, <2>3, <2>4, <2>5, <2>6 DEF Next
<1>3. QED
  BY <1>1, <1>2, InvariantHolds, PTL DEF Spec

(* A settled attempt is over: nothing more of it is sent or written. *)
THEOREM SettledStays == Spec => SettledIsFinal
<1> DEFINE Final == \A i \in Requests : Settled(i) =>
                      /\ rows'[i] \in {rows[i], NoRow}
                      /\ MailsOf(i)' = MailsOf(i)
<1>1. ASSUME IInv, SendersHoldPending, [Next]_vars, NEW i \in Requests, Settled(i)
      PROVE  rows'[i] \in {rows[i], NoRow} /\ MailsOf(i)' = MailsOf(i)
  <2>1. rows[i] # NoRow /\ ~ \E r \in Requests : pc[r] \in Replying /\ held[r].id = i
    BY <1>1 DEF Settled, SendersHoldPending, Replying
  <2>2. rows'[i] \in {rows[i], NoRow}
    BY <1>1, <2>1, RowHistory
  <2>3. MailsOf(i)' = MailsOf(i)
    BY <1>1, <2>1, MailHistory
  <2>4. QED
    BY <2>2, <2>3
<1>2. IInv /\ SendersHoldPending /\ [Next]_vars => [Final]_vars
  BY <1>1
<1>3. QED
  BY <1>2, InvariantHolds, SendersPending, PTL DEF Spec, SettledIsFinal

(***************************************************************************)
(* The ledger: what the handlers' rows and copies are to ReplyLedger.      *)
(***************************************************************************)

(* A row goes only with its message, so that there is one owner to a       *)
(* message and a key even after the row has gone.                          *)
RowsKept ==
  \A i \in Requests : Inserted(i) /\ held[i].message \in stored => rows[i] # NoRow

OneMade ==
  \A i, j \in Requests :
    Inserted(i) /\ Inserted(j) /\ held[i].message = held[j].message /\ held[i].key = held[j].key => i = j

LostToOther ==
  \A r \in Requests : pc[r] = "lost" =>
    \E i \in Requests : Inserted(i) /\ held[i].message = input[r].message /\ held[i].key = input[r].key

(* A copy is of the attempt its request asks for. *)
CopiesKeyed == \A r \in Requests : held[r] # NoRow => held[r].key = input[r].key

(* Whoever recorded an outcome keeps a copy of it. *)
RowsRecorded ==
  \A i \in Requests : rows[i] # NoRow /\ rows[i].status # "PENDING" => rows[i].status \in Outcomes(i)

HandlersStand ==
  \A r \in Requests :
    /\ pc[r] = "new" => input[r] = NoInput
    /\ pc[r] # "new" => input[r] \in Input
    /\ pc[r] \in {"found", "recovery"} => held[r].id # r
    /\ pc[r] = "recorded" => held[r].status # "PENDING"

LedgerInv ==
  RowsKept /\ OneMade /\ LostToOther /\ CopiesKeyed /\ RowsRecorded /\ HandlersStand

LEMMA LedgerInit == Init => LedgerInv
  BY DEF Init, LedgerInv, RowsKept, OneMade, LostToOther, CopiesKeyed, RowsRecorded, HandlersStand, Inserted

(* What was recorded of an attempt is what the copies of it say. *)
LEMMA OutcomesAre ==
  ASSUME NEW i
  PROVE  \A status : status \in Outcomes(i) <=>
           /\ status # "PENDING"
           /\ \E q \in Requests : held[q] # NoRow /\ held[q].id = i /\ held[q].status = status
  BY DEF Outcomes

LEMMA OutcomesAreNext ==
  ASSUME NEW i
  PROVE  \A status : status \in Outcomes(i)' <=>
           /\ status # "PENDING"
           /\ \E q \in Requests : held'[q] # NoRow /\ held'[q].id = i' /\ held'[q].status = status
  BY DEF Outcomes

(* Steps that leave the rows and the copies as they are.                   *)
LEMMA LedgerQuietStep ==
  ASSUME IInv, LedgerInv, UNCHANGED <<stored, rows, held>>,
         \A r \in Requests : held[r] # NoRow => input'[r] = input[r],
         LostToOther', HandlersStand'
  PROVE  LedgerInv'
<1>1. RowsKept' /\ OneMade' /\ RowsRecorded' /\ CopiesKeyed'
  BY DEF LedgerInv, RowsKept, OneMade, RowsRecorded, CopiesKeyed, Inserted, Outcomes
<1>2. QED
  BY <1>1 DEF LedgerInv

LEMMA LedgerHandlerStep ==
  ASSUME IInv, LedgerInv, NEW r \in Requests,
         \/ Receive(r) \/ ClaimLost(r) \/ ClaimOrphaned(r) \/ Replay(r) \/ Send(r)
         \/ Answer(r) \/ StatementFails(r)
  PROVE  LedgerInv'
<1> USE DEF Receive, Checked, ClaimLost, ClaimOrphaned, Replay, Send, Answer, StatementFails, serviceVars
<1>1. /\ pc \in [Requests -> {"new", "gone"} \union Working \union Answers]
      /\ input \in [Requests -> Input \union {NoInput}]
  BY DEF IInv, TypeOK
<1>2. UNCHANGED <<stored, rows, held>>
  OBVIOUS
<1>3. \A q \in Requests : q # r => pc'[q] = pc[q] /\ input'[q] = input[q]
  BY <1>1 DEF Goto
<1>4. input' = input \/ pc[r] = "new"
  OBVIOUS
<1>5. LostToOther'
  <2>1. ASSUME ClaimLost(r)
        PROVE  \E i \in Requests : Inserted(i) /\ held[i].message = input[r].message /\ held[i].key = input[r].key
    <3>1. PICK i \in Requests : rows[i] # NoRow /\ rows[i].message = input[r].message /\ rows[i].key = input[r].key
      BY <2>1 DEF Claimed
    <3>2. QED
      BY <3>1 DEF IInv, RowsInserted, SameAttempt
  <2>2. pc'[r] = "lost" => ClaimLost(r)
    BY <1>1 DEF Goto, Replying
  <2>3. pc'[r] = "lost" => input'[r] = input[r]
    BY <2>2
  <2>4. QED
    BY <1>2, <1>3, <2>1, <2>2, <2>3 DEF LedgerInv, LostToOther, Inserted
<1>6. HandlersStand'
  <2>1. /\ pc'[r] # "new" /\ pc'[r] # "recorded" /\ input'[r] \in Input
        /\ pc'[r] \in {"found", "recovery"} => pc[r] \in {"found", "recovery"}
    BY <1>1 DEF Goto, Replying, IInv, HandlersWellFormed, Working
  <2>2. QED
    BY <1>2, <1>3, <2>1 DEF LedgerInv, HandlersStand
<1>7. \A q \in Requests : held[q] # NoRow => input'[q] = input[q]
  BY <1>3, <1>4 DEF IInv, HandlersWellFormed
<1>8. QED
  BY <1>2, <1>5, <1>6, <1>7, LedgerQuietStep

LEMMA LedgerWorldStep ==
  ASSUME IInv, LedgerInv, Shutdown \/ Tick \/ Crash \/ UNCHANGED vars
  PROVE  LedgerInv'
<1>1. UNCHANGED <<delivered, stored, rows, input, held>>
  BY DEF Shutdown, Tick, Crash, vars, serviceVars, Mail!Shutdown, Mail!Tick, Mail!Restart
<1>2. /\ pc \in [Requests -> {"new", "gone"} \union Working \union Answers]
      /\ \A r \in Requests : pc'[r] = pc[r] \/ (pc[r] \in Working /\ pc'[r] = "gone")
  BY DEF IInv, TypeOK, Shutdown, Tick, Crash, vars, serviceVars
<1>3. LostToOther'
  BY <1>1, <1>2 DEF LedgerInv, LostToOther, Inserted
<1>4. HandlersStand'
  BY <1>1, <1>2 DEF LedgerInv, HandlersStand, Working
<1>5. QED
  BY <1>1, <1>3, <1>4, LedgerQuietStep

LEMMA LedgerPurgeStep ==
  ASSUME IInv, LedgerInv, NEW m \in Messages, Purge(m)
  PROVE  LedgerInv'
<1>1. /\ UNCHANGED <<delivered, pc, input, held>> /\ stored' = stored \ {m}
      /\ \A i \in Requests :
           rows'[i] = IF rows[i] # NoRow /\ rows[i].message = m THEN NoRow ELSE rows[i]
  BY DEF Purge
<1>2. RowsKept'
  BY <1>1 DEF LedgerInv, RowsKept, Inserted, IInv, RowsInserted, SameAttempt
<1>3. OneMade' /\ LostToOther' /\ CopiesKeyed' /\ HandlersStand'
  BY <1>1 DEF LedgerInv, OneMade, LostToOther, CopiesKeyed, HandlersStand, Inserted
<1>4. RowsRecorded'
  BY <1>1, NoRowIsNoRow DEF LedgerInv, RowsRecorded, Outcomes
<1>5. QED
  BY <1>2, <1>3, <1>4 DEF LedgerInv

(* A won claim: its slot had no owner, since an owner's row would be there. *)
LEMMA LedgerClaimStep ==
  ASSUME IInv, LedgerInv, NEW r \in Requests, ClaimInserted(r) \/ ClaimUnheard(r)
  PROVE  LedgerInv'
<1> DEFINE new == NewRow(r)
<1> USE NoRowIsNoRow
<1>1. /\ pc[r] = "claim" /\ input[r] \in Input /\ input[r].message \in stored
      /\ held[r] = NoRow /\ rows[r] = NoRow /\ now \in Nat
      /\ rows \in [Requests -> Row \union {NoRow}] /\ held \in [Requests -> Row \union {NoRow}]
      /\ pc \in [Requests -> {"new", "gone"} \union Working \union Answers]
  BY DEF ClaimInserted, ClaimUnheard, Insert, IInv, HandlersWellFormed, TypeOK, Mail!TypeOK,
     RowsInserted, Inserted, Working
<1>2. /\ new \in Row /\ new.id = r /\ new.message = input[r].message /\ new.key = input[r].key
      /\ new.status = "PENDING"
  BY <1>1 DEF NewRow, Row, Input, Status
<1>3. /\ rows' = [rows EXCEPT ![r] = new] /\ held' = [held EXCEPT ![r] = new]
      /\ \E label \in {"first", "error"} : pc' = [pc EXCEPT ![r] = label]
      /\ UNCHANGED <<stored, input>>
      /\ Claimed(input[r].message, input[r].key) = {}
  BY DEF ClaimInserted, ClaimUnheard, Insert, Goto
<1> HIDE DEF new
<1>4. /\ rows'[r] = new /\ held'[r] = new /\ pc'[r] \in {"first", "error"}
      /\ \A q \in Requests : q # r => rows'[q] = rows[q] /\ held'[q] = held[q] /\ pc'[q] = pc[q]
  BY <1>1, <1>3
<1>5. \A q \in Requests : held[q] # NoRow => held[q].id # r /\ held[q].id \in Requests
  BY <1>1 DEF IInv, HeldCopies, Inserted, TypeOK, Row
<1>6. \A i \in Requests : Inserted(i) =>
        ~(held[i].message = input[r].message /\ held[i].key = input[r].key)
  BY <1>1, <1>3 DEF LedgerInv, RowsKept, Claimed, IInv, RowsInserted, SameAttempt
<1>7. RowsKept' /\ RowsRecorded'
  <2>1. RowsKept'
    BY <1>2, <1>3, <1>4 DEF LedgerInv, RowsKept, Inserted
  <2>2. ASSUME NEW i \in Requests, rows'[i] # NoRow, rows'[i].status # "PENDING"
        PROVE  rows'[i].status \in Outcomes(i)'
    <3>1. i # r /\ rows'[i] = rows[i]
      BY <1>2, <1>4, <2>2
    <3>2. PICK q \in Requests : held[q] # NoRow /\ held[q].id = i /\ held[q].status = rows[i].status
      BY <2>2, <3>1, OutcomesAre DEF LedgerInv, RowsRecorded
    <3>3. held'[q] = held[q]
      BY <1>1, <1>4, <3>2
    <3>4. QED
      BY <2>2, <3>1, <3>2, <3>3, OutcomesAreNext
  <2>3. QED
    BY <2>1, <2>2 DEF RowsRecorded
<1>8. OneMade'
  BY <1>2, <1>4, <1>6 DEF LedgerInv, OneMade, Inserted
<1>9. LostToOther'
  BY <1>1, <1>3, <1>4 DEF LedgerInv, LostToOther, Inserted
<1>10. CopiesKeyed'
  BY <1>1, <1>2, <1>3, <1>4, <1>5 DEF LedgerInv, CopiesKeyed
<1>11. HandlersStand'
  BY <1>1, <1>3, <1>4 DEF LedgerInv, HandlersStand
<1>12. QED
  BY <1>7, <1>8, <1>9, <1>10, <1>11 DEF LedgerInv

(* A lost claim reads the owner's row, with what was recorded in it. *)
LEMMA LedgerFindStep ==
  ASSUME IInv, LedgerInv, NEW r \in Requests, FindClaimed(r)
  PROVE  LedgerInv'
<1> USE NoRowIsNoRow
<1>1. /\ pc[r] = "lost" /\ input[r] \in Input /\ held[r] = NoRow
      /\ held \in [Requests -> Row \union {NoRow}] /\ rows \in [Requests -> Row \union {NoRow}]
      /\ pc \in [Requests -> {"new", "gone"} \union Working \union Answers]
      /\ UNCHANGED <<delivered, stored, rows, input>>
  BY DEF FindClaimed, IInv, HandlersWellFormed, Working, TypeOK
<1>2. CASE held' = held /\ pc' = [pc EXCEPT ![r] = "notFound"]
  <2>1. \A q \in Requests : pc'[q] = pc[q] \/ pc'[q] = "notFound"
    BY <1>1, <1>2
  <2>2. LostToOther' /\ HandlersStand'
    BY <1>1, <1>2, <2>1 DEF LedgerInv, LostToOther, HandlersStand, Inserted
  <2>3. QED
    BY <1>1, <1>2, <2>2, LedgerQuietStep
<1>3. ASSUME NEW i \in Claimed(input[r].message, input[r].key),
             held' = [held EXCEPT ![r] = rows[i]], pc' = [pc EXCEPT ![r] = "found"]
      PROVE  LedgerInv'
  <2>1. /\ i \in Requests /\ rows[i] # NoRow /\ rows[i] \in Row
        /\ rows[i].message = input[r].message /\ rows[i].key = input[r].key
        /\ Inserted(i) /\ SameAttempt(rows[i], held[i]) /\ rows[i].id = i /\ i # r
    BY <1>1, <1>3 DEF Claimed, IInv, RowsInserted, TypeOK, Inserted, SameAttempt
  <2>2. /\ held'[r] = rows[i] /\ pc'[r] = "found"
        /\ \A q \in Requests : q # r => held'[q] = held[q] /\ pc'[q] = pc[q]
    BY <1>1, <1>3
  <2>3. \A q \in Requests : held[q] # NoRow => held[q].id # r /\ held[q].id \in Requests
    BY <1>1 DEF IInv, HeldCopies, Inserted, TypeOK, Row
  <2>4. \A q \in Requests : Inserted(q)' <=> Inserted(q) /\ q # r
    BY <1>1, <2>1, <2>2 DEF Inserted
  <2>5. RowsKept' /\ OneMade'
    BY <1>1, <2>2, <2>4 DEF LedgerInv, RowsKept, OneMade
  <2>6. LostToOther'
    <3> SUFFICES ASSUME NEW q \in Requests, pc'[q] = "lost"
                 PROVE  \E j \in Requests :
                          Inserted(j)' /\ held'[j].message = input[q].message /\ held'[j].key = input[q].key
      BY <1>1 DEF LostToOther
    <3>1. PICK j \in Requests : Inserted(j) /\ held[j].message = input[q].message /\ held[j].key = input[q].key
      BY <2>2 DEF LedgerInv, LostToOther
    <3>2. j # r
      BY <1>1, <3>1 DEF Inserted
    <3>3. QED
      BY <2>2, <2>4, <3>1, <3>2
  <2>7. RowsRecorded'
    <3> SUFFICES ASSUME NEW j \in Requests, rows[j] # NoRow, rows[j].status # "PENDING"
                 PROVE  rows[j].status \in Outcomes(j)'
      BY <1>1 DEF RowsRecorded
    <3>1. PICK q \in Requests : held[q] # NoRow /\ held[q].id = j /\ held[q].status = rows[j].status
      BY OutcomesAre DEF LedgerInv, RowsRecorded
    <3>2. held'[q] = held[q]
      BY <1>1, <2>2, <3>1
    <3>3. QED
      BY <3>1, <3>2, OutcomesAreNext
  <2>8. CopiesKeyed'
    BY <1>1, <2>1, <2>2, <2>3 DEF LedgerInv, CopiesKeyed
  <2>9. HandlersStand'
    BY <1>1, <2>1, <2>2 DEF LedgerInv, HandlersStand
  <2>10. QED
    BY <2>5, <2>6, <2>7, <2>8, <2>9 DEF LedgerInv
<1>4. QED
  BY <1>2, <1>3 DEF FindClaimed, Goto

(* An UPDATE records an outcome, and its handler holds what it recorded.   *)
LEMMA LedgerUpdateStep ==
  ASSUME IInv, LedgerInv, NEW r \in Requests, pc[r] \in Replying,
         UNCHANGED <<stored, input>>,
         NEW row \in Row,
         rows[held[r].id] # NoRow, SameAttempt(row, rows[held[r].id]),
         row.status # "PENDING", SendersHoldPending,
         rows' = [rows EXCEPT ![held[r].id] = row],
         held' = [held EXCEPT ![r] = row],
         Goto(r, "recorded")
  PROVE  LedgerInv'
<1> DEFINE i == held[r].id
<1> USE NoRowIsNoRow
<1>1. /\ held[r] \in Row /\ held[r] # NoRow /\ i \in Requests /\ row # NoRow
      /\ held \in [Requests -> Row \union {NoRow}] /\ rows \in [Requests -> Row \union {NoRow}]
      /\ pc \in [Requests -> {"new", "gone"} \union Working \union Answers]
      /\ held[r].status = "PENDING"
  BY DEF IInv, TypeOK, HandlersWellFormed, Row, Replying, SendersHoldPending
<1>2. /\ Inserted(i) /\ SameAttempt(row, held[r]) /\ SameAttempt(row, held[i])
  BY <1>1 DEF IInv, RowsInserted, HeldCopies, SameAttempt
<1>3. /\ rows'[i] = row /\ \A j \in Requests : j # i => rows'[j] = rows[j]
      /\ held'[r] = row /\ \A q \in Requests : q # r => held'[q] = held[q]
      /\ pc'[r] = "recorded" /\ \A q \in Requests : q # r => pc'[q] = pc[q]
  BY <1>1 DEF Goto
<1>4. row.id = i
  BY <1>2 DEF SameAttempt
<1> HIDE DEF i
<1>5. RowsRecorded'
  <2> SUFFICES ASSUME NEW j \in Requests, rows'[j] # NoRow, rows'[j].status # "PENDING"
               PROVE  rows'[j].status \in Outcomes(j)'
    BY DEF RowsRecorded
  <2>1. CASE j = i
    BY <1>1, <1>3, <1>4, <2>1, OutcomesAreNext
  <2>2. CASE j # i
    <3>1. PICK q \in Requests : held[q] # NoRow /\ held[q].id = j /\ held[q].status = rows[j].status
      BY <1>3, <2>2, OutcomesAre DEF LedgerInv, RowsRecorded
    <3>2. held'[q] = held[q]
      BY <1>3, <2>2, <3>1 DEF i
    <3>3. QED
      BY <1>3, <2>2, <3>1, <3>2, OutcomesAreNext
  <2>3. QED
    BY <2>1, <2>2
<1>6. /\ \A q \in Requests : Inserted(q)' <=> Inserted(q)
      /\ \A q \in Requests : held[q] # NoRow =>
           held'[q].id = held[q].id /\ held'[q].message = held[q].message /\ held'[q].key = held[q].key
  <2>1. /\ \A q \in Requests : q # r => (Inserted(q)' <=> Inserted(q))
        /\ \A q \in Requests : q # r => held'[q] = held[q]
    BY <1>3 DEF Inserted
  <2>2. Inserted(r)' <=> Inserted(r)
    BY <1>1, <1>2, <1>3 DEF Inserted, SameAttempt
  <2>3. held'[r].id = held[r].id /\ held'[r].message = held[r].message /\ held'[r].key = held[r].key
    BY <1>2, <1>3 DEF SameAttempt
  <2>4. QED
    BY <2>1, <2>2, <2>3
<1>7. RowsKept' /\ OneMade'
  BY <1>1, <1>3, <1>6 DEF LedgerInv, RowsKept, OneMade, Inserted
<1>8. LostToOther'
  <2> SUFFICES ASSUME NEW q \in Requests, pc'[q] = "lost"
               PROVE  \E j \in Requests :
                        Inserted(j)' /\ held'[j].message = input[q].message /\ held'[j].key = input[q].key
    BY DEF LostToOther
  <2>1. PICK j \in Requests : Inserted(j) /\ held[j].message = input[q].message /\ held[j].key = input[q].key
    BY <1>3 DEF LedgerInv, LostToOther
  <2>2. QED
    BY <1>6, <2>1 DEF Inserted
<1>9. CopiesKeyed'
  <2>1. held'[r].key = held[r].key /\ \A q \in Requests : q # r => held'[q] = held[q]
    BY <1>1, <1>3, <1>6
  <2>2. QED
    BY <1>1, <2>1 DEF LedgerInv, CopiesKeyed
<1>10. HandlersStand'
  <2> SUFFICES ASSUME NEW q \in Requests
               PROVE  /\ pc'[q] = "new" => input[q] = NoInput
                      /\ pc'[q] # "new" => input[q] \in Input
                      /\ pc'[q] \in {"found", "recovery"} => held'[q].id # q
                      /\ pc'[q] = "recorded" => held'[q].status # "PENDING"
    BY DEF HandlersStand
  <2>1. CASE q = r
    BY <1>1, <1>3, <2>1 DEF LedgerInv, HandlersStand, Replying
  <2>2. CASE q # r
    BY <1>3, <2>2 DEF LedgerInv, HandlersStand
  <2>3. QED
    BY <2>1, <2>2
<1>11. QED
  BY <1>5, <1>7, <1>8, <1>9, <1>10 DEF LedgerInv

LEMMA LedgerAnswerStep ==
  ASSUME IInv, LedgerInv, NEW r \in Requests, pc[r] \in Replying, NEW label \in Answers, Goto(r, label),
         UNCHANGED <<stored, rows, input, held>>
  PROVE  LedgerInv'
<1>1. /\ pc'[r] = label /\ \A q \in Requests : q # r => pc'[q] = pc[q]
      /\ held[r] # NoRow
  BY DEF Goto, IInv, TypeOK, HandlersWellFormed, Replying
<1>2. LostToOther' /\ HandlersStand'
  BY <1>1 DEF LedgerInv, LostToOther, HandlersStand, Inserted, Answers, Replying
<1>3. QED
  BY <1>2, LedgerQuietStep

LEMMA LedgerRecordStep ==
  ASSUME IInv, LedgerInv, SendersHoldPending, NEW r \in Requests, RecordSent(r) \/ RecordRefused(r)
  PROVE  LedgerInv'
<1> DEFINE i == held[r].id
<1>1. pc[r] \in Replying /\ held[r] \in Row /\ i \in Requests /\ UNCHANGED <<stored, input>>
  BY DEF RecordSent, RecordRefused, Replying, IInv, HandlersWellFormed, TypeOK, Row
<1>2. CASE UNCHANGED <<rows, held>> /\ (Goto(r, "answered") \/ Goto(r, "notFound"))
  BY <1>1, <1>2, LedgerAnswerStep DEF Answers
<1>3. CASE RecordSent(r) /\ rows[i] # NoRow
  <2>1. PICK id \in {r, NoId} : Write(r, MarkSent(Current(r), held[r], id))
    BY <1>3 DEF RecordSent
  <2> DEFINE row == MarkSent(rows[i], held[r], id)
  <2>2. rows' = [rows EXCEPT ![i] = row] /\ held' = [held EXCEPT ![r] = row] /\ Goto(r, "recorded")
    BY <1>1, <1>3, <2>1 DEF Write, Current
  <2>3. rows[i] \in Row
    BY <1>1, <1>3 DEF IInv, TypeOK
  <2>4. row \in Row /\ SameAttempt(row, rows[i]) /\ row.status = "SENT"
    BY <1>1, <2>3 DEF MarkSent, Row, Status, SameAttempt
  <2> HIDE DEF row
  <2>5. QED
    BY <1>1, <1>3, <2>2, <2>4, LedgerUpdateStep DEF RecordSent
<1>4. CASE RecordRefused(r) /\ pc[r] = "first" /\ rows[i] # NoRow
  <2> DEFINE row == MarkFailed(rows[i])
  <2>1. rows' = [rows EXCEPT ![i] = row] /\ held' = [held EXCEPT ![r] = row] /\ Goto(r, "recorded")
    BY <1>1, <1>4 DEF RecordRefused, Write, Current
  <2>2. rows[i] \in Row
    BY <1>1, <1>4 DEF IInv, TypeOK
  <2>3. row \in Row /\ SameAttempt(row, rows[i]) /\ row.status = "FAILED"
    BY <2>2 DEF MarkFailed, Row, Status, SameAttempt
  <2> HIDE DEF row
  <2>4. QED
    BY <1>1, <1>4, <2>1, <2>3, LedgerUpdateStep
<1>5. QED
  BY <1>2, <1>3, <1>4 DEF RecordSent, RecordRefused, Write, Current

LEMMA LedgerStep == IInv /\ LedgerInv /\ SendersHoldPending /\ [Next]_vars => LedgerInv'
  BY LedgerHandlerStep, LedgerWorldStep, LedgerPurgeStep, LedgerClaimStep, LedgerFindStep, LedgerRecordStep
  DEF Next, Handle, Fail

LEMMA LedgerHolds == Spec => []LedgerInv
  BY LedgerInit, LedgerStep, InvariantHolds, SendersPending, PTL DEF Spec

(* The message and the key a row was made under, by its maker's copy.      *)
SlotOf(i) == <<held[i].message, held[i].key>>

(* What the ledger's attempts are: under each slot that has an owner, that *)
(* owner's attempt.                                                        *)
LEMMA AttemptsAre ==
  ASSUME IInv, LedgerInv
  PROVE  /\ Attempts = [s \in DOMAIN Attempts |-> Attempts[s]]
         /\ \A s : s \in DOMAIN Attempts <=> \E i \in Requests : Inserted(i) /\ s = SlotOf(i)
         /\ \A i \in Requests : Inserted(i) => Attempts[SlotOf(i)] = Attempt(i)
<1>1. \A i \in Requests : Inserted(i) => SlotOf(i) \in Messages \X Keys /\ i \in Made(SlotOf(i))
  BY DEF IInv, TypeOK, Inserted, Row, SlotOf, Made
<1>2. \A s \in Messages \X Keys : \A i \in Made(s) : i \in Requests /\ Inserted(i) /\ s = SlotOf(i)
  BY DEF Made, Inserted, SlotOf
<1>3. DOMAIN Attempts = {x \in Messages \X Keys : Made(x) # {}}
  BY DEF Attempts
<1>4. ASSUME NEW s PROVE s \in DOMAIN Attempts <=> \E i \in Requests : Inserted(i) /\ s = SlotOf(i)
  BY <1>1, <1>2, <1>3
<1>5. ASSUME NEW i \in Requests, Inserted(i) PROVE Attempts[SlotOf(i)] = Attempt(i)
  <2>1. Made(SlotOf(i)) = {i}
    <3>1. \A j \in Made(SlotOf(i)) : j = i
      BY <1>1, <1>5 DEF LedgerInv, OneMade, Made, Inserted, SlotOf
    <3>2. QED
      BY <1>1, <1>5, <3>1
  <2>2. SlotOf(i) \in DOMAIN Attempts /\ Attempts[SlotOf(i)] = Attempt(CHOOSE j \in Made(SlotOf(i)) : TRUE)
    <3>1. SlotOf(i) \in DOMAIN Attempts
      BY <1>4, <1>5
    <3> DEFINE Chosen(x) == Attempt(CHOOSE j \in Made(x) : TRUE)
    <3>2. Attempts = [x \in {y \in Messages \X Keys : Made(y) # {}} |-> Chosen(x)]
      BY DEF Attempts
    <3>3. \A x \in DOMAIN Attempts : Attempts[x] = Chosen(x)
      <4> HIDE DEF Chosen
      <4> QED
        BY <3>2
    <3>4. QED
      BY <3>1, <3>3
  <2>3. (CHOOSE j \in Made(SlotOf(i)) : TRUE) = i
    BY <2>1
  <2>4. QED
    BY <2>2, <2>3
<1>6. Attempts = [s \in DOMAIN Attempts |-> Attempts[s]]
  BY DEF Attempts
<1>7. QED
  BY <1>4, <1>5, <1>6

AttemptsKnown ==
  /\ Attempts = [s \in DOMAIN Attempts |-> Attempts[s]]
  /\ \A s : s \in DOMAIN Attempts <=> \E i \in Requests : Inserted(i) /\ s = SlotOf(i)
  /\ \A i \in Requests : Inserted(i) => Attempts[SlotOf(i)] = Attempt(i)

LEMMA AttemptsBefore == IInv /\ LedgerInv => AttemptsKnown
  BY AttemptsAre DEF AttemptsKnown

LEMMA AttemptsAfter == IInv' /\ LedgerInv' => AttemptsKnown'
  BY AttemptsBefore, PTL

(* A step that makes no row keeps every slot and its owner.                *)
SameMakers ==
  \A i \in Requests :
    /\ Inserted(i)' <=> Inserted(i)
    /\ Inserted(i) => SlotOf(i)' = SlotOf(i)

LEMMA AttemptsStay ==
  ASSUME AttemptsKnown, AttemptsKnown', SameMakers,
         \A i \in Requests : Inserted(i) => Attempt(i)' = Attempt(i)
  PROVE  Attempts' = Attempts
<1>1. \A s : s \in DOMAIN Attempts' <=> s \in DOMAIN Attempts
  BY DEF AttemptsKnown, SameMakers
<1>2. DOMAIN Attempts' = DOMAIN Attempts
  BY <1>1
<1>3. ASSUME NEW s \in DOMAIN Attempts PROVE Attempts'[s] = Attempts[s]
  <2>1. PICK i \in Requests : Inserted(i) /\ s = SlotOf(i)
    BY <1>3 DEF AttemptsKnown
  <2>2. Attempts[s] = Attempt(i) /\ Attempts'[s] = Attempt(i)'
    BY <2>1 DEF AttemptsKnown, SameMakers
  <2>3. QED
    BY <2>1, <2>2
<1>4. QED
  BY <1>2, <1>3 DEF AttemptsKnown

(* A step that changes one owner's attempt changes the ledger there.       *)
LEMMA AttemptsChange ==
  ASSUME AttemptsKnown, AttemptsKnown', SameMakers, NEW i \in Requests, Inserted(i),
         \A j \in Requests : Inserted(j) /\ j # i => Attempt(j)' = Attempt(j) /\ SlotOf(j) # SlotOf(i)
  PROVE  /\ SlotOf(i) \in DOMAIN Attempts
         /\ Attempts' = [Attempts EXCEPT ![SlotOf(i)] = Attempt(i)']
<1>1. \A s : s \in DOMAIN Attempts' <=> s \in DOMAIN Attempts
  BY DEF AttemptsKnown, SameMakers
<1>2. DOMAIN Attempts' = DOMAIN Attempts /\ SlotOf(i) \in DOMAIN Attempts
  BY <1>1 DEF AttemptsKnown
<1>3. Attempts'[SlotOf(i)] = Attempt(i)'
  BY DEF AttemptsKnown, SameMakers
<1>4. ASSUME NEW s \in DOMAIN Attempts, s # SlotOf(i) PROVE Attempts'[s] = Attempts[s]
  <2>1. PICK j \in Requests : Inserted(j) /\ s = SlotOf(j)
    BY <1>4 DEF AttemptsKnown
  <2>2. Attempts[s] = Attempt(j) /\ Attempts'[s] = Attempt(j)' /\ j # i
    BY <1>4, <2>1 DEF AttemptsKnown, SameMakers
  <2>3. QED
    BY <2>1, <2>2
<1> DEFINE new == Attempt(i)'
<1> HIDE DEF new
<1>5. \A s \in DOMAIN Attempts : Attempts'[s] = IF s = SlotOf(i) THEN new ELSE Attempts[s]
  BY <1>3, <1>4 DEF new
<1>6. Attempts' = [s \in DOMAIN Attempts |-> IF s = SlotOf(i) THEN new ELSE Attempts[s]]
  BY <1>2, <1>5 DEF AttemptsKnown
<1>7. [Attempts EXCEPT ![SlotOf(i)] = new]
        = [s \in DOMAIN Attempts |-> IF s = SlotOf(i) THEN new ELSE Attempts[s]]
  BY DEF AttemptsKnown
<1>8. QED
  BY <1>2, <1>6, <1>7 DEF new

LEMMA SlotsApart ==
  ASSUME LedgerInv, NEW i \in Requests, NEW j \in Requests, Inserted(i), Inserted(j), i # j
  PROVE  SlotOf(i) # SlotOf(j)
  BY DEF LedgerInv, OneMade, SlotOf

(* What a handler that holds a copy knows of its attempt.                  *)
LEMMA HoldersAttempt ==
  ASSUME IInv, LedgerInv, AttemptsKnown, NEW r \in Requests, held[r] # NoRow
  PROVE  /\ held[r].id \in Requests /\ Inserted(held[r].id)
         /\ Ledger!Slot(r) = SlotOf(held[r].id) /\ Ledger!Slot(r) \in DOMAIN Attempts
         /\ Attempts[Ledger!Slot(r)] = Attempt(held[r].id)
         /\ held[r].user = held[held[r].id].user /\ held[r].body = held[held[r].id].body
<1>1. held[r] \in Row /\ held[r].id \in Requests
  BY DEF IInv, TypeOK, Row
<1>2. /\ Inserted(held[r].id) /\ SameAttempt(held[r], held[held[r].id])
      /\ held[r].message = input[r].message /\ held[r].key = input[r].key
  BY DEF IInv, HeldCopies, LedgerInv, CopiesKeyed
<1>3. Ledger!Slot(r) = SlotOf(held[r].id)
  BY <1>2 DEF Ledger!Slot, SlotOf, SameAttempt
<1>4. QED
  BY <1>1, <1>2, <1>3 DEF AttemptsKnown, SameAttempt

(* A step of one handler tells only its own request something.             *)
LEMMA TellsOnly ==
  ASSUME NEW r \in Requests, \A q \in Requests : q # r => pc'[q] = pc[q] /\ held'[q] = held[q]
  PROVE  /\ Verdicts' = [Verdicts EXCEPT ![r] = Told(r)']
         /\ Shown' = [Shown EXCEPT ![r] = Shown'[r]]
<1>1. \A q \in Requests : q # r => Told(q)' = Told(q) /\ Shown'[q] = Shown[q]
  BY DEF Told, Shown
<1>2. \A q \in Requests : Verdicts'[q] = Told(q)'
  BY DEF Verdicts
<1>3. Verdicts' = [Verdicts EXCEPT ![r] = Told(r)']
  BY <1>1 DEF Verdicts
<1>4. /\ Shown' = [q \in Requests |-> Shown'[q]] /\ Shown = [q \in Requests |-> Shown[q]]
  BY DEF Shown
<1>5. Shown' = [Shown EXCEPT ![r] = Shown'[r]]
  BY <1>1, <1>4
<1>6. QED
  BY <1>3, <1>5

LEMMA TellsNothing ==
  ASSUME \A q \in Requests : \/ pc'[q] = pc[q] /\ held'[q] = held[q]
                             \/ pc[q] \in Working /\ pc'[q] \in Working \union {"gone"}
  PROVE  Verdicts' = Verdicts /\ Shown' = Shown
<1>1. \A q \in Requests : Told(q)' = Told(q)
  BY DEF Told, Working
<1>2. Verdicts' = Verdicts
  BY <1>1 DEF Verdicts
<1>3. Shown' = Shown
  BY DEF Shown, Working
<1>4. QED
  BY <1>2, <1>3

LEMMA AttemptsQuiet ==
  ASSUME AttemptsKnown, AttemptsKnown', UNCHANGED <<rows, held, delivered>>
  PROVE  Attempts' = Attempts
<1>1. SameMakers
  BY DEF SameMakers, Inserted, SlotOf
<1>2. \A i : Attempt(i)' = Attempt(i)
  BY DEF Attempt, Outcomes, Mailings, MailsOf
<1>3. QED
  BY <1>1, <1>2, AttemptsStay

LedgerStutter == UNCHANGED Ledger!ledgerVars

LEMMA LedgerStarts == Init => Ledger!Init
<1> SUFFICES ASSUME Init PROVE Ledger!Init
  OBVIOUS
<1>1. Attempts = [s \in {} |-> NoRow]
  BY DEF Init, Attempts, Made
<1>2. Verdicts = [r \in Requests |-> "none"] /\ Shown = [r \in Requests |-> NoRow]
  BY DEF Init, Verdicts, Told, Shown
<1>3. QED
  BY <1>1, <1>2 DEF Init, Ledger!Init, Mail!Init

(* Receiving a request is asking. *)
LEMMA ReceiveAsks ==
  ASSUME IInv, LedgerInv, AttemptsKnown, AttemptsKnown', NEW r \in Requests, Receive(r)
  PROVE  Ledger!Ask(r)
<1>1. PICK in \in Input : \E label \in {Checked(in), "error"} :
        input' = [input EXCEPT ![r] = in] /\ Goto(r, label)
  BY DEF Receive
<1>2. /\ pc \in [Requests -> {"new", "gone"} \union Working \union Answers]
      /\ UNCHANGED <<now, stored, rows, held, delivered>> /\ input[r] = NoInput
  BY DEF Receive, IInv, TypeOK, LedgerInv, HandlersStand
<1>3. Attempts' = Attempts
  BY <1>2, AttemptsQuiet
<1>4. \A q \in Requests : q # r => pc'[q] = pc[q] /\ held'[q] = held[q]
  BY <1>1, <1>2 DEF Goto
<1>5. Told(r)' \in {Ledger!FirstAnswer(in), "error"} /\ Shown'[r] = NoRow
  BY <1>1, <1>2 DEF Goto, Checked, Told, Shown, Ledger!FirstAnswer
<1>6. Ledger!Tell(r, Told(r)', NoRow)
  BY <1>4, <1>5, TellsOnly DEF Ledger!Tell
<1>7. QED
  BY <1>1, <1>2, <1>3, <1>5, <1>6 DEF Ledger!Ask, Ledger!Input, Input

(* A won claim opens the attempt, heard of or not. *)
LEMMA ClaimOpens ==
  ASSUME IInv, LedgerInv, AttemptsKnown, AttemptsKnown', NEW r \in Requests, ClaimInserted(r) \/ ClaimUnheard(r)
  PROVE  Ledger!Open(r)
<1> DEFINE new == NewRow(r)
           slot == <<input[r].message, input[r].key>>
<1> USE NoRowIsNoRow
<1>1. /\ pc[r] = "claim" /\ input[r] \in Input /\ input[r].message \in stored \intersect Repliable
      /\ held[r] = NoRow /\ now \in Nat /\ rows[r] = NoRow /\ input[r] # NoInput
      /\ rows \in [Requests -> Row \union {NoRow}] /\ held \in [Requests -> Row \union {NoRow}]
      /\ pc \in [Requests -> {"new", "gone"} \union Working \union Answers]
  BY NoInputIsNoInput DEF ClaimInserted, ClaimUnheard, Insert, IInv, HandlersWellFormed, TypeOK, Mail!TypeOK,
     RowsInserted, Inserted, Working
<1>2. /\ new \in Row /\ new.id = r /\ new.message = input[r].message /\ new.key = input[r].key
      /\ new.status = "PENDING" /\ new.user = input[r].user /\ new.body = input[r].body /\ new.createdAt = now
  BY <1>1 DEF NewRow, Row, Input, Status
<1>3. /\ rows' = [rows EXCEPT ![r] = new] /\ held' = [held EXCEPT ![r] = new]
      /\ \E label \in {"first", "error"} : pc' = [pc EXCEPT ![r] = label]
      /\ UNCHANGED <<now, stored, input, delivered>>
      /\ Claimed(input[r].message, input[r].key) = {}
  BY DEF ClaimInserted, ClaimUnheard, Insert, Goto, Mail!Begin
<1> HIDE DEF new
<1>4. /\ rows'[r] = new /\ held'[r] = new /\ pc'[r] \in {"first", "error"} /\ new # NoRow
      /\ \A q \in Requests : q # r => rows'[q] = rows[q] /\ held'[q] = held[q] /\ pc'[q] = pc[q]
  BY <1>1, <1>2, <1>3
<1>5. \A i \in Requests : Inserted(i) => SlotOf(i) # slot
  BY <1>1, <1>3 DEF LedgerInv, RowsKept, Claimed, IInv, RowsInserted, SameAttempt, SlotOf
<1>6. slot \notin DOMAIN Attempts
  BY <1>5 DEF AttemptsKnown
<1>7. MailsOf(r) = {} /\ \A i : MailsOf(i)' = MailsOf(i)
  BY <1>1, <1>3 DEF IInv, DeliveriesOfRows, Inserted, MailsOf
<1>8. Inserted(r)' /\ SlotOf(r)' = slot
  BY <1>2, <1>4 DEF Inserted, SlotOf
<1>9. Attempt(r)' = [by |-> r, user |-> input[r].user, body |-> input[r].body, at |-> now,
                     status |-> "PENDING", outcomes |-> {}, mails |-> {}]
  <2>1. Mailings(r)' = {}
    BY <1>7 DEF Mailings
  <2>2. \A q \in Requests : q # r => held'[q] = NoRow \/ held'[q].id # r
    BY <1>1, <1>4 DEF IInv, HeldCopies, Inserted, TypeOK, Row
  <2>3. Outcomes(r)' = {}
    BY <1>2, <1>4, <2>2, OutcomesAreNext
  <2>4. QED
    BY <1>2, <1>4, <2>1, <2>3 DEF Attempt
<1>10. \A i \in Requests : i # r => /\ Inserted(i)' <=> Inserted(i)
                                    /\ SlotOf(i)' = SlotOf(i)
                                    /\ Attempt(i)' = Attempt(i)
  <2> SUFFICES ASSUME NEW i \in Requests, i # r
               PROVE  (Inserted(i)' <=> Inserted(i)) /\ SlotOf(i)' = SlotOf(i) /\ Attempt(i)' = Attempt(i)
    OBVIOUS
  <2>1. \A status : status \in Outcomes(i)' <=> status \in Outcomes(i)
    BY <1>1, <1>2, <1>4, OutcomesAre, OutcomesAreNext
  <2>2. Mailings(i)' = Mailings(i) /\ Outcomes(i)' = Outcomes(i)
    BY <1>7, <2>1 DEF Mailings
  <2>3. rows'[i] = rows[i] /\ held'[i] = held[i]
    BY <1>4
  <2>4. QED
    BY <2>2, <2>3 DEF Inserted, SlotOf, Attempt
<1>11. ~Inserted(r)
  BY <1>1 DEF Inserted
<1> HIDE DEF slot
<1>12. DOMAIN Attempts' = DOMAIN Attempts \union {slot}
  <2>1. \A s : s \in DOMAIN Attempts' <=> s \in DOMAIN Attempts \/ s = slot
    BY <1>8, <1>10, <1>11 DEF AttemptsKnown
  <2>2. QED
    BY <2>1
<1>13. Attempts'[slot] = Attempt(r)'
  BY <1>8 DEF AttemptsKnown
<1>14. ASSUME NEW s \in DOMAIN Attempts PROVE Attempts'[s] = Attempts[s] /\ s # slot
  <2>1. PICK i \in Requests : Inserted(i) /\ s = SlotOf(i)
    BY <1>14 DEF AttemptsKnown
  <2>2. i # r /\ Attempts[s] = Attempt(i) /\ Attempts'[s] = Attempt(i)'
    BY <1>10, <1>11, <2>1 DEF AttemptsKnown
  <2>3. QED
    BY <1>6, <1>10, <2>2
<1>15. Attempts' = [s \in DOMAIN Attempts \union {slot} |-> IF s = slot THEN Attempt(r)' ELSE Attempts[s]]
  <2> DEFINE made == Attempt(r)'
  <2> HIDE DEF made
  <2>1. \A s \in DOMAIN Attempts' : Attempts'[s] = IF s = slot THEN made ELSE Attempts[s]
    BY <1>12, <1>13, <1>14 DEF made
  <2>2. Attempts' = [s \in DOMAIN Attempts \union {slot} |-> IF s = slot THEN made ELSE Attempts[s]]
    BY <1>12, <2>1 DEF AttemptsKnown
  <2>3. QED
    BY <2>2 DEF made
<1>16. Ledger!Tell(r, Told(r)', NoRow) /\ Told(r)' \in {"none", "error"} /\ Verdicts[r] = "none"
  <2>1. Told(r)' \in {"none", "error"} /\ Shown'[r] = NoRow
    BY <1>4 DEF Told, Shown
  <2>2. QED
    BY <1>1, <1>4, <2>1, TellsOnly DEF Verdicts, Told, Ledger!Tell
<1>17. Ledger!Slot(r) = slot
  BY DEF Ledger!Slot, slot
<1>18. QED
  BY <1>1, <1>3, <1>6, <1>9, <1>15, <1>16, <1>17 DEF Ledger!Open, Ledger!Waiting

(* What the relay takes is the attempt's next delivery: its first, or one  *)
(* after the window.                                                       *)
LEMMA SendDelivers ==
  ASSUME IInv, IInv', LedgerInv, AttemptsKnown, AttemptsKnown', NEW r \in Requests, Send(r)
  PROVE  LedgerStutter \/ Ledger!Deliver(r)
<1> DEFINE new == [mail |-> sends[r].mail, by |-> r, at |-> now]
<1>1. /\ pc[r] \in Replying /\ Mail!SendStep(r) /\ UNCHANGED <<stored, rows, pc, input, held>>
      /\ Mail!TypeOK /\ now \in Nat
  BY DEF Send, serviceVars, IInv, TypeOK, Mail!TypeOK
<1>2. /\ now' = now /\ sends[r].state \in Mail!Running
      /\ delivered' = delivered \/ delivered' = delivered \union {new}
  BY <1>1, SendEffect
<1>3. Verdicts' = Verdicts /\ Shown' = Shown
  BY <1>1, TellsNothing
<1>4. CASE delivered' = delivered
  <2>1. Attempts' = Attempts
    BY <1>1, <1>4, AttemptsQuiet
  <2>2. QED
    BY <1>1, <1>2, <1>3, <2>1 DEF LedgerStutter, Ledger!ledgerVars
<1>5. CASE delivered' = delivered \union {new} /\ new \notin delivered
  <2>1. held[r] # NoRow /\ sends[r].mail = ReplyMail(r, held[r])
    BY <1>2 DEF IInv, SendsOfHeld, Mail!Running
  <2>2. PICK i \in Requests :
          /\ i = held[r].id
          /\ Inserted(i) /\ SlotOf(i) \in DOMAIN Attempts /\ Attempts[SlotOf(i)] = Attempt(i)
          /\ Ledger!Slot(r) = SlotOf(i)
    BY <2>1, HoldersAttempt
  <2>3. new.mail.key = ProviderKey(i) /\ new.at = now /\ new.by = r
    BY <2>1, <2>2 DEF ReplyMail
  <2> HIDE DEF new
  <2>4. /\ MailsOf(i)' = MailsOf(i) \union {new}
        /\ \A j \in Requests : j # i => MailsOf(j)' = MailsOf(j)
    <3>1. \A j \in Requests : MailsOf(j)' = {d \in delivered \union {new} : d.mail.key = ProviderKey(j)}
      BY <1>5 DEF MailsOf
    <3>2. \A j \in Requests : j # i => new.mail.key # ProviderKey(j)
      BY <2>2, <2>3, ReplyMailKeys
    <3>3. QED
      BY <2>2, <2>3, <3>1, <3>2 DEF MailsOf
  <2>5. /\ held[i] \in Row /\ held[i].createdAt \in Nat
        /\ held[i].createdAt <= now /\ now < held[i].createdAt + Retention + SendBound
    <3>1. /\ held'[i].createdAt <= new.at /\ new.at < held'[i].createdAt + Retention + SendBound
      <4>1. DeliveriesOfRows' /\ new \in MailsOf(i)'
        BY <2>4 DEF IInv
      <4>2. QED
        BY <2>2, <4>1 DEF DeliveriesOfRows
    <3>2. QED
      BY <1>1, <2>2, <2>3, <3>1 DEF IInv, TypeOK, Inserted, Row
  <2>6. ASSUME NEW e \in MailsOf(i) PROVE now >= held[i].createdAt + Retention
    <3>1. /\ e \in delivered /\ e.mail.key = ProviderKey(i) /\ e \in delivered' /\ new \in delivered'
          /\ e # new /\ held[i].createdAt <= e.at
      BY <1>5, <2>2, <2>6 DEF MailsOf, IInv, DeliveriesOfRows
    <3>2. e.at \in Nat
      BY <3>1 DEF IInv, TypeOK, Mail!TypeOK, Mail!Delivery
    <3>3. e.at <= now
      BY <1>1, <2>2, <3>1, <3>2, ReplyMailKeys DEF IInv, Relay!MailInv, Relay!RelayRemembers, Mail!TypeOK,
         Mail!Never, Relay!Never
    <3>4. now >= e.at + Retention \/ e.at >= now + Retention
      BY <2>2, <2>3, <3>1, ReplyMailKeys DEF IInv, Relay!MailInv, Relay!KeyedMailsFarApart
    <3>5. QED
      BY <1>1, <2>5, <3>1, <3>2, <3>3, <3>4, BoundsType
  <2>7. SameMakers /\ \A j \in Requests : j # i => Attempt(j)' = Attempt(j)
    BY <1>1, <2>4 DEF SameMakers, Inserted, SlotOf, Attempt, Outcomes, Mailings
  <2>8. Attempts' = [Attempts EXCEPT ![SlotOf(i)] = Attempt(i)']
    <3>1. \A j \in Requests : Inserted(j) /\ j # i => Attempt(j)' = Attempt(j) /\ SlotOf(j) # SlotOf(i)
      BY <2>2, <2>7, SlotsApart
    <3>2. QED
      BY <2>2, <2>7, <3>1, AttemptsChange
  <2>9. Attempt(i)' = [Attempt(i) EXCEPT !.mails = @ \union {[by |-> r, at |-> now]}]
    <3>1. {[by |-> d.by, at |-> d.at] : d \in MailsOf(i) \union {new}}
             = {[by |-> d.by, at |-> d.at] : d \in MailsOf(i)} \union {[by |-> r, at |-> now]}
      BY <2>3
    <3>2. Mailings(i)' = Mailings(i) \union {[by |-> r, at |-> now]}
      BY <2>4, <3>1 DEF Mailings
    <3>3. held' = held /\ rows' = rows /\ Outcomes(i)' = Outcomes(i)
      BY <1>1 DEF Outcomes
    <3>4. QED
      BY <3>2, <3>3 DEF Attempt
  <2>10. Attempts' = [Attempts EXCEPT ![SlotOf(i)].mails = @ \union {[by |-> r, at |-> now]}]
    BY <2>2, <2>8, <2>9
  <2>11. /\ Attempts[SlotOf(i)].at = held[i].createdAt
         /\ Attempts[SlotOf(i)].mails = {} \/ now >= held[i].createdAt + Retention
    BY <2>2, <2>6 DEF Attempt, Mailings
  <2>12. Ledger!Waiting(r)
    BY <1>1, NoInputIsNoInput DEF Ledger!Waiting, IInv, HandlersWellFormed, Replying, Working, Verdicts, Told
  <2>13. QED
    BY <1>1, <1>2, <1>3, <2>2, <2>5, <2>10, <2>11, <2>12 DEF Ledger!Deliver, Ledger!TellNobody
<1>6. QED
  BY <1>2, <1>4, <1>5

(* An outcome is recorded for good, and nobody has been told of it yet.    *)
LEMMA UpdateConcludes ==
  ASSUME IInv, LedgerInv, SendersHoldPending, AttemptsKnown, AttemptsKnown', NEW r \in Requests, pc[r] \in Replying,
         UNCHANGED <<now, delivered, stored, input>>,
         NEW row \in Row,
         rows[held[r].id] # NoRow, SameAttempt(row, rows[held[r].id]),
         row.status # "PENDING",
         row.status = "SENT" => sends[r].state = "sent",
         row.status = "FAILED" => pc[r] = "first",
         rows' = [rows EXCEPT ![held[r].id] = row],
         held' = [held EXCEPT ![r] = row],
         Goto(r, "recorded")
  PROVE  Ledger!Conclude(r, row.status)
<1> USE NoRowIsNoRow
<1>1. /\ held[r] \in Row /\ held[r] # NoRow /\ row # NoRow /\ input[r] # NoInput
      /\ held \in [Requests -> Row \union {NoRow}] /\ rows \in [Requests -> Row \union {NoRow}]
      /\ pc \in [Requests -> {"new", "gone"} \union Working \union Answers]
  BY NoInputIsNoInput DEF IInv, TypeOK, HandlersWellFormed, Replying, Working
<1>2. PICK i \in Requests :
      /\ i = held[r].id /\ Inserted(i) /\ Ledger!Slot(r) = SlotOf(i) /\ SlotOf(i) \in DOMAIN Attempts
      /\ Attempts[SlotOf(i)] = Attempt(i)
      /\ held[r].user = held[i].user /\ held[r].body = held[i].body
  BY <1>1, HoldersAttempt
<1>3. SameAttempt(row, held[r]) /\ SameAttempt(row, held[i])
  BY <1>1, <1>2 DEF IInv, RowsInserted, HeldCopies, SameAttempt
<1>4. pc[r] = "first" => i = r
  BY <1>2 DEF IInv, HandlersWellFormed
<1>5. row.status = "SENT" => MailsOf(i) # {}
  BY <1>2, SentMail
<1>6. /\ rows'[i] = row /\ \A j \in Requests : j # i => rows'[j] = rows[j]
      /\ held'[r] = row /\ \A q \in Requests : q # r => held'[q] = held[q]
      /\ pc'[r] = "recorded" /\ \A q \in Requests : q # r => pc'[q] = pc[q]
  BY <1>1, <1>2 DEF Goto
<1>7. SameMakers
  <2>1. \A q \in Requests : q # r => (Inserted(q)' <=> Inserted(q)) /\ SlotOf(q)' = SlotOf(q)
    BY <1>6 DEF Inserted, SlotOf
  <2>2. (Inserted(r)' <=> Inserted(r)) /\ SlotOf(r)' = SlotOf(r)
    BY <1>1, <1>3, <1>6 DEF Inserted, SlotOf, SameAttempt
  <2>3. QED
    BY <2>1, <2>2 DEF SameMakers
<1>8. \A j \in Requests : MailsOf(j)' = MailsOf(j)
  BY DEF MailsOf
<1>9. \A j \in Requests : held'[j].user = held[j].user /\ held'[j].body = held[j].body
                          /\ held'[j].createdAt = held[j].createdAt
  <2>1. held'[r] = row /\ \A j \in Requests : j # r => held'[j] = held[j]
    BY <1>6
  <2>2. row.user = held[r].user /\ row.body = held[r].body /\ row.createdAt = held[r].createdAt
    BY <1>3 DEF SameAttempt
  <2>3. QED
    BY <2>1, <2>2
<1>10. \A j \in Requests : j # i => Attempt(j)' = Attempt(j)
  <2> SUFFICES ASSUME NEW j \in Requests, j # i PROVE Attempt(j)' = Attempt(j)
    OBVIOUS
  <2>1. \A status : status \in Outcomes(j)' <=> status \in Outcomes(j)
    <3>1. held[r].id # j /\ held'[r].id # j
      BY <1>2, <1>3, <1>6 DEF SameAttempt
    <3>2. \A q \in Requests : held[q] # NoRow /\ held[q].id = j => held'[q] = held[q]
      BY <1>6, <3>1
    <3>3. \A q \in Requests : held'[q] # NoRow /\ held'[q].id = j => held'[q] = held[q]
      BY <1>6, <3>1
    <3>4. QED
      BY <3>2, <3>3, OutcomesAre, OutcomesAreNext
  <2>2. Mailings(j)' = Mailings(j) /\ Outcomes(j)' = Outcomes(j)
    BY <1>8, <2>1 DEF Mailings
  <2>3. QED
    BY <1>6, <1>9, <2>2 DEF Attempt
<1>11. Attempts' = [Attempts EXCEPT ![SlotOf(i)] = Attempt(i)']
  <2>1. \A j \in Requests : Inserted(j) /\ j # i => Attempt(j)' = Attempt(j) /\ SlotOf(j) # SlotOf(i)
    BY <1>2, <1>10, SlotsApart
  <2>2. QED
    BY <1>2, <1>7, <2>1, AttemptsChange
<1>12. Attempt(i)' = [Attempt(i) EXCEPT !.status = row.status, !.outcomes = @ \union {row.status}]
  <2>1. Mailings(i)' = Mailings(i)
    BY <1>2, <1>8 DEF Mailings
  <2>2. rows'[i] = row /\ row # NoRow
    BY <1>1, <1>6
  <2>3. held[r].status = "PENDING" /\ row.id = i
    BY <1>2, <1>3 DEF SendersHoldPending, SameAttempt
  <2>4. \A status : status \in Outcomes(i)' <=> status \in Outcomes(i) \/ status = row.status
    BY <1>1, <1>6, <2>3, OutcomesAre, OutcomesAreNext
  <2>5. Outcomes(i)' = Outcomes(i) \union {row.status}
    BY <2>4
  <2>6. /\ Attempt(i) = [by |-> i, user |-> held[i].user, body |-> held[i].body, at |-> held[i].createdAt,
                          status |-> IF rows[i] = NoRow THEN "purged" ELSE rows[i].status,
                          outcomes |-> Outcomes(i), mails |-> Mailings(i)]
        /\ Attempt(i)' = [by |-> i, user |-> held[i].user, body |-> held[i].body, at |-> held[i].createdAt,
                           status |-> row.status, outcomes |-> Outcomes(i) \union {row.status},
                           mails |-> Mailings(i)]
    BY <1>2, <1>9, <2>1, <2>2, <2>5 DEF Attempt
  <2>7. PICK once : once = [Attempt(i) EXCEPT !.status = row.status]
    OBVIOUS
  <2>8. once = [by |-> i, user |-> held[i].user, body |-> held[i].body, at |-> held[i].createdAt,
                status |-> row.status, outcomes |-> Outcomes(i), mails |-> Mailings(i)]
    BY <2>6, <2>7
  <2>9. PICK twice : twice = [once EXCEPT !.outcomes = Outcomes(i) \union {row.status}]
    OBVIOUS
  <2>10. twice = Attempt(i)'
    BY <2>6, <2>8, <2>9
  <2>11. Attempt(i).outcomes = Outcomes(i)
    BY <2>6
  <2>12. twice = [Attempt(i) EXCEPT !.status = row.status, !.outcomes = @ \union {row.status}]
    BY <2>7, <2>9, <2>11
  <2>13. QED
    BY <2>10, <2>12
<1>13. Attempts' = [Attempts EXCEPT ![SlotOf(i)].status = row.status,
                                    ![SlotOf(i)].outcomes = @ \union {row.status}]
  <2>1. /\ Attempts' = [Attempts EXCEPT ![SlotOf(i)] =
                         [Attempts[SlotOf(i)] EXCEPT !.status = row.status, !.outcomes = @ \union {row.status}]]
        /\ Attempts = [s \in DOMAIN Attempts |-> Attempts[s]]
    BY <1>2, <1>11, <1>12 DEF AttemptsKnown
  <2>2. QED
    BY <1>2, <2>1
<1>14. Verdicts' = Verdicts /\ Shown' = Shown /\ Verdicts[r] = "none"
  <2>1. Verdicts' = Verdicts /\ Shown' = Shown
    BY <1>6, TellsNothing DEF Replying, Working
  <2>2. QED
    BY <2>1 DEF Verdicts, Told, Replying
<1>15. /\ Attempts[SlotOf(i)].by = i /\ Attempts[SlotOf(i)].status # "purged"
       /\ row.status = "SENT" => Attempts[SlotOf(i)].mails # {}
  <2>1. rows[i] # NoRow /\ rows[i].status # "purged"
    BY <1>1, <1>2 DEF Row, Status
  <2>2. MailsOf(i) # {} => Mailings(i) # {}
    BY DEF Mailings
  <2>3. QED
    BY <1>2, <1>5, <2>1, <2>2 DEF Attempt
<1>16. QED
  BY <1>1, <1>2, <1>4, <1>13, <1>14, <1>15 DEF Ledger!Conclude, Ledger!Waiting, Ledger!TellNobody

(* Whoever is shown an attempt is shown what was recorded of it, or, of    *)
(* another's, that nothing was yet when it was read.                       *)
LEMMA CopyShows ==
  ASSUME IInv, LedgerInv, AttemptsKnown, AttemptsKnown', NEW r \in Requests,
         pc[r] \in {"found", "recovery", "recorded"}, Goto(r, "answered"),
         UNCHANGED <<now, delivered, stored, rows, input, held>>
  PROVE  Ledger!Show(r, held[r].status)
<1>1. /\ held[r] \in Row /\ held[r] # NoRow /\ input[r] # NoInput
      /\ pc \in [Requests -> {"new", "gone"} \union Working \union Answers]
  BY NoInputIsNoInput DEF IInv, TypeOK, HandlersWellFormed, Working
<1>2. PICK i \in Requests :
        /\ i = held[r].id /\ Ledger!Slot(r) = SlotOf(i) /\ SlotOf(i) \in DOMAIN Attempts
        /\ Attempts[SlotOf(i)] = Attempt(i)
        /\ held[r].user = held[i].user /\ held[r].body = held[i].body
  BY <1>1, HoldersAttempt
<1>3. held[r].status = "PENDING" => i # r
  BY <1>2 DEF LedgerInv, HandlersStand
<1>4. /\ pc'[r] = "answered" /\ \A q \in Requests : q # r => pc'[q] = pc[q] /\ held'[q] = held[q]
  BY <1>1 DEF Goto
<1>5. /\ Verdicts' = [Verdicts EXCEPT ![r] = "reply"] /\ Verdicts[r] = "none"
      /\ Shown' = [Shown EXCEPT ![r] = [user |-> held[i].user, body |-> held[i].body, status |-> held[r].status]]
  <2>1. Told(r)' = "reply" /\ Told(r) = "none"
    BY <1>4 DEF Told
  <2>2. Shown'[r] = [user |-> held[i].user, body |-> held[i].body, status |-> held[r].status]
    BY <1>2, <1>4 DEF Shown
  <2>3. QED
    BY <1>4, <2>1, <2>2, TellsOnly DEF Verdicts
<1>6. Ledger!CopyOf(SlotOf(i), held[r].status)
        = [user |-> held[i].user, body |-> held[i].body, status |-> held[r].status]
  BY <1>2 DEF Ledger!CopyOf, Attempt
<1>7. /\ Attempts[SlotOf(i)].by = i
      /\ held[r].status # "PENDING" => held[r].status \in Attempts[SlotOf(i)].outcomes
  BY <1>1, <1>2, OutcomesAre DEF Attempt
<1>8. Attempts' = Attempts
  BY AttemptsQuiet
<1>9. Ledger!Tell(r, "reply", Ledger!CopyOf(Ledger!Slot(r), held[r].status))
  BY <1>2, <1>5, <1>6 DEF Ledger!Tell
<1>10. QED
  BY <1>1, <1>2, <1>3, <1>5, <1>7, <1>8, <1>9 DEF Ledger!Show, Ledger!Waiting

(* Whoever is refused for its message is refused for one that is gone; an  *)
(* error needs no reason.                                                  *)
LEMMA HandlerRefuses ==
  ASSUME IInv, LedgerInv, AttemptsKnown, AttemptsKnown', NEW r \in Requests,
         NEW answer \in {"notFound", "conflict", "error"},
         pc[r] \in Working, Goto(r, answer), UNCHANGED <<now, delivered, stored, rows, input, held>>,
         answer # "error" => input[r].message \notin stored
  PROVE  Ledger!Refuse(r, answer)
<1>1. /\ input[r] # NoInput
      /\ pc \in [Requests -> {"new", "gone"} \union Working \union Answers]
  BY NoInputIsNoInput DEF IInv, TypeOK, HandlersWellFormed, Working
<1>2. /\ pc'[r] = answer /\ \A q \in Requests : q # r => pc'[q] = pc[q] /\ held'[q] = held[q]
  BY <1>1 DEF Goto
<1>3. Verdicts' = [Verdicts EXCEPT ![r] = answer] /\ Verdicts[r] = "none" /\ Shown' = [Shown EXCEPT ![r] = NoRow]
  <2>1. Told(r)' = answer /\ Told(r) = "none" /\ Shown'[r] = NoRow
    BY <1>2 DEF Told, Shown, Working
  <2>2. QED
    BY <1>2, <2>1, TellsOnly DEF Verdicts
<1>4. Attempts' = Attempts
  BY AttemptsQuiet
<1>5. QED
  BY <1>1, <1>3, <1>4 DEF Ledger!Refuse, Ledger!Waiting, Ledger!Tell

(* A row that is gone went with its message. *)
LEMMA GoneWithMessage ==
  ASSUME IInv, LedgerInv, NEW r \in Requests, held[r] # NoRow, rows[held[r].id] = NoRow
  PROVE  input[r].message \notin stored
<1>1. held[r] \in Row /\ held[r].id \in Requests
  BY DEF IInv, TypeOK, Row
<1>2. /\ Inserted(held[r].id) /\ SameAttempt(held[r], held[held[r].id])
      /\ held[r].message = input[r].message
  BY DEF IInv, HeldCopies
<1>3. QED
  BY <1>1, <1>2 DEF LedgerInv, RowsKept, SameAttempt

LEMMA RecordSimulates ==
  ASSUME IInv, LedgerInv, SendersHoldPending, AttemptsKnown, AttemptsKnown', NEW r \in Requests,
         RecordSent(r) \/ RecordRefused(r)
  PROVE  Ledger!Next
<1> DEFINE i == held[r].id
<1>1. /\ pc[r] \in Replying /\ held[r] # NoRow /\ held[r] \in Row /\ i \in Requests
      /\ UNCHANGED <<now, delivered, stored, input>>
  BY DEF RecordSent, RecordRefused, Replying, IInv, HandlersWellFormed, TypeOK, Row
<1>2. CASE UNCHANGED <<rows, held>> /\ Goto(r, "notFound") /\ rows[i] = NoRow
  <2>1. Ledger!Refuse(r, "notFound")
    BY <1>1, <1>2, GoneWithMessage, HandlerRefuses DEF Replying, Working
  <2>2. QED
    BY <2>1 DEF Ledger!Next
<1>3. CASE UNCHANGED <<rows, held>> /\ Goto(r, "answered") /\ pc[r] = "recovery"
  <2>1. Ledger!Show(r, held[r].status)
    BY <1>1, <1>3, CopyShows
  <2>2. held[r].status \in Ledger!Status
    BY <1>1 DEF Row, Status, Ledger!Status
  <2>3. QED
    BY <2>1, <2>2 DEF Ledger!Next
<1>4. CASE RecordSent(r) /\ rows[i] # NoRow
  <2>1. PICK id \in {r, NoId} : Write(r, MarkSent(Current(r), held[r], id))
    BY <1>4 DEF RecordSent
  <2> DEFINE row == MarkSent(rows[i], held[r], id)
  <2>2. rows' = [rows EXCEPT ![i] = row] /\ held' = [held EXCEPT ![r] = row] /\ Goto(r, "recorded")
    BY <1>1, <1>4, <2>1 DEF Write, Current
  <2>3. rows[i] \in Row
    BY <1>1, <1>4 DEF IInv, TypeOK
  <2>4. row \in Row /\ SameAttempt(row, rows[i]) /\ row.status = "SENT"
    BY <1>1, <2>3 DEF MarkSent, Row, Status, SameAttempt
  <2> HIDE DEF row
  <2>5. Ledger!Conclude(r, row.status)
    BY <1>1, <1>4, <2>2, <2>4, UpdateConcludes DEF RecordSent
  <2>6. QED
    BY <2>4, <2>5 DEF Ledger!Next
<1>5. CASE RecordRefused(r) /\ pc[r] = "first" /\ rows[i] # NoRow
  <2> DEFINE row == MarkFailed(rows[i])
  <2>1. rows' = [rows EXCEPT ![i] = row] /\ held' = [held EXCEPT ![r] = row] /\ Goto(r, "recorded")
    BY <1>1, <1>5 DEF RecordRefused, Write, Current
  <2>2. rows[i] \in Row
    BY <1>1, <1>5 DEF IInv, TypeOK
  <2>3. row \in Row /\ SameAttempt(row, rows[i]) /\ row.status = "FAILED"
    BY <2>2 DEF MarkFailed, Row, Status, SameAttempt
  <2> HIDE DEF row
  <2>4. Ledger!Conclude(r, row.status)
    BY <1>1, <1>5, <2>1, <2>3, UpdateConcludes
  <2>5. QED
    BY <2>3, <2>4 DEF Ledger!Next
<1>6. QED
  BY <1>2, <1>3, <1>4, <1>5 DEF RecordSent, RecordRefused, Write, Current

(* The purge of a message takes its attempts' rows; what they were stays.  *)
LEMMA PurgePurges ==
  ASSUME IInv, LedgerInv, AttemptsKnown, AttemptsKnown', NEW m \in Messages, Purge(m)
  PROVE  Ledger!Purge(m)
<1>1. /\ m \in stored /\ stored' = stored \ {m}
      /\ UNCHANGED <<now, delivered, pc, input, held>>
      /\ \A i \in Requests :
           rows'[i] = IF rows[i] # NoRow /\ rows[i].message = m THEN NoRow ELSE rows[i]
  BY DEF Purge
<1>2. SameMakers
  BY <1>1 DEF SameMakers, Inserted, SlotOf
<1>3. ASSUME NEW i \in Requests, Inserted(i)
      PROVE  Attempt(i)' = IF SlotOf(i)[1] = m THEN [Attempt(i) EXCEPT !.status = "purged"] ELSE Attempt(i)
  <2>1. rows'[i] = IF held[i].message = m THEN NoRow ELSE rows[i]
    BY <1>1, <1>3 DEF IInv, RowsInserted, SameAttempt
  <2>2. Mailings(i)' = Mailings(i) /\ Outcomes(i)' = Outcomes(i) /\ held' = held
    BY <1>1 DEF Mailings, MailsOf, Outcomes
  <2>3. SlotOf(i)[1] = held[i].message
    BY DEF SlotOf
  <2>4. QED
    BY <2>1, <2>2, <2>3 DEF Attempt
<1>4. DOMAIN Attempts' = DOMAIN Attempts
  <2>1. \A s : s \in DOMAIN Attempts' <=> s \in DOMAIN Attempts
    BY <1>2 DEF AttemptsKnown, SameMakers
  <2>2. QED
    BY <2>1
<1>5. ASSUME NEW s \in DOMAIN Attempts
      PROVE  Attempts'[s] = IF s[1] = m THEN [Attempts[s] EXCEPT !.status = "purged"] ELSE Attempts[s]
  <2>1. PICK i \in Requests : Inserted(i) /\ s = SlotOf(i)
    BY <1>5 DEF AttemptsKnown
  <2>2. Attempts[s] = Attempt(i) /\ Attempts'[s] = Attempt(i)'
    BY <1>2, <2>1 DEF AttemptsKnown, SameMakers
  <2>3. QED
    BY <1>3, <2>1, <2>2
<1>6. Attempts' = [s \in DOMAIN Attempts |->
                     IF s[1] = m THEN [Attempts[s] EXCEPT !.status = "purged"] ELSE Attempts[s]]
  BY <1>4, <1>5 DEF AttemptsKnown
<1>7. Verdicts' = Verdicts /\ Shown' = Shown
  BY <1>1, TellsNothing
<1>8. QED
  BY <1>1, <1>6, <1>7 DEF Ledger!Purge

(* Every step of the handlers is a step of the ledger or none of it.       *)
LEMMA StepsKeepLedger ==
  ASSUME IInv, IInv', LedgerInv, SendersHoldPending, AttemptsKnown, AttemptsKnown', [Next]_vars
  PROVE  [Ledger!Next]_(Ledger!ledgerVars)
<1>1. pc \in [Requests -> {"new", "gone"} \union Working \union Answers]
  BY DEF IInv, TypeOK
<1>2. ASSUME NEW r \in Requests, Receive(r) PROVE Ledger!Next
  BY <1>2, ReceiveAsks DEF Ledger!Next
<1>3. ASSUME NEW r \in Requests, ClaimInserted(r) \/ ClaimUnheard(r) PROVE Ledger!Next
  BY <1>3, ClaimOpens DEF Ledger!Next
<1>4. ASSUME NEW r \in Requests, ClaimLost(r) PROVE LedgerStutter
  <2>1. Verdicts' = Verdicts /\ Shown' = Shown
    BY <1>1, <1>4, TellsNothing DEF ClaimLost, Goto, Working
  <2>2. QED
    BY <1>4, <2>1, AttemptsQuiet DEF ClaimLost, LedgerStutter, Ledger!ledgerVars
<1>5. ASSUME NEW r \in Requests, ClaimOrphaned(r) PROVE Ledger!Next
  <2>1. Ledger!Refuse(r, "conflict")
    BY <1>5, HandlerRefuses DEF ClaimOrphaned, Working
  <2>2. QED
    BY <2>1 DEF Ledger!Next
<1>6. ASSUME NEW r \in Requests, FindClaimed(r) PROVE Ledger!Next \/ LedgerStutter
  <2>1. pc[r] = "lost" /\ UNCHANGED <<now, stored, rows, input, delivered>>
    BY <1>6 DEF FindClaimed
  <2>2. ASSUME NEW i \in Claimed(input[r].message, input[r].key),
               held' = [held EXCEPT ![r] = rows[i]], Goto(r, "found")
        PROVE  LedgerStutter
    <3>1. \A q \in Requests : q # r => pc'[q] = pc[q] /\ held'[q] = held[q]
      BY <1>1, <2>2 DEF Goto
    <3>2. Verdicts' = Verdicts /\ Shown' = Shown
      BY <1>1, <2>1, <2>2, <3>1, TellsNothing DEF Goto, Working
    <3>3. ~Inserted(r) /\ ~Inserted(r)'
      <4>1. held[r] = NoRow /\ held \in [Requests -> Row \union {NoRow}]
        BY <2>1 DEF IInv, HandlersWellFormed, TypeOK
      <4>2. i \in Requests /\ Inserted(i) /\ rows[i].id = i
        BY <2>2 DEF Claimed, IInv, RowsInserted, SameAttempt, Inserted
      <4>3. held'[r] = rows[i] /\ i # r
        BY <2>2, <4>1, <4>2 DEF Inserted
      <4>4. QED
        BY <4>1, <4>2, <4>3 DEF Inserted
    <3>4a. ASSUME NEW q \in Requests PROVE Outcomes(q)' = Outcomes(q)
      <4>1. /\ held[r] = NoRow /\ held'[r] = rows[i] /\ rows[i].id = i /\ i \in Requests /\ rows[i] # NoRow
        BY <2>1, <2>2 DEF IInv, HandlersWellFormed, TypeOK, Claimed, RowsInserted, SameAttempt, Inserted
      <4>2. \A status : status \in Outcomes(q)' => status \in Outcomes(q)
        <5> SUFFICES ASSUME NEW status, status \in Outcomes(q)' PROVE status \in Outcomes(q)
          OBVIOUS
        <5>1. PICK p \in Requests : held'[p] # NoRow /\ held'[p].id = q /\ held'[p].status = status
          BY OutcomesAreNext
        <5>2. status # "PENDING"
          BY OutcomesAreNext
        <5>3. CASE p = r
          BY <4>1, <5>1, <5>2, <5>3 DEF LedgerInv, RowsRecorded
        <5>4. CASE p # r
          BY <3>1, <5>1, <5>2, <5>4, OutcomesAre
        <5>5. QED
          BY <5>3, <5>4
      <4>3. \A status : status \in Outcomes(q) => status \in Outcomes(q)'
        BY <3>1, <4>1, OutcomesAre, OutcomesAreNext
      <4>4. QED
        BY <4>2, <4>3
    <3>4. ASSUME NEW q \in Requests
          PROVE  /\ Inserted(q)' <=> Inserted(q)
                 /\ Inserted(q) => SlotOf(q)' = SlotOf(q) /\ Attempt(q)' = Attempt(q)
      <4>1. CASE q = r
        BY <3>3, <4>1
      <4>2. CASE q # r
        <5>1. Mailings(q)' = Mailings(q) /\ held'[q] = held[q] /\ rows' = rows
          BY <2>1, <3>1, <4>2 DEF Mailings, MailsOf
        <5>2. QED
          BY <3>4a, <5>1 DEF Inserted, SlotOf, Attempt
      <4>3. QED
        BY <4>1, <4>2
    <3>5. Attempts' = Attempts
      BY <3>4, AttemptsStay DEF SameMakers
    <3>6. QED
      BY <2>1, <3>2, <3>5 DEF LedgerStutter, Ledger!ledgerVars
  <2>3. CASE Goto(r, "notFound") /\ held' = held /\ Claimed(input[r].message, input[r].key) = {}
    <3>1. input[r].message \notin stored
      <4>1. PICK i \in Requests : Inserted(i) /\ held[i].message = input[r].message /\ held[i].key = input[r].key
        BY <2>1 DEF LedgerInv, LostToOther
      <4>2. rows[i] = NoRow
        BY <2>3, <4>1 DEF Claimed, IInv, RowsInserted, SameAttempt
      <4>3. QED
        BY <4>1, <4>2 DEF LedgerInv, RowsKept
    <3>2. Ledger!Refuse(r, "notFound")
      BY <2>1, <2>3, <3>1, HandlerRefuses DEF Working
    <3>3. QED
      BY <3>2 DEF Ledger!Next
  <2>4. QED
    BY <1>6, <2>2, <2>3 DEF FindClaimed
<1>7. ASSUME NEW r \in Requests, Replay(r) PROVE Ledger!Next \/ LedgerStutter
  <2>1. pc[r] = "found" /\ UNCHANGED <<now, stored, rows, input, held, delivered>>
    BY <1>7 DEF Replay, Mail!Begin
  <2>2. CASE Goto(r, "answered")
    <3>1. Ledger!Show(r, held[r].status)
      BY <2>1, <2>2, CopyShows
    <3>2. held[r].status \in Ledger!Status
      BY <2>1 DEF IInv, TypeOK, HandlersWellFormed, Row, Status, Ledger!Status
    <3>3. QED
      BY <3>1, <3>2 DEF Ledger!Next
  <2>3. CASE Goto(r, "recovery")
    <3>1. Verdicts' = Verdicts /\ Shown' = Shown
      BY <1>1, <2>1, <2>3, TellsNothing DEF Goto, Working
    <3>2. QED
      BY <2>1, <3>1, AttemptsQuiet DEF LedgerStutter, Ledger!ledgerVars
  <2>4. QED
    BY <1>7, <2>2, <2>3 DEF Replay
<1>8. ASSUME NEW r \in Requests, Send(r) PROVE Ledger!Next \/ LedgerStutter
  BY <1>8, SendDelivers DEF Ledger!Next
<1>9. ASSUME NEW r \in Requests, RecordSent(r) \/ RecordRefused(r) PROVE Ledger!Next
  BY <1>9, RecordSimulates
<1>10. ASSUME NEW r \in Requests, StatementFails(r) PROVE Ledger!Next
  <2>1. Ledger!Refuse(r, "error")
    BY <1>10, HandlerRefuses DEF StatementFails, Replying, Working
  <2>2. QED
    BY <2>1 DEF Ledger!Next
<1>11. ASSUME NEW r \in Requests, Answer(r) PROVE Ledger!Next
  <2>1. Ledger!Show(r, held[r].status)
    BY <1>11, CopyShows DEF Answer
  <2>2. held[r].status \in Ledger!Status
    BY <1>11 DEF Answer, IInv, TypeOK, HandlersWellFormed, Row, Status, Ledger!Status
  <2>3. QED
    BY <2>1, <2>2 DEF Ledger!Next
<1>12. ASSUME NEW m \in Messages, Purge(m) PROVE Ledger!Next
  BY <1>12, PurgePurges DEF Ledger!Next
<1>13. CASE Shutdown \/ Crash \/ UNCHANGED vars
  <2>1. UNCHANGED <<now, delivered, stored, rows, input, held>>
    BY <1>13 DEF Shutdown, Crash, vars, serviceVars, Mail!Shutdown, Mail!Restart
  <2>2. Verdicts' = Verdicts /\ Shown' = Shown
    BY <1>1, <1>13, <2>1, TellsNothing DEF Shutdown, Crash, vars, serviceVars
  <2>3. QED
    BY <2>1, <2>2, AttemptsQuiet DEF LedgerStutter, Ledger!ledgerVars
<1>14. CASE Tick
  <2>1. now' = now + 1 /\ UNCHANGED <<delivered, stored, rows, input, held, pc>>
    BY <1>14 DEF Tick, Mail!Tick, serviceVars
  <2>2. Verdicts' = Verdicts /\ Shown' = Shown
    BY <2>1, TellsNothing
  <2>3. Ledger!Tick
    BY <2>1, <2>2, AttemptsQuiet DEF Ledger!Tick
  <2>4. QED
    BY <2>3 DEF Ledger!Next
<1>15. QED
  BY <1>2, <1>3, <1>4, <1>5, <1>6, <1>7, <1>8, <1>9, <1>10, <1>11, <1>12, <1>13, <1>14
  DEF Next, Handle, Fail, LedgerStutter

(* The handlers, with the rows they read too early, their retries and      *)
(* their crashes, implement the ledger. *)
THEOREM LedgerKept == Spec => KeepsLedger
<1>1. IInv /\ IInv' /\ LedgerInv /\ LedgerInv' /\ SendersHoldPending /\ [Next]_vars
        => [Ledger!Next]_(Ledger!ledgerVars)
  BY StepsKeepLedger, AttemptsBefore, AttemptsAfter
<1>2. QED
  BY <1>1, LedgerStarts, InvariantHolds, LedgerHolds, SendersPending, PTL DEF Spec, KeepsLedger, Ledger!Spec
==============================================================================
