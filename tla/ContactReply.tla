---------------------------- MODULE ContactReply ----------------------------
(***************************************************************************)
(* Operator replies to a visitor's message: ContactReplyService.           *)
(*                                                                         *)
(* A reply row is one logical send attempt, owned by the unique index on   *)
(* (contactMessageId, idempotencyKey).  POST handlers run concurrently;    *)
(* every await (a statement, a transport call) is a point where another    *)
(* handler, the retention purge, the clock or a crash may step in.         *)
(*                                                                         *)
(* Each request inserts at most one row, so the id of a row is the request *)
(* that inserted it: a fresh id, shared by no other row.                   *)
(*                                                                         *)
(* A definition marked "Fault" is no part of the specification: it is the  *)
(* next definition with a plausible bug, which some property must notice.  *)
(***************************************************************************)
EXTENDS Integers, FiniteSets

CONSTANTS
  Requests,    \* POST /contact/messages/:id/replies requests
  Messages,    \* contact_messages ids, stored at the start
  Repliable,   \* those that carry an email address
  Keys,        \* client Idempotency-Key values
  Users,       \* operators
  Bodies,      \* reply texts
  NoRow,       \* no reply row
  NoInput,     \* a request that has not arrived
  NoId,        \* a null providerMessageId
  NoKey, NoMail, MailEnabled, MaxAttempts, Retention, SendBound, MaxTime

ASSUME RepliableType == Repliable \subseteq Messages
ASSUME NoIdIsNoId    == NoId \notin Requests

VARIABLES
  now, stopping, sends, seen, delivered,   \* MailDelivery
  stored,   \* contact_messages rows that still exist
  rows,     \* contact_message_replies, by row id
  pc,       \* where each handler stands
  input,    \* what each request carries
  held      \* the row object each handler holds, or that is on its way to it:
            \* a snapshot, never refreshed, and kept after the handler's end

serviceVars == <<stored, rows, pc, input, held>>
vars        == <<now, stopping, sends, seen, delivered, stored, rows, pc, input, held>>

(* deriveProviderIdempotencyKey: a prefix and the row id, nothing else. *)
ProviderKey(id) == <<"contact-reply", id>>

ReplyMails == [key : {ProviderKey(r) : r \in Requests}, to : Messages, text : Bodies]

Mail == INSTANCE MailDelivery WITH
          Senders      <- Requests,
          Mails        <- ReplyMails,
          ProviderKeys <- {ProviderKey(r) : r \in Requests}

Status == {"PENDING", "SENT", "FAILED"}

Row ==
  [id         : Requests,
   message    : Messages,
   key        : Keys,
   body       : Bodies,
   user       : Users,
   status     : Status,
   sentAt     : BOOLEAN,            \* sent_at is set
   failedAt   : BOOLEAN,            \* failed_at is set
   providerId : Requests \union {NoId},
   createdAt  : Nat]

Input == [message : Messages, key : Keys, body : Bodies, user : Users]

ASSUME RequestsNotEmpty == Requests # {}
ASSUME NoKeyIsNoKey     == NoKey \notin {ProviderKey(r) : r \in Requests}
ASSUME NoMailIsNoMail   == NoMail \notin ReplyMails
ASSUME BoundsType       ==
  /\ MailEnabled \in BOOLEAN
  /\ {MaxAttempts, Retention} \subseteq Nat \ {0}
  /\ {SendBound, MaxTime} \subseteq Nat
ASSUME NoRowIsNoRow     == NoRow \notin Row
ASSUME NoInputIsNoInput == NoInput \notin Input

Working  == {"claim", "lost", "found", "first", "recovery", "recorded"}
Answers  == {"answered", "notFound", "conflict", "error"}
Replying == {"first", "recovery"}

TypeOK ==
  /\ Mail!TypeOK
  /\ stored \subseteq Messages
  /\ rows \in [Requests -> Row \union {NoRow}]
  /\ pc \in [Requests -> {"new", "gone"} \union Working \union Answers]
  /\ input \in [Requests -> Input \union {NoInput}]
  /\ held \in [Requests -> Row \union {NoRow}]

Init ==
  /\ Mail!Init
  /\ stored = Messages
  /\ rows = [r \in Requests |-> NoRow]
  /\ pc = [r \in Requests |-> "new"]
  /\ input = [r \in Requests |-> NoInput]
  /\ held = [r \in Requests |-> NoRow]

(***************************************************************************)
(* Helpers.                                                                *)
(***************************************************************************)

Goto(r, label) == pc' = [pc EXCEPT ![r] = label]

(* Fault: a partial unique index, on PENDING rows. *)
ClaimedWhilePending(m, k) ==
  {i \in Requests : rows[i] # NoRow /\ rows[i].message = m /\ rows[i].key = k
                      /\ rows[i].status = "PENDING"}

(* Ids of the rows the unique index finds for a message and a client key. *)
Claimed(m, k) == {i \in Requests : rows[i] # NoRow /\ rows[i].message = m /\ rows[i].key = k}

NewRow(r) ==
  [id |-> r, message |-> input[r].message, key |-> input[r].key,
   body |-> input[r].body, user |-> input[r].user, status |-> "PENDING",
   sentAt |-> FALSE, failedAt |-> FALSE, providerId |-> NoId, createdAt |-> now]

isWithinProviderIdempotencyWindow(createdAt) == now - createdAt < Retention

(* buildReply: the recipient is the stored message's address, the text is  *)
(* the row's, the key is derived from the row.                             *)
ReplyMail(r, row) ==
  [key |-> ProviderKey(row.id), to |-> input[r].message, text |-> row.body]

(* The row as the UPDATE after an accepted send leaves it: providerId is   *)
(* the handler's old value if it had one, else the id of this send.        *)
MarkSent(current, old, id) ==
  [current EXCEPT !.status = "SENT", !.sentAt = TRUE,
                  !.providerId = IF old.providerId # NoId THEN old.providerId ELSE id]

MarkFailed(current) == [current EXCEPT !.status = "FAILED", !.failedAt = TRUE]

(***************************************************************************)
(* The POST handler.                                                       *)
(***************************************************************************)

Checked(in) ==
  IF in.message \notin stored THEN "notFound"
  ELSE IF in.message \notin Repliable THEN "conflict" ELSE "claim"

(* getMessageOrThrow, then asRepliable: 404 before 409, and both before    *)
(* any key is claimed.  The read may fail: 500.                            *)
Receive(r) ==
  /\ pc[r] = "new"
  /\ \E in \in Input : \E label \in {Checked(in), "error"} :
       /\ input' = [input EXCEPT ![r] = in]
       /\ Goto(r, label)
  /\ UNCHANGED <<now, stopping, sends, seen, delivered, stored, rows, held>>

(* The INSERT of the claim, where neither index nor foreign key forbids it. *)
Insert(r) ==
  /\ pc[r] = "claim"
  /\ input[r].message \in stored
  /\ Claimed(input[r].message, input[r].key) = {}
  /\ rows' = [rows EXCEPT ![r] = NewRow(r)]
  /\ held' = [held EXCEPT ![r] = NewRow(r)]
  /\ UNCHANGED <<stored, input>>

(* claim: one committed INSERT; on success deliver(row, 'first') starts at *)
(* once.                                                                   *)
ClaimInserted(r) ==
  /\ Insert(r)
  /\ Mail!Begin(r, ReplyMail(r, NewRow(r)))
  /\ Goto(r, "first")

(* The INSERT lands, and what the handler hears is a failure: 500, and a   *)
(* PENDING row that only a repeated request can find.                      *)
ClaimUnheard(r) ==
  /\ Insert(r)
  /\ Goto(r, "error")
  /\ UNCHANGED <<now, stopping, sends, seen, delivered>>

(* P2002: another request owns the key. *)
ClaimLost(r) ==
  /\ pc[r] = "claim"
  /\ Claimed(input[r].message, input[r].key) # {}
  /\ Goto(r, "lost")
  /\ UNCHANGED <<now, stopping, sends, seen, delivered, stored, rows, input, held>>

(* P2003: the message was purged since it was read; rethrown, mapped to 409. *)
ClaimOrphaned(r) ==
  /\ pc[r] = "claim"
  /\ input[r].message \notin stored
  /\ Goto(r, "conflict")
  /\ UNCHANGED <<now, stopping, sends, seen, delivered, stored, rows, input, held>>

(* findClaimed: reads the owner's row, or 404 if the purge took it. *)
FindClaimed(r) ==
  /\ pc[r] = "lost"
  /\ \/ \E i \in Claimed(input[r].message, input[r].key) :
          /\ held' = [held EXCEPT ![r] = rows[i]]
          /\ Goto(r, "found")
     \/ /\ Claimed(input[r].message, input[r].key) = {}
        /\ Goto(r, "notFound")
        /\ UNCHANGED held
  /\ UNCHANGED <<now, stopping, sends, seen, delivered, stored, rows, input>>

(* Fault: no window. *)
MayResendEver(row) == row.status = "PENDING"

(* Fault: the status is not looked at. *)
MayResendSettled(row) == isWithinProviderIdempotencyWindow(row.createdAt)

(* replay may send only for a row it saw PENDING, inside the window. *)
MayResend(row) ==
  row.status = "PENDING" /\ isWithinProviderIdempotencyWindow(row.createdAt)

(* Fault: replay waits until the outcome is known. *)
ReplayPolls(r) ==
  /\ pc[r] = "found"
  /\ \/ /\ ~MayResend(held[r])
        /\ Goto(r, IF held[r].status = "PENDING" THEN "lost" ELSE "answered")
        /\ UNCHANGED <<now, stopping, sends, seen, delivered>>
     \/ /\ MayResend(held[r])
        /\ Mail!Begin(r, ReplyMail(r, held[r]))
        /\ Goto(r, "recovery")
  /\ UNCHANGED <<stored, rows, input, held>>

(* replay: answer with the row as it was read, or deliver it again. *)
Replay(r) ==
  /\ pc[r] = "found"
  /\ \/ /\ ~MayResend(held[r])
        /\ Goto(r, "answered")
        /\ UNCHANGED <<now, stopping, sends, seen, delivered>>
     \/ /\ MayResend(held[r])
        /\ Mail!Begin(r, ReplyMail(r, held[r]))
        /\ Goto(r, "recovery")
  /\ UNCHANGED <<stored, rows, input, held>>

(* One step of the send the handler awaits. *)
Send(r) ==
  /\ pc[r] \in Replying
  /\ Mail!SendStep(r)
  /\ UNCHANGED serviceVars

(* The UPDATE by id that records a terminal status.  It carries no         *)
(* condition on the current status; a purged row is P2025, answered 404.   *)
(* What was written is on its way to the handler until it answers.         *)
Current(r) == rows[held[r].id]

Write(r, row) ==
  IF Current(r) = NoRow
  THEN /\ Goto(r, "notFound")
       /\ UNCHANGED <<rows, held>>
  ELSE /\ rows' = [rows EXCEPT ![held[r].id] = row]
       /\ held' = [held EXCEPT ![r] = row]
       /\ Goto(r, "recorded")

(* Fault: the send's result is not looked at. *)
RecordSentUnasked(r) ==
  /\ pc[r] \in Replying
  /\ sends[r].state \in {"sent", "failed"}
  /\ \E id \in {r, NoId} : Write(r, MarkSent(Current(r), held[r], id))
  /\ UNCHANGED <<now, stopping, sends, seen, delivered, stored, input>>

RecordSent(r) ==
  /\ pc[r] \in Replying
  /\ sends[r].state = "sent"
  /\ \E id \in {r, NoId} : Write(r, MarkSent(Current(r), held[r], id))
  /\ UNCHANGED <<now, stopping, sends, seen, delivered, stored, input>>

(* Fault: a refused recovery writes FAILED too. *)
RecordRefusedAlways(r) ==
  /\ pc[r] \in Replying
  /\ sends[r].state \in {"failed", "disabled"}
  /\ Write(r, MarkFailed(Current(r)))
  /\ UNCHANGED <<now, stopping, sends, seen, delivered, stored, input>>

(* A refused first send is FAILED; a refused recovery leaves the row alone. *)
RecordRefused(r) ==
  /\ sends[r].state \in {"failed", "disabled"}
  /\ \/ /\ pc[r] = "first"
        /\ Write(r, MarkFailed(Current(r)))
     \/ /\ pc[r] = "recovery"
        /\ Goto(r, "answered")
        /\ UNCHANGED <<rows, held>>
  /\ UNCHANGED <<now, stopping, sends, seen, delivered, stored, input>>

(* The UPDATE's answer arrives, and the row it carries is the reply. *)
Answer(r) ==
  /\ pc[r] = "recorded"
  /\ Goto(r, "answered")
  /\ UNCHANGED <<now, stopping, sends, seen, delivered, stored, rows, input, held>>

(* A statement fails, or its answer does: 500.  The INSERT of the claim    *)
(* (anything but P2002 is rethrown), the read of findClaimed, an UPDATE    *)
(* that does not land, and one that did.  A refused recovery makes none.   *)
StatementFails(r) ==
  /\ \/ pc[r] \in {"claim", "lost", "recorded"}
     \/ pc[r] \in Replying /\ sends[r].state = "sent"
     \/ pc[r] = "first" /\ sends[r].state \in {"failed", "disabled"}
  /\ Goto(r, "error")
  /\ UNCHANGED <<now, stopping, sends, seen, delivered, stored, rows, input, held>>

Handle(r) ==
  \/ ClaimInserted(r)
  \/ ClaimLost(r)
  \/ ClaimOrphaned(r)
  \/ FindClaimed(r)
  \/ Replay(r)
  \/ Send(r)
  \/ RecordSent(r)
  \/ RecordRefused(r)
  \/ Answer(r)

Fail(r) == ClaimUnheard(r) \/ StatementFails(r)

(***************************************************************************)
(* The rest of the system.                                                 *)
(***************************************************************************)

(* purgeArchivedOlderThan takes a message; its replies cascade away. *)
Purge(m) ==
  /\ m \in stored
  /\ stored' = stored \ {m}
  /\ rows' = [i \in Requests |->
                IF rows[i] # NoRow /\ rows[i].message = m THEN NoRow ELSE rows[i]]
  /\ UNCHANGED <<now, stopping, sends, seen, delivered, pc, input, held>>

Shutdown == Mail!Shutdown /\ UNCHANGED serviceVars

(* The process dies, in the middle of whatever its handlers were doing. *)
Crash ==
  /\ Mail!Restart
  /\ pc' = [r \in Requests |-> IF pc[r] \in Working THEN "gone" ELSE pc[r]]
  /\ UNCHANGED <<stored, rows, input, held>>

Tick == Mail!Tick /\ UNCHANGED serviceVars

Next ==
  \/ \E r \in Requests : Receive(r) \/ Handle(r) \/ Fail(r)
  \/ \E m \in Messages : Purge(m)
  \/ Shutdown
  \/ Crash
  \/ Tick

(* A handler that can take a step takes one: the event loop never drops a  *)
(* pending continuation while the process lives.  Clients, failures, the   *)
(* purge, the clock and crashes owe nothing.                               *)
Fairness == \A r \in Requests : WF_vars(Handle(r))

Spec == Init /\ [][Next]_vars /\ Fairness

(***************************************************************************)
(* Properties.                                                             *)
(***************************************************************************)

MailsOf(i) == {d \in delivered : d.mail.key = ProviderKey(i)}

(* The duplicate-send invariant: one row per (message, client key), for    *)
(* any number of concurrent requests carrying it.                          *)
OneAttemptPerKey ==
  \A i, j \in Requests :
    rows[i] # NoRow /\ rows[j] # NoRow /\ i # j
      => rows[i].message # rows[j].message \/ rows[i].key # rows[j].key

(* Nothing reports SENT before the relay has taken the mail, and the mail  *)
(* it took is this row's: its text, to its message's visitor.  In          *)
(* particular two replies to one message never suppress each other.        *)
SentWasAccepted ==
  \A i \in Requests :
    rows[i] # NoRow /\ rows[i].status = "SENT" =>
      \E d \in MailsOf(i) : d.mail.to = rows[i].message /\ d.mail.text = rows[i].body

(* However often an attempt is repeated, recovered or interrupted, the     *)
(* visitor gets at most one mail of it while the relay's window, counted   *)
(* from the row's creation, is open; and nothing of it leaves later than   *)
(* one send's length after that window.                                    *)
MailsWithinWindow ==
  \A i \in Requests :
    /\ \A d \in MailsOf(i) : d.at < held[i].createdAt + Retention + SendBound
    /\ \A d, e \in MailsOf(i) :
         d.at < held[i].createdAt + Retention /\ e.at < held[i].createdAt + Retention => d = e

(* FAILED is the word of the first send alone: a row has failedAt only if  *)
(* the request that claimed it was refused and recorded FAILED itself,     *)
(* whether or not that answer was ever heard.                              *)
FailedByFirstSendOnly ==
  \A i \in Requests :
    rows[i] # NoRow /\ rows[i].failedAt =>
      pc[i] \in {"recorded", "answered", "error", "gone"} /\ held[i].status = "FAILED"

(* A key is never burned on a message that could not be answered, and no   *)
(* row outlives its message.                                               *)
RowsAnswerable ==
  \A i \in Requests : rows[i] # NoRow => rows[i].message \in stored \intersect Repliable

(* A row's identity is written once: no replay moves it to another         *)
(* message, text or operator, and no terminal status returns to PENDING.   *)
Immutable(i) ==
  rows[i] # NoRow /\ rows'[i] # NoRow =>
    /\ \A f \in {"id", "message", "key", "body", "user", "createdAt"} : rows'[i][f] = rows[i][f]
    /\ rows[i].status # "PENDING" => rows'[i].status # "PENDING"

AttemptImmutable == [][\A i \in Requests : Immutable(i)]_vars

(* A row is settled when its outcome is recorded and no handler still      *)
(* works on it from a copy read before that.                               *)
Settled(i) ==
  /\ rows[i] # NoRow
  /\ rows[i].status # "PENDING"
  /\ \A r \in Requests :
       pc[r] \in {"found", "first", "recovery"} /\ held[r].id = i => held[r].status # "PENDING"

(* A settled attempt is over: repeating the request sends nothing and      *)
(* changes nothing, whatever the outcome was.  Only the purge removes it.  *)
SettledIsFinal ==
  [][\A i \in Requests : Settled(i) =>
       /\ rows'[i] \in {rows[i], NoRow}
       /\ MailsOf(i)' = MailsOf(i)]_vars

(* The row that was made under a message and a key, by the copy its first  *)
(* request keeps: there is one even when the purge has taken the row.      *)
Made(s) ==
  {i \in Requests : held[i] # NoRow /\ held[i].id = i /\ held[i].message = s[1] /\ held[i].key = s[2]}

Mailings(i) == {[by |-> d.by, at |-> d.at] : d \in MailsOf(i)}

(* What was ever recorded of it: whoever recorded it keeps what it wrote.  *)
Outcomes(i) ==
  {held[r].status : r \in {q \in Requests : held[q] # NoRow /\ held[q].id = i}} \ {"PENDING"}

Attempt(i) ==
  [by |-> i, user |-> held[i].user, body |-> held[i].body, at |-> held[i].createdAt,
   status   |-> IF rows[i] = NoRow THEN "purged" ELSE rows[i].status,
   outcomes |-> Outcomes(i),
   mails    |-> Mailings(i)]

Told(r) ==
  IF pc[r] \in {"notFound", "conflict", "error"} THEN pc[r]
  ELSE IF pc[r] = "answered" THEN "reply" ELSE "none"

Attempts ==
  [s \in {x \in Messages \X Keys : Made(x) # {}} |-> Attempt(CHOOSE i \in Made(s) : TRUE)]

Verdicts == [r \in Requests |-> Told(r)]

Shown ==
  [r \in Requests |->
     IF pc[r] # "answered" THEN NoRow
     ELSE [user |-> held[r].user, body |-> held[r].body, status |-> held[r].status]]

Ledger == INSTANCE ReplyLedger WITH
            asked <- input, attempts <- Attempts, answers <- Verdicts, copies <- Shown, NoCopy <- NoRow

(* The handlers keep the ledger's promises, whatever they read too early,  *)
(* repeat or leave undone, whichever statement fails with or without its   *)
(* effect, and whenever the purge or a crash comes: FAILED is the word of  *)
(* the first send alone, SENT is said of nothing unmailed, and nobody is   *)
(* shown another attempt's text or an outcome that never was.  An error    *)
(* promises nothing of the attempt, and touches none.                      *)
KeepsLedger == Ledger!Spec

(* Every request is answered, or the process it ran in died. *)
RequestsEnd == \A r \in Requests : pc[r] \in Working ~> pc[r] \notin Working

(***************************************************************************)
(* What the repository says of replies and the code does not keep.         *)
(***************************************************************************)

(* A row "moves once -- to SENT or FAILED". *)
MovesOnce ==
  [][\A i \in Requests :
       rows[i] # NoRow /\ rows'[i] # NoRow /\ rows[i].status # "PENDING"
         => rows'[i].status = rows[i].status]_vars

(* The window "cannot permit [a send] that would duplicate". *)
NeverMailedTwice == \A i \in Requests : \A d, e \in MailsOf(i) : d = e
=============================================================================
