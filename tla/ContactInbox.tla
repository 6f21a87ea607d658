---------------------------- MODULE ContactInbox ----------------------------
(***************************************************************************)
(* A visitor's message, from the public form to its purge: ContactService, *)
(* the anti-spam traps, the detached mails of ContactMailService and the   *)
(* retention job, composed with MailDelivery.                              *)
(*                                                                         *)
(* A submission is known by the id its row would get.  The dispatch of a   *)
(* row is one caller of MailService: it sends the owner's notification,    *)
(* waits for its end, and then sends the visitor's acknowledgement.        *)
(* Neither mail carries a key.  isRead is a column on its own: left out.   *)
(*                                                                         *)
(* A definition marked "Fault" is no part of the specification: it is the  *)
(* next definition with a plausible bug, which some property must notice.  *)
(***************************************************************************)
EXTENDS Integers, FiniteSets

CONSTANTS
  Messages,        \* ids of submissions
  Patches,         \* handlers of PATCH /admin/messages/:id
  MinFill,         \* the time a human takes, in ticks of the form's timer
  RetentionPeriod, \* ticks for which an archived message is kept
  NoMessage,       \* the message of a request that has not arrived
  NoKey, NoMail, MailEnabled, MaxAttempts, Retention, SendBound, MaxTime

VARIABLES
  now, stopping, sends, seen, delivered, \* MailDelivery
  form,      \* what each submission carried, and the row made of it
  rows,      \* contact_messages that exist, by id
  dispatch,  \* where the detached dispatch of each message stands
  patch,     \* the PATCH requests
  copies,    \* how often the relay took each mail (history)
  since,     \* when each row was archived last (history)
  crossed    \* messages two PATCHes of which overlapped (history)

inboxVars == <<form, rows, patch, since, crossed>>
vars == <<now, stopping, sends, seen, delivered, form, rows, dispatch, patch, copies, since, crossed>>

MailTo(m, who) == [key |-> NoKey, message |-> m, to |-> who]
InboxMails     == {MailTo(m, who) : m \in Messages, who \in {"owner", "visitor"}}

Mail == INSTANCE MailDelivery WITH
          Senders      <- Messages,
          Mails        <- InboxMails,
          ProviderKeys <- {}

Never  == -1
Absent == -1

Methods == {"email", "phone"}

(* What a form says: the honeypot, the time it took, and how to answer.  A *)
(* field may be left out, blank, good, wrong, or wrong without any digit.  *)
Form == [website : BOOLEAN, elapsed : {Absent, 0} \union {MinFill - 1, MinFill},
         reach : [Methods -> {"none", "blank", "good", "wrong", "wordy"}]]

(* What was typed into a field, whatever it is worth. *)
Supplied(f) == {x \in Methods : f.reach[x] \notin {"none", "blank"}}

Row == [reach : SUBSET Methods, archived : BOOLEAN, archivedAt : Nat \union {Never}]

Patch ==
  [state : {"idle", "read"}, message : Messages \union {NoMessage},
   archive : BOOLEAN, was : BOOLEAN]

Unsent == [state |-> "idle", message |-> NoMessage, archive |-> FALSE, was |-> FALSE]

ASSUME InboxSets == Messages # {} /\ NoMessage \notin Messages
ASSUME InboxTimes ==
  /\ MinFill \in Nat \ {0} /\ RetentionPeriod \in Nat \ {0} /\ SendBound \in Nat /\ MaxTime \in Nat
ASSUME InboxMail ==
  /\ MailEnabled \in BOOLEAN /\ MaxAttempts \in Nat \ {0} /\ Retention \in Nat \ {0}
  /\ NoMail \notin InboxMails

Set(f, x, v) == [y \in DOMAIN f \union {x} |-> IF y = x THEN v ELSE f[y]]

(***************************************************************************)
(* Intake.                                                                 *)
(***************************************************************************)

(* Blank is absent.  A phone keeps its digits, or itself when it has none. *)
Normalized(f, x) == IF f.reach[x] = "blank" THEN "none" ELSE f.reach[x]

Reach(f) == {x \in Methods : Normalized(f, x) # "none"}

(* The address is checked when there is one or no number stands in for it. *)
Valid(f) ==
  /\ "email" \in Reach(f) \/ "phone" \notin Reach(f) => Normalized(f, "email") = "good"
  /\ "phone" \in Reach(f) => Normalized(f, "phone") = "good"

(* Fault: an absent time is not looked at. *)
IsSpamUnlessAbsent(f) == f.website \/ (f.elapsed # Absent /\ f.elapsed < MinFill)

isSpam(f) == f.website \/ f.elapsed < MinFill

(* The pipe comes first.  A trapped submission then gets the receipt of a  *)
(* genuine one, and no row.  What is kept beside the row: history, and the *)
(* row as the dispatch holds it.                                           *)
Submit(m) ==
  /\ dispatch[m] = "none"
  /\ \E f \in {x \in Form : Valid(x)} :
       /\ form' = Set(form, m, [trapped |-> f.website \/ f.elapsed < MinFill, supplied |-> Supplied(f), row |-> Reach(f)])
       /\ \/ /\ isSpam(f)
             /\ dispatch' = [dispatch EXCEPT ![m] = "dropped"]
             /\ UNCHANGED rows
          \/ /\ ~isSpam(f)
             /\ dispatch' = [dispatch EXCEPT ![m] = "committed"]
             /\ rows' = Set(rows, m, [reach |-> Reach(f), archived |-> FALSE, archivedAt |-> Never])
  /\ UNCHANGED <<now, stopping, sends, seen, delivered, patch, copies, since, crossed>>

(***************************************************************************)
(* dispatchForSubmission: detached, after the commit.                      *)
(***************************************************************************)

NotifyOwner(m) ==
  /\ dispatch[m] = "committed"
  /\ \/ /\ MailEnabled
        /\ Mail!Begin(m, MailTo(m, "owner"))
        /\ dispatch' = [dispatch EXCEPT ![m] = "owner"]
     \/ /\ ~MailEnabled
        /\ dispatch' = [dispatch EXCEPT ![m] = "over"]
        /\ UNCHANGED <<now, stopping, sends, seen, delivered>>
  /\ UNCHANGED <<inboxVars, copies>>

(* The results of the sends go nowhere but to the log. *)
Forget(m) ==
  /\ sends' = [sends EXCEPT ![m] = Mail!Idle]
  /\ dispatch' = [dispatch EXCEPT ![m] = "over"]
  /\ UNCHANGED <<now, stopping, seen, delivered>>

(* Fault: the owner's mail is sent again when its send failed. *)
AcknowledgeOrRepeat(m) ==
  /\ dispatch[m] = "owner" /\ sends[m].state \in Mail!Finished
  /\ \/ /\ sends[m].state = "failed"
        /\ Mail!Begin(m, MailTo(m, "owner"))
        /\ UNCHANGED dispatch
     \/ /\ sends[m].state # "failed" /\ "email" \in form[m].row
        /\ Mail!Begin(m, MailTo(m, "visitor"))
        /\ dispatch' = [dispatch EXCEPT ![m] = "visitor"]
     \/ sends[m].state # "failed" /\ "email" \notin form[m].row /\ Forget(m)
  /\ UNCHANGED <<inboxVars, copies>>

(* Whatever became of the owner's mail; a phone number gets no mail. *)
Acknowledge(m) ==
  /\ dispatch[m] = "owner" /\ sends[m].state \in Mail!Finished
  /\ \/ /\ "email" \in form[m].row
        /\ Mail!Begin(m, MailTo(m, "visitor"))
        /\ dispatch' = [dispatch EXCEPT ![m] = "visitor"]
     \/ "email" \notin form[m].row /\ Forget(m)
  /\ UNCHANGED <<inboxVars, copies>>

EndDispatch(m) ==
  /\ dispatch[m] = "visitor" /\ sends[m].state \in Mail!Finished
  /\ Forget(m)
  /\ UNCHANGED <<inboxVars, copies>>

Deliver(m) ==
  /\ \/ /\ Mail!AttemptAccepted(m) \/ Mail!AttemptLost(m)
        /\ copies' = Set(copies, sends[m].mail, 1 + IF sends[m].mail \in DOMAIN copies THEN copies[sends[m].mail] ELSE 0)
     \/ /\ Mail!AttemptTransient(m) \/ Mail!AttemptRejected(m) \/ Mail!Wake(m)
        /\ UNCHANGED copies
  /\ UNCHANGED <<inboxVars, dispatch>>

(***************************************************************************)
(* Triage: the PATCH reads the row, and decides archivedAt from it.  One   *)
(* that leaves isArchived out changes nothing that is modelled.            *)
(***************************************************************************)

ReadMessage(p) ==
  /\ patch[p].state = "idle"
  /\ \E m \in DOMAIN rows, a \in BOOLEAN :
       /\ patch' = [patch EXCEPT ![p] =
                      [state |-> "read", message |-> m, archive |-> a, was |-> rows[m].archived]]
       /\ crossed' = IF \E o \in Patches : patch[o].state = "read" /\ patch[o].message = m
                     THEN crossed \union {m} ELSE crossed
  /\ UNCHANGED <<now, stopping, sends, seen, delivered, form, rows, dispatch, copies, since>>

(* Fault: an instant that is there is kept, and nothing clears it. *)
InstantOnce(p, row) == IF patch[p].archive /\ row.archivedAt = Never THEN now ELSE row.archivedAt

(* archivedAt moves with the transition, as seen from the row that was read. *)
Instant(p, row) ==
  IF patch[p].archive /\ ~patch[p].was THEN now
  ELSE IF ~patch[p].archive /\ patch[p].was THEN Never
  ELSE row.archivedAt

Triaged(p, row) ==
  [row EXCEPT !.archived = patch[p].archive, !.archivedAt = Instant(p, row)]

(* P2025 when the purge has been faster. *)
WriteMessage(p) ==
  LET m == patch[p].message
  IN  /\ patch[p].state = "read"
      /\ patch' = [patch EXCEPT ![p] = Unsent]
      /\ \/ /\ m \in DOMAIN rows
            /\ rows' = [rows EXCEPT ![m] = Triaged(p, @)]
            /\ since' = IF rows'[m].archived /\ ~rows[m].archived THEN Set(since, m, now) ELSE since
         \/ /\ m \notin DOMAIN rows
            /\ UNCHANGED <<rows, since>>
      /\ UNCHANGED <<now, stopping, sends, seen, delivered, form, dispatch, copies, crossed>>

(***************************************************************************)
(* ContactPurgeScheduler, once a day, and whenever the bound lets it.      *)
(***************************************************************************)

(* Fault: the boundary itself is deleted too. *)
ExpiredAtBoundary(row) == row.archived /\ row.archivedAt # Never /\ row.archivedAt <= now - RetentionPeriod

Expired(row) == row.archived /\ row.archivedAt # Never /\ row.archivedAt < now - RetentionPeriod

Purge ==
  LET gone == {m \in DOMAIN rows : Expired(rows[m])}
  IN  /\ gone # {}
      /\ rows' = [m \in DOMAIN rows \ gone |-> rows[m]]
      /\ UNCHANGED <<now, stopping, sends, seen, delivered, form, dispatch, patch, copies, since, crossed>>

(***************************************************************************)
(* The process and the clock.                                              *)
(***************************************************************************)

Shutdown == Mail!Shutdown /\ UNCHANGED <<inboxVars, dispatch, copies>>

(* A dispatch under way is gone for good: nothing looks for it again. *)
Crash ==
  /\ Mail!Restart
  /\ dispatch' = [m \in Messages |-> IF dispatch[m] \in {"committed", "owner", "visitor"} THEN "lost" ELSE dispatch[m]]
  /\ patch' = [p \in Patches |-> Unsent]
  /\ UNCHANGED <<form, rows, copies, since, crossed>>

(* No PATCH, and no send beyond SendBound, is under way for a whole tick. *)
Tick ==
  /\ Mail!Tick
  /\ \A p \in Patches : patch[p].state # "read"
  /\ UNCHANGED <<inboxVars, dispatch, copies>>

Advance(m) == NotifyOwner(m) \/ Deliver(m) \/ Acknowledge(m) \/ EndDispatch(m)

Init ==
  /\ Mail!Init
  /\ form = <<>> /\ rows = <<>>
  /\ dispatch = [m \in Messages |-> "none"]
  /\ patch = [p \in Patches |-> Unsent]
  /\ copies = <<>> /\ since = <<>>
  /\ crossed = {}

Next ==
  \/ \E m \in Messages : \/ Submit(m)      \/ NotifyOwner(m) \/ Deliver(m)
                         \/ Acknowledge(m) \/ EndDispatch(m)
  \/ \E p \in Patches : ReadMessage(p) \/ WriteMessage(p)
  \/ Purge \/ Shutdown \/ Crash \/ Tick

Spec == Init /\ [][Next]_vars /\ \A m \in Messages : WF_vars(Advance(m))

(***************************************************************************)
(* Properties.                                                             *)
(***************************************************************************)

(* Types.                                                                  *)
TypeOK ==
  /\ Mail!TypeOK
  /\ DOMAIN form \subseteq Messages /\ \A m \in DOMAIN form : form[m] \in [trapped : BOOLEAN, supplied : SUBSET Methods, row : SUBSET Methods]
  /\ DOMAIN rows \subseteq DOMAIN form /\ \A m \in DOMAIN rows : rows[m] \in Row
  /\ dispatch \in [Messages -> {"none", "dropped", "committed", "owner", "visitor", "over", "lost"}]
  /\ patch \in [Patches -> Patch]
  /\ DOMAIN copies \subseteq InboxMails /\ \A x \in DOMAIN copies : copies[x] \in Nat
  /\ DOMAIN since \subseteq Messages /\ \A m \in DOMAIN since : since[m] \in Nat
  /\ crossed \subseteq Messages

(* The honeypot is no mail amplifier: only a message that was stored is    *)
(* mailed about, to a visitor only after the owner's turn, and a mail that *)
(* lost its answers or failed goes out no more often than one send tries.  *)
MailsBounded ==
  \A x \in DOMAIN copies :
    /\ ~form[x.message].trapped
    /\ x.to = "visitor" => "email" \in form[x.message].supplied /\ dispatch[x.message] # "owner"
    /\ copies[x] <= MaxAttempts

(* A message that is stored can be answered, by every method the visitor   *)
(* typed: a wrong one is refused and never turned into an absent one.      *)
NothingDiscarded ==
  \A m \in DOMAIN rows : rows[m].reach = form[m].supplied /\ rows[m].reach # {}

(* The retention job takes a message only when it has been archived,       *)
(* without a break, for longer than the retention period -- even where two *)
(* PATCHes have decided archivedAt from stale reads.                       *)
PurgeKeepsRecent ==
  [][\A m \in DOMAIN rows \ DOMAIN rows' :
       m \in DOMAIN since /\ since[m] < now - RetentionPeriod]_vars

(* An archived message has the instant the purge goes by, and one that is  *)
(* not has none.  Two overlapping PATCHes can break it.                    *)
TriageCoherent == \A m \in DOMAIN rows : rows[m].archived <=> rows[m].archivedAt # Never

(* It is so for every message whose PATCHes did not overlap.               *)
TriageCoherentAlone ==
  \A m \in DOMAIN rows \ crossed : rows[m].archived <=> rows[m].archivedAt # Never

(* Every dispatch comes to an end, whatever the relay does; only a process *)
(* that died makes an end of it without the visitor's turn.                *)
DispatchEnds == \A m \in Messages : dispatch[m] = "committed" ~> dispatch[m] \in {"over", "lost"}
=============================================================================
