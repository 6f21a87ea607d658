---------------------------- MODULE MailDelivery ----------------------------
(***************************************************************************)
(* The outbound-mail door of the API: MailService.send with its bounded    *)
(* retry loop, its shutdown flag, and the relay behind it.                 *)
(*                                                                         *)
(* A send is a loop of at most MaxAttempts transport calls.  One call ends *)
(* in one of four ways, and the loop can only tell three of them apart:    *)
(*   accepted   the relay took the mail and its answer arrived;            *)
(*   lost       the relay took the mail and its answer did not arrive;     *)
(*   transient  the relay never took it (looks exactly like "lost");       *)
(*   rejected   the relay refused it for good (5xx).                       *)
(*                                                                         *)
(* The relay is external.  All the code relies on is the documented        *)
(* duplicate prevention: a key it has seen within Retention does not send  *)
(* a second mail.  A mail without a key is never recognised.               *)
(*                                                                         *)
(* A definition marked "Fault" is no part of the specification: it is the  *)
(* next definition with a plausible bug, which some property must notice.  *)
(***************************************************************************)
EXTENDS Integers, FiniteSets

CONSTANTS
  Senders,       \* callers that may have a send in progress
  Mails,         \* mails that may be sent: records with a field "key"
  ProviderKeys,  \* provider idempotency keys
  NoKey,         \* the key of a mail that carries none
  NoMail,        \* "no mail": the content of an idle sender
  MailEnabled,   \* is the SMTP group configured (transport # null)
  MaxAttempts,   \* backoffMs.length + 1
  Retention,     \* ticks for which the relay remembers a key
  SendBound,     \* ticks after which a started send is certainly over
  MaxTime        \* bound on the clock

ASSUME SendersNotEmpty == Senders # {}
ASSUME MailKeys        == \A m \in Mails : m.key \in ProviderKeys \union {NoKey}
ASSUME NoKeyIsNoKey    == NoKey \notin ProviderKeys
ASSUME NoMailIsNoMail  == NoMail \notin Mails
ASSUME MailEnabledType == MailEnabled \in BOOLEAN
ASSUME AttemptsType    == MaxAttempts \in Nat \ {0}
ASSUME RetentionType   == Retention \in Nat \ {0}
ASSUME SendBoundType   == SendBound \in Nat
ASSUME MaxTimeType     == MaxTime \in Nat

VARIABLES
  now,        \* the clock
  stopping,   \* MailService.stopped
  sends,      \* the send each caller has in progress
  seen,       \* relay: when a key was last taken as new, or Never
  delivered   \* relay: every mail it took as new (history)

mailVars == <<now, stopping, sends, seen, delivered>>

Never    == -1
Idle     == [state |-> "idle", mail |-> NoMail, attempt |-> 0, startedAt |-> 0, timer |-> FALSE]
Finished == {"sent", "failed", "disabled"}
Running  == {"trying", "backoff", "awake"}

SendRecord ==
  [state     : {"idle"} \union Running \union Finished,
   mail      : Mails \union {NoMail},
   attempt   : 0 .. MaxAttempts,
   startedAt : Nat,
   timer     : BOOLEAN]   \* is a timer set that will resolve the sleep

Delivery == [mail : Mails, by : Senders, at : Nat]

TypeOK ==
  /\ now \in Nat
  /\ stopping \in BOOLEAN
  /\ sends \in [Senders -> SendRecord]
  /\ seen \in [ProviderKeys -> Nat \union {Never}]
  /\ delivered \subseteq Delivery

Init ==
  /\ now = 0
  /\ stopping = FALSE
  /\ sends = [s \in Senders |-> Idle]
  /\ seen = [k \in ProviderKeys |-> Never]
  /\ delivered = {}

(***************************************************************************)
(* The relay.                                                              *)
(***************************************************************************)

(* The relay still remembers key k and will not send a second mail for it. *)
Remembered(k) ==
  /\ k # NoKey
  /\ seen[k] # Never
  /\ now - seen[k] < Retention

(* Fault: the retries go out without the key. *)
HeaderOnFirstAttemptOnly(s) ==
  IF sends[s].attempt = 1 THEN sends[s].mail.key ELSE NoKey

(* The Idempotency-Key header of an attempt: the mail's key, on every one. *)
Header(s) == sends[s].mail.key

(* The relay takes the mail of sender s: as a new mail, or as the repeat of *)
(* one it remembers, in which case nothing more is delivered.               *)
RelayTakes(s) ==
  IF Remembered(Header(s))
  THEN UNCHANGED <<seen, delivered>>
  ELSE /\ seen' = [k \in ProviderKeys |-> IF k = Header(s) THEN now ELSE seen[k]]
       /\ delivered' = delivered \union {[mail |-> sends[s].mail, by |-> s, at |-> now]}

(***************************************************************************)
(* MailService.send.                                                       *)
(***************************************************************************)

(* What send() holds right after it is called with mail m. *)
Begun(m) ==
  [state     |-> IF MailEnabled THEN "trying" ELSE "disabled",
   mail      |-> m,
   attempt   |-> IF MailEnabled THEN 1 ELSE 0,
   startedAt |-> now,
   timer     |-> FALSE]

Begin(s, m) ==
  /\ sends[s].state \notin Running
  /\ sends' = [sends EXCEPT ![s] = Begun(m)]
  /\ UNCHANGED <<now, stopping, seen, delivered>>

(* The loop gives up after a failed attempt: it was the last one, or the   *)
(* process is shutting down.                                               *)
GivesUp(s) == sends[s].attempt = MaxAttempts \/ stopping

(* What is left of a send when it returns: its result, and whose mail. *)
Result(s, result) ==
  [state |-> result, mail |-> sends[s].mail, attempt |-> 0, startedAt |-> 0, timer |-> FALSE]

Finish(s, result) == sends' = [sends EXCEPT ![s] = Result(s, result)]

(* sleep() sets a timer, and the send is a sleeper until it is resolved. *)
Sleep(s) == sends' = [sends EXCEPT ![s].state = "backoff", ![s].timer = TRUE]

AfterFailure(s) == IF GivesUp(s) THEN Finish(s, "failed") ELSE Sleep(s)

AttemptAccepted(s) ==
  /\ sends[s].state = "trying"
  /\ RelayTakes(s)
  /\ Finish(s, "sent")
  /\ UNCHANGED <<now, stopping>>

AttemptLost(s) ==
  /\ sends[s].state = "trying"
  /\ RelayTakes(s)
  /\ AfterFailure(s)
  /\ UNCHANGED <<now, stopping>>

AttemptTransient(s) ==
  /\ sends[s].state = "trying"
  /\ AfterFailure(s)
  /\ UNCHANGED <<now, stopping, seen, delivered>>

AttemptRejected(s) ==
  /\ sends[s].state = "trying"
  /\ Finish(s, "failed")
  /\ UNCHANGED <<now, stopping, seen, delivered>>

(* The backoff sleep ends, by its timer or because it has been resolved. *)
Wakes(s) == sends[s].state = "awake" \/ (sends[s].state = "backoff" /\ sends[s].timer)

Wake(s) ==
  /\ Wakes(s)
  /\ sends' = [sends EXCEPT ![s].state = "trying", ![s].attempt = @ + 1, ![s].timer = FALSE]
  /\ UNCHANGED <<now, stopping, seen, delivered>>

SendStep(s) ==
  \/ AttemptAccepted(s)
  \/ AttemptLost(s)
  \/ AttemptTransient(s)
  \/ AttemptRejected(s)
  \/ Wake(s)

Resolved(send) ==
  IF send.state = "backoff" THEN [send EXCEPT !.state = "awake", !.timer = FALSE] ELSE send

(* Fault: the timers are cleared, and nobody is woken. *)
ShutdownClearsOnly ==
  /\ ~stopping
  /\ stopping' = TRUE
  /\ sends' = [s \in Senders |-> [sends[s] EXCEPT !.timer = FALSE]]
  /\ UNCHANGED <<now, seen, delivered>>

(* onModuleDestroy: every sleeper's timer is cleared and its sleep is      *)
(* resolved, so that in-flight loops finish their turn and exit.           *)
Shutdown ==
  /\ ~stopping
  /\ stopping' = TRUE
  /\ sends' = [s \in Senders |-> Resolved(sends[s])]
  /\ UNCHANGED <<now, seen, delivered>>

(* The process is gone: every loop dies where it stands.  The relay keeps  *)
(* what it knows.                                                          *)
Restart ==
  /\ stopping' = FALSE
  /\ sends' = [s \in Senders |-> Idle]
  /\ UNCHANGED <<now, seen, delivered>>

(* Time passes, but never beyond the bound of a send in progress. *)
Tick ==
  /\ now < MaxTime
  /\ \A s \in Senders : sends[s].state \in Running => now < sends[s].startedAt + SendBound
  /\ now' = now + 1
  /\ UNCHANGED <<stopping, sends, seen, delivered>>

(***************************************************************************)
(* The component on its own: any caller may send any mail, and a caller    *)
(* that has its result may send again.                                     *)
(***************************************************************************)

Next ==
  \/ \E s \in Senders, m \in Mails : Begin(s, m)
  \/ \E s \in Senders : SendStep(s)
  \/ Shutdown
  \/ Restart
  \/ Tick

Spec == Init /\ [][Next]_mailVars /\ \A s \in Senders : WF_mailVars(SendStep(s))

(***************************************************************************)
(* Properties.                                                             *)
(***************************************************************************)

(* Two mails with one key are never delivered within the relay's memory of *)
(* that key, however many senders, retries, lost answers and restarts lie  *)
(* between them.                                                           *)
KeyedMailsFarApart ==
  \A d, e \in delivered :
    d.mail.key = e.mail.key /\ d.mail.key # NoKey /\ d # e
      => d.at >= e.at + Retention \/ e.at >= d.at + Retention

(* A "sent" result is never a guess: the relay holds this very mail, or    *)
(* for a keyed one another mail under its key.                             *)
SentWasTaken ==
  \A s \in Senders : sends[s].state = "sent" =>
    \E d \in delivered :
      IF sends[s].mail.key = NoKey
      THEN d.mail = sends[s].mail /\ d.by = s
      ELSE d.mail.key = sends[s].mail.key

(* Every call of send() returns, whatever the relay does. *)
SendsEnd == \A s \in Senders : sends[s].state \in Running ~> sends[s].state \notin Running
=============================================================================
