------------------------- MODULE MailDelivery_proofs -------------------------
(***************************************************************************)
(* Proofs about MailDelivery, for any senders, mails, keys and bounds.     *)
(*                                                                         *)
(* The relay's promise needs what ties its memory to what it delivered: a  *)
(* key is remembered since its latest delivery (RelayRemembers), and it is *)
(* remembered only because of one (RelayMemoryReal).                       *)
(***************************************************************************)
EXTENDS MailDelivery, TLAPS

(* A send that was ever begun holds a mail, and the loop counter leaves    *)
(* room for the attempt a backoff announces.                               *)
SendsWellFormed ==
  \A s \in Senders :
    /\ sends[s].state # "idle" => sends[s].mail \in Mails
    /\ sends[s].state \in {"backoff", "awake"} => sends[s].attempt < MaxAttempts

RelayRemembers ==
  \A d \in delivered : d.mail.key # NoKey =>
    seen[d.mail.key] # Never /\ d.at <= seen[d.mail.key] /\ seen[d.mail.key] <= now

RelayMemoryReal ==
  \A k \in ProviderKeys : seen[k] # Never => \E d \in delivered : d.mail.key = k

MailInv ==
  /\ TypeOK
  /\ SendsWellFormed
  /\ RelayRemembers
  /\ RelayMemoryReal
  /\ KeyedMailsFarApart
  /\ SentWasTaken

LEMMA InitInvariant == Init => MailInv
<1> SUFFICES ASSUME Init PROVE MailInv
  OBVIOUS
<1>1. Idle \in SendRecord
  BY AttemptsType DEF Idle, SendRecord
<1>2. TypeOK
  BY <1>1 DEF Init, TypeOK, Never
<1>3. SendsWellFormed /\ SentWasTaken
  BY DEF Init, Idle, SendsWellFormed, SentWasTaken
<1>4. RelayRemembers /\ RelayMemoryReal /\ KeyedMailsFarApart
  BY DEF Init, RelayRemembers, RelayMemoryReal, KeyedMailsFarApart
<1>5. QED
  BY <1>2, <1>3, <1>4 DEF MailInv

(* A mail that is sent carries a provider key or none. *)
LEMMA SenderKey ==
  ASSUME MailInv, NEW s \in Senders, sends[s].state # "idle"
  PROVE  /\ sends[s].mail \in Mails
         /\ sends[s].mail.key \in ProviderKeys \union {NoKey}
  BY MailKeys DEF MailInv, SendsWellFormed

(* What the relay does with a mail keeps its promise: a new delivery of a  *)
(* key comes a whole retention after the latest one.                       *)
LEMMA RelayKeepsPromise ==
  ASSUME MailInv, NEW s \in Senders, sends[s].state = "trying", RelayTakes(s), now' = now
  PROVE  /\ seen' \in [ProviderKeys -> Nat \union {Never}]
         /\ delivered' \subseteq Delivery /\ delivered \subseteq delivered'
         /\ RelayRemembers' /\ RelayMemoryReal' /\ KeyedMailsFarApart'
         /\ \E d \in delivered' :
              IF sends[s].mail.key = NoKey
              THEN d.mail = sends[s].mail /\ d.by = s
              ELSE d.mail.key = sends[s].mail.key
<1> DEFINE m == sends[s].mail
           new == [mail |-> m, by |-> s, at |-> now]
<1>1. m \in Mails /\ m.key \in ProviderKeys \union {NoKey}
  BY SenderKey
<1>2. now \in Nat /\ seen \in [ProviderKeys -> Nat \union {Never}] /\ delivered \subseteq Delivery
  BY DEF MailInv, TypeOK
<1>3. CASE Remembered(m.key)
  <2>1. UNCHANGED <<seen, delivered>> /\ m.key # NoKey /\ seen[m.key] # Never
    BY <1>3 DEF RelayTakes, Remembered, Header
  <2>2. \E d \in delivered : d.mail.key = m.key
    BY <1>1, <2>1 DEF MailInv, RelayMemoryReal
  <2>3. QED
    BY <1>2, <2>1, <2>2 DEF MailInv, RelayRemembers, RelayMemoryReal, KeyedMailsFarApart
<1>4. CASE ~Remembered(m.key)
  <2>1. /\ seen' = [k \in ProviderKeys |-> IF k = m.key THEN now ELSE seen[k]]
        /\ delivered' = delivered \union {new}
    BY <1>4 DEF RelayTakes, Header
  <2>2. new \in Delivery /\ new.mail = m /\ new.by = s /\ new.at = now
    BY <1>1, <1>2 DEF Delivery
  <2>3. /\ seen' \in [ProviderKeys -> Nat \union {Never}]
        /\ delivered' \subseteq Delivery /\ delivered \subseteq delivered'
    BY <1>2, <2>1, <2>2
  <2>4. \A d \in delivered : d.mail.key \in ProviderKeys \union {NoKey} /\ d.at \in Nat
    BY <1>2, MailKeys DEF Delivery
  <2>5. \A d \in delivered : d.mail.key = m.key /\ m.key # NoKey => now >= d.at + Retention
    BY <1>1, <1>2, <1>4, <2>4, RetentionType DEF MailInv, RelayRemembers, Remembered, Never
  <2>6. RelayRemembers'
    BY <1>1, <1>2, <2>1, <2>2, <2>4, NoKeyIsNoKey DEF MailInv, RelayRemembers, Never
  <2>7. RelayMemoryReal'
    BY <1>1, <2>1, <2>2 DEF MailInv, RelayMemoryReal
  <2>8. KeyedMailsFarApart'
    BY <2>1, <2>2, <2>5 DEF MailInv, KeyedMailsFarApart
  <2>9. QED
    BY <2>1, <2>2, <2>3, <2>6, <2>7, <2>8
<1>5. QED
  BY <1>3, <1>4

(* Steps of one sender that leave the relay alone. *)
LEMMA SenderStep ==
  ASSUME MailInv, NEW s \in Senders, NEW send \in SendRecord,
         sends' = [sends EXCEPT ![s] = send],
         UNCHANGED <<now, stopping, seen, delivered>>,
         send.state # "idle" => send.mail \in Mails,
         send.state \in {"backoff", "awake"} => send.attempt < MaxAttempts,
         send.state # "sent"
  PROVE  MailInv'
  BY DEF MailInv, TypeOK, SendsWellFormed, RelayRemembers, RelayMemoryReal, KeyedMailsFarApart, SentWasTaken

LEMMA BeginStep ==
  ASSUME MailInv, NEW s \in Senders, NEW m \in Mails, Begin(s, m)
  PROVE  MailInv'
<1>1. Begun(m) \in SendRecord
  BY AttemptsType, MailEnabledType DEF MailInv, TypeOK, Begun, SendRecord, Running, Finished
<1>2. QED
  BY <1>1, SenderStep DEF Begin, Begun

(* What a send is after an attempt: its result and its mail, or asleep     *)
(* with another attempt left.                                              *)
LEMMA ResultType ==
  ASSUME MailInv, NEW s \in Senders, sends[s].state = "trying", NEW result \in Finished
  PROVE  /\ Result(s, result) \in SendRecord
         /\ Result(s, result).mail = sends[s].mail /\ Result(s, result).mail \in Mails
         /\ Result(s, result).state = result
<1>1. sends[s].mail \in Mails
  BY SenderKey
<1>2. QED
  BY <1>1, AttemptsType DEF Result, SendRecord

LEMMA FailureRecord ==
  ASSUME MailInv, NEW s \in Senders, sends[s].state = "trying", AfterFailure(s)
  PROVE  \E send \in SendRecord :
           /\ sends' = [sends EXCEPT ![s] = send]
           /\ send.mail = sends[s].mail /\ send.mail \in Mails
           /\ send.state \in {"failed", "backoff"}
           /\ send.state = "backoff" => send.attempt < MaxAttempts
<1>1. CASE GivesUp(s)
  <2>1. sends' = [sends EXCEPT ![s] = Result(s, "failed")] /\ "failed" \in Finished
    BY <1>1 DEF AfterFailure, Finish, Finished
  <2>2. QED
    BY <2>1, ResultType
<1>2. CASE ~GivesUp(s)
  <2> DEFINE send == [sends[s] EXCEPT !.state = "backoff", !.timer = TRUE]
  <2>1. /\ sends \in [Senders -> SendRecord] /\ sends[s] \in SendRecord
        /\ sends[s].attempt \in 0 .. MaxAttempts /\ sends[s].attempt # MaxAttempts
    BY <1>2 DEF MailInv, TypeOK, SendRecord, GivesUp
  <2>2. sends' = [sends EXCEPT ![s] = send]
    BY <1>2, <2>1 DEF AfterFailure, Sleep
  <2>3. send \in SendRecord
    BY <2>1 DEF SendRecord, Running
  <2>4. send.mail = sends[s].mail /\ send.state = "backoff" /\ send.attempt = sends[s].attempt
    BY <2>1 DEF SendRecord
  <2> HIDE DEF send
  <2>5. send.mail \in Mails /\ send.attempt < MaxAttempts
    BY <2>1, <2>4, AttemptsType, SenderKey
  <2>6. QED
    BY <2>2, <2>3, <2>4, <2>5
<1>3. QED
  BY <1>1, <1>2

LEMMA TakenStep ==
  ASSUME MailInv, NEW s \in Senders, AttemptAccepted(s) \/ AttemptLost(s)
  PROVE  MailInv'
<1>1. sends[s].state = "trying" /\ RelayTakes(s) /\ UNCHANGED <<now, stopping>>
  BY DEF AttemptAccepted, AttemptLost
<1>2. PICK send \in SendRecord :
        /\ sends' = [sends EXCEPT ![s] = send]
        /\ send.mail = sends[s].mail /\ send.mail \in Mails
        /\ send.state \in {"sent", "failed", "backoff"}
        /\ send.state = "backoff" => send.attempt < MaxAttempts
  BY <1>1, ResultType, FailureRecord DEF AttemptAccepted, AttemptLost, Finish, Finished
<1>3. /\ sends' \in [Senders -> SendRecord] /\ sends'[s] = send
      /\ \A r \in Senders \ {s} : sends'[r] = sends[r]
  BY <1>2 DEF MailInv, TypeOK
<1>4. TypeOK' /\ RelayRemembers' /\ RelayMemoryReal' /\ KeyedMailsFarApart'
  BY <1>1, <1>3, RelayKeepsPromise DEF MailInv, TypeOK
<1>5. SendsWellFormed'
  BY <1>2, <1>3 DEF MailInv, SendsWellFormed
<1>6. SentWasTaken'
  BY <1>1, <1>2, <1>3, RelayKeepsPromise DEF MailInv, SentWasTaken
<1>7. QED
  BY <1>4, <1>5, <1>6 DEF MailInv

LEMMA RefusedStep ==
  ASSUME MailInv, NEW s \in Senders, AttemptTransient(s) \/ AttemptRejected(s)
  PROVE  MailInv'
<1>1. sends[s].state = "trying" /\ UNCHANGED <<now, stopping, seen, delivered>>
  BY DEF AttemptTransient, AttemptRejected
<1>2. PICK send \in SendRecord :
        /\ sends' = [sends EXCEPT ![s] = send]
        /\ send.mail \in Mails /\ send.state \in {"failed", "backoff"}
        /\ send.state = "backoff" => send.attempt < MaxAttempts
  BY <1>1, ResultType, FailureRecord DEF AttemptTransient, AttemptRejected, Finish, Finished
<1>3. QED
  BY <1>1, <1>2, SenderStep

LEMMA WakeStep ==
  ASSUME MailInv, NEW s \in Senders, Wake(s)
  PROVE  MailInv'
<1> DEFINE send == [sends[s] EXCEPT !.state = "trying", !.attempt = @ + 1, !.timer = FALSE]
<1>1. sends' = [sends EXCEPT ![s] = send]
  BY DEF Wake, MailInv, TypeOK
<1>2. send \in SendRecord /\ send.mail \in Mails /\ send.state = "trying"
  BY AttemptsType, SenderKey DEF Wake, Wakes, MailInv, TypeOK, SendsWellFormed, SendRecord, Running, Finished
<1> HIDE DEF send
<1>3. QED
  BY <1>1, <1>2, SenderStep DEF Wake

LEMMA WorldStep ==
  ASSUME MailInv, Shutdown \/ Restart \/ Tick \/ UNCHANGED mailVars
  PROVE  MailInv'
<1>1. Idle \in SendRecord
  BY AttemptsType DEF Idle, SendRecord
<1>2. CASE Shutdown
  <2>1. \A s \in Senders :
          /\ sends'[s] \in SendRecord
          /\ sends'[s].mail = sends[s].mail /\ sends'[s].attempt = sends[s].attempt
          /\ \/ sends'[s].state = sends[s].state
             \/ sends[s].state = "backoff" /\ sends'[s].state = "awake"
    BY <1>2 DEF Shutdown, Resolved, MailInv, TypeOK, SendRecord, Running
  <2>2. sends' \in [Senders -> SendRecord]
    BY <1>2, <2>1 DEF Shutdown
  <2>3. SendsWellFormed' /\ SentWasTaken'
    BY <1>2, <2>1 DEF Shutdown, MailInv, SendsWellFormed, SentWasTaken
  <2>4. QED
    BY <1>2, <2>2, <2>3 DEF Shutdown, MailInv, TypeOK, RelayRemembers, RelayMemoryReal, KeyedMailsFarApart
<1>3. CASE Restart
  BY <1>1, <1>3 DEF Restart, Idle, MailInv, TypeOK, SendsWellFormed, RelayRemembers, RelayMemoryReal,
     KeyedMailsFarApart, SentWasTaken
<1>4. CASE Tick
  <2>1. TypeOK'
    BY <1>4 DEF Tick, MailInv, TypeOK
  <2>2. \A d \in delivered : d.mail.key # NoKey => seen[d.mail.key] \in Nat
    BY MailKeys DEF MailInv, TypeOK, RelayRemembers, Delivery, Never
  <2>3. RelayRemembers'
    BY <1>4, <2>2 DEF Tick, MailInv, TypeOK, RelayRemembers
  <2>4. QED
    BY <1>4, <2>1, <2>3 DEF Tick, MailInv, SendsWellFormed, RelayMemoryReal, KeyedMailsFarApart, SentWasTaken
<1>5. CASE UNCHANGED mailVars
  BY <1>5 DEF mailVars, MailInv, TypeOK, SendsWellFormed, RelayRemembers, RelayMemoryReal,
     KeyedMailsFarApart, SentWasTaken
<1>6. QED
  BY <1>2, <1>3, <1>4, <1>5

LEMMA StepInvariant == MailInv /\ [Next]_mailVars => MailInv'
  BY BeginStep, TakenStep, RefusedStep, WakeStep, WorldStep DEF Next, SendStep

LEMMA InvariantHolds == Spec => []MailInv
  BY InitInvariant, StepInvariant, PTL DEF Spec

(* Types, for any senders, mails and bounds. *)
THEOREM TypeCorrect == Spec => []TypeOK
<1>1. MailInv => TypeOK
  BY DEF MailInv
<1>2. QED
  BY <1>1, InvariantHolds, PTL

(* Retries, lost answers and restarts never make the relay deliver a keyed *)
(* mail twice within its memory.                                           *)
THEOREM KeyedMailsNotRepeated == Spec => []KeyedMailsFarApart
<1>1. MailInv => KeyedMailsFarApart
  BY DEF MailInv
<1>2. QED
  BY <1>1, InvariantHolds, PTL

(* A send that reports success was taken by the relay. *)
THEOREM SentIsTrue == Spec => []SentWasTaken
<1>1. MailInv => SentWasTaken
  BY DEF MailInv
<1>2. QED
  BY <1>1, InvariantHolds, PTL
=============================================================================
