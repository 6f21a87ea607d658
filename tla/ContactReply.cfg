SPECIFICATION Spec
CONSTANTS
  Requests = {r1, r2}
  Messages = {m1, m2}
  Repliable = {m1}
  Keys = {k1}
  Users = {u1}
  Bodies = {b1}
  NoRow = NoRow
  NoInput = NoInput
  NoId = NoId
  NoKey = NoKey
  NoMail = NoMail
  MailEnabled = TRUE
  MaxAttempts = 2
  Retention = 2
  SendBound = 1
  MaxTime = 3
INVARIANTS
  OneAttemptPerKey
  SentWasAccepted
  MailsWithinWindow
PROPERTIES
  SettledIsFinal
  KeepsLedger
  RequestsEnd
