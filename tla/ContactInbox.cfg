SPECIFICATION Spec
CONSTANTS
  Messages = {m1}
  Patches = {p1, p2}
  MinFill = 3
  RetentionPeriod = 1
  NoMessage = NoMessage
  NoKey = NoKey
  NoMail = NoMail
  MailEnabled = TRUE
  MaxAttempts = 2
  Retention = 1
  SendBound = 0
  MaxTime = 2
INVARIANTS
  MailsBounded
  TriageCoherentAlone
PROPERTIES
  PurgeKeepsRecent
  DispatchEnds
CHECK_DEADLOCK FALSE
