SPECIFICATION Spec
CONSTANTS
  Senders = {s1, s2}
  k1 = k1
  keyless = keyless
  ProviderKeys = {k1}
  NoKey = keyless
  NoMail = NoMail
  Mails <- MCMails
  MailEnabled = TRUE
  MaxAttempts = 2
  Retention = 2
  SendBound = 1
  MaxTime = 2
INVARIANTS
  KeyedMailsFarApart
PROPERTIES
  SendsEnd
