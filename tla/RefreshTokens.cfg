SPECIFICATION SessionSpec
CONSTANTS
  Calls = {c1, c2, c3}
  Accounts = {u1}
  NoCall = NoCall
  NoToken = NoToken
INVARIANTS
  OneLivePerFamily
  ReplayKillsSuccessor
PROPERTIES
  DeadFamilyStaysDead
  KeepsSessions
  CallsEnd
CHECK_DEADLOCK FALSE
