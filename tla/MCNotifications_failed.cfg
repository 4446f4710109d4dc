SPECIFICATION NotifSpec
CONSTANTS
  u1 = u1  u2 = u2  c1 = c1  c2 = c2  c3 = c3
  Sockets = {c1}
  Users = {u1}
  Identities <- OneLogin
  Notifications = {n1}
  Senders = {w1}
  Dtos <- UserDtos
  Enabled = {"sms"}
  Faults = FALSE
  Unused = Unused  Gone = Gone  None = None
CHECK_DEADLOCK FALSE
INVARIANTS GivenUpIsFailed
