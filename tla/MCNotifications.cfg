SPECIFICATION NotifSpec
CONSTANTS
  u1 = u1  u2 = u2  c1 = c1  c2 = c2  c3 = c3
  Sockets = {c1, c2, c3}
  Users = {u1, u2}
  Identities <- Logins
  Notifications = {n1}
  Senders = {w1}
  Dtos <- MCDtos
  Enabled = {"sms"}
  Faults = TRUE
  Unused = Unused  Gone = Gone  None = None
CHECK_DEADLOCK FALSE
INVARIANTS NotifTypeOK ListedIsOpen DeliveredWasSent RepeatsOnlyAfterLoss CompletedIsDelivered
