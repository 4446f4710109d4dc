SPECIFICATION GenSpec
CONSTANTS
  k1 = k1  s1 = s1  x1 = x1  x2 = x2  t1 = t1  r1 = r1  r2 = r2  c1 = c1  c2 = c2  slot1 = slot1
  e1 = e1  u1 = u1  h1 = h1  h2 = h2
  Schools = {k1}
  Schedules = {s1}
  Sessions = {x1, x2}
  Teachers = {t1}
  Rooms = {r1, r2}
  Classes = {c1, c2}
  Slots = {slot1}
  Dates = {1, 2}
  Workers = {e1, u1, h1, h2}
  Serves <- Roles
  CreateDtos <- MCCreateDtos
  UpdateDtos <- MCUpdateDtos
  SessionDtos <- MCSessionDtos
  SessionChanges <- CancelOnly
  Jobs = {j1}
  Engines = {e1}
  Runners = {h1, h2}
  Faults = TRUE
  Unused = Unused  Gone = Gone  Keep = Keep
CHECK_DEADLOCK FALSE
INVARIANTS GenTypeOK HandlerOwnsJob CompletedIsSubmitted
PROPERTIES OptimizeMovesNothing JobsEnd
