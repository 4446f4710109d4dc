SPECIFICATION Spec
CONSTANTS
  k1 = k1  k2 = k2  s1 = s1  s2 = s2  x1 = x1  x2 = x2
  t1 = t1  t2 = t2  t3 = t3  r1 = r1  r2 = r2  r3 = r3
  c1 = c1  c2 = c2  c3 = c3  slot1 = slot1
  w1 = w1  w2 = w2
  Schools = {k1}
  Schedules = {s1, s2}
  Sessions = {}
  Teachers = {t1, t2, t3}
  Rooms = {r1, r2, r3}
  Classes = {c1, c2, c3}
  Slots = {slot1}
  Dates = {1, 2, 3}
  Workers = {w1}
  Serves <- OneLane
  CreateDtos <- MCTerms
  UpdateDtos <- MCUpdateDtos
  SessionDtos = {}
  SessionChanges = {}
  Unused = Unused  Gone = Gone  Keep = Keep

CHECK_DEADLOCK FALSE
PROPERTY ActivationReplacesPeriod
