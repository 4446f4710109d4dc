SPECIFICATION ListSpec
CONSTANTS
  k1 = k1  s1 = s1  t1 = t1  r1 = r1  r2 = r2  c1 = c1  slot1 = slot1  now = now
  later = later  m1 = m1  m2 = m2
  w1 = w1  a1 = a1  a2 = a2
  Schools = {k1}
  Schedules = {s1}
  Sessions = {x1, x2}
  Teachers = {t1}
  Rooms = {r1, r2}
  Classes = {c1}
  Slots = {slot1, now, later}
  Dates = {1, 2}
  Workers = {w1}
  Serves <- Tables
  CreateDtos <- MCCreateDtos
  UpdateDtos = {}
  SessionDtos <- MCSessionDtos
  SessionChanges <- MCSessionChanges
  Entries = {e1, e2}
  Clerks = {a1, a2}
  Handles <- Desks
  Wishes <- MCWishes
  NewStatuses = {Keep, "PENDING", "CANCELLED"}
  TimeSlots = {m1, m2}
  Occurs <- MCOccurs
  Unused = Unused  Gone = Gone  Keep = Keep  None = None
CHECK_DEADLOCK FALSE
INVARIANTS ListTypeOK GrantMatchesStatus GrantHonoursWish
PROPERTY PlacementSpec
