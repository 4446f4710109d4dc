SPECIFICATION ServicesSpec
CONSTANTS
  Unused = Unused  Gone = Gone  Blank = Blank
  school1 = school1  agent1 = agent1  agent2 = agent2
  planner1 = planner1  planner2 = planner2  clerk1 = clerk1  clerk2 = clerk2
  monday = monday  tuesday = tuesday  date1 = date1  teacherDay = teacherDay
  writer1 = writer1  writer2 = writer2
  Focuses = {"subscriptions", "payments", "pricing", "resources", "calendar", "accounts", "constraints", "preferences"}
  Subs = {s1, s2}  Subscribers = {school1}  Plans = {"basic", "pro"}
  Cycles = {"MONTHLY", "YEARLY"}  Length <- MCLength  TrialDays <- MCTrialDays  Moments = 2  Starts = {}
  SubscribeDtos <- MCSubscribeDtos  SubUpdates <- MCSubUpdates  Horizon = 3
  Agents = {agent1, agent2}  Duties <- MCDuties
  Stripe = "STRIPE"  PayMob = "PAYMOB"  Gateways = {"STRIPE", "PAYMOB", "PAYTABS"}
  Registered = {"STRIPE", "PAYMOB", "PAYTABS"}  InitialRules <- MCRules  RuleEdits <- MCRuleEdits
  Contexts <- MCContexts  ApprovalLimit = 1  LogLimit = 1  Payments = {p1, p2}  MaxEdits = 1
  Orders <- MCOrders  Variations = {98, 100, 102}  Tiers <- MCTiers  Usages <- MCUsages
  Terms = {28, 30, 31}
  Rows = {"tn", "sc", "cl", "su", "ro"}  KindOf <- MCKindOf  Names = {"n"}  People = {"pp"}
  Clerks = {clerk1, clerk2}  Offices <- MCOffices
  Spans = {i1, i2}  Owners = {monday, tuesday, teacherDay}  SlotDays = {monday, tuesday}  Dates = {date1}
  SpanDtos <- MCSpanDtos  SpanUpdates <- MCSpanUpdates
  Times = {"08:00", "9:00", "10:00", "11:00", "12:00"}  Clock <- MCClock  TextOrder <- MCTextOrder
  Planners = {planner1, planner2}  Tasks <- MCTasks
  Users = {u1, u2}  Emails = {"e"}  Roles = {"TEACHER"}  Tokens = {k1, k2}  Devices = {d1, d2}
  UserDtos <- MCUserDtos  MaxChanges = 1
  Lessons <- MCLessons  SlotOf <- MCSlotOf  RoomOf <- MCRoomOf  Enrolled <- MCEnrolled
  Staff = {"t1", "t2"}  Preferences <- MCPreferences  MaxLessons = 4
  WishRows = {n1, n2, n3, n4, n5, n6, n7}  Templates = {"invoice"}
  Channels = {"email", "sms", "push", "websocket", "in_app"}  Zones = {"home", "nowhere"}
  KnownZones = {"home"}  Minutes = {420, 421, 840, 1319}
  SaveDtos <- MCSaveDtos  EditDtos <- MCEditDtos  Writers = {writer1, writer2}  Writes <- MCWrites  MaxWrites = 4
SYMMETRY Identifiers
CHECK_DEADLOCK FALSE
INVARIANTS ServicesTypeOK SelectionsCredited AttemptsTruthful QuoteHolds PricesAgree HardMeansFree RunsCounted TokensOfPassword AnswersAsWritten
PROPERTIES CanceledStays PeriodsContinue TrialKept RemovalDestroysNothing NewSpansDisjoint ScoreOfTimetable SubscriptionRegister
