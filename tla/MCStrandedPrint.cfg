SPECIFICATION FrontSpec
CONSTANTS
  Rates = {0, 500, 1000, 1250}
  Below = 40
  MaxAmount = 320
  Denominators = {1, 2, 3, 4, 7, 10}
  b1 = b1
  b2 = b2
  Shifts <- TwoShifts
  Sales = {b1, b2}
  CashPaid <- TwoBills
  Notes <- ThreeNotes
  NoteBill <- NoteBills
  NoteTotal <- NoteTotals
  Legacy <- OldNotes
  Movements = {v1}
  Float = 5
  Amount = 1
  Tills = {k1, k2}
  MaxStamp = 5
  dev = dev
  ip = ip
  shared = shared
  pos1 = pos1
  guest = guest
  Clients = {pos1, guest}
  Rules <- TheRules
  MaxAttempts <- TheMax
  WindowTime = 2
  PurgeTime = 2
  Requests = {q1, q2}
  MaxClock = 3
  MaxSignIns = 3
  o1 = o1
  o2 = o2
  TillOutlet <- TheTills
  Outlets = {o1, o2}
  Roles = {waiter, cashier}
  TokenIds = {1, 2}
  LegacyTokens = {1}
  Hands = {h1, h2}
  NoDevice = none
  MaxVersion = 1
  c1 = c1
  op1 = op1
  op2 = op2
  CodeType <- TheCodes
  DeviceIds <- FiveIds
  Enrolled <- TheEnrolled
  Letters <- TheLetters
  Jobs = {j1}
  Desks = {k1, k2}
  MaxRequests = 3
  Ids = {1, 2, 3}
  SortKeys = {1, 2}
  Limit = 1
  MaxMoves = 1
  Branches = {o1, o2}
  Offset <- TheOffsets
  DayLength = 2
  Lookback = 4
  MaxHour = 3
  MaxCredits = 2
  Bills = {1, 2}
  Orders <- OneOrder
  Inclusive = FALSE
  Methods = {cash, card}
  Planners = {k1, k2}
  FloorIds = {f0, f1}
  TableIds = {1, 2, 3}
  Spots <- TheSpots
  StarterFloor = f0
  StarterTables = {1}
  Columns = 4
  Size = 2
  Gap = 1
  MaxPlacings = 2
  People = {p1}
  Sites = {o1, o2}
  Ahead <- TheOffsets
  HoursADay = 2
  LookbackHours = 4
  Clockings = {k1, k2}
  MaxTime = 6
  MaxEvents = 3
CHECK_DEADLOCK FALSE
INVARIANT RemovalStrandsNothing
