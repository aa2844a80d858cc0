\* Nine components that share no state, one of which moves.
SPECIFICATION MCSpec
CONSTANTS
  r1 = r1
  r2 = r2
  r3 = r3
  ann = ann
  bob = bob
  cyd = cyd
  a1 = a1
  a2 = a2
  Overflow = Overflow
  None = None
\* RequestLifecycle
  Calls = {r1, r2, r3}
  Clients = {ann, bob}
  ClientOf <- MCClientOf
  Streaming = {r1}
  Deferrals = {"pace"}
  Modes = {"off", "fair"}
  MaxCount = 3
\* QueueWait: a native stream with one retry of its own, and two rejections to wait for
  NativeRetries = 1
  MaxRejections = 2
  ClientMaxWait = 3
  Delays = {1, 2}
\* BodyFit: bodies around both limits
  Budget = 30
  KeepTail = 2
  Envelope = 2
  Note = 3
  Cap = 18
  KeepTurns = 2
  MinBlock = 3
  Stub = 2
  Sizes = {1, 7}
  Anchors = {5}
  Spares = {0, 6}
  MaxTurns = 6
\* Watchdog: one gate or two, two status labels and that of a glide, storms of two
  Gates = {1, 2}
  Statuses = {1, 2, 3}
  Util = 3
  Floor = 1
  Start = 2
  PinDwell = 2
  Threshold = 2
  WatchWindow = 2
  WatchCooldown = 2
  MaxScrapes <- MCMaxScrapes
  MaxShrinks <- MCMaxShrinks
  MaxGap = 2
\* DrainEstimate: three calls in the slots after a shrink, four behind them
  MaxSlots = 2
  MaxHolds = 3
  MaxQueue = 4
  Typical = 2
  DrainMaxWait = 4
  RetryFloor = 1
  DrainRetryCap = 6
\* LaneFeedback: a floor of two under ceilings of one and three; two pushbacks are a storm
  AimdMin = 2
  Initial = 2
  Ceilings = {1, 3}
  LiveFloors = {3}
  DecreasePct = 70
  Backoff = 1
  Cooldown = 1
  MaxHold = 2
  RejectCap = 1
  Fresh = 0
  Slow = 2
  Fast = 1
  Storm = 2
  Claims = {"five_hour"}
  LaneRetryAfters = {0, 2}
  MaxWindows = 2
  MaxEvents = 2
\* WeeklyPacing: a week of three hours
  PaceAccounts = {a1, a2}
  Projects = {ann, bob, cyd}
  Direct = cyd
  Share <- MCShare
  Week = 3
  Full = 3
  Burst = 1
  PaceRetryCap = 2
  MaxProjects = 2
  MaxCalls = 2
  MaxHour = 3
\* LaneHealth: the first account is bound to a meter; two answers, faults or orders
  Bearers = {a1, a2}
  Bound = {a1}
  Windows = {"five_hour", "seven_day"}
  DoorReadings <- MCReadings
  DoorRetryAfters = {2}
  Pools <- MCPools
  Reserve = 1
  Streak = 2
  RecheckEvery = 1
  MaxAge = 1
  DoorEvents = 2
\* IdentityGuard: two logins, logouts or swaps
  Stores = {a1, a2}
  Emails = {ann, bob}
  MaxTasks = 2
  MaxLogins = 2
INVARIANTS BooksAreTrue CallsEndAccounted BodiesAreCutLeast AlertsAreTrue EstimatesAreKept RefusalsAreHonest
PROPERTIES DrainConverges RetryIsProven AbortEnds LanesComeBack PushbackNarrows
CHECK_DEADLOCK FALSE
