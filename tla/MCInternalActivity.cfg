CONSTANTS
  digest = digest  wander = wander
  Activities = {digest, wander}
  Registered <- MCRegistered
  Readers = {wander}
  Wander = wander
  Work = {digest}
  Play = {wander}
  Steadfast = {}
  PriorityOf <- MCPriority
  Interval <- MCInterval
  Needs <- MCNeeds
  Resources <- MCResources
  TickLimit <- MCTickLimit
  DayLimit <- MCDayLimit
  DailyLimit <- MCDailyLimit
  Policy <- MCPolicy
  MaxPerTick = 3
  MaxFactor = 2
  MaxFailures = 2
  MaxStreak = 1
  MaxUnanswered = 1
  GroupCooldown = 2
  MessageLimit = 1
  MaxElapsed = 1
  MaxDisturb = 1
SPECIFICATION FairSpec
INVARIANTS YieldsToForeground
PROPERTIES SpeaksInTurn WorkBeforePlay PlayIsNotStarved
