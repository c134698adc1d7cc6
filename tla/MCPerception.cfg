CONSTANTS
  bot = bot  owner = owner  b1 = b1  b2 = b2  o1 = o1  g1 = g1  g2 = g2
  Direct = {b1, b2, o1}
  Ambient = {g1, g2}
  Actor <- MCActor
  Owner = owner
  Bots = {bot}
  Loads <- MCLoads
  Lookback = 1
  MaxMerged = 2
  Segments = 1
  BatchMax = 2
  MaxAttempts = 2
  MaxDisturb = 1
CHECK_DEADLOCK FALSE
SPECIFICATION FairSpec
INVARIANTS AnsweredOnce BotWaitsForOwner DigestedOnce
PROPERTIES SnapshotSettles
