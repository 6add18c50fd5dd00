\* The loop and a request thread.
SPECIFICATION Spec
CONSTANTS
  p1 = p1
  p2 = p2
  loop = loop
  web = web
  Providers = {p2}
  Claude = {}
  ReauthOnly = {p2}
  Codex = {p2}
  NoProvider = NoProvider
  Loop = loop
  RefreshThreads = {web}
  Usage = {0}
  Boxed = {}
  Epsilon = 1
  Ladder <- MCSlowLadder
  Cap = 2
  RateDefault = 2
  RetryAfters = {0, 3}
  OfflineThreshold = 2
  Retention = 0
  PruneGap = 1
  MinSleep = 1
  MaxSleep = 2
  MaxExponent = 5
  StoreFaults = FALSE
  MaxTime = 3
  Horizon = 3
  MaxRequests = 1
  MaxRestarts = 0
  MaxConfigured = 1
PROPERTIES
  FloorBetweenPolls
  ServedStaysServed
\* The scheduler stops at shutdown, and time ends at MaxTime.
CHECK_DEADLOCK FALSE
