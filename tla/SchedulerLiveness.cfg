\* The loop alone with two providers: nobody starves.
SPECIFICATION FairSpec
CONSTANTS
  p1 = p1
  p2 = p2
  loop = loop
  web = web
  Providers = {p1, p2}
  Claude = {}
  ReauthOnly = {}
  Codex = {}
  NoProvider = NoProvider
  Loop = loop
  RefreshThreads = {}
  Usage = {0}
  Boxed = {}
  Epsilon = 1
  Ladder <- MCLadder
  Cap = 2
  RateDefault = 2
  RetryAfters = {0}
  OfflineThreshold = 2
  Retention = 0
  PruneGap = 1
  MinSleep = 1
  MaxSleep = 2
  MaxExponent = 5
  StoreFaults = FALSE
  MaxTime = 4
  Horizon = 1
  MaxRequests = 0
  MaxRestarts = 0
  MaxConfigured = 2
PROPERTIES
  DueIsPolled
\* The scheduler stops at shutdown, and time ends at MaxTime.
CHECK_DEADLOCK FALSE
