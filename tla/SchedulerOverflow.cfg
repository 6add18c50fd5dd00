\* A provider that fails once more than float(2 ** e) allows.
SPECIFICATION Spec
CONSTANTS
  p1 = p1
  p2 = p2
  loop = loop
  web = web
  Providers = {p1}
  Claude = {}
  ReauthOnly = {}
  Codex = {}
  NoProvider = NoProvider
  Loop = loop
  RefreshThreads = {}
  Usage = {0}
  Boxed = {}
  Epsilon = 1
  Ladder <- MCLadder
  Cap = 2
  RateDefault = 2
  RetryAfters = {0}
  OfflineThreshold = 2
  Retention = 0
  PruneGap = 1
  MinSleep = 1
  MaxSleep = 2
  MaxExponent = 1
  StoreFaults = FALSE
  MaxTime = 3
  Horizon = 3
  MaxRequests = 0
  MaxRestarts = 0
  MaxConfigured = 1
INVARIANTS
  LoopSurvives
\* The scheduler stops at shutdown, and time ends at MaxTime.
CHECK_DEADLOCK FALSE
