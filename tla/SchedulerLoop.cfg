\* The loop alone, one provider at a time, with crashes and failing database calls.
SPECIFICATION Spec
CONSTANTS
  p1 = p1
  p2 = p2
  loop = loop
  web = web
  Providers = {p1, p2}
  Claude = {p1}
  ReauthOnly = {p2}
  Codex = {}
  NoProvider = NoProvider
  Loop = loop
  RefreshThreads = {}
  Usage = {0, 2}
  Boxed = {2}
  Epsilon = 1
  Ladder <- MCLadder
  Cap = 2
  RateDefault = 2
  RetryAfters = {0}
  OfflineThreshold = 2
  Retention = 0
  PruneGap = 1
  MinSleep = 1
  MaxSleep = 2
  MaxExponent = 1
  StoreFaults = TRUE
  MaxTime = 3
  Horizon = 3
  MaxRequests = 0
  MaxRestarts = 1
  MaxConfigured = 1
INVARIANTS
  TypeOK
  ZeroCountServesFresh
  StoriesAgree
PROPERTIES
  NeverServeOlder
\* The scheduler stops at shutdown, and time ends at MaxTime.
CHECK_DEADLOCK FALSE
