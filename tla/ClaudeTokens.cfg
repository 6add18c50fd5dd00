\* Two fetching threads, an enrolment, a reload for another provider, a restart.
SPECIFICATION Spec
CONSTANTS
  loop = loop
  web = web
  Fetchers = {loop, web}
  Enrolments = {e1}
  Reloaders = {other}
  Main = Main
  Seed = Seed
  MaxRotations = 2
  MaxRestarts = 1
  MayFail = TRUE
SYMMETRY FetchThreads
INVARIANTS
  TypeOK
  StoreIsNewest
  MemoryFollowsStore
PROPERTIES
  EnrolmentStands
\* The bounded rotations and enrolments end.
CHECK_DEADLOCK FALSE
