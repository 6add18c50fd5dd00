\* Three jobs of two kinds, one descriptor that the PTYs and the server share.
SPECIFICATION FairSpec
CONSTANTS
  Chatter = 1
  Offers <- MCOffers
  MaxJobs = 3
  MaxFd = 1
  History = 1
\* Jobs are bounded, and a CLI may wait for its operator.
CHECK_DEADLOCK FALSE
INVARIANTS
  TypeOK
  OneCeremony
  InputLandsHome
  NothingMislaid
PROPERTIES
  KeepsPromise
  JobsSettle
