\* Two enrolments that may overlap, and two fetching threads.
SPECIFICATION FairSpec
CONSTANTS
  j1 = j1
  j2 = j2
  loop = loop
  web = web
  Jobs = {j1, j2}
  Fetchers = {loop, web}
  Main = Main
  First = First
  Nobody = Nobody
INVARIANTS
  TypeOK
  BracketExcludes
  NoOrphan
PROPERTIES
  ClosedStaysDown
  TileReturns
\* Everything may end: the jobs are done and the server is stopped.
CHECK_DEADLOCK FALSE
