\* Two ceremonies that may overlap, two fetching threads, two deaths.
SPECIFICATION FairSpec
CONSTANTS
  j1 = j1
  j2 = j2
  loop = loop
  web = web
  Jobs = {j1, j2}
  Fetchers = {loop, web}
  Old = Old
  Blank = Blank
  Absent = Absent
  Nobody = Nobody
  MaxDeaths = 2
INVARIANTS
  TypeOK
  LoginKept
  FetchSeesLogin
PROPERTIES
  FailedOrMarked
  SwapSettles
