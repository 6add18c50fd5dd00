\* Two threads of the server and the CLI on one file.
SPECIFICATION Spec
CONSTANTS
  server = server
  cli = cli
  loop = loop
  web = web
  enrol = enrol
  pair = pair
  client = client
  old = old
  new = new
  Keys = {pair, client}
  Values = {old, new}
  Absent = Absent
  Corrupt = Corrupt
  Changes <- MCChanges
  Processes = {server, cli}
  Threads = {loop, web, enrol}
  ProcessOf <- MCProcessOf
  Nobody = Nobody
  MaxCrashes = 1
SYMMETRY ServerThreads
INVARIANTS
  TypeOK
  SavedStays
PROPERTIES
  FailsClosed
  IsAtomic
