\* One pane over a service that keeps one ended job.
SPECIFICATION FairSpec
CONSTANTS
  MaxJobs = 3
  History = 1
  MaxPolls = 2
  Losses = 1
CHECK_DEADLOCK FALSE
PROPERTIES
  PaneCatchesUp
