\* A week and a day, four events.
SPECIFICATION Spec
CONSTANTS
  night = night
  weekend = weekend
  bad = bad
  DayLength = 3
  Days = 2
  FirstMinute = 3
  LastMinute = 7
  Specs = {night, weekend, bad}
  ServerSpecs = {night, weekend, bad, NoSpec}
  NoSpec = NoSpec
  Rules <- MCRules
  DefaultSpec = night
  Versions = {1, 2}
  Usage <- MCUsage
  StableThreshold = 1
  MaxLevel = 3
  Steps = 2
  FirstLevels = {2}
  NoLevel = NoLevel
  Reported <- MCReported
  Screens <- MCScreens
  Size <- MCSize
  TitleHeight <- MCTitleHeight
  Rotation = 90
  FingerGrid = 100
  Spots <- MCSpots
  NoTile = NoTile
  NoSpot = NoSpot
  MaxEvents = 4
INVARIANTS
  TargetsApart
  RefreshReaches
  MemoryFollowsNode
  LitAsPromised
  ChosenLevelStays
CHECK_DEADLOCK FALSE
