\* Four revisions, up to two faults.
SPECIFICATION FairSpec
CONSTANTS
  launcher = launcher
  guiUnit = guiUnit
  touchUnit = touchUnit
  Revs = {1, 2, 3, 4}
  Order <- MCOrder
  Units = {guiUnit, touchUnit}
  Bounces = {launcher, guiUnit}
  Serves = {touchUnit}
  Content <- MCContent
  Unverifiable <- MCUnverifiable
  Fatal <- MCFatal
  Imports = {1, 2, 3}
  Deps <- MCDeps
  Partial = Partial
  Mixture = Mixture
  NoVersion = NoVersion
  NoRev = NoRev
  MaxFaults = 2
INVARIANTS
  RollbackRestores
  EndsSound
PROPERTIES
  InfraFollows
