\* One directory, two deployments; one of: an edit, a change of the settings, a
\* failure or a command that hangs, a service that dies.
SPECIFICATION FairSpec
CONSTANTS
  dir = dir
  Dirs = {dir}
  MaxEdits = 1
  MaxDeploys = 2
  MaxFailures = 1
  MaxCrashes = 1
  MaxEvents = 1
INVARIANTS
  TypeOK
  ReadyIsUp
  StaysUp
PROPERTIES
  DeploymentEnds
CHECK_DEADLOCK FALSE
