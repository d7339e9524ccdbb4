\* One directory; the agents change it once, nothing fails.
SPECIFICATION FairSpec
CONSTANTS
  dir = dir
  Dirs = {dir}
  MaxEdits = 1
  MaxDeploys = 2
  MaxFailures = 0
  MaxCrashes = 0
  MaxEvents = 1
PROPERTIES
  PromotedIsServed
CHECK_DEADLOCK FALSE
