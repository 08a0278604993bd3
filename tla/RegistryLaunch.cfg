SPECIFICATION Spec
CONSTANTS
  Roots <- MCRoots
  Id <- MCId
  Personal = "personal"
  Callers <- LaunchCallers
  Op <- LaunchOp
  Registered <- LaunchRegistered
  MAX_WORKSPACES = 2
  MaxHosts = 6
  MaxRestarts = 1
INVARIANTS
  
  WaitsOnlyForRunning
PROPERTIES
  RetireInterruptsNothing
  LosesOnlyAtOverlap
