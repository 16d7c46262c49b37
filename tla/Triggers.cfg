SPECIFICATION Spec
CONSTANTS
  d1 = d1
  d2 = d2
  Cron = Cron
  NoRule = NoRule
  Deliveries = {d1, d2}
  Secrets = {"github"}
  Integrated <- MCIntegrated
  Events <- MCEvents
  Scheduled <- MCScheduled
  All = "all"
  Accepted <- MCAccepted
  EventType <- MCEventType
  Passes <- MCPasses
  Key <- MCKey
  NoKey = ""
  Settings <- MCSettings
  InitialRules <- MCInitialRules
  DefaultWindow = 2
  MaxRules = 2
  MaxSurprises = 1
  MaxTime = 2
SYMMETRY MCSymmetry
INVARIANTS TypeOK DuplicatesOverlap FiresOncePerPoint ForecastHolds
CHECK_DEADLOCK FALSE
