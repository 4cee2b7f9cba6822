SPECIFICATION HFairSpec
CONSTANTS
  LBs = {l1}
  Ports = {p443}
  bad = bad
  worker = worker
  any = any
  Strings = {bad, worker, any}
  Nets = {1, 2}
  Invalid = Invalid
  ParseCIDR <- MCParseCIDR
  WorkerCIDR = worker
  DefaultCIDR = any
  NoList = NoList
  Specs <- MCSpecs
  None = None
  MaxFaults = 1
  MaxRequests = 1
  MaxEvents = 2
  DeletesMayFail = FALSE
  LateCreates = FALSE
  Impatient = FALSE
  ShootMayFail = TRUE
PROPERTIES
  ImplementsLifecycle
  BrokenIsNoticed
  RecoveredIsNoticed
CHECK_DEADLOCK FALSE
