SPECIFICATION Spec
CONSTANTS
  LBs = {l1, l2}
  Ports = {p443, p8132}
  c1 = c1
  c2 = c2
  bad = bad
  worker = worker
  any = any
  Strings = {c1, c2, bad, worker, any}
  Nets = {1, 2, 3}
  Invalid = Invalid
  ParseCIDR <- MCParseCIDR
  WorkerCIDR = worker
  DefaultCIDR = any
  NoList = NoList
  Specs <- MCSpecs
  None = None
  MaxFaults = 1
  MaxRequests = 2
  DeletesMayFail = FALSE
  LateCreates = FALSE
  Impatient = FALSE
  ShootMayFail = FALSE
SYMMETRY Symmetry
INVARIANT
  GoneBeforeRelease
CHECK_DEADLOCK FALSE
