SPECIFICATION Spec
CONSTANTS
  Shoots = {a, b}
  f1 = f1
  f2 = f2
  n1 = n1
  n2 = n2
  FIPs = {f1, f2, f3, f4}
  Subnets = {n1, n2}
  SubnetOf <- MCSubnetOf
  Pool = {f1, f3}
  Forwarded = {f3}
  Workers = 1
  None = None
  StatusLags = TRUE
  MaxFaults = 2
  MaxChanges = 3
SYMMETRY Symmetry
INVARIANTS
  ReportedIsAttached
PROPERTIES
  ImplementsContract
CHECK_DEADLOCK FALSE
