SPECIFICATION Spec
CONSTANTS
  Shoots = {a, b}
  f1 = f1
  f2 = f2
  n1 = n1
  n2 = n2
  FIPs = {f1, f2, f3, f4}
  Subnets = {n1, n2}
  SubnetOf <- MCSubnetOf
  Pool = {f1, f3}
  Forwarded = {f3}
  Workers = 2
  None = None
  StatusLags = FALSE
  MaxFaults = 0
  MaxChanges = 0
SYMMETRY Symmetry
INVARIANT
  ReportedIsAttached
CHECK_DEADLOCK FALSE
